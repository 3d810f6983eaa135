--------------------------- MODULE AccountsProofs ---------------------------
(***************************************************************************)
(* Tokens that a password change has revoked stay refused, the cache of    *)
(* users agrees with their rows, and nothing dangles: for any number of    *)
(* users, addresses, requests and hours, as long as requests follow one    *)
(* another (plain in Accounts).  Whatever overlaps, the tables keep their  *)
(* shape.                                                                  *)
(*                                                                         *)
(* Between the deletion of a row and the rest of it the cache still knows  *)
(* the user: known users are those with a row and the one being deleted.   *)
(* Tables and caches are parameters here, so that a lemma can speak of     *)
(* them before and after a step.                                           *)
(***************************************************************************)
EXTENDS Accounts, NaturalsInduction, WellFoundedInduction, TLAPS

-----------------------------------------------------------------------------
(* The shape of the state.                                                 *)

(* Users as the program holds them at hour h: one with an id has a name    *)
(* and an address; nobody's password is changed in the future.             *)
Person(h) == {u \in User : (u.id # 0 => u.name \in Names /\ u.email \in Addresses) /\ u.from <= h}

Keys == Names \X Addresses
OwnerTable == [Items -> 0..MaxId \cup {Nil}]
FindOpers == {"comment", "vote", "register", "sso", "social", "merge"}

(* What a request has when it comes to a statement.                        *)
Stage(r) ==
    /\ r.pc = "idle" => r = Idle
    /\ r.pc = "findCreate" => r.name \in Names /\ r.email \in Addresses /\ r.op \in FindOpers
    /\ r.pc = "create" =>
         /\ r.op \in {"add", "gitea"}
         /\ r.user.name \in Names /\ r.user.email \in Addresses
    /\ r.pc = "save" => r.op \in {"comment", "register", "merge", "update", "profile"}
    /\ r.pc = "insert" => r.op \in {"comment", "vote", "social", "gitea"}
    /\ r.pc = "token" => r.op \in {"register", "sso", "social", "gitea", "merge"}
    /\ r.pc \in {"lock", "list"} => r.name \in Names
    /\ r.pc \in {"lock", "list", "move"} => r.op = "merge"
    /\ r.pc \in {"delRow", "delRest"} => r.op \in {"delete", "merge"}
    /\ r.op \in {"social", "gitea"} => r.item \in Identities
    /\ r.op \notin {"merge", "delete"} => r.others = {}
    /\ (r.pc = "insert" /\ r.op # "vote") => r.user.id # 0
    /\ r.pc \in {"save", "token", "lock", "list", "move"} => r.user.id # 0
    /\ (r.pc \in {"delRow", "delRest"} /\ r.op = "merge") => r.user.id # 0

WorkOK(h, r) == r \in Work /\ r.user \in Person(h) /\ r.others \subseteq Person(h) /\ Stage(r)

(* The table of users, and the caches; without a cache nothing is kept.    *)
UsersOK(h, us) ==
    /\ us \in [Ids -> Person(h)]
    /\ \A i \in Ids : us[i] = Zero \/ us[i].id = i
IdsOK(c, h, f) ==
    /\ f \in [Ids -> Person(h) \cup {Nil}]
    /\ \A i \in Ids : f[i] = Nil \/ f[i].id \in {0, i}
    /\ c.cached \/ \A i \in Ids : f[i] = Nil
KeysOK(c, h, g) ==
    /\ g \in [Keys -> Person(h) \cup {Nil}]
    /\ c.cached \/ \A k \in Keys : g[k] = Nil
MailsOK(c, m) ==
    /\ m \in [Addresses -> (SUBSET Ids) \cup {Nil}]
    /\ c.cached \/ \A e \in Addresses : m[e] = Nil

Shape ==
    /\ conf \in [auth : BOOLEAN, cached : BOOLEAN] /\ hour \in 1..MaxHour
    /\ UsersOK(hour, users) /\ nextId \in 1..(MaxId + 1) /\ owner \in OwnerTable
    /\ IdsOK(conf, hour, byId) /\ KeysOK(conf, hour, byKey) /\ MailsOK(conf, byEmail)
    /\ tokens \subseteq Ids \X (1..MaxHour)
    /\ mutex \in [0..MaxId -> Requests \cup {Nil}]
    /\ work \in [Requests -> Work] /\ \A w \in Requests : WorkOK(hour, work[w])
    /\ ops \in 0..MaxOps /\ expired \in 0..MaxExpiries
    /\ changed \in [Ids -> 0..hour] /\ plain \in BOOLEAN /\ mixed \in BOOLEAN

-----------------------------------------------------------------------------
(* Requests that follow one another.                                       *)

RowsOf(us) == {us[i] : i \in {j \in Ids : us[j].id # 0}}
KeyOf(u) == <<u.name, u.email>>

(* What the cache may hold of an id, a name and address, an address, when  *)
(* the table is us and the users in K are known.                           *)
OfId(us, K, i, u) ==
    \/ u = Nil
    \/ u = Zero /\ us[i] = Zero
    \/ u \in K /\ u.id = i
OfKey(us, K, k, u) ==
    \/ u = Nil
    \/ u = Zero /\ \A v \in RowsOf(us) : KeyOf(v) # k
    \/ u \in K /\ KeyOf(u) = k
OfMail(K, e, s) == s = Nil \/ \A i \in s : \E u \in K : u.id = i /\ u.email = e

IdsFresh(us, K, f) == \A i \in Ids : OfId(us, K, i, f[i])
KeysFresh(us, K, g) == \A k \in Keys : OfKey(us, K, k, g[k])
MailsFresh(K, m) == \A e \in Addresses : OfMail(K, e, m[e])

(* No user's row is older than the last change of the password; comments   *)
(* and identities have an owner; ids are given out in order.               *)
Recent(K, ch) == \A u \in K : u.from >= ch[u.id]
Attached(K, ow) ==
    \A x \in Comments \cup Identities : ow[x] # Nil => \E u \in K : u.id = ow[x]
Unused(us, n) == \A i \in Ids : i >= n => us[i] = Zero

(* The copies of users that request r works with.                          *)
Exists(us, u) == \E v \in RowsOf(us) : v.id = u.id
SaveOK(us, ch, g, m, r) ==
    /\ Exists(us, r.user) /\ r.user.from >= ch[r.user.id]
    /\ \A v \in RowsOf(us) : v.id = r.user.id =>
         /\ r.op \in {"comment", "register", "merge"} => KeyOf(r.user) = KeyOf(v)
         /\ r.op = "update" => g[KeyOf(v)] = Nil /\ m[v.email] = Nil
    /\ \A o \in r.others : o.id # r.user.id
Copies(us, ch, g, m, r) ==
    /\ r.pc \in {"findCreate", "save", "move", "delRow"} => r.others \subseteq RowsOf(us)
    /\ r.pc = "save" => SaveOK(us, ch, g, m, r)
    /\ (r.pc = "insert" /\ r.op # "vote") \/ r.pc = "move" => Exists(us, r.user)
    /\ r.pc = "delRest" =>
         /\ First(r.others) \in r.others /\ First(r.others).id # 0
         /\ r.others \ {First(r.others)} \subseteq RowsOf(us)

(* The user whose row request r has deleted, and nothing else yet.         *)
LostOf(r) == IF r.pc = "delRest" THEN {First(r.others)} ELSE {}
Known(us, wk) == RowsOf(us) \cup UNION {LostOf(wk[w]) : w \in Requests}

(* At most one request is under way.                                       *)
Serial(wk) == \A v, w \in Requests : v # w => wk[v] = Idle \/ wk[w] = Idle

Ordered(us, K, f, g, m, ch, ow, n) ==
    /\ IdsFresh(us, K, f) /\ KeysFresh(us, K, g) /\ MailsFresh(K, m)
    /\ Recent(K, ch) /\ Attached(K, ow) /\ Unused(us, n)

InOrder ==
    plain =>
        /\ Serial(work)
        /\ Ordered(users, Known(users, work), byId, byKey, byEmail, changed, owner, nextId)
        /\ \A w \in Requests : Copies(users, changed, byKey, byEmail, work[w])

AccountsInv == Shape /\ InOrder

-----------------------------------------------------------------------------
(* Records and functions.                                                  *)

(* The bounds, and what the tables may hold.                               *)
LEMMA Bounds ==
    /\ MaxId \in Nat /\ MaxHour \in Nat \ {0} /\ MaxOps \in Nat /\ MaxExpiries \in Nat
    /\ Nil \notin 0..MaxId /\ (Comments \cup Identities) \cap Ballots = {}
BY AccountAssumption DEF AccountAssumption

(* The fields of a user.                                                   *)
LEMMA UserIs ==
    ASSUME NEW u \in User
    PROVE  /\ u.id \in 0..MaxId /\ u.id \in Nat /\ u.from \in 0..MaxHour /\ u.from \in Nat
           /\ u.admin \in BOOLEAN
           /\ u.id # 0 => u.id \in Ids
<1>1. u.id \in 0..MaxId /\ u.from \in 0..MaxHour /\ u.admin \in BOOLEAN
    BY DEF User
<1> QED BY <1>1, Bounds DEF Ids

(* The fields of a user that may be held at hour h.                        *)
LEMMA PersonIs ==
    ASSUME NEW h, NEW u \in Person(h)
    PROVE  /\ u \in User /\ u.id \in 0..MaxId /\ u.id \in Nat
           /\ u.from \in 0..MaxHour /\ u.from \in Nat /\ u.from <= h /\ u.admin \in BOOLEAN
           /\ u.id # 0 => u.id \in Ids /\ u.name \in Names /\ u.email \in Addresses
<1>1. u \in User /\ u.from <= h /\ (u.id # 0 => u.name \in Names /\ u.email \in Addresses)
    BY DEF Person
<1> QED BY <1>1, UserIs

(* Nobody is a user that may be held at any hour.                          *)
LEMMA ZeroPerson ==
    ASSUME NEW h \in Nat
    PROVE  Zero \in Person(h) /\ Zero.id = 0 /\ Zero.from = 0 /\ Zero \in User
<1>1. Zero \in User
    BY Bounds DEF Zero, User
<1>2. Zero.id = 0 /\ Zero.from = 0
    BY DEF Zero
<1>3. Zero.from <= h
    BY <1>2
<1> QED BY <1>1, <1>2, <1>3 DEF Person

(* What may be held stays so.                                              *)
LEMMA PersonGrows ==
    ASSUME NEW h \in Nat, NEW k \in Nat, h <= k
    PROVE  Person(h) \subseteq Person(k)
<1> SUFFICES ASSUME NEW u \in Person(h) PROVE u \in Person(k)
    OBVIOUS
<1>1. u.from \in Nat /\ u.from <= h
    BY PersonIs
<1>2. u.from <= k
    BY <1>1
<1> QED BY <1>2 DEF Person

(* An idle request.                                                        *)
LEMMA IdleIs ==
    /\ Idle \in Work /\ Idle.pc = "idle" /\ Idle.op = "" /\ Idle.user = Zero /\ Idle.name = ""
    /\ Idle.email = "" /\ Idle.others = {} /\ Idle.by = 0 /\ Idle.done = 0 /\ Idle.item = Nil
<1>1. Zero \in User
    BY Bounds DEF Zero, User
<1>2. NoOwner \in [Items -> 0..MaxId \cup {Nil}]
    BY DEF NoOwner
<1> QED BY <1>1, <1>2, Bounds DEF Idle, Work, Pcs, Opers

(* A request that has not begun is as it should be.                        *)
LEMMA IdleOK ==
    ASSUME NEW h \in Nat
    PROVE  WorkOK(h, Idle)
BY IdleIs, ZeroPerson DEF WorkOK, Stage

(* A request that has come with a name and an address, or with a user.     *)
LEMMA EnterIs ==
    ASSUME NEW pc \in Pcs, NEW op \in Opers, NEW n \in Names, NEW e \in Addresses, NEW r,
           r = Enter(pc, op, n, e)
    PROVE  /\ r \in Work /\ r.pc = pc /\ r.op = op /\ r.name = n /\ r.email = e
           /\ r.user = Zero /\ r.others = {} /\ r.by = 0 /\ r.done = 0 /\ r.item = Nil
BY IdleIs DEF Enter, Work

(* A request that has come with a user.                                    *)
LEMMA HoldingIs ==
    ASSUME NEW pc \in Pcs, NEW op \in Opers, NEW u \in User
    PROVE  /\ Holding(pc, op, u) \in Work /\ Holding(pc, op, u).pc = pc
           /\ Holding(pc, op, u).op = op /\ Holding(pc, op, u).user = u
           /\ Holding(pc, op, u).others = {}
BY IdleIs DEF Holding, Work

(* The user with the least id of some users.                               *)
LEMMA LeastFound ==
    ASSUME NEW I, I \subseteq Nat, I # {}
    PROVE  \E x \in I : \A y \in I : x <= y
<1> DEFINE less == {ss \in Nat \X Nat : ss[1] < ss[2]}
<1>1. \A x, y \in Nat : <<x, y>> \in less <=> x < y
    OBVIOUS
<1>2. IsWellFoundedOn(less, Nat)
    BY NatLessThanWellFounded DEF OpToRel
<1> HIDE DEF less
<1>3. PICK x \in I : \A y \in I : <<y, x>> \notin less
    BY <1>2, WFMin
<1>4. \A y \in I : x <= y
    <2> SUFFICES ASSUME NEW y \in I PROVE x <= y
        OBVIOUS
    <2>1. x \in Nat /\ y \in Nat
        OBVIOUS
    <2>2. ~ (y < x)
        BY <1>1, <1>3, <2>1
    <2> QED BY <2>1, <2>2
<1> QED BY <1>4

(* The least of some ids is one of them.                                   *)
LEMMA MinIn ==
    ASSUME NEW I, I \subseteq Nat, I # {}
    PROVE  Min(I) \in I
<1>1. PICK x \in I : \A y \in I : x <= y
    BY LeastFound
<1> QED BY <1>1 DEF Min

(* The first of some users is one of them.                                 *)
LEMMA FirstIn ==
    ASSUME NEW us, us \subseteq User, us # {}
    PROVE  First(us) \in us
<1> DEFINE I == {u.id : u \in us}
<1>1. I \subseteq Nat /\ I # {}
    BY UserIs
<1>2. PICK x \in I : \A y \in I : x <= y
    BY <1>1, LeastFound
<1>3. \E u \in us : \A v \in us : u.id <= v.id
    BY <1>2
<1> QED BY <1>3 DEF First

(* The greater of two numbers.                                             *)
LEMMA MaxOfTwo ==
    ASSUME NEW a \in Nat, NEW b \in Nat
    PROVE  Max({a, b}) = IF a >= b THEN a ELSE b
<1>1. CASE a >= b
    <2>1. \A x \in {a, b} : (\A y \in {a, b} : x >= y) => x = a
        BY <1>1
    <2> QED BY <1>1, <2>1 DEF Max
<1>2. CASE ~ (a >= b)
    <2>1. \A x \in {a, b} : (\A y \in {a, b} : x >= y) => x = b
        BY <1>2
    <2> QED BY <1>2, <2>1 DEF Max
<1> QED BY <1>1, <1>2

-----------------------------------------------------------------------------
(* Lookups                                                                 *)

(* The hour is a number, and so are the hours up to it.                    *)
LEMMA HourIs ==
    ASSUME Shape
    PROVE  hour \in Nat /\ hour \in 1..MaxHour /\ hour \in 0..MaxHour
BY Bounds DEF Shape

(* The tables and caches.                                                  *)
LEMMA TablesAre ==
    ASSUME Shape
    PROVE  UsersOK(hour, users) /\ IdsOK(conf, hour, byId) /\ KeysOK(conf, hour, byKey)
           /\ MailsOK(conf, byEmail)
BY DEF Shape

(* A row is a user at its id.                                              *)
LEMMA RowIs ==
    ASSUME NEW h \in Nat, NEW us, UsersOK(h, us), NEW u \in RowsOf(us)
    PROVE  u \in Person(h) /\ u.id \in Ids /\ u = us[u.id] /\ u # Zero
<1>1. PICK i \in Ids : us[i].id # 0 /\ u = us[i]
    BY DEF RowsOf
<1>2. us[i] # Zero
    BY <1>1, ZeroPerson
<1>3. us[i].id = i /\ us[i] \in Person(h)
    BY <1>2 DEF UsersOK
<1> QED BY <1>1, <1>2, <1>3

(* And a user at its id is a row.                                          *)
LEMMA RowAtId ==
    ASSUME NEW h \in Nat, NEW us, UsersOK(h, us), NEW i \in Ids
    PROVE  /\ us[i] \in Person(h)
           /\ us[i].id # 0 => us[i] \in RowsOf(us) /\ us[i].id = i
           /\ us[i].id = 0 => us[i] = Zero
           /\ us[i] # Zero => us[i].id = i /\ us[i].id # 0
<1>1. us[i] \in Person(h) /\ (us[i] = Zero \/ us[i].id = i)
    BY DEF UsersOK
<1>2. i # 0
    BY Bounds DEF Ids
<1> QED BY <1>1, <1>2, ZeroPerson DEF RowsOf

(* FindUserByID finds what the cache holds, or the row.                    *)
LEMMA ById ==
    ASSUME Shape, NEW i \in Ids, NEW u, u = FindUserByID(i)
    PROVE  u \in Person(hour) /\ u.id \in {0, i}
<1>1. byId[i] = Nil \/ (byId[i] \in Person(hour) /\ byId[i].id \in {0, i})
    BY TablesAre DEF IdsOK
<1>2. users[i] \in Person(hour) /\ users[i].id \in {0, i}
    BY RowAtId, HourIs, TablesAre
<1> QED BY <1>1, <1>2 DEF FindUserByID

(* With a cache that is fresh, what FindUserByID finds agrees with the     *)
(* table.                                                                  *)
LEMMA ByIdFresh ==
    ASSUME Shape, NEW K, RowsOf(users) \subseteq K, IdsFresh(users, K, byId),
           NEW i \in Ids, NEW u, u = FindUserByID(i)
    PROVE  OfId(users, K, i, u)
<1>1. OfId(users, K, i, byId[i])
    BY DEF IdsFresh
<1>2. users[i] = Zero \/ (users[i] \in K /\ users[i].id = i)
    BY RowAtId, HourIs, TablesAre
<1> QED BY <1>1, <1>2 DEF FindUserByID, OfId

(* A user found with an id is known.                                       *)
LEMMA ByIdKnown ==
    ASSUME Shape, NEW K, RowsOf(users) \subseteq K, IdsFresh(users, K, byId),
           NEW i \in Ids, FindUserByID(i).id # 0
    PROVE  FindUserByID(i) \in K /\ FindUserByID(i).id = i
<1> PICK u : u = FindUserByID(i)
    OBVIOUS
<1>1. OfId(users, K, i, u)
    BY ByIdFresh
<1>2. u # Zero /\ u.id = i
    BY ById, ZeroPerson, HourIs
<1>3. CASE u = Nil
    <2>1. byId[i] = Nil => u = users[i]
        BY DEF FindUserByID
    <2>2. byId[i] # Nil => u = byId[i]
        BY DEF FindUserByID
    <2>3. u = users[i]
        BY <1>3, <2>1, <2>2
    <2> QED BY <2>3, <1>2, RowAtId, HourIs, TablesAre
<1>4. CASE u # Nil
    BY <1>1, <1>2, <1>4 DEF OfId
<1> QED BY <1>3, <1>4

(* FindUser finds what the cache holds, or the first row.                  *)
LEMMA ByKey ==
    ASSUME Shape, NEW n \in Names, NEW e \in Addresses, NEW u, u = FindUser(n, e)
    PROVE  /\ u \in Person(hour)
           /\ \/ u = byKey[<<n, e>>] /\ u # Nil
              \/ u = Zero /\ \A v \in RowsOf(users) : KeyOf(v) # <<n, e>>
              \/ u \in RowsOf(users) /\ KeyOf(u) = <<n, e>>
<1> DEFINE found == {v \in RowsOf(users) : v.name = n /\ v.email = e}
<1>1. <<n, e>> \in Keys
    BY DEF Keys
<1>2. byKey[<<n, e>>] = Nil \/ byKey[<<n, e>>] \in Person(hour)
    BY <1>1, TablesAre DEF KeysOK
<1>3. u = IF byKey[<<n, e>>] # Nil THEN byKey[<<n, e>>] ELSE First(found)
    BY DEF FindUser, Rows, RowsOf
<1>4. found \subseteq Person(hour) /\ found \subseteq User
    BY RowIs, HourIs, PersonIs DEF Shape
<1>5. First({}) = Zero
    BY DEF First
<1>6. CASE found = {}
    BY <1>2, <1>3, <1>5, <1>6, ZeroPerson, HourIs DEF KeyOf
<1>7. CASE found # {}
    <2>1. First(found) \in found
        BY <1>4, <1>7, FirstIn
    <2> QED BY <2>1, <1>2, <1>3, <1>4 DEF KeyOf
<1> QED BY <1>6, <1>7

(* With a cache that is fresh, what FindUser finds agrees with the table.  *)
LEMMA ByKeyFresh ==
    ASSUME Shape, NEW K, RowsOf(users) \subseteq K, KeysFresh(users, K, byKey),
           NEW n \in Names, NEW e \in Addresses, NEW u, u = FindUser(n, e)
    PROVE  /\ OfKey(users, K, <<n, e>>, u)
           /\ u.id = 0 => u = Zero \/ u \in K
<1>1. <<n, e>> \in Keys
    BY DEF Keys
<1>2. OfKey(users, K, <<n, e>>, byKey[<<n, e>>])
    BY <1>1 DEF KeysFresh
<1> QED BY <1>2, ByKey DEF OfKey

(* The ids of the users of an address.                                     *)
LEMMA IdsByMail ==
    ASSUME Shape, NEW e \in Addresses, NEW s, s = FindUserIdsByEmail(e)
    PROVE  /\ s \in SUBSET Ids
           /\ \/ s = byEmail[e] /\ s # Nil
              \/ s = {u.id : u \in {v \in RowsOf(users) : v.email = e}}
<1>1. byEmail[e] = Nil \/ byEmail[e] \in SUBSET Ids
    BY TablesAre DEF MailsOK
<1>2. s = IF byEmail[e] # Nil THEN byEmail[e]
          ELSE {u.id : u \in {v \in RowsOf(users) : v.email = e}}
    BY DEF FindUserIdsByEmail, Rows, RowsOf
<1>3. \A v \in RowsOf(users) : v.id \in Ids
    BY RowIs, HourIs, TablesAre
<1> QED BY <1>1, <1>2, <1>3

(* With a cache that is fresh, the ids of an address are ids of its        *)
(* users.                                                                  *)
LEMMA IdsByMailFresh ==
    ASSUME Shape, NEW K, RowsOf(users) \subseteq K, MailsFresh(K, byEmail),
           NEW e \in Addresses, NEW s, s = FindUserIdsByEmail(e)
    PROVE  \A i \in s : \E u \in K : u.id = i /\ u.email = e
<1>1. OfMail(K, e, byEmail[e])
    BY DEF MailsFresh
<1> QED BY <1>1, IdsByMail DEF OfMail

(* The first user of an address.                                           *)
LEMMA FirstByMail ==
    ASSUME Shape, NEW e \in Addresses, NEW u, u = FirstByEmail(e)
    PROVE  u \in Person(hour)
<1> PICK s : s = FindUserIdsByEmail(e)
    OBVIOUS
<1>1. s \subseteq Ids
    BY IdsByMail
<1>2. s # {} => Min(s) \in Ids
    BY <1>1, MinIn, Bounds DEF Ids
<1>3. s # {} => FindUserByID(Min(s)) \in Person(hour)
    BY <1>2, ById
<1> QED BY <1>3, ZeroPerson, HourIs DEF FirstByEmail

(* The token of a user that is found names a user.                         *)
LEMMA GoodTokens ==
    ASSUME Shape, NEW u \in Person(hour), NEW t,
           t = IF u.id = 0 THEN tokens ELSE tokens \cup {<<u.id, hour>>}
    PROVE  t \subseteq Ids \X (1..MaxHour)
BY PersonIs, HourIs DEF Shape

-----------------------------------------------------------------------------
(* Fills of the cache                                                      *)

IdCacheOK(f) ==
    IdsOK(conf, hour, f) /\ (plain => IdsFresh(users, Known(users, work), f))
KeyCacheOK(g) ==
    KeysOK(conf, hour, g) /\ (plain => KeysFresh(users, Known(users, work), g))
MailCacheOK(m) ==
    MailsOK(conf, m) /\ (plain => MailsFresh(Known(users, work), m))

(* The invariant says that all three caches are in order.                  *)
LEMMA CachesNow ==
    ASSUME AccountsInv
    PROVE  IdCacheOK(byId) /\ KeyCacheOK(byKey) /\ MailCacheOK(byEmail)
BY TablesAre DEF AccountsInv, InOrder, Ordered, IdCacheOK, KeyCacheOK, MailCacheOK

(* One more entry.                                                         *)
LEMMA IdsPut ==
    ASSUME NEW h, NEW f, IdsOK(conf, h, f), NEW i, NEW u \in Person(h) \cup {Nil},
           u = Nil \/ u.id \in {0, i}, NEW g, g = Put(f, i, u)
    PROVE  /\ IdsOK(conf, h, g)
           /\ \A j \in Ids : g[j] = IF conf.cached /\ j = i THEN u ELSE f[j]
<1>1. f \in [Ids -> Person(h) \cup {Nil}]
    BY DEF IdsOK
<1>2. /\ g \in [Ids -> Person(h) \cup {Nil}]
      /\ \A j \in Ids : g[j] = IF conf.cached /\ j = i THEN u ELSE f[j]
    BY <1>1 DEF Put
<1>3. \A j \in Ids : g[j] = Nil \/ g[j].id \in {0, j}
    BY <1>2 DEF IdsOK
<1>4. conf.cached \/ \A j \in Ids : g[j] = Nil
    BY <1>2 DEF IdsOK
<1> QED BY <1>2, <1>3, <1>4 DEF IdsOK

(* One more entry by name and address.                                     *)
LEMMA KeysPut ==
    ASSUME NEW h, NEW f, KeysOK(conf, h, f), NEW k, NEW u \in Person(h) \cup {Nil},
           NEW g, g = Put(f, k, u)
    PROVE  /\ KeysOK(conf, h, g)
           /\ \A j \in Keys : g[j] = IF conf.cached /\ j = k THEN u ELSE f[j]
<1>1. f \in [Keys -> Person(h) \cup {Nil}]
    BY DEF KeysOK
<1>2. /\ g \in [Keys -> Person(h) \cup {Nil}]
      /\ \A j \in Keys : g[j] = IF conf.cached /\ j = k THEN u ELSE f[j]
    BY <1>1 DEF Put
<1>3. conf.cached \/ \A j \in Keys : g[j] = Nil
    BY <1>2 DEF KeysOK
<1> QED BY <1>2, <1>3 DEF KeysOK

(* One more list of ids.                                                   *)
LEMMA MailsPut ==
    ASSUME NEW f, MailsOK(conf, f), NEW e, NEW s \in (SUBSET Ids) \cup {Nil},
           NEW g, g = Put(f, e, s)
    PROVE  /\ MailsOK(conf, g)
           /\ \A j \in Addresses : g[j] = IF conf.cached /\ j = e THEN s ELSE f[j]
<1>1. f \in [Addresses -> (SUBSET Ids) \cup {Nil}]
    BY DEF MailsOK
<1>2. /\ g \in [Addresses -> (SUBSET Ids) \cup {Nil}]
      /\ \A j \in Addresses : g[j] = IF conf.cached /\ j = e THEN s ELSE f[j]
    BY <1>1 DEF Put
<1>3. conf.cached \/ \A j \in Addresses : g[j] = Nil
    BY <1>2 DEF MailsOK
<1> QED BY <1>2, <1>3 DEF MailsOK

(* Users with a row are known.                                             *)
LEMMA RowsKnown == RowsOf(users) \subseteq Known(users, work)
BY DEF Known

(* The user of an id is looked up.                                         *)
LEMMA SeenId ==
    ASSUME AccountsInv, NEW f, IdCacheOK(f), NEW i \in Ids, NEW g,
           g = Put(f, i, FindUserByID(i))
    PROVE  IdCacheOK(g)
<1> PICK u : u = FindUserByID(i)
    OBVIOUS
<1>1. Shape /\ IdCacheOK(byId)
    BY CachesNow DEF AccountsInv
<1>2. u \in Person(hour) /\ u.id \in {0, i}
    BY <1>1, ById
<1>3. IdsOK(conf, hour, f)
    BY DEF IdCacheOK
<1>4. /\ IdsOK(conf, hour, g)
      /\ \A j \in Ids : g[j] = IF conf.cached /\ j = i THEN u ELSE f[j]
    BY <1>2, <1>3, IdsPut
<1>5. ASSUME plain
      PROVE  IdsFresh(users, Known(users, work), g)
    <2> PICK K : K = Known(users, work)
        OBVIOUS
    <2>1. IdsFresh(users, K, f) /\ IdsFresh(users, K, byId) /\ RowsOf(users) \subseteq K
        BY <1>1, <1>5, RowsKnown DEF IdCacheOK
    <2>2. OfId(users, K, i, u)
        BY <1>1, <2>1, ByIdFresh
    <2> QED BY <1>4, <2>1, <2>2 DEF IdsFresh
<1> QED BY <1>4, <1>5 DEF IdCacheOK

(* Entries are dropped.                                                    *)
LEMMA DropId ==
    ASSUME NEW f, IdCacheOK(f), NEW i, NEW g, g = Put(f, i, Nil)
    PROVE  IdCacheOK(g)
<1>1. IdsOK(conf, hour, f)
    BY DEF IdCacheOK
<1>2. /\ IdsOK(conf, hour, g)
      /\ \A j \in Ids : g[j] = IF conf.cached /\ j = i THEN Nil ELSE f[j]
    BY <1>1, IdsPut
<1> QED BY <1>2 DEF IdCacheOK, IdsFresh, OfId

(* An entry by name and address is dropped.                                *)
LEMMA DropKey ==
    ASSUME NEW f, KeyCacheOK(f), NEW k, NEW g, g = Put(f, k, Nil)
    PROVE  KeyCacheOK(g)
<1>1. KeysOK(conf, hour, f)
    BY DEF KeyCacheOK
<1>2. /\ KeysOK(conf, hour, g)
      /\ \A j \in Keys : g[j] = IF conf.cached /\ j = k THEN Nil ELSE f[j]
    BY <1>1, KeysPut
<1> QED BY <1>2 DEF KeyCacheOK, KeysFresh, OfKey

(* A list of ids is dropped.                                               *)
LEMMA DropMail ==
    ASSUME NEW f, MailCacheOK(f), NEW e, NEW g, g = Put(f, e, Nil)
    PROVE  MailCacheOK(g)
<1>1. MailsOK(conf, f)
    BY DEF MailCacheOK
<1>2. /\ MailsOK(conf, g)
      /\ \A j \in Addresses : g[j] = IF conf.cached /\ j = e THEN Nil ELSE f[j]
    BY <1>1, MailsPut
<1> QED BY <1>2 DEF MailCacheOK, MailsFresh, OfMail

(* The user of a name and address is looked up.                            *)
LEMMA SeenKey ==
    ASSUME AccountsInv, NEW f, KeyCacheOK(f), NEW n \in Names, NEW e \in Addresses, NEW g,
           g = Put(f, <<n, e>>, FindUser(n, e))
    PROVE  KeyCacheOK(g)
<1> PICK u : u = FindUser(n, e)
    OBVIOUS
<1>1. Shape /\ KeyCacheOK(byKey)
    BY CachesNow DEF AccountsInv
<1>2. u \in Person(hour)
    BY <1>1, ByKey
<1>3. KeysOK(conf, hour, f)
    BY DEF KeyCacheOK
<1>4. /\ KeysOK(conf, hour, g)
      /\ \A j \in Keys : g[j] = IF conf.cached /\ j = <<n, e>> THEN u ELSE f[j]
    BY <1>2, <1>3, KeysPut
<1>5. ASSUME plain
      PROVE  KeysFresh(users, Known(users, work), g)
    <2> PICK K : K = Known(users, work)
        OBVIOUS
    <2>1. KeysFresh(users, K, f) /\ KeysFresh(users, K, byKey) /\ RowsOf(users) \subseteq K
        BY <1>1, <1>5, RowsKnown DEF KeyCacheOK
    <2>2. OfKey(users, K, <<n, e>>, u)
        BY <1>1, <2>1, ByKeyFresh
    <2> QED BY <1>4, <2>1, <2>2 DEF KeysFresh
<1> QED BY <1>4, <1>5 DEF KeyCacheOK

(* The users of an address are looked up.                                  *)
LEMMA SeenMail ==
    ASSUME AccountsInv, NEW e \in Addresses, FillEmail(e), NEW f, NEW m, f = byId', m = byEmail'
    PROVE  IdCacheOK(f) /\ MailCacheOK(m)
<1> PICK s : s = FindUserIdsByEmail(e)
    OBVIOUS
<1>1. Shape /\ IdCacheOK(byId) /\ MailCacheOK(byEmail)
    BY CachesNow DEF AccountsInv
<1>2. s \in SUBSET Ids
    BY <1>1, IdsByMail
<1>3. m = Put(byEmail, e, s)
    BY DEF FillEmail
<1>4. MailsOK(conf, byEmail)
    BY <1>1 DEF MailCacheOK
<1>5. /\ MailsOK(conf, m)
      /\ \A j \in Addresses : m[j] = IF conf.cached /\ j = e THEN s ELSE byEmail[j]
    BY <1>2, <1>3, <1>4, MailsPut
<1>6. f = [i \in Ids |-> IF conf.cached /\ i \in s THEN FindUserByID(i) ELSE byId[i]]
    BY DEF FillEmail
<1>7. IdsOK(conf, hour, f)
    <2>1. IdsOK(conf, hour, byId)
        BY <1>1 DEF IdCacheOK
    <2>2. \A i \in Ids : FindUserByID(i) \in Person(hour) /\ FindUserByID(i).id \in {0, i}
        BY <1>1, ById
    <2> HIDE DEF FindUserByID
    <2>3. f \in [Ids -> Person(hour) \cup {Nil}]
        BY <1>6, <2>1, <2>2 DEF IdsOK
    <2>4. \A i \in Ids : f[i] = Nil \/ f[i].id \in {0, i}
        BY <1>6, <2>1, <2>2 DEF IdsOK
    <2>5. conf.cached \/ \A i \in Ids : f[i] = Nil
        BY <1>6, <2>1 DEF IdsOK
    <2> QED BY <2>3, <2>4, <2>5 DEF IdsOK
<1>8. ASSUME plain
      PROVE  /\ IdsFresh(users, Known(users, work), f)
             /\ MailsFresh(Known(users, work), m)
    <2> PICK K : K = Known(users, work)
        OBVIOUS
    <2>1. /\ IdsFresh(users, K, byId) /\ MailsFresh(K, byEmail) /\ RowsOf(users) \subseteq K
        BY <1>1, <1>8, RowsKnown DEF IdCacheOK, MailCacheOK
    <2>2. \A i \in s : \E u \in K : u.id = i /\ u.email = e
        BY <1>1, <2>1, IdsByMailFresh
    <2>3. MailsFresh(K, m)
        BY <1>5, <2>1, <2>2 DEF MailsFresh, OfMail
    <2>4. \A i \in Ids : OfId(users, K, i, FindUserByID(i))
        BY <1>1, <2>1, ByIdFresh
    <2>5. IdsFresh(users, K, f)
        BY <1>6, <2>1, <2>4 DEF IdsFresh
    <2> QED BY <2>3, <2>5
<1> QED BY <1>5, <1>7, <1>8 DEF IdCacheOK, MailCacheOK

-----------------------------------------------------------------------------
(* Arrivals                                                                *)

(* With one request under way no other has deleted anything.               *)
LEMMA KnownTurn ==
    ASSUME NEW us, NEW wk, NEW w \in Requests, \A v \in Requests : v # w => wk[v] = Idle
    PROVE  Known(us, wk) = RowsOf(us) \cup LostOf(wk[w])
<1>1. LostOf(Idle) = {}
    BY IdleIs DEF LostOf
<1>2. \A v \in Requests : v # w => LostOf(wk[v]) = {}
    BY <1>1
<1>3. UNION {LostOf(wk[v]) : v \in Requests} = LostOf(wk[w])
    BY <1>2
<1> QED BY <1>3 DEF Known

(* A request arrives: it may fill the cache and get a token, and then      *)
(* waits for its first statement.                                          *)
LEMMA Arrival ==
    ASSUME AccountsInv, NEW w \in Requests, NEW r, Arrive(w, r), WorkOK(hour, r),
           r.pc # "delRest",
           NEW f, NEW g, NEW m, NEW t, byId' = f, byKey' = g, byEmail' = m, tokens' = t,
           IdCacheOK(f), KeyCacheOK(g), MailCacheOK(m),
           t \subseteq Ids \X (1..MaxHour), changed' = changed,
           plain /\ (\A v \in Requests : work[v] = Idle) => Copies(users, changed, g, m, r)
    PROVE  AccountsInv'
<1>1. /\ work[w].pc = "idle" /\ ops < MaxOps /\ ops' = ops + 1
      /\ work' = [work EXCEPT ![w] = r]
      /\ plain' = (plain /\ {o \in Requests : work[o].pc # "idle"} = {})
      /\ mixed' \in BOOLEAN
      /\ UNCHANGED <<conf, hour, users, nextId, owner, mutex, expired>>
    BY DEF Arrive, AccountsInv, Shape
<1> PICK wk : wk = work'
    OBVIOUS
<1>2. /\ wk \in [Requests -> Work] /\ wk[w] = r
      /\ \A v \in Requests : v # w => wk[v] = work[v]
    BY <1>1 DEF AccountsInv, Shape, WorkOK
<1>3. Shape'
    <2>1. /\ IdsOK(conf, hour, f) /\ KeysOK(conf, hour, g) /\ MailsOK(conf, m)
        BY DEF IdCacheOK, KeyCacheOK, MailCacheOK
    <2>2. \A v \in Requests : WorkOK(hour, wk[v])
        BY <1>2 DEF AccountsInv, Shape
    <2>3. ops' \in 0..MaxOps
        BY <1>1, Bounds DEF AccountsInv, Shape
    <2>4. plain' \in BOOLEAN
        BY <1>1
    <2> QED BY <1>1, <1>2, <2>1, <2>2, <2>3, <2>4 DEF AccountsInv, Shape
<1>4. ASSUME plain'
      PROVE  /\ Serial(wk)
             /\ Ordered(users, Known(users, wk), f, g, m, changed, owner, nextId)
             /\ \A v \in Requests : Copies(users, changed, g, m, wk[v])
    <2>1. plain /\ \A v \in Requests : work[v].pc = "idle"
        BY <1>1, <1>4
    <2>2. \A v \in Requests : work[v] = Idle
        BY <2>1 DEF AccountsInv, Shape, WorkOK, Stage
    <2>3. \A v \in Requests : v # w => wk[v] = Idle
        BY <1>2, <2>2
    <2>4. Known(users, wk) = Known(users, work)
        <3>1. LostOf(r) = {} /\ LostOf(Idle) = {}
            BY IdleIs DEF LostOf
        <3>2. Known(users, wk) = RowsOf(users) \cup LostOf(wk[w])
            BY <2>3, KnownTurn
        <3>3. Known(users, work) = RowsOf(users) \cup LostOf(work[w])
            BY <2>2, KnownTurn
        <3> QED BY <1>2, <2>2, <3>1, <3>2, <3>3
    <2>5. Ordered(users, Known(users, work), f, g, m, changed, owner, nextId)
        BY <2>1 DEF AccountsInv, InOrder, Ordered, IdCacheOK, KeyCacheOK, MailCacheOK
    <2>6. Copies(users, changed, g, m, Idle)
        BY IdleIs DEF Copies
    <2>7. Copies(users, changed, g, m, r)
        BY <2>1, <2>2
    <2> QED BY <1>2, <2>3, <2>4, <2>5, <2>6, <2>7 DEF Serial
<1> QED BY <1>1, <1>3, <1>4 DEF AccountsInv, InOrder

(* What a request needs no copies for.                                     *)
LEMMA LightCopies ==
    ASSUME NEW r, r.others = {},
           r.pc \in {"idle", "findCreate", "create", "lock"} \/ (r.pc = "insert" /\ r.op = "vote"),
           NEW us, NEW ch, NEW g, NEW m
    PROVE  Copies(us, ch, g, m, r)
BY DEF Copies

(* A request arrives and changes nothing else.                             *)
LEMMA ArriveOnly ==
    ASSUME AccountsInv, NEW w \in Requests, NEW r, Arrive(w, r), WorkOK(hour, r), r.others = {},
           r.pc \in {"findCreate", "create", "lock"} \/ (r.pc = "insert" /\ r.op = "vote"),
           UNCHANGED <<cache, tokens, changed>>
    PROVE  AccountsInv'
<1>1. byId' = byId /\ byKey' = byKey /\ byEmail' = byEmail /\ tokens' = tokens /\ changed' = changed
    BY DEF cache
<1>2. Copies(users, changed, byKey, byEmail, r)
    BY LightCopies
<1>3. tokens \subseteq Ids \X (1..MaxHour)
    BY DEF AccountsInv, Shape
<1> QED BY <1>1, <1>2, <1>3, Arrival, CachesNow

(* A request that only looks and is done; new tokens name a user.          *)
LEMMA ArriveIdle ==
    ASSUME AccountsInv, NEW w \in Requests, Arrive(w, Idle), changed' = changed,
           NEW f, NEW g, NEW m, NEW t, byId' = f, byKey' = g, byEmail' = m, tokens' = t,
           IdCacheOK(f), KeyCacheOK(g), MailCacheOK(m), t \subseteq Ids \X (1..MaxHour)
    PROVE  AccountsInv'
<1>1. WorkOK(hour, Idle)
    BY IdleOK, HourIs DEF AccountsInv
<1>2. Copies(users, changed, g, m, Idle)
    BY LightCopies, IdleIs
<1>3. Idle.pc # "delRest"
    BY IdleIs
<1> HIDE DEF Idle
<1> QED BY <1>1, <1>2, <1>3, Arrival

(* A request under a name and address goes to FindCreateUser.              *)
LEMMA EnterOK ==
    ASSUME NEW h \in Nat, NEW op \in FindOpers \ {"social"}, NEW n \in Names, NEW e \in Addresses,
           NEW r, r = Enter("findCreate", op, n, e)
    PROVE  WorkOK(h, r) /\ r.others = {} /\ r.pc = "findCreate"
<1>1. op \in Opers /\ "findCreate" \in Pcs
    BY DEF Opers, FindOpers, Pcs
<1>2. /\ r \in Work /\ r.pc = "findCreate" /\ r.op = op /\ r.name = n /\ r.email = e
      /\ r.user = Zero /\ r.others = {}
    BY <1>1, EnterIs
<1>3. Stage(r)
    BY <1>2 DEF Stage, FindOpers
<1> QED BY <1>2, <1>3, ZeroPerson DEF WorkOK

(* Comments, votes, registrations, SSO exchanges.                          *)
LEMMA EnterArrives ==
    ASSUME AccountsInv, NEW w \in Requests, NEW op \in FindOpers \ {"social"}, NEW n \in Names,
           NEW e \in Addresses, Arrive(w, Enter("findCreate", op, n, e)),
           UNCHANGED <<cache, tokens, changed>>
    PROVE  AccountsInv'
<1> PICK r : r = Enter("findCreate", op, n, e)
    OBVIOUS
<1>1. WorkOK(hour, r) /\ r.others = {} /\ r.pc = "findCreate"
    BY EnterOK, HourIs DEF AccountsInv
<1> QED BY <1>1, ArriveOnly

(* Requests that come with a name and an address.                          *)
LEMMA EnteringSteps ==
    ASSUME AccountsInv, NEW w \in Requests, NEW n \in Names, NEW e \in Addresses,
           \/ CommentAnonymous(w, n, e) \/ Vote(w, n, e) \/ Register(w, n, e)
           \/ SSOExchange(w, n, e)
    PROVE  AccountsInv'
<1>1. "comment" \in FindOpers \ {"social"} /\ "vote" \in FindOpers \ {"social"}
      /\ "register" \in FindOpers \ {"social"} /\ "sso" \in FindOpers \ {"social"}
    BY DEF FindOpers
<1>2. CASE CommentAnonymous(w, n, e)
    BY <1>1, <1>2, EnterArrives DEF CommentAnonymous
<1>3. CASE Vote(w, n, e)
    BY <1>1, <1>3, EnterArrives DEF Vote
<1>4. CASE Register(w, n, e)
    BY <1>1, <1>4, EnterArrives DEF Register
<1>5. CASE SSOExchange(w, n, e)
    BY <1>1, <1>5, EnterArrives DEF SSOExchange
<1> QED BY <1>2, <1>3, <1>4, <1>5

(* A vote without a name belongs to nobody.                                *)
LEMMA VoteNamelessStep ==
    ASSUME AccountsInv, NEW w \in Requests, VoteNameless(w)
    PROVE  AccountsInv'
<1> PICK r : r = Holding("insert", "vote", Zero)
    OBVIOUS
<1>1. "insert" \in Pcs /\ "vote" \in Opers
    BY DEF Pcs, Opers
<1>2. Zero \in Person(hour) /\ Zero \in User
    BY ZeroPerson, HourIs DEF AccountsInv
<1>3. r \in Work /\ r.pc = "insert" /\ r.op = "vote" /\ r.user = Zero /\ r.others = {}
    <2> HIDE DEF Zero
    <2> PICK pc \in Pcs, op \in Opers, z \in User : pc = "insert" /\ op = "vote" /\ z = Zero
        BY <1>1, <1>2
    <2>1. r = Holding(pc, op, z)
        OBVIOUS
    <2>2. r \in Work /\ r.pc = pc /\ r.op = op /\ r.user = z /\ r.others = {}
        BY <2>1, HoldingIs
    <2> QED BY <2>2
<1>4. WorkOK(hour, r)
    BY <1>2, <1>3 DEF WorkOK, Stage
<1> QED BY <1>3, <1>4, ArriveOnly DEF VoteNameless

(* A social login with a new identity.                                     *)
LEMMA SocialLoginStep ==
    ASSUME AccountsInv, NEW w \in Requests, NEW x \in Identities, NEW n \in Names,
           NEW e \in Addresses, NEW gitea \in BOOLEAN, SocialLogin(w, x, n, e, gitea)
    PROVE  AccountsInv'
<1> DEFINE u == IF gitea THEN [Zero EXCEPT !.name = n, !.email = e] ELSE Zero
           pc == IF gitea THEN "create" ELSE "findCreate"
           op == IF gitea THEN "gitea" ELSE "social"
<1> PICK q : q = Enter(pc, op, n, e)
    OBVIOUS
<1> PICK r : r = [q EXCEPT !.item = x, !.user = u]
    OBVIOUS
<1>1. pc \in Pcs /\ op \in Opers
    BY DEF Pcs, Opers
<1>2. q \in Work /\ q.pc = pc /\ q.op = op /\ q.name = n /\ q.email = e /\ q.others = {}
    BY <1>1, EnterIs
<1>3. u \in Person(hour) /\ u \in User /\ (gitea => u.name = n /\ u.email = e)
    <2>1. Zero \in Person(hour) /\ Zero \in User
        BY ZeroPerson, HourIs DEF AccountsInv
    <2>2. [Zero EXCEPT !.name = n, !.email = e] \in User
        BY <2>1 DEF User
    <2>3. CASE gitea
        <3>1. u.id = 0 /\ u.from = 0 /\ u.name = n /\ u.email = e /\ u \in User
            BY <2>2, <2>3 DEF Zero
        <3>2. u.from <= hour
            BY <3>1, HourIs DEF AccountsInv
        <3> QED BY <3>1, <3>2 DEF Person
    <2> QED BY <2>1, <2>3
<1> HIDE DEF u
<1>4. r \in Work /\ r.pc = pc /\ r.op = op /\ r.name = n /\ r.email = e /\ r.others = {}
      /\ r.item = x /\ r.user = u
    BY <1>2, <1>3 DEF Work, Items
<1>5. Stage(r)
    BY <1>3, <1>4 DEF Stage, FindOpers
<1>6. WorkOK(hour, r)
    BY <1>3, <1>4, <1>5 DEF WorkOK
<1>7. Arrive(w, r) /\ UNCHANGED <<cache, tokens, changed>>
    BY DEF SocialLogin, u
<1> QED BY <1>4, <1>6, <1>7, ArriveOnly

(* Logins and lookups: a login by address takes the first user.            *)
LEMMA LoginByEmailStep ==
    ASSUME AccountsInv, NEW w \in Requests, NEW e \in Addresses,
           LoginByEmail(w, e) \/ MergeCheck(w, e)
    PROVE  AccountsInv'
<1> PICK t : t = tokens'
    OBVIOUS
<1>1. Arrive(w, Idle) /\ FillEmail(e) /\ byKey' = byKey /\ changed' = changed
    BY DEF LoginByEmail, MergeCheck
<1>2. t \subseteq Ids \X (1..MaxHour)
    <2>1. CASE LoginByEmail(w, e)
        <3> PICK u : u = FirstByEmail(e)
            OBVIOUS
        <3>1. u \in Person(hour)
            BY FirstByMail DEF AccountsInv
        <3> QED BY <2>1, <3>1, GoodTokens DEF LoginByEmail, AccountsInv
    <2>2. CASE MergeCheck(w, e)
        BY <2>2 DEF MergeCheck, AccountsInv, Shape
    <2> QED BY <2>1, <2>2
<1>3. IdCacheOK(byId') /\ MailCacheOK(byEmail')
    BY <1>1, SeenMail
<1> HIDE DEF FillEmail
<1> QED BY <1>1, <1>2, <1>3, ArriveIdle, CachesNow

(* A login by name and address.                                            *)
LEMMA LoginByNameStep ==
    ASSUME AccountsInv, NEW w \in Requests, NEW n \in Names, NEW e \in Addresses,
           LoginByName(w, n, e) \/ UserInfo(w, n, e)
    PROVE  AccountsInv'
<1> PICK t : t = tokens'
    OBVIOUS
<1> PICK g : g = byKey'
    OBVIOUS
<1>1. /\ Arrive(w, Idle) /\ g = Put(byKey, <<n, e>>, FindUser(n, e)) /\ byId' = byId
      /\ byEmail' = byEmail /\ changed' = changed
    BY DEF LoginByName, UserInfo, FillKey
<1>2. t \subseteq Ids \X (1..MaxHour)
    <2>1. CASE LoginByName(w, n, e)
        <3> PICK u : u = FindUser(n, e)
            OBVIOUS
        <3>1. u \in Person(hour)
            BY ByKey DEF AccountsInv
        <3> QED BY <2>1, <3>1, GoodTokens DEF LoginByName, AccountsInv
    <2>2. CASE UserInfo(w, n, e)
        BY <2>2 DEF UserInfo, AccountsInv, Shape
    <2> QED BY <2>1, <2>2
<1>3. KeyCacheOK(g)
    BY <1>1, SeenKey, CachesNow
<1> QED BY <1>1, <1>2, <1>3, ArriveIdle, CachesNow

(* A social login with an identity that has a user.                        *)
LEMMA SocialAgainStep ==
    ASSUME AccountsInv, NEW w \in Requests, NEW x \in Identities, SocialAgain(w, x)
    PROVE  AccountsInv'
<1> PICK i : i = owner[x]
    OBVIOUS
<1> PICK t : t = tokens'
    OBVIOUS
<1> PICK f : f = byId'
    OBVIOUS
<1> PICK u : u = FindUserByID(i)
    OBVIOUS
<1>1. i \in Ids
    BY Bounds DEF SocialAgain, AccountsInv, Shape, OwnerTable, Items, Ids
<1>2. /\ Arrive(w, Idle) /\ f = Put(byId, i, FindUserByID(i)) /\ byKey' = byKey
      /\ byEmail' = byEmail /\ changed' = changed
      /\ t = IF u.id = 0 THEN tokens ELSE tokens \cup {<<i, hour>>}
    BY DEF SocialAgain, FillId
<1>3. t \subseteq Ids \X (1..MaxHour)
    BY <1>1, <1>2, HourIs DEF AccountsInv, Shape
<1>4. IdCacheOK(f)
    BY <1>1, <1>2, SeenId, CachesNow
<1> QED BY <1>2, <1>3, <1>4, ArriveIdle, CachesNow

(* A lookup of one's own user.                                             *)
LEMMA UserInfoOfTokenStep ==
    ASSUME AccountsInv, NEW w \in Requests, NEW t \in tokens, UserInfoOfToken(w, t)
    PROVE  AccountsInv'
<1> PICK f : f = byId'
    OBVIOUS
<1>1. t[1] \in Ids
    BY DEF AccountsInv, Shape
<1>2. /\ Arrive(w, Idle) /\ f = Put(byId, t[1], FindUserByID(t[1])) /\ byKey' = byKey
      /\ byEmail' = byEmail /\ changed' = changed /\ tokens' = tokens
    BY DEF UserInfoOfToken, FillId
<1>3. tokens \subseteq Ids \X (1..MaxHour)
    BY DEF AccountsInv, Shape
<1>4. IdCacheOK(f)
    BY <1>1, <1>2, SeenId, CachesNow
<1> QED BY <1>2, <1>3, <1>4, ArriveIdle, CachesNow

(* A request with the user of its token, who has an id and is known.       *)
LEMMA AuthenticUser ==
    ASSUME AccountsInv, NEW t \in tokens, Authentic(t), NEW u, u = FindUserByID(t[1])
    PROVE  /\ t[1] \in Ids /\ u \in Person(hour) /\ u \in User /\ u.id = t[1] /\ u.id # 0
           /\ plain => u \in Known(users, work)
<1>1. Shape /\ t[1] \in Ids
    BY DEF AccountsInv, Shape
<1>2. u.id # 0
    BY DEF Authentic
<1>3. u \in Person(hour) /\ u \in User /\ u.id = t[1]
    BY <1>1, <1>2, ById, PersonIs
<1>4. plain => u \in Known(users, work)
    <2> SUFFICES ASSUME plain PROVE u \in Known(users, work)
        OBVIOUS
    <2> PICK K : K = Known(users, work)
        OBVIOUS
    <2>1. IdsFresh(users, K, byId) /\ RowsOf(users) \subseteq K
        BY CachesNow, RowsKnown DEF IdCacheOK
    <2> QED BY <1>1, <1>2, <2>1, ByIdKnown
<1> QED BY <1>1, <1>2, <1>3, <1>4

(* The lookup of the user of a token fills the cache.                      *)
LEMMA SeenUserOK ==
    ASSUME AccountsInv, NEW t \in tokens, NEW f, f = SeenUser(t)
    PROVE  IdCacheOK(f)
<1>1. t[1] \in Ids
    BY DEF AccountsInv, Shape
<1> QED BY <1>1, SeenId, CachesNow DEF SeenUser

(* While nothing is under way the known users are those with a row.        *)
LEMMA NobodyLost ==
    ASSUME AccountsInv, plain, \A v \in Requests : work[v] = Idle
    PROVE  /\ Known(users, work) = RowsOf(users)
           /\ \A u \in RowsOf(users) : u.from >= changed[u.id]
           /\ \A u \in RowsOf(users), v \in RowsOf(users) : u.id = v.id => u = v
<1>1. LostOf(Idle) = {}
    BY IdleIs DEF LostOf
<1>2. \A v \in Requests : LostOf(work[v]) = {}
    BY <1>1
<1>3. UNION {LostOf(work[v]) : v \in Requests} = {}
    BY <1>2
<1>4. Known(users, work) = RowsOf(users)
    BY <1>3 DEF Known
<1>5. \A u \in RowsOf(users) : u.from >= changed[u.id]
    BY <1>4 DEF AccountsInv, InOrder, Ordered, Recent
<1>6. \A u \in RowsOf(users), v \in RowsOf(users) : u.id = v.id => u = v
    BY RowIs, HourIs, TablesAre DEF AccountsInv
<1> QED BY <1>4, <1>5, <1>6

(* A comment of a user with a token works with a copy of a known user.     *)
LEMMA CommentLoggedInStep ==
    ASSUME AccountsInv, NEW w \in Requests, NEW t \in tokens, CommentLoggedIn(w, t)
    PROVE  AccountsInv'
<1> PICK u : u = FindUserByID(t[1])
    OBVIOUS
<1> PICK f : f = byId'
    OBVIOUS
<1> PICK pc \in Pcs, op \in Opers : pc = "insert" /\ op = "comment"
    BY DEF Pcs, Opers
<1> PICK r : r = Holding(pc, op, u)
    OBVIOUS
<1>1. /\ t[1] \in Ids /\ u \in Person(hour) /\ u \in User /\ u.id = t[1] /\ u.id # 0
      /\ plain => u \in Known(users, work)
    BY AuthenticUser DEF CommentLoggedIn
<1>2. r \in Work /\ r.pc = pc /\ r.op = op /\ r.user = u /\ r.others = {}
    BY <1>1, HoldingIs
<1>3. WorkOK(hour, r)
    BY <1>1, <1>2 DEF WorkOK, Stage
<1>4. /\ Arrive(w, r) /\ f = Put(byId, t[1], FindUserByID(t[1])) /\ byKey' = byKey
      /\ byEmail' = byEmail /\ changed' = changed /\ tokens' = tokens
    BY DEF CommentLoggedIn, FillId
<1>5. IdCacheOK(f)
    BY <1>1, <1>4, SeenId, CachesNow
<1>6. tokens \subseteq Ids \X (1..MaxHour)
    BY DEF AccountsInv, Shape
<1>7. ASSUME plain, \A v \in Requests : work[v] = Idle
      PROVE  Copies(users, changed, byKey, byEmail, r)
    <2>1. u \in RowsOf(users)
        BY <1>1, <1>7, NobodyLost
    <2> QED BY <1>2, <2>1 DEF Copies, Exists
<1> QED BY <1>2, <1>3, <1>4, <1>5, <1>6, <1>7, Arrival, CachesNow

(* A password reset takes the name of the first user of the address.       *)
LEMMA ResetPasswordStep ==
    ASSUME AccountsInv, NEW w \in Requests, NEW e \in Addresses, ResetPassword(w, e)
    PROVE  AccountsInv'
<1> PICK u : u = FirstByEmail(e)
    OBVIOUS
<1> PICK f : f = byId'
    OBVIOUS
<1> PICK m : m = byEmail'
    OBVIOUS
<1> PICK op \in FindOpers \ {"social"} : op = "register"
    BY DEF FindOpers
<1>1. u \in Person(hour) /\ u.name # ""
    BY FirstByMail DEF ResetPassword, AccountsInv
<1>2. u.name \in Names
    BY <1>1 DEF Person, User
<1> PICK r : r = Enter("findCreate", op, u.name, e)
    OBVIOUS
<1>3. WorkOK(hour, r) /\ r.others = {} /\ r.pc = "findCreate"
    BY <1>2, EnterOK, HourIs DEF AccountsInv
<1>4. /\ Arrive(w, r) /\ FillEmail(e) /\ byKey' = byKey /\ changed' = changed
      /\ tokens' = tokens
    BY DEF ResetPassword
<1>5. IdCacheOK(f) /\ MailCacheOK(m)
    BY <1>4, SeenMail
<1>6. tokens \subseteq Ids \X (1..MaxHour)
    BY DEF AccountsInv, Shape
<1>7. Copies(users, changed, byKey, m, r)
    BY <1>3, LightCopies
<1> QED BY <1>3, <1>4, <1>5, <1>6, <1>7, Arrival, CachesNow

(* A merge begins with a copy of its user.                                 *)
LEMMA MergeApplyStep ==
    ASSUME AccountsInv, NEW w \in Requests, NEW t \in tokens, NEW n \in Names,
           MergeApply(w, t, n)
    PROVE  AccountsInv'
<1> PICK u : u = FindUserByID(t[1])
    OBVIOUS
<1> PICK f : f = byId'
    OBVIOUS
<1> PICK pc \in Pcs, op \in Opers : pc = "lock" /\ op = "merge"
    BY DEF Pcs, Opers
<1> PICK q : q = Holding(pc, op, u)
    OBVIOUS
<1> PICK r : r = [q EXCEPT !.name = n, !.by = t[1]]
    OBVIOUS
<1>1. t[1] \in Ids /\ u \in Person(hour) /\ u \in User /\ u.id # 0
    BY AuthenticUser DEF MergeApply
<1>2. q \in Work /\ q.pc = pc /\ q.op = op /\ q.user = u /\ q.others = {}
    BY <1>1, HoldingIs
<1>3. t[1] \in 0..MaxId
    BY <1>1, Bounds DEF Ids
<1>4. r \in Work /\ r.pc = "lock" /\ r.op = "merge" /\ r.user = u /\ r.others = {}
    <2> PICK i : i = t[1]
        OBVIOUS
    <2>1. r = [q EXCEPT !.name = n, !.by = i]
        OBVIOUS
    <2>2. q \in Work /\ i \in 0..MaxId /\ n \in Names \cup {""}
        BY <1>2, <1>3
    <2>3. r \in Work
        BY ONLY <2>1, <2>2 DEF Work
    <2>4. r.pc = q.pc /\ r.op = q.op /\ r.user = q.user /\ r.others = q.others
        BY ONLY <2>1, <2>2 DEF Work
    <2> QED BY <1>2, <2>3, <2>4
<1>5. WorkOK(hour, r)
    BY <1>1, <1>4 DEF WorkOK, Stage
<1>6. /\ Arrive(w, r) /\ f = Put(byId, t[1], FindUserByID(t[1])) /\ byKey' = byKey
      /\ byEmail' = byEmail /\ changed' = changed /\ tokens' = tokens
    BY DEF MergeApply, FillId
<1>7. IdCacheOK(f)
    BY <1>1, <1>6, SeenId, CachesNow
<1>8. tokens \subseteq Ids \X (1..MaxHour)
    BY DEF AccountsInv, Shape
<1>9. Copies(users, changed, byKey, byEmail, r)
    BY <1>4, LightCopies
<1> QED BY <1>4, <1>5, <1>6, <1>7, <1>8, <1>9, Arrival, CachesNow

(* What an administrator makes of a user.                                  *)
LEMMA ModifiedIs ==
    ASSUME NEW h \in 0..MaxHour, hour = h, NEW u \in Person(h), NEW n \in Names,
           NEW e \in Addresses, NEW admin \in BOOLEAN, NEW pass \in BOOLEAN,
           NEW v, v = Modified(u, n, e, admin, pass)
    PROVE  /\ v \in Person(h) /\ v \in User /\ v.id = u.id /\ v.name = n /\ v.email = e
           /\ v.from = IF pass THEN h ELSE u.from
<1>1. u \in User /\ u.from \in 0..MaxHour /\ u.from <= h /\ h \in Int
    BY PersonIs
<1>2. /\ v \in User /\ v.id = u.id /\ v.name = n /\ v.email = e
      /\ v.from = IF pass THEN h ELSE u.from
    BY <1>1 DEF Modified, User
<1>3. v.from <= h
    BY <1>1, <1>2
<1> QED BY <1>2, <1>3 DEF Person

(* An administrator creates a user under a free name.                      *)
LEMMA UserCreateStep ==
    ASSUME AccountsInv, NEW w \in Requests, NEW t \in tokens, NEW n \in Names,
           NEW e \in Addresses, NEW admin \in BOOLEAN, NEW pass \in BOOLEAN,
           UserCreate(w, t, n, e, admin, pass)
    PROVE  AccountsInv'
<1> PICK u : u = Modified(Zero, n, e, admin, pass)
    OBVIOUS
<1> PICK f : f = byId'
    OBVIOUS
<1> PICK g : g = byKey'
    OBVIOUS
<1> PICK pc \in Pcs, op \in Opers : pc = "create" /\ op = "add"
    BY DEF Pcs, Opers
<1> PICK r : r = Holding(pc, op, u)
    OBVIOUS
<1>1. u \in Person(hour) /\ u \in User /\ u.name = n /\ u.email = e
    BY ModifiedIs, ZeroPerson, HourIs DEF AccountsInv
<1>2. r \in Work /\ r.pc = pc /\ r.op = op /\ r.user = u /\ r.others = {}
    BY <1>1, HoldingIs
<1>3. WorkOK(hour, r)
    BY <1>1, <1>2 DEF WorkOK, Stage
<1>4. /\ Arrive(w, r) /\ f = SeenUser(t) /\ g = Put(byKey, <<n, e>>, FindUser(n, e))
      /\ byEmail' = byEmail /\ changed' = changed /\ tokens' = tokens
    BY DEF UserCreate, FillKey
<1>5. IdCacheOK(f) /\ KeyCacheOK(g)
    BY <1>4, SeenUserOK, SeenKey, CachesNow
<1>6. tokens \subseteq Ids \X (1..MaxHour)
    BY DEF AccountsInv, Shape
<1>7. Copies(users, changed, g, byEmail, r)
    BY <1>2, LightCopies
<1> QED BY <1>2, <1>3, <1>4, <1>5, <1>6, <1>7, Arrival, CachesNow

(* A dropped entry is none, with a cache or without.                       *)
LEMMA DroppedKey ==
    ASSUME NEW f, KeyCacheOK(f), NEW k \in Keys, NEW g, g = Put(f, k, Nil)
    PROVE  g[k] = Nil
<1>1. f \in [Keys -> Person(hour) \cup {Nil}] /\ (conf.cached \/ f[k] = Nil)
    BY DEF KeyCacheOK, KeysOK
<1> QED BY <1>1 DEF Put

(* The entry that was dropped is gone.                                     *)
LEMMA DroppedMail ==
    ASSUME NEW f, MailCacheOK(f), NEW k \in Addresses, NEW g, g = Put(f, k, Nil)
    PROVE  g[k] = Nil
<1>1. f \in [Addresses -> (SUBSET Ids) \cup {Nil}] /\ (conf.cached \/ f[k] = Nil)
    BY DEF MailCacheOK, MailsOK
<1> QED BY <1>1 DEF Put

(* An administrator changes a user: the entries of the old name and        *)
(* address are dropped before the row is saved.                            *)
LEMMA UserUpdateStep ==
    ASSUME AccountsInv, NEW w \in Requests, NEW t \in tokens, NEW i \in Ids, NEW n \in Names,
           NEW e \in Addresses, NEW admin \in BOOLEAN, NEW pass \in BOOLEAN,
           UserUpdate(w, t, i, n, e, admin, pass)
    PROVE  AccountsInv'
<1> PICK u : u = FindUserByID(i)
    OBVIOUS
<1> PICK v : v = Modified(u, n, e, admin, pass)
    OBVIOUS
<1> PICK f : f = byId'
    OBVIOUS
<1> PICK g : g = byKey'
    OBVIOUS
<1> PICK m : m = byEmail'
    OBVIOUS
<1> PICK f0 : f0 = SeenUser(t)
    OBVIOUS
<1> PICK g0 : g0 = IF n = u.name \/ e = u.email THEN byKey
                   ELSE Put(byKey, <<n, e>>, FindUser(n, e))
    OBVIOUS
<1> PICK pc \in Pcs, op \in Opers : pc = "save" /\ op = "update"
    BY DEF Pcs, Opers
<1> PICK r : r = Holding(pc, op, v)
    OBVIOUS
<1>1. /\ Arrive(w, r) /\ f = Put(f0, u.id, Nil) /\ g = Put(g0, KeyOf(u), Nil)
      /\ m = Put(byEmail, u.email, Nil) /\ tokens' = tokens /\ changed' = changed /\ u.id # 0
    BY DEF UserUpdate, CacheDel, KeyOf
<1>2. u \in Person(hour) /\ u.id = i
    BY <1>1, ById DEF AccountsInv
<1>3. u.name \in Names /\ u.email \in Addresses /\ KeyOf(u) \in Keys
    BY <1>1, <1>2, PersonIs DEF KeyOf, Keys
<1>4. /\ v \in Person(hour) /\ v \in User /\ v.id = u.id
      /\ v.from = IF pass THEN hour ELSE u.from
    BY <1>2, ModifiedIs, HourIs DEF AccountsInv
<1>5. r \in Work /\ r.pc = pc /\ r.op = op /\ r.user = v /\ r.others = {}
    BY <1>4, HoldingIs
<1>6. WorkOK(hour, r)
    BY <1>1, <1>4, <1>5 DEF WorkOK, Stage
<1>7. IdCacheOK(f)
    BY <1>1, SeenUserOK, DropId
<1>8. KeyCacheOK(g0)
    BY SeenKey, CachesNow
<1>9. KeyCacheOK(g) /\ g[KeyOf(u)] = Nil
    BY <1>1, <1>3, <1>8, DropKey, DroppedKey
<1>10. MailCacheOK(m) /\ m[u.email] = Nil
    BY <1>1, <1>3, CachesNow, DropMail, DroppedMail
<1>11. tokens \subseteq Ids \X (1..MaxHour)
    BY DEF AccountsInv, Shape
<1>12. ASSUME plain, \A o \in Requests : work[o] = Idle
       PROVE  Copies(users, changed, g, m, r)
    <2>1. u \in RowsOf(users) /\ u.from >= changed[u.id]
        <3> PICK K : K = Known(users, work)
            OBVIOUS
        <3>1. K = RowsOf(users) /\ IdsFresh(users, K, byId)
            BY <1>12, NobodyLost, CachesNow DEF IdCacheOK
        <3>2. u \in RowsOf(users)
            BY <1>1, <3>1, ByIdKnown DEF AccountsInv
        <3> QED BY <3>2, <1>12, NobodyLost
    <2>2. \A o \in RowsOf(users) : o.id = u.id => o = u
        BY <2>1, <1>12, NobodyLost
    <2>3. changed[u.id] \in 0..hour
        BY <1>2 DEF AccountsInv, Shape
    <2>4. v.from >= changed[v.id]
        BY <1>4, <2>1, <2>3, HourIs DEF AccountsInv
    <2>5. SaveOK(users, changed, g, m, r)
        BY <1>4, <1>5, <1>9, <1>10, <2>1, <2>2, <2>4 DEF SaveOK, Exists
    <2> QED BY <1>5, <2>5 DEF Copies
<1> QED BY <1>1, <1>5, <1>6, <1>7, <1>9, <1>10, <1>11, <1>12, Arrival

(* A user changes his name or address.                                     *)
LEMMA UserInfoUpdateStep ==
    ASSUME AccountsInv, NEW w \in Requests, NEW t \in tokens, NEW n \in Names,
           NEW e \in Addresses, UserInfoUpdate(w, t, n, e)
    PROVE  AccountsInv'
<1> PICK u : u = FindUserByID(t[1])
    OBVIOUS
<1> PICK v : v = [u EXCEPT !.name = n, !.email = e]
    OBVIOUS
<1> PICK f : f = byId'
    OBVIOUS
<1> PICK g : g = byKey'
    OBVIOUS
<1> PICK pc \in Pcs, op \in Opers : pc = "save" /\ op = "profile"
    BY DEF Pcs, Opers
<1> PICK r : r = Holding(pc, op, v)
    OBVIOUS
<1>1. /\ t[1] \in Ids /\ u \in Person(hour) /\ u \in User /\ u.id = t[1] /\ u.id # 0
      /\ plain => u \in Known(users, work)
    BY AuthenticUser DEF UserInfoUpdate
<1>2. v \in User /\ v.id = u.id /\ v.name = n /\ v.email = e /\ v.from = u.from
    BY <1>1 DEF User
<1>3. v \in Person(hour)
    BY <1>1, <1>2 DEF Person
<1>4. r \in Work /\ r.pc = pc /\ r.op = op /\ r.user = v /\ r.others = {}
    BY <1>2, HoldingIs
<1>5. WorkOK(hour, r)
    BY <1>1, <1>2, <1>3, <1>4 DEF WorkOK, Stage
<1>6. /\ Arrive(w, r) /\ f = Put(byId, t[1], FindUserByID(t[1]))
      /\ g = byKey \/ g = Put(byKey, <<n, e>>, FindUser(n, e))
      /\ byEmail' = byEmail /\ changed' = changed /\ tokens' = tokens
    BY DEF UserInfoUpdate, FillId, FillKey
<1>7. IdCacheOK(f) /\ KeyCacheOK(g)
    BY <1>1, <1>6, SeenId, SeenKey, CachesNow
<1>8. tokens \subseteq Ids \X (1..MaxHour)
    BY DEF AccountsInv, Shape
<1>9. ASSUME plain, \A o \in Requests : work[o] = Idle
      PROVE  Copies(users, changed, g, byEmail, r)
    <2>1. u \in RowsOf(users) /\ u.from >= changed[u.id]
        BY <1>1, <1>9, NobodyLost
    <2>2. SaveOK(users, changed, g, byEmail, r)
        BY <1>2, <1>4, <2>1 DEF SaveOK, Exists
    <2> QED BY <1>4, <2>2 DEF Copies
<1> QED BY <1>4, <1>5, <1>6, <1>7, <1>8, <1>9, Arrival, CachesNow

(* An administrator deletes a user.                                        *)
LEMMA UserDeleteStep ==
    ASSUME AccountsInv, NEW w \in Requests, NEW t \in tokens, NEW i \in Ids, UserDelete(w, t, i)
    PROVE  AccountsInv'
<1> PICK u : u = FindUserByID(i)
    OBVIOUS
<1> PICK f : f = byId'
    OBVIOUS
<1> PICK f0 : f0 = SeenUser(t)
    OBVIOUS
<1> PICK pc \in Pcs, op \in Opers, z \in User : pc = "delRow" /\ op = "delete" /\ z = Zero
    BY ZeroPerson, HourIs DEF Pcs, Opers, AccountsInv
<1> PICK q : q = Holding(pc, op, z)
    OBVIOUS
<1> PICK r : r = [q EXCEPT !.others = {u}]
    OBVIOUS
<1>1. /\ Arrive(w, r) /\ f = Put(f0, i, FindUserByID(i)) /\ byKey' = byKey /\ byEmail' = byEmail
      /\ tokens' = tokens /\ changed' = changed /\ u.id # 0
    BY DEF UserDelete
<1>2. u \in Person(hour) /\ u \in User
    BY ById, PersonIs DEF AccountsInv
<1>3. q \in Work /\ q.pc = pc /\ q.op = op /\ q.user = z /\ q.others = {}
    BY HoldingIs
<1>4. r \in Work /\ r.pc = pc /\ r.op = op /\ r.user = z /\ r.others = {u}
    BY <1>2, <1>3 DEF Work
<1>5. z \in Person(hour)
    BY ZeroPerson, HourIs DEF AccountsInv
<1>6. WorkOK(hour, r)
    BY <1>2, <1>4, <1>5 DEF WorkOK, Stage
<1>7. IdCacheOK(f)
    BY <1>1, SeenUserOK, SeenId
<1>8. tokens \subseteq Ids \X (1..MaxHour)
    BY DEF AccountsInv, Shape
<1>9. ASSUME plain, \A o \in Requests : work[o] = Idle
      PROVE  Copies(users, changed, byKey, byEmail, r)
    <2> PICK K : K = Known(users, work)
        OBVIOUS
    <2>1. K = RowsOf(users) /\ IdsFresh(users, K, byId)
        BY <1>9, NobodyLost, CachesNow DEF IdCacheOK
    <2>2. u \in RowsOf(users)
        BY <1>1, <2>1, ByIdKnown DEF AccountsInv
    <2> QED BY <1>4, <2>2 DEF Copies
<1> QED BY <1>1, <1>4, <1>6, <1>7, <1>8, <1>9, Arrival, CachesNow

(* Every arrival.                                                          *)
LEMMA BeginStep ==
    ASSUME AccountsInv, NEW w \in Requests, Begin(w)
    PROVE  AccountsInv'
<1>1. ASSUME NEW n \in Names, NEW e \in Addresses,
             \/ CommentAnonymous(w, n, e) \/ Vote(w, n, e) \/ Register(w, n, e)
             \/ LoginByName(w, n, e) \/ SSOExchange(w, n, e) \/ UserInfo(w, n, e)
             \/ \E x \in Identities, gitea \in BOOLEAN : SocialLogin(w, x, n, e, gitea)
             \/ \E t \in tokens : UserInfoUpdate(w, t, n, e)
      PROVE  AccountsInv'
    BY <1>1, EnteringSteps, LoginByNameStep, SocialLoginStep, UserInfoUpdateStep
<1>2. ASSUME NEW t \in tokens, NEW i \in Ids, UserDelete(w, t, i)
      PROVE  AccountsInv'
    BY <1>2, UserDeleteStep
<1>3. ASSUME NEW t \in tokens, NEW n \in Names, NEW e \in Addresses, NEW admin \in BOOLEAN,
             NEW pass \in BOOLEAN,
             \/ UserCreate(w, t, n, e, admin, pass)
             \/ \E i \in Ids : UserUpdate(w, t, i, n, e, admin, pass)
      PROVE  AccountsInv'
    BY <1>3, UserCreateStep, UserUpdateStep
<1>4. ASSUME NEW e \in Addresses, ResetPassword(w, e) \/ LoginByEmail(w, e) \/ MergeCheck(w, e)
      PROVE  AccountsInv'
    BY <1>4, ResetPasswordStep, LoginByEmailStep
<1>5. ASSUME NEW t \in tokens,
             \/ CommentLoggedIn(w, t) \/ UserInfoOfToken(w, t)
             \/ \E n \in Names : MergeApply(w, t, n)
      PROVE  AccountsInv'
    BY <1>5, CommentLoggedInStep, UserInfoOfTokenStep, MergeApplyStep
<1>6. ASSUME NEW x \in Identities, SocialAgain(w, x)
      PROVE  AccountsInv'
    BY <1>6, SocialAgainStep
<1>7. CASE VoteNameless(w)
    BY <1>7, VoteNamelessStep
<1> QED BY <1>1, <1>2, <1>3, <1>4, <1>5, <1>6, <1>7 DEF Begin

-----------------------------------------------------------------------------
(* Steps of a request                                                      *)

(* While requests follow one another the tables are those of the one that  *)
(* takes a step.                                                           *)
LEMMA InTurn ==
    ASSUME AccountsInv, plain, NEW w \in Requests, work[w].pc # "idle"
    PROVE  /\ \A v \in Requests : v # w => work[v] = Idle
           /\ Known(users, work) = RowsOf(users) \cup LostOf(work[w])
           /\ Ordered(users, RowsOf(users) \cup LostOf(work[w]), byId, byKey, byEmail, changed,
                      owner, nextId)
           /\ Copies(users, changed, byKey, byEmail, work[w])
<1>1. \A v \in Requests : v # w => work[v] = Idle
    BY IdleIs DEF AccountsInv, InOrder, Serial
<1>2. Known(users, work) = RowsOf(users) \cup LostOf(work[w])
    BY <1>1, KnownTurn
<1> QED BY <1>1, <1>2 DEF AccountsInv, InOrder

(* A step of one request: it is enough that its own state and the tables   *)
(* are in order afterwards.                                                *)
LEMMA WorkStep ==
    ASSUME AccountsInv, NEW w \in Requests, work[w].pc # "idle", NEW r, WorkOK(hour, r),
           work' \in [Requests -> Work], work'[w] = r,
           \A v \in Requests : v # w => work'[v] = work[v],
           UNCHANGED <<conf, hour, ops, expired, mixed>>, plain' \in BOOLEAN, plain' => plain,
           UsersOK(hour, users'), nextId' \in 1..(MaxId + 1), owner' \in OwnerTable,
           IdsOK(conf, hour, byId'), KeysOK(conf, hour, byKey'), MailsOK(conf, byEmail'),
           tokens' \subseteq Ids \X (1..MaxHour), mutex' \in [0..MaxId -> Requests \cup {Nil}],
           changed' \in [Ids -> 0..hour],
           plain' => /\ Ordered(users', RowsOf(users') \cup LostOf(r), byId', byKey', byEmail',
                                changed', owner', nextId')
                     /\ Copies(users', changed', byKey', byEmail', r)
    PROVE  AccountsInv'
<1>1. Shape'
    <2>1. \A v \in Requests : WorkOK(hour, work'[v])
        BY DEF AccountsInv, Shape
    <2> QED BY <2>1 DEF AccountsInv, Shape
<1>2. ASSUME plain'
      PROVE  /\ Serial(work')
             /\ Ordered(users', Known(users', work'), byId', byKey', byEmail', changed', owner',
                        nextId')
             /\ \A v \in Requests : Copies(users', changed', byKey', byEmail', work'[v])
    <2> PICK us : us = users'
        OBVIOUS
    <2> PICK wk : wk = work'
        OBVIOUS
    <2>1. \A v \in Requests : v # w => wk[v] = Idle
        BY <1>2, InTurn
    <2>2. Known(us, wk) = RowsOf(us) \cup LostOf(r)
        BY <2>1, KnownTurn
    <2>3. Copies(us, changed', byKey', byEmail', Idle)
        BY IdleIs, LightCopies
    <2> QED BY <1>2, <2>1, <2>2, <2>3 DEF Serial
<1> QED BY <1>1, <1>2 DEF AccountsInv, InOrder

(* A step that leaves users and their cache alone.                         *)
LEMMA QuietStep ==
    ASSUME AccountsInv, NEW w \in Requests, work[w].pc # "idle", NEW r, WorkOK(hour, r),
           work' \in [Requests -> Work], work'[w] = r,
           \A v \in Requests : v # w => work'[v] = work[v],
           UNCHANGED <<conf, hour, ops, expired, mixed, plain, users, nextId, cache, changed>>,
           owner' \in OwnerTable, tokens' \subseteq Ids \X (1..MaxHour),
           mutex' \in [0..MaxId -> Requests \cup {Nil}],
           plain => /\ LostOf(r) = LostOf(work[w])
                    /\ Attached(RowsOf(users) \cup LostOf(r), owner')
                    /\ Copies(users, changed, byKey, byEmail, r)
    PROVE  AccountsInv'
<1>1. /\ UsersOK(hour, users) /\ nextId \in 1..(MaxId + 1) /\ IdsOK(conf, hour, byId)
      /\ KeysOK(conf, hour, byKey) /\ MailsOK(conf, byEmail) /\ changed \in [Ids -> 0..hour]
      /\ plain \in BOOLEAN
    BY DEF AccountsInv, Shape
<1>2. plain => Ordered(users, RowsOf(users) \cup LostOf(r), byId, byKey, byEmail, changed, owner',
                       nextId)
    BY InTurn DEF Ordered
<1>3. /\ users' = users /\ nextId' = nextId /\ byId' = byId /\ byKey' = byKey
      /\ byEmail' = byEmail /\ changed' = changed /\ plain' = plain
    BY DEF cache
<1>4. UNCHANGED <<conf, hour, ops, expired, mixed>>
    OBVIOUS
<1>5. plain' => /\ Ordered(users', RowsOf(users') \cup LostOf(r), byId', byKey', byEmail',
                           changed', owner', nextId')
                /\ Copies(users', changed', byKey', byEmail', r)
    BY <1>2, <1>3
<1>6. /\ UsersOK(hour, users') /\ nextId' \in 1..(MaxId + 1) /\ IdsOK(conf, hour, byId')
      /\ KeysOK(conf, hour, byKey') /\ MailsOK(conf, byEmail') /\ changed' \in [Ids -> 0..hour]
      /\ plain' \in BOOLEAN /\ (plain' => plain)
    BY <1>1, <1>3
<1> QED BY <1>4, <1>5, <1>6, WorkStep

(* A request under way.                                                    *)
LEMMA WorkIs ==
    ASSUME AccountsInv, NEW w \in Requests, NEW r, r = work[w]
    PROVE  /\ r \in Work /\ WorkOK(hour, r) /\ Stage(r) /\ r.user \in Person(hour)
           /\ r.others \subseteq Person(hour) /\ work \in [Requests -> Work]
BY DEF AccountsInv, Shape, WorkOK

(* The shape of everything but the requests.                               *)
LEMMA RestIs ==
    ASSUME AccountsInv
    PROVE  /\ tokens \subseteq Ids \X (1..MaxHour) /\ owner \in OwnerTable
           /\ mutex \in [0..MaxId -> Requests \cup {Nil}] /\ changed \in [Ids -> 0..hour]
           /\ nextId \in 1..(MaxId + 1) /\ plain \in BOOLEAN
           /\ UsersOK(hour, users) /\ IdsOK(conf, hour, byId)
           /\ KeysOK(conf, hour, byKey) /\ MailsOK(conf, byEmail) /\ Shape
BY DEF AccountsInv, Shape

(* What belongs to somebody belongs to a user that is known.               *)
LEMMA AttachedNow ==
    ASSUME AccountsInv, plain, NEW w \in Requests, work[w].pc # "idle"
    PROVE  Attached(RowsOf(users) \cup LostOf(work[w]), owner)
BY InTurn DEF Ordered

(* A request that is done gives its lock back.                             *)
LEMMA DoneForm ==
    ASSUME AccountsInv, NEW w \in Requests, Done(w)
    PROVE  /\ work' \in [Requests -> Work] /\ work'[w] = Idle
           /\ \A v \in Requests : v # w => work'[v] = work[v]
           /\ mutex' \in [0..MaxId -> Requests \cup {Nil}]
<1> PICK wk : wk = work'
    OBVIOUS
<1> PICK mu : mu = mutex'
    OBVIOUS
<1>1. wk = [work EXCEPT ![w] = Idle]
    BY DEF Done
<1>2. Idle \in Work
    BY IdleIs
<1> HIDE DEF Idle
<1>3. wk \in [Requests -> Work] /\ wk[w] = Idle /\ \A v \in Requests : v # w => wk[v] = work[v]
    BY <1>1, <1>2, WorkIs
<1>4. mu = [i \in 0..MaxId |-> IF mutex[i] = w THEN Nil ELSE mutex[i]]
    BY DEF Done
<1>5. mu \in [0..MaxId -> Requests \cup {Nil}]
    BY <1>4, RestIs
<1> QED BY <1>3, <1>5

(* Requests that fail end, with tables and cache as they are.              *)
LEMMA EndStep ==
    ASSUME AccountsInv, NEW w \in Requests, work[w].pc \notin {"idle", "delRest"}, Done(w),
           UNCHANGED <<conf, hour, ops, expired, mixed, plain, users, nextId, cache, changed, owner,
                       tokens>>
    PROVE  AccountsInv'
<1>1. /\ work' \in [Requests -> Work] /\ work'[w] = Idle
      /\ \A v \in Requests : v # w => work'[v] = work[v]
      /\ mutex' \in [0..MaxId -> Requests \cup {Nil}]
    BY DoneForm
<1>2. WorkOK(hour, Idle) /\ Idle.pc = "idle"
    BY IdleOK, IdleIs, HourIs DEF AccountsInv
<1>3. Copies(users, changed, byKey, byEmail, Idle)
    BY IdleIs, LightCopies
<1>4. LostOf(Idle) = LostOf(work[w])
    BY <1>2 DEF LostOf
<1> HIDE DEF Idle
<1>5. plain => Attached(RowsOf(users) \cup LostOf(Idle), owner)
    BY <1>4, AttachedNow
<1>6. owner' \in OwnerTable /\ tokens' \subseteq Ids \X (1..MaxHour)
    BY RestIs
<1> QED BY <1>1, <1>2, <1>3, <1>4, <1>5, <1>6, QuietStep

(* One record changes.                                                     *)
LEMMA BecomesForm ==
    ASSUME AccountsInv, NEW w \in Requests, NEW r \in Work, work' = [work EXCEPT ![w] = r]
    PROVE  /\ work' \in [Requests -> Work] /\ work'[w] = r
           /\ \A v \in Requests : v # w => work'[v] = work[v]
BY WorkIs

(* Inserts and moves that fail.                                            *)
LEMMA FailingSteps ==
    ASSUME AccountsInv, NEW w \in Requests, InsertFails(w) \/ MoveFails(w)
    PROVE  AccountsInv'
<1>1. work[w].pc \notin {"idle", "delRest"}
    BY DEF InsertFails, MoveFails
<1>2. Done(w) /\ UNCHANGED <<conf, hour, ops, expired, mixed, plain, users, nextId, cache, changed,
                             owner, tokens>>
    BY DEF InsertFails, MoveFails, history
<1> HIDE DEF Done
<1> QED BY <1>1, <1>2, EndStep

(* A merge takes the lock of its user.                                     *)
LEMMA MergeLockStep ==
    ASSUME AccountsInv, NEW w \in Requests, MergeLock(w)
    PROVE  AccountsInv'
<1> PICK q : q = work[w]
    OBVIOUS
<1> PICK r : r = [q EXCEPT !.pc = "list"]
    OBVIOUS
<1>1. /\ q.pc = "lock" /\ work' = [work EXCEPT ![w] = r]
      /\ mutex' = [mutex EXCEPT ![q.user.id] = w]
      /\ UNCHANGED <<conf, hour, ops, expired, mixed, plain, users, nextId, cache, changed>>
      /\ owner' = owner /\ tokens' = tokens
    BY DEF MergeLock, Goto, history
<1>2. q \in Work /\ WorkOK(hour, q)
    BY WorkIs
<1>3. r \in Work /\ r.pc = "list" /\ r.op = q.op /\ r.user = q.user /\ r.others = q.others
    BY <1>2 DEF Work, Pcs
<1>4. WorkOK(hour, r)
    BY <1>1, <1>2, <1>3 DEF WorkOK, Stage
<1>5. /\ work' \in [Requests -> Work] /\ work'[w] = r
      /\ \A v \in Requests : v # w => work'[v] = work[v]
    BY <1>1, <1>3, BecomesForm
<1>6. mutex' \in [0..MaxId -> Requests \cup {Nil}]
    BY <1>1, RestIs
<1>7. LostOf(r) = LostOf(q)
    BY <1>1, <1>3 DEF LostOf
<1>8. Copies(users, changed, byKey, byEmail, r)
    BY <1>3 DEF Copies
<1>9. plain => Attached(RowsOf(users) \cup LostOf(r), owner')
    BY <1>1, <1>7, AttachedNow
<1>10. owner' \in OwnerTable /\ tokens' \subseteq Ids \X (1..MaxHour)
    BY <1>1, RestIs
<1> QED BY <1>1, <1>4, <1>5, <1>6, <1>7, <1>8, <1>9, <1>10, QuietStep

-----------------------------------------------------------------------------
(* Rows that are written and deleted                                       *)

RowPut(us, u) == [us EXCEPT ![u.id] = u]
RowDel(us, i) == [us EXCEPT ![i] = Zero]

(* A row is written.                                                       *)
LEMMA RowsPut ==
    ASSUME NEW h \in Nat, NEW us, UsersOK(h, us), NEW u \in Person(h), u.id # 0,
           NEW vs, vs = RowPut(us, u)
    PROVE  /\ UsersOK(h, vs)
           /\ RowsOf(vs) = {v \in RowsOf(us) : v.id # u.id} \cup {u}
           /\ \A i \in Ids : i # u.id => vs[i] = us[i]
<1>1. u.id \in Ids
    BY PersonIs
<1>2. vs \in [Ids -> Person(h)] /\ vs[u.id] = u /\ \A i \in Ids : i # u.id => vs[i] = us[i]
    BY <1>1 DEF UsersOK, RowPut
<1>3. UsersOK(h, vs)
    BY <1>1, <1>2 DEF UsersOK
<1>4. u \in RowsOf(vs)
    BY <1>1, <1>2 DEF RowsOf
<1>5. ASSUME NEW v, v.id # u.id
      PROVE  v \in RowsOf(vs) <=> v \in RowsOf(us)
    <2>1. v \in RowsOf(vs) => v.id \in Ids /\ v = vs[v.id] /\ v # Zero
        BY <1>3, RowIs
    <2>2. v \in RowsOf(us) => v.id \in Ids /\ v = us[v.id] /\ v # Zero
        BY RowIs
    <2>3. v.id \in Ids /\ v = us[v.id] /\ v # Zero => v \in RowsOf(us)
        BY RowAtId
    <2>4. v.id \in Ids /\ v = vs[v.id] /\ v # Zero => v \in RowsOf(vs)
        BY <1>3, RowAtId
    <2> QED BY <1>2, <1>5, <2>1, <2>2, <2>3, <2>4
<1>6. ASSUME NEW v \in RowsOf(vs), v.id = u.id
      PROVE  v = u
    BY <1>2, <1>3, <1>6, RowIs
<1> QED BY <1>2, <1>3, <1>4, <1>5, <1>6

(* A row is deleted.                                                       *)
LEMMA RowsDel ==
    ASSUME NEW h \in Nat, NEW us, UsersOK(h, us), NEW i \in Ids,
           NEW vs, vs = RowDel(us, i)
    PROVE  /\ UsersOK(h, vs)
           /\ RowsOf(vs) = {v \in RowsOf(us) : v.id # i}
           /\ vs[i] = Zero /\ \A j \in Ids : j # i => vs[j] = us[j]
<1>1. Zero \in Person(h)
    BY ZeroPerson
<1> HIDE DEF Zero
<1>2. vs \in [Ids -> Person(h)] /\ vs[i] = Zero /\ \A j \in Ids : j # i => vs[j] = us[j]
    BY <1>1 DEF UsersOK, RowDel
<1>3. UsersOK(h, vs)
    BY <1>2 DEF UsersOK
<1>4. ASSUME NEW v
      PROVE  v \in RowsOf(vs) <=> v \in RowsOf(us) /\ v.id # i
    <2>1. v \in RowsOf(vs) => v.id \in Ids /\ v = vs[v.id] /\ v # Zero
        BY <1>3, RowIs
    <2>2. v \in RowsOf(us) => v.id \in Ids /\ v = us[v.id] /\ v # Zero
        BY RowIs
    <2>3. v.id \in Ids /\ v = us[v.id] /\ v # Zero => v \in RowsOf(us)
        BY RowAtId
    <2>4. v.id \in Ids /\ v = vs[v.id] /\ v # Zero => v \in RowsOf(vs)
        BY <1>3, RowAtId
    <2> QED BY <1>2, <2>1, <2>2, <2>3, <2>4
<1> QED BY <1>2, <1>3, <1>4

(* A user is inserted under the next id.                                   *)
LEMMA OrderedInsert ==
    ASSUME NEW h \in Nat, NEW us, UsersOK(h, us), NEW f, NEW g, NEW m, NEW ch, NEW ow, NEW n,
           Ordered(us, RowsOf(us), f, g, m, ch, ow, n), n \in Ids,
           NEW u \in Person(h), u.id = n,
           NEW c \in BOOLEAN, c \/ \A j \in Ids : f[j] = Nil, c \/ \A k \in Keys : g[k] = Nil,
           NEW fs, \A j \in Ids : fs[j] = IF c /\ j = u.id THEN u ELSE f[j],
           NEW gs, \A k \in Keys : gs[k] = IF c /\ k = KeyOf(u) THEN u ELSE g[k],
           NEW cs, cs[n] = u.from, \A j \in Ids : j # n => cs[j] = ch[j],
           NEW vs, vs = RowPut(us, u)
    PROVE  /\ Ordered(vs, RowsOf(vs), fs, gs, m, cs, ow, n + 1)
           /\ RowsOf(vs) = RowsOf(us) \cup {u}
<1>1. n # 0 /\ n \in Nat
    BY Bounds DEF Ids
<1>2. /\ UsersOK(h, vs)
      /\ RowsOf(vs) = {v \in RowsOf(us) : v.id # u.id} \cup {u}
      /\ \A i \in Ids : i # u.id => vs[i] = us[i]
    BY <1>1, RowsPut
<1>3. us[n] = Zero
    BY <1>1 DEF Ordered, Unused
<1>4. \A v \in RowsOf(us) : v.id # n
    BY <1>3, RowIs
<1>5. RowsOf(vs) = RowsOf(us) \cup {u}
    BY <1>2, <1>4
<1>6. IdsFresh(vs, RowsOf(vs), fs)
    <2> SUFFICES ASSUME NEW i \in Ids PROVE OfId(vs, RowsOf(vs), i, fs[i])
        BY DEF IdsFresh
    <2>1. CASE i = n
        BY <2>1, <1>5 DEF OfId
    <2>2. CASE i # n
        <3>1. OfId(us, RowsOf(us), i, f[i]) /\ fs[i] = f[i] /\ vs[i] = us[i]
            BY <1>2, <2>2 DEF Ordered, IdsFresh
        <3> QED BY <3>1, <1>5 DEF OfId
    <2> QED BY <2>1, <2>2
<1>7. KeysFresh(vs, RowsOf(vs), gs)
    <2> SUFFICES ASSUME NEW k \in Keys PROVE OfKey(vs, RowsOf(vs), k, gs[k])
        BY DEF KeysFresh
    <2>1. CASE k = KeyOf(u)
        BY <2>1, <1>5 DEF OfKey
    <2>2. CASE k # KeyOf(u)
        <3>1. OfKey(us, RowsOf(us), k, g[k]) /\ gs[k] = g[k]
            BY <2>2 DEF Ordered, KeysFresh
        <3> QED BY <3>1, <2>2, <1>5 DEF OfKey
    <2> QED BY <2>1, <2>2
<1>8. MailsFresh(RowsOf(vs), m)
    <2> SUFFICES ASSUME NEW e \in Addresses, m[e] # Nil, NEW i \in m[e]
                 PROVE  \E v \in RowsOf(vs) : v.id = i /\ v.email = e
        BY DEF MailsFresh, OfMail
    <2>1. \E v \in RowsOf(us) : v.id = i /\ v.email = e
        BY DEF Ordered, MailsFresh, OfMail
    <2> QED BY <2>1, <1>5
<1>9. Recent(RowsOf(vs), cs)
    <2>1. \A v \in RowsOf(us) : v.id \in Ids /\ v.from >= ch[v.id]
        BY RowIs DEF Ordered, Recent
    <2>2. u.from \in Nat
        BY PersonIs
    <2>3. u.from >= cs[u.id]
        BY <2>2
    <2> QED BY <2>1, <2>3, <1>4, <1>5 DEF Recent
<1>10. Attached(RowsOf(vs), ow)
    BY <1>5 DEF Ordered, Attached
<1>11. Unused(vs, n + 1)
    <2> SUFFICES ASSUME NEW i \in Ids, i >= n + 1 PROVE vs[i] = Zero
        BY DEF Unused
    <2>1. i >= n /\ i # n
        BY <1>1 DEF Ids
    <2> QED BY <2>1, <1>2 DEF Ordered, Unused
<1> QED BY <1>5, <1>6, <1>7, <1>8, <1>9, <1>10, <1>11 DEF Ordered

(* The whole row of a user is written.                                     *)
LEMMA OrderedSave ==
    ASSUME NEW h \in Nat, NEW us, UsersOK(h, us), NEW f, NEW g, NEW m, NEW ch, NEW ow, NEW n,
           Ordered(us, RowsOf(us), f, g, m, ch, ow, n), n \in Nat,
           NEW r, SaveOK(us, ch, g, m, r), NEW u \in Person(h), u = r.user, u.id # 0,
           r.op \in {"comment", "register", "merge", "update", "profile"},
           r.op = "profile" => KeyOf(u) = KeyOf(us[u.id]),
           NEW c \in BOOLEAN, c \/ \A j \in Ids : f[j] = Nil, c \/ \A k \in Keys : g[k] = Nil,
           NEW fs, \A j \in Ids : fs[j] = IF c /\ j = u.id THEN u ELSE f[j],
           NEW gs, \A k \in Keys : gs[k] = IF c /\ k = KeyOf(u) THEN u ELSE g[k],
           NEW cs, cs[u.id] <= u.from, \A j \in Ids : j # u.id => cs[j] = ch[j],
           NEW vs, vs = RowPut(us, u)
    PROVE  /\ Ordered(vs, RowsOf(vs), fs, gs, m, cs, ow, n)
           /\ RowsOf(vs) = {v \in RowsOf(us) : v.id # u.id} \cup {u}
<1>1. /\ UsersOK(h, vs)
      /\ RowsOf(vs) = {v \in RowsOf(us) : v.id # u.id} \cup {u}
      /\ \A i \in Ids : i # u.id => vs[i] = us[i]
    BY RowsPut
<1>2. PICK o \in RowsOf(us) : o.id = u.id
    BY DEF SaveOK, Exists
<1>3. o = us[u.id] /\ u.id \in Ids
    BY <1>2, RowIs
<1>4. \A v \in RowsOf(us) : v.id = u.id => v = o
    BY <1>2, RowIs
<1>5. KeyOf(u) = KeyOf(o) \/ (g[KeyOf(o)] = Nil /\ m[o.email] = Nil)
    BY <1>2, <1>3 DEF SaveOK
<1>6. KeyOf(u) = KeyOf(o) => u.email = o.email
    BY DEF KeyOf
<1>7. IdsFresh(vs, RowsOf(vs), fs)
    <2> SUFFICES ASSUME NEW i \in Ids PROVE OfId(vs, RowsOf(vs), i, fs[i])
        BY DEF IdsFresh
    <2>1. CASE i = u.id
        BY <2>1, <1>1 DEF OfId
    <2>2. CASE i # u.id
        <3>1. OfId(us, RowsOf(us), i, f[i]) /\ fs[i] = f[i] /\ vs[i] = us[i]
            BY <1>1, <2>2 DEF Ordered, IdsFresh
        <3> QED BY <3>1, <2>2, <1>1 DEF OfId
    <2> QED BY <2>1, <2>2
<1>8. KeysFresh(vs, RowsOf(vs), gs)
    <2> SUFFICES ASSUME NEW k \in Keys PROVE OfKey(vs, RowsOf(vs), k, gs[k])
        BY DEF KeysFresh
    <2>1. CASE k = KeyOf(u)
        BY <2>1, <1>1 DEF OfKey
    <2>2. CASE k # KeyOf(u)
        <3>1. OfKey(us, RowsOf(us), k, g[k]) /\ gs[k] = g[k]
            BY <2>2 DEF Ordered, KeysFresh
        <3>2. g[k] \in RowsOf(us) /\ KeyOf(g[k]) = k => g[k].id # u.id \/ g[k] = Nil
            BY <1>4, <1>5, <2>2
        <3> QED BY <3>1, <3>2, <2>2, <1>1 DEF OfKey
    <2> QED BY <2>1, <2>2
<1>9. MailsFresh(RowsOf(vs), m)
    <2> SUFFICES ASSUME NEW e \in Addresses, m[e] # Nil, NEW i \in m[e]
                 PROVE  \E v \in RowsOf(vs) : v.id = i /\ v.email = e
        BY DEF MailsFresh, OfMail
    <2>1. PICK v \in RowsOf(us) : v.id = i /\ v.email = e
        BY DEF Ordered, MailsFresh, OfMail
    <2>2. CASE i = u.id
        <3>1. v = o
            BY <2>1, <2>2, <1>4
        <3>2. m[o.email] # Nil
            BY <2>1, <3>1
        <3> QED BY <2>1, <2>2, <3>1, <3>2, <1>1, <1>5, <1>6
    <2>3. CASE i # u.id
        BY <2>1, <2>3, <1>1
    <2> QED BY <2>2, <2>3
<1>10. Recent(RowsOf(vs), cs)
    <2>1. \A v \in RowsOf(us) : v.id \in Ids /\ v.from >= ch[v.id]
        BY RowIs DEF Ordered, Recent
    <2> QED BY <2>1, <1>1 DEF Recent
<1>11. Attached(RowsOf(vs), ow)
    <2> SUFFICES ASSUME NEW x \in Comments \cup Identities, ow[x] # Nil
                 PROVE  \E v \in RowsOf(vs) : v.id = ow[x]
        BY DEF Attached
    <2>1. PICK v \in RowsOf(us) : v.id = ow[x]
        BY DEF Ordered, Attached
    <2> QED BY <2>1, <1>1
<1>12. Unused(vs, n)
    <2> SUFFICES ASSUME NEW i \in Ids, i >= n PROVE vs[i] = Zero
        BY DEF Unused
    <2>1. us[i] = Zero
        BY DEF Ordered, Unused
    <2>2. i # u.id
        BY <1>2, <1>3, <2>1, RowIs
    <2> QED BY <2>1, <2>2, <1>1
<1> QED BY <1>1, <1>7, <1>8, <1>9, <1>10, <1>11, <1>12 DEF Ordered

(* A row is deleted; its user is still known.                              *)
LEMMA OrderedDelete ==
    ASSUME NEW h \in Nat, NEW us, UsersOK(h, us), NEW f, NEW g, NEW m, NEW ch, NEW ow, NEW n,
           Ordered(us, RowsOf(us), f, g, m, ch, ow, n),
           NEW u \in RowsOf(us), NEW vs, vs = RowDel(us, u.id)
    PROVE  Ordered(vs, RowsOf(vs) \cup {u}, f, g, m, ch, ow, n)
<1>1. u.id \in Ids /\ u = us[u.id]
    BY RowIs
<1>2. /\ RowsOf(vs) = {v \in RowsOf(us) : v.id # u.id}
      /\ vs[u.id] = Zero /\ \A j \in Ids : j # u.id => vs[j] = us[j]
    BY <1>1, RowsDel
<1>3. \A v \in RowsOf(us) : v.id = u.id => v = u
    BY <1>1, RowIs
<1>4. RowsOf(vs) \cup {u} = RowsOf(us) /\ RowsOf(vs) \subseteq RowsOf(us)
    BY <1>2, <1>3
<1> HIDE DEF Zero
<1>5. \A i \in Ids : us[i] = Zero => vs[i] = Zero
    BY <1>2
<1>6. IdsFresh(vs, RowsOf(us), f)
    BY <1>5 DEF Ordered, IdsFresh, OfId
<1>7. KeysFresh(vs, RowsOf(us), g)
    BY <1>4 DEF Ordered, KeysFresh, OfKey
<1>8. Unused(vs, n)
    BY <1>5 DEF Ordered, Unused
<1> QED BY <1>4, <1>6, <1>7, <1>8 DEF Ordered

(* The cache and the belongings of a deleted user go.                      *)
LEMMA OrderedRest ==
    ASSUME NEW us, NEW f, NEW g, NEW m, NEW ch, NEW ow, NEW n, NEW u,
           Ordered(us, RowsOf(us) \cup {u}, f, g, m, ch, ow, n),
           NEW c \in BOOLEAN, c \/ \A j \in Ids : f[j] = Nil, c \/ \A k \in Keys : g[k] = Nil,
           c \/ \A e \in Addresses : m[e] = Nil,
           NEW fs, \A j \in Ids : fs[j] = IF c /\ j = u.id THEN Nil ELSE f[j],
           NEW gs, \A k \in Keys : gs[k] = IF c /\ k = KeyOf(u) THEN Nil ELSE g[k],
           NEW ms, \A e \in Addresses : ms[e] = IF c /\ e = u.email THEN Nil ELSE m[e],
           NEW os, \A x \in Comments \cup Identities :
                       os[x] = Nil \/ (ow[x] # u.id /\ os[x] = ow[x])
    PROVE  Ordered(us, RowsOf(us), fs, gs, ms, ch, os, n)
<1>1. IdsFresh(us, RowsOf(us), fs)
    <2> SUFFICES ASSUME NEW i \in Ids PROVE OfId(us, RowsOf(us), i, fs[i])
        BY DEF IdsFresh
    <2>1. OfId(us, RowsOf(us) \cup {u}, i, f[i])
        BY DEF Ordered, IdsFresh
    <2> QED BY <2>1 DEF OfId
<1>2. KeysFresh(us, RowsOf(us), gs)
    <2> SUFFICES ASSUME NEW k \in Keys PROVE OfKey(us, RowsOf(us), k, gs[k])
        BY DEF KeysFresh
    <2>1. OfKey(us, RowsOf(us) \cup {u}, k, g[k])
        BY DEF Ordered, KeysFresh
    <2> QED BY <2>1 DEF OfKey
<1>3. MailsFresh(RowsOf(us), ms)
    <2> SUFFICES ASSUME NEW e \in Addresses PROVE OfMail(RowsOf(us), e, ms[e])
        BY DEF MailsFresh
    <2>1. OfMail(RowsOf(us) \cup {u}, e, m[e])
        BY DEF Ordered, MailsFresh
    <2> QED BY <2>1 DEF OfMail
<1>4. Recent(RowsOf(us), ch)
    BY DEF Ordered, Recent
<1>5. Attached(RowsOf(us), os)
    <2> SUFFICES ASSUME NEW x \in Comments \cup Identities, os[x] # Nil
                 PROVE  \E v \in RowsOf(us) : v.id = os[x]
        BY DEF Attached
    <2>1. ow[x] # Nil /\ ow[x] # u.id /\ os[x] = ow[x]
        OBVIOUS
    <2> QED BY <2>1 DEF Ordered, Attached
<1> QED BY <1>1, <1>2, <1>3, <1>4, <1>5 DEF Ordered

(* CreateUser caches what it inserts; Save what it writes.                 *)
LEMMA CacheSaveForm ==
    ASSUME AccountsInv, NEW u \in Person(hour), CacheSave(u)
    PROVE  /\ IdsOK(conf, hour, byId') /\ KeysOK(conf, hour, byKey')
           /\ \A j \in Ids : byId'[j] = IF conf.cached /\ j = u.id THEN u ELSE byId[j]
           /\ \A k \in Keys : byKey'[k] = IF conf.cached /\ k = KeyOf(u) THEN u ELSE byKey[k]
<1> PICK f : f = byId'
    OBVIOUS
<1> PICK g : g = byKey'
    OBVIOUS
<1>1. f = Put(byId, u.id, u) /\ g = Put(byKey, KeyOf(u), u)
    BY DEF CacheSave, KeyOf
<1>2. IdsOK(conf, hour, byId) /\ KeysOK(conf, hour, byKey)
    BY RestIs
<1>3. u.id \in {0, u.id}
    OBVIOUS
<1>4. /\ IdsOK(conf, hour, f)
      /\ \A j \in Ids : f[j] = IF conf.cached /\ j = u.id THEN u ELSE byId[j]
    BY <1>1, <1>2, <1>3, IdsPut
<1>5. /\ KeysOK(conf, hour, g)
      /\ \A j \in Keys : g[j] = IF conf.cached /\ j = KeyOf(u) THEN u ELSE byKey[j]
    BY <1>1, <1>2, KeysPut
<1> QED BY <1>4, <1>5

(* What a request does with the user it found or created.                  *)
LEMMA AfterIs ==
    ASSUME NEW h \in 1..MaxHour, hour = h, NEW r, WorkOK(h, r), r.pc \in {"findCreate", "create"},
           NEW u \in Person(h), u.id # 0, NEW q, q = After(r, u)
    PROVE  /\ WorkOK(h, q) /\ q.pc \notin {"delRest", "delRow", "findCreate", "create"}
           /\ \/ q = Idle
              \/ /\ q.user.id = u.id /\ KeyOf(q.user) = KeyOf(u)
                 /\ q.user.from \in {u.from, h}
                 /\ \A o \in q.others : o \in r.others /\ (q.op = "merge" => o.id # u.id)
                 /\ q.op = r.op /\ q.op # "update"
<1>1. r \in Work /\ u \in User /\ r.others \subseteq Person(h) /\ h \in 0..MaxHour
    BY PersonIs, Bounds DEF WorkOK
<1>0. r.op \notin {"merge", "delete"} => r.others = {}
    BY DEF WorkOK, Stage
<1>2. CASE r.op = "add"
    <2>1. q = Idle
        BY <1>2 DEF After
    <2>2. h \in Nat
        BY Bounds
    <2> QED BY <2>1, <2>2, IdleOK, IdleIs
<1>3. CASE r.op = "comment"
    <2>1. q = [r EXCEPT !.user = u, !.pc = IF conf.auth THEN "insert" ELSE "save"]
        BY <1>3 DEF After
    <2>2. /\ q \in Work /\ q.pc \in {"insert", "save"} /\ q.op = r.op /\ q.user = u
          /\ q.others = r.others
        BY <1>1, <2>1 DEF Work, Pcs
    <2>3. Stage(q)
        BY <1>0, <1>3, <2>2 DEF Stage
    <2> QED BY <1>3, <2>2, <2>3 DEF WorkOK
<1>4. CASE r.op = "register"
    <2> PICK v : v = [u EXCEPT !.from = h]
        OBVIOUS
    <2>1. v \in User /\ v.id = u.id /\ v.from = h /\ v.name = u.name /\ v.email = u.email
        BY <1>1 DEF User
    <2>2. h \in Int
        BY Bounds
    <2>3. v \in Person(h)
        <3>1. u.name \in Names /\ u.email \in Addresses
            BY DEF Person
        <3>2. v.from <= h
            BY <2>1, <2>2
        <3>3. v.name \in Names /\ v.email \in Addresses
            BY <2>1, <3>1
        <3> QED BY <2>1, <3>2, <3>3 DEF Person
    <2>4. q = [r EXCEPT !.user = v, !.pc = "save"]
        BY <1>4 DEF After
    <2>5. /\ q \in Work /\ q.pc = "save" /\ q.op = r.op /\ q.user = v /\ q.others = r.others
        BY <1>1, <2>1, <2>4 DEF Work, Pcs
    <2>6. Stage(q)
        BY <1>0, <1>4, <2>1, <2>5 DEF Stage
    <2> QED BY <1>4, <2>1, <2>3, <2>5, <2>6 DEF WorkOK, KeyOf
<1>5. CASE r.op = "sso"
    <2>1. q = [r EXCEPT !.user = u, !.pc = "token"]
        BY <1>5 DEF After
    <2>2. q \in Work /\ q.pc = "token" /\ q.op = r.op /\ q.user = u /\ q.others = r.others
        BY <1>1, <2>1 DEF Work, Pcs
    <2>3. Stage(q)
        BY <1>0, <1>5, <2>2 DEF Stage
    <2> QED BY <1>5, <2>2, <2>3 DEF WorkOK
<1>6. CASE r.op = "merge"
    <2> PICK a : a = (\E o \in r.others : o.admin)
        OBVIOUS
    <2> PICK v : v = [u EXCEPT !.admin = a]
        OBVIOUS
    <2> PICK os : os = {o \in r.others : o.id # u.id}
        OBVIOUS
    <2> PICK pc : pc = IF u.admin # a THEN "save" ELSE IF os = {} THEN "token" ELSE "move"
        OBVIOUS
    <2>1. a \in BOOLEAN
        OBVIOUS
    <2>2. v \in User /\ v.id = u.id /\ v.from = u.from /\ v.name = u.name /\ v.email = u.email
        BY <1>1, <2>1 DEF User
    <2>3. v \in Person(h)
        BY <2>2 DEF Person
    <2>4. q = [r EXCEPT !.user = v, !.others = os, !.pc = pc]
        BY <1>6 DEF After
    <2>5. pc \in {"save", "token", "move"} /\ pc \in Pcs
        BY DEF Pcs
    <2>6. os \subseteq User
        BY <1>1, PersonIs
    <2>7. q \in Work /\ q.pc = pc /\ q.op = r.op /\ q.user = v /\ q.others = os
        BY <1>1, <2>2, <2>4, <2>5, <2>6 DEF Work
    <2>8. Stage(q)
        BY <1>6, <2>2, <2>5, <2>7 DEF Stage
    <2>9. WorkOK(h, q)
        BY <1>1, <2>3, <2>7, <2>8 DEF WorkOK
    <2>10. \A o \in q.others : o \in r.others /\ o.id # u.id
        BY <2>7
    <2> QED BY <1>6, <2>2, <2>5, <2>7, <2>9, <2>10 DEF KeyOf
<1>7. CASE r.op \notin {"add", "comment", "register", "sso", "merge"}
    <2>1. q = [r EXCEPT !.user = u, !.pc = "insert"]
        BY <1>7 DEF After
    <2>2. q \in Work /\ q.pc = "insert" /\ q.op = r.op /\ q.user = u /\ q.others = r.others
          /\ q.item = r.item
        BY <1>1, <2>1 DEF Work, Pcs
    <2>3. r.op \in {"vote", "social", "gitea"}
        BY <1>7 DEF WorkOK, Stage, FindOpers
    <2>4. Stage(q)
        BY <1>0, <2>2, <2>3 DEF WorkOK, Stage
    <2> QED BY <2>2, <2>3, <2>4 DEF WorkOK
<1> QED BY <1>2, <1>3, <1>4, <1>5, <1>6, <1>7

(* Copies after the user is found.                                         *)
LEMMA AfterCopies ==
    ASSUME NEW h \in 1..MaxHour, hour = h, NEW r, WorkOK(h, r), r.pc \in {"findCreate", "create"},
           NEW u \in Person(h), u.id # 0, NEW q, q = After(r, u),
           NEW us, UsersOK(h, us), u \in RowsOf(us), NEW ch \in [Ids -> 0..h],
           u.from >= ch[u.id], r.pc = "findCreate" => r.others \subseteq RowsOf(us),
           NEW g, NEW m
    PROVE  Copies(us, ch, g, m, q)
<1>1. /\ WorkOK(h, q) /\ q.pc \notin {"delRest", "delRow", "findCreate", "create"}
      /\ \/ q = Idle
         \/ /\ q.user.id = u.id /\ KeyOf(q.user) = KeyOf(u)
            /\ q.user.from \in {u.from, h}
            /\ \A o \in q.others : o \in r.others /\ (q.op = "merge" => o.id # u.id)
            /\ q.op = r.op /\ q.op # "update"
    BY AfterIs
<1>2. CASE q = Idle
    BY <1>2, IdleIs, LightCopies
<1>3. CASE q # Idle
    <2>0. /\ r.op \notin {"merge", "delete"} => r.others = {}
          /\ r.op = "merge" => r.pc = "findCreate"
          /\ r.op # "delete"
        BY DEF WorkOK, Stage, FindOpers
    <2>1. /\ q.user.id = u.id /\ KeyOf(q.user) = KeyOf(u) /\ q.user.from \in {u.from, h}
          /\ \A o \in q.others : o \in RowsOf(us) /\ o.id # u.id
          /\ q.op # "update"
        BY <1>1, <1>3, <2>0
    <2>2. ch[u.id] \in 0..h /\ h \in Nat
        BY PersonIs, Bounds
    <2>3. q.user.from >= ch[u.id]
        BY <2>1, <2>2
    <2>4. Exists(us, q.user)
        BY <2>1 DEF Exists
    <2>5. \A v \in RowsOf(us) : v.id = u.id => v = u
        BY RowIs, <2>2
    <2>6. SaveOK(us, ch, g, m, q)
        BY <2>1, <2>3, <2>4, <2>5 DEF SaveOK
    <2>7. q.others \subseteq RowsOf(us)
        BY <2>1
    <2> QED BY <1>1, <2>4, <2>6, <2>7 DEF Copies
<1> QED BY <1>2, <1>3

(* A merge lists the users of its address, all of them with a row.         *)
LEMMA MergeListStep ==
    ASSUME AccountsInv, NEW w \in Requests, MergeList(w)
    PROVE  AccountsInv'
<1> PICK q : q = work[w]
    OBVIOUS
<1> PICK e : e = q.user.email
    OBVIOUS
<1> PICK s : s = FindUserIdsByEmail(e)
    OBVIOUS
<1> PICK os : os = FindUsersByEmail(e)
    OBVIOUS
<1>1. /\ q.pc = "list" /\ FillEmail(e)
      /\ IF s = {} THEN Done(w)
         ELSE /\ work' = [work EXCEPT ![w] = [q EXCEPT !.pc = "findCreate", !.email = e,
                                                       !.others = os]]
              /\ mutex' = mutex
      /\ UNCHANGED <<conf, hour, ops, expired, mixed, plain, users, nextId, changed, owner, tokens>>
      /\ byKey' = byKey
    BY DEF MergeList, history
<1>2. /\ q \in Work /\ WorkOK(hour, q) /\ q.user \in Person(hour) /\ q.op = "merge"
      /\ q.user.id # 0
    BY <1>1, WorkIs DEF Stage
<1>3. e \in Addresses
    BY <1>2, PersonIs
<1>4. IdCacheOK(byId') /\ MailCacheOK(byEmail')
    <2> HIDE DEF FillEmail
    <2> QED BY <1>1, <1>3, SeenMail
<1>5. IdsOK(conf, hour, byId') /\ MailsOK(conf, byEmail') /\ KeysOK(conf, hour, byKey')
    BY <1>1, <1>4, RestIs DEF IdCacheOK, MailCacheOK
<1>6. s \subseteq Ids /\ os = {FindUserByID(i) : i \in s}
    BY <1>3, IdsByMail DEF AccountsInv, FindUsersByEmail
<1>7. os \subseteq Person(hour) /\ os \subseteq User
    BY <1>6, ById, PersonIs DEF AccountsInv
<1>8. LostOf(q) = {}
    BY <1>1 DEF LostOf
<1>9. ASSUME plain
      PROVE  /\ Ordered(users, RowsOf(users), byId', byKey', byEmail', changed, owner, nextId)
             /\ os \subseteq RowsOf(users)
    <2> PICK K : K = RowsOf(users)
        OBVIOUS
    <2>1. /\ Known(users, work) = K
          /\ Ordered(users, K, byId, byKey, byEmail, changed, owner, nextId)
        BY <1>1, <1>8, <1>9, InTurn
    <2>2. IdsFresh(users, K, byId') /\ MailsFresh(K, byEmail')
        BY <1>4, <1>9, <2>1 DEF IdCacheOK, MailCacheOK
    <2>3. Ordered(users, K, byId', byKey', byEmail', changed, owner, nextId)
        BY <1>1, <2>1, <2>2 DEF Ordered
    <2>4. IdsFresh(users, K, byId) /\ MailsFresh(K, byEmail)
        BY <2>1 DEF Ordered
    <2>5. ASSUME NEW i \in s
          PROVE  FindUserByID(i) \in K
        <3>1. PICK u \in K : u.id = i
            BY <1>3, <2>4, <2>5, IdsByMailFresh DEF AccountsInv
        <3>2. u = users[i] /\ u # Zero /\ i \in Ids
            BY <3>1, RowIs, RestIs, HourIs
        <3> PICK v : v = FindUserByID(i)
            OBVIOUS
        <3>3. OfId(users, K, i, v)
            BY <2>4, <3>2, ByIdFresh DEF AccountsInv
        <3>4. v = Nil => v = users[i]
            BY DEF FindUserByID
        <3> QED BY <3>1, <3>2, <3>3, <3>4 DEF OfId
    <2> QED BY <1>6, <2>3, <2>5
<1>10. CASE s = {}
    <2>1. /\ work' \in [Requests -> Work] /\ work'[w] = Idle
          /\ \A v \in Requests : v # w => work'[v] = work[v]
          /\ mutex' \in [0..MaxId -> Requests \cup {Nil}]
        BY <1>1, <1>10, DoneForm
    <2>2. WorkOK(hour, Idle) /\ Idle.pc = "idle"
        BY IdleOK, IdleIs, HourIs DEF AccountsInv
    <2>3. Copies(users, changed, byKey', byEmail', Idle)
        BY IdleIs, LightCopies
    <2>4. LostOf(Idle) = {}
        BY <2>2 DEF LostOf
    <2> HIDE DEF Idle
    <2>5. /\ UNCHANGED <<conf, hour, ops, expired, mixed>> /\ plain' \in BOOLEAN
          /\ (plain' => plain) /\ UsersOK(hour, users') /\ nextId' \in 1..(MaxId + 1)
          /\ owner' \in OwnerTable
          /\ tokens' \subseteq Ids \X (1..MaxHour) /\ changed' \in [Ids -> 0..hour]
        BY <1>1, RestIs
    <2>6. plain' => /\ Ordered(users', RowsOf(users') \cup LostOf(Idle), byId', byKey', byEmail',
                               changed', owner', nextId')
                    /\ Copies(users', changed', byKey', byEmail', Idle)
        BY <1>1, <1>9, <2>3, <2>4
    <2>7. work[w].pc # "idle"
        BY <1>1
    <2> QED BY <1>5, <2>1, <2>2, <2>5, <2>6, <2>7, WorkStep
<1>11. CASE s # {}
    <2> PICK r : r = [q EXCEPT !.pc = "findCreate", !.email = e, !.others = os]
        OBVIOUS
    <2>1. /\ r \in Work /\ r.pc = "findCreate" /\ r.op = "merge" /\ r.email = e /\ r.others = os
          /\ r.name = q.name /\ r.user = q.user
        BY <1>2, <1>3, <1>7 DEF Work, Pcs
    <2>2. q.name \in Names
        BY <1>2, <1>1 DEF WorkOK, Stage
    <2>3. WorkOK(hour, r)
        BY <1>2, <1>3, <1>7, <2>1, <2>2 DEF WorkOK, Stage, FindOpers
    <2>4. work' = [work EXCEPT ![w] = r] /\ mutex' = mutex
        BY <1>1, <1>11
    <2>5. /\ work' \in [Requests -> Work] /\ work'[w] = r
          /\ \A v \in Requests : v # w => work'[v] = work[v]
        BY <2>1, <2>4, BecomesForm
    <2>6. LostOf(r) = {}
        BY <2>1 DEF LostOf
    <2>7. /\ UNCHANGED <<conf, hour, ops, expired, mixed>> /\ plain' \in BOOLEAN
          /\ (plain' => plain) /\ UsersOK(hour, users') /\ nextId' \in 1..(MaxId + 1)
          /\ owner' \in OwnerTable
          /\ tokens' \subseteq Ids \X (1..MaxHour) /\ changed' \in [Ids -> 0..hour]
          /\ mutex' \in [0..MaxId -> Requests \cup {Nil}]
        BY <1>1, <2>4, RestIs
    <2>8. plain => Copies(users, changed, byKey', byEmail', r)
        BY <1>9, <2>1 DEF Copies
    <2>9. plain' => /\ Ordered(users', RowsOf(users') \cup LostOf(r), byId', byKey', byEmail',
                               changed', owner', nextId')
                    /\ Copies(users', changed', byKey', byEmail', r)
        BY <1>1, <1>9, <2>6, <2>8
    <2>10. work[w].pc # "idle"
        BY <1>1
    <2> QED BY <1>5, <2>3, <2>5, <2>7, <2>9, <2>10, WorkStep
<1> QED BY <1>10, <1>11

(* CreateUser writes the row under the next id and caches it.              *)
LEMMA InsertionForm ==
    ASSUME AccountsInv, NEW u \in Person(hour), u.id = nextId, Insertion(u)
    PROVE  /\ UsersOK(hour, users') /\ u \in RowsOf(users') /\ nextId' \in 1..(MaxId + 1)
           /\ changed' \in [Ids -> 0..hour] /\ changed'[u.id] = u.from
           /\ IdsOK(conf, hour, byId') /\ KeysOK(conf, hour, byKey')
           /\ Ordered(users, RowsOf(users), byId, byKey, byEmail, changed, owner, nextId) =>
                /\ Ordered(users', RowsOf(users'), byId', byKey', byEmail, changed', owner, nextId')
                /\ RowsOf(users') = RowsOf(users) \cup {u}
<1> PICK n : n = nextId
    OBVIOUS
<1> PICK us : us = users
    OBVIOUS
<1> PICK vs : vs = users'
    OBVIOUS
<1> PICK cs : cs = changed'
    OBVIOUS
<1>1. /\ n <= MaxId /\ vs = [us EXCEPT ![n] = u] /\ nextId' = n + 1
      /\ cs = [changed EXCEPT ![n] = u.from] /\ CacheSave(u)
    BY DEF Insertion
<1>2. n \in 1..(MaxId + 1) /\ n \in Ids /\ n # 0 /\ n + 1 \in 1..(MaxId + 1)
    BY <1>1, Bounds, RestIs DEF Ids
<1>3. vs = RowPut(us, u)
    BY <1>1 DEF RowPut
<1>4. UsersOK(hour, us) /\ hour \in Nat
    BY RestIs, HourIs DEF AccountsInv
<1>5. UsersOK(hour, vs) /\ RowsOf(vs) = {v \in RowsOf(us) : v.id # u.id} \cup {u}
    BY <1>2, <1>3, <1>4, RowsPut
<1>6. u.from \in 0..hour
    BY <1>4, PersonIs
<1>7. cs \in [Ids -> 0..hour] /\ cs[n] = u.from /\ \A j \in Ids : j # n => cs[j] = changed[j]
    BY <1>1, <1>2, <1>6, RestIs
<1>8. /\ IdsOK(conf, hour, byId') /\ KeysOK(conf, hour, byKey')
      /\ \A j \in Ids : byId'[j] = IF conf.cached /\ j = u.id THEN u ELSE byId[j]
      /\ \A k \in Keys : byKey'[k] = IF conf.cached /\ k = KeyOf(u) THEN u ELSE byKey[k]
    BY <1>1, CacheSaveForm
<1>9. ASSUME Ordered(us, RowsOf(us), byId, byKey, byEmail, changed, owner, n)
      PROVE  /\ Ordered(vs, RowsOf(vs), byId', byKey', byEmail, cs, owner, n + 1)
             /\ RowsOf(vs) = RowsOf(us) \cup {u}
    <2>1. conf.cached \in BOOLEAN
        BY DEF AccountsInv, Shape
    <2>2. /\ conf.cached \/ \A j \in Ids : byId[j] = Nil
          /\ conf.cached \/ \A k \in Keys : byKey[k] = Nil
        BY RestIs DEF IdsOK, KeysOK
    <2> PICK f, g, fs, gs, c : f = byId /\ g = byKey /\ fs = byId' /\ gs = byKey' /\ c = conf.cached
        OBVIOUS
    <2>3. /\ Ordered(us, RowsOf(us), f, g, byEmail, changed, owner, n)
          /\ c \in BOOLEAN /\ (c \/ \A j \in Ids : f[j] = Nil) /\ (c \/ \A k \in Keys : g[k] = Nil)
          /\ \A j \in Ids : fs[j] = IF c /\ j = u.id THEN u ELSE f[j]
          /\ \A k \in Keys : gs[k] = IF c /\ k = KeyOf(u) THEN u ELSE g[k]
        BY <1>8, <1>9, <2>1, <2>2
    <2>4. u.id = n
        OBVIOUS
    <2>5. /\ Ordered(vs, RowsOf(vs), fs, gs, byEmail, cs, owner, n + 1)
          /\ RowsOf(vs) = RowsOf(us) \cup {u}
        BY ONLY <1>2, <1>3, <1>4, <1>7, <2>3, <2>4, u \in Person(hour), OrderedInsert, SMTT(60)
    <2> QED BY <2>5
<1> QED BY <1>1, <1>2, <1>5, <1>7, <1>8, <1>9

(* FindCreateUser finds a user, or inserts one.                            *)
LEMMA FoundStep ==
    ASSUME AccountsInv, NEW w \in Requests, FindCreateUser(w),
           FindUser(work[w].name, work[w].email).id # 0
    PROVE  AccountsInv'
<1> PICK q : q = work[w]
    OBVIOUS
<1> PICK u : u = FindUser(q.name, q.email)
    OBVIOUS
<1> PICK r : r = After(q, u)
    OBVIOUS
<1>1. /\ q.pc = "findCreate" /\ work' = [work EXCEPT ![w] = r]
      /\ byKey' = Put(byKey, <<q.name, q.email>>, FindUser(q.name, q.email))
      /\ byId' = byId /\ byEmail' = byEmail /\ mutex' = mutex
      /\ UNCHANGED <<conf, hour, ops, expired, mixed, plain, users, nextId, changed, owner, tokens>>
    BY DEF FindCreateUser, FillKey
<1>2. /\ q \in Work /\ WorkOK(hour, q) /\ q.name \in Names /\ q.email \in Addresses
    BY <1>1, WorkIs DEF Stage
<1>3. u \in Person(hour) /\ u.id # 0
    BY <1>2, ByKey DEF AccountsInv
<1>4. WorkOK(hour, r) /\ r.pc \notin {"delRest", "delRow", "findCreate", "create"}
    BY <1>1, <1>2, <1>3, AfterIs, HourIs DEF AccountsInv
<1>5. /\ work' \in [Requests -> Work] /\ work'[w] = r
      /\ \A v \in Requests : v # w => work'[v] = work[v]
    BY <1>1, <1>4, BecomesForm DEF WorkOK
<1>6. KeyCacheOK(byKey')
    BY <1>1, <1>2, SeenKey, CachesNow
<1>7. /\ UNCHANGED <<conf, hour, ops, expired, mixed>> /\ plain' \in BOOLEAN /\ (plain' => plain)
      /\ UsersOK(hour, users') /\ nextId' \in 1..(MaxId + 1) /\ owner' \in OwnerTable
      /\ tokens' \subseteq Ids \X (1..MaxHour) /\ changed' \in [Ids -> 0..hour]
      /\ mutex' \in [0..MaxId -> Requests \cup {Nil}]
      /\ IdsOK(conf, hour, byId') /\ KeysOK(conf, hour, byKey') /\ MailsOK(conf, byEmail')
    BY <1>1, <1>6, RestIs DEF KeyCacheOK
<1>8. ASSUME plain
      PROVE  /\ Ordered(users, RowsOf(users) \cup LostOf(r), byId, byKey', byEmail, changed, owner,
                        nextId)
             /\ Copies(users, changed, byKey', byEmail, r)
    <2> PICK K : K = RowsOf(users)
        OBVIOUS
    <2>1. LostOf(q) = {} /\ LostOf(r) = {}
        BY <1>1, <1>4 DEF LostOf
    <2>2. /\ Known(users, work) = K
          /\ Ordered(users, K, byId, byKey, byEmail, changed, owner, nextId)
          /\ Copies(users, changed, byKey, byEmail, q)
        BY <1>1, <1>8, <2>1, InTurn
    <2>3. Ordered(users, K, byId, byKey', byEmail, changed, owner, nextId)
        BY <1>6, <1>8, <2>2 DEF KeyCacheOK, Ordered
    <2>4. KeysFresh(users, K, byKey)
        BY <2>2 DEF Ordered
    <2>5. OfKey(users, K, <<q.name, q.email>>, u)
        BY <1>2, <2>4, ByKeyFresh DEF AccountsInv
    <2>6. u \in K
        <3> PICK k : k = <<q.name, q.email>>
            OBVIOUS
        <3>1. (u = byKey[k] /\ u # Nil) \/ u = Zero \/ u \in K
            BY <1>2, ByKey DEF AccountsInv
        <3>2. u # Zero
            BY <1>3, ZeroPerson, HourIs DEF AccountsInv
        <3> QED BY <2>5, <3>1, <3>2 DEF OfKey
    <2>7. u.from >= changed[u.id] /\ q.others \subseteq K
        BY <1>1, <2>2, <2>6 DEF Ordered, Recent, Copies
    <2>8. changed \in [Ids -> 0..hour] /\ UsersOK(hour, users) /\ hour \in 1..MaxHour
        BY RestIs, HourIs
    <2>9. Copies(users, changed, byKey', byEmail, r)
        BY <1>1, <1>2, <1>3, <2>6, <2>7, <2>8, AfterCopies
    <2> QED BY <2>1, <2>3, <2>9
<1>9. plain' => /\ Ordered(users', RowsOf(users') \cup LostOf(r), byId', byKey', byEmail',
                           changed', owner', nextId')
                /\ Copies(users', changed', byKey', byEmail', r)
    BY <1>1, <1>8
<1>10. work[w].pc # "idle"
    BY <1>1
<1> QED BY <1>4, <1>5, <1>7, <1>9, <1>10, WorkStep

(* A request that inserts a user goes on with it.                          *)
LEMMA InsertedStep ==
    ASSUME AccountsInv, NEW w \in Requests, work[w].pc \in {"findCreate", "create"},
           NEW u \in Person(hour), u.id = nextId, Insertion(u),
           work' = [work EXCEPT ![w] = After(work[w], u)],
           UNCHANGED <<conf, hour, owner, byEmail, tokens, mutex, ops, expired, plain, mixed>>
    PROVE  AccountsInv'
<1> PICK q : q = work[w]
    OBVIOUS
<1> PICK r : r = After(q, u)
    OBVIOUS
<1>1. /\ UsersOK(hour, users') /\ u \in RowsOf(users') /\ nextId' \in 1..(MaxId + 1)
      /\ changed' \in [Ids -> 0..hour] /\ changed'[u.id] = u.from
      /\ IdsOK(conf, hour, byId') /\ KeysOK(conf, hour, byKey')
      /\ Ordered(users, RowsOf(users), byId, byKey, byEmail, changed, owner, nextId) =>
           /\ Ordered(users', RowsOf(users'), byId', byKey', byEmail, changed', owner, nextId')
           /\ RowsOf(users') = RowsOf(users) \cup {u}
    BY InsertionForm
<1>2. WorkOK(hour, q) /\ q.pc \in {"findCreate", "create"}
    BY WorkIs
<1>3. u.id # 0
    BY RestIs, Bounds
<1>4. WorkOK(hour, r) /\ r.pc \notin {"delRest", "delRow", "findCreate", "create"}
    BY <1>2, <1>3, AfterIs, HourIs DEF AccountsInv
<1>5. /\ work' \in [Requests -> Work] /\ work'[w] = r
      /\ \A v \in Requests : v # w => work'[v] = work[v]
    BY <1>4, BecomesForm DEF WorkOK
<1>6. /\ UNCHANGED <<conf, hour, ops, expired, mixed>> /\ plain' \in BOOLEAN /\ (plain' => plain)
      /\ owner' \in OwnerTable /\ tokens' \subseteq Ids \X (1..MaxHour)
      /\ mutex' \in [0..MaxId -> Requests \cup {Nil}] /\ MailsOK(conf, byEmail')
    BY RestIs
<1>7. ASSUME plain
      PROVE  /\ Ordered(users', RowsOf(users') \cup LostOf(r), byId', byKey', byEmail, changed',
                        owner, nextId')
             /\ Copies(users', changed', byKey', byEmail, r)
    <2>1. LostOf(q) = {} /\ LostOf(r) = {}
        BY <1>2, <1>4 DEF LostOf
    <2>2. /\ Ordered(users, RowsOf(users), byId, byKey, byEmail, changed, owner, nextId)
          /\ Copies(users, changed, byKey, byEmail, q)
        BY <1>2, <1>7, <2>1, InTurn
    <2>3. q.pc = "findCreate" => q.others \subseteq RowsOf(users')
        BY <1>1, <2>2 DEF Copies
    <2>4. u.from >= changed'[u.id] /\ hour \in 1..MaxHour
        BY <1>1, PersonIs, HourIs DEF AccountsInv
    <2> PICK us, ch : us = users' /\ ch = changed'
        OBVIOUS
    <2>5. Copies(us, ch, byKey', byEmail, r)
        BY <1>1, <1>2, <1>3, <2>3, <2>4, AfterCopies
    <2> QED BY <1>1, <2>1, <2>2, <2>5
<1>8. plain' => /\ Ordered(users', RowsOf(users') \cup LostOf(r), byId', byKey', byEmail',
                           changed', owner', nextId')
                /\ Copies(users', changed', byKey', byEmail', r)
    BY <1>7
<1>9. work[w].pc # "idle"
    OBVIOUS
<1> QED BY <1>1, <1>4, <1>5, <1>6, <1>8, <1>9, WorkStep

(* FindCreateUser and CreateUser.                                          *)
LEMMA CreatingSteps ==
    ASSUME AccountsInv, NEW w \in Requests, FindCreateUser(w) \/ CreateUser(w)
    PROVE  AccountsInv'
<1> PICK q : q = work[w]
    OBVIOUS
<1>1. CASE FindCreateUser(w) /\ FindUser(q.name, q.email).id # 0
    BY <1>1, FoundStep
<1>2. CASE FindCreateUser(w) /\ FindUser(q.name, q.email).id = 0
    <2> PICK u : u = [Zero EXCEPT !.id = nextId, !.name = q.name, !.email = q.email]
        OBVIOUS
    <2>1. /\ q.pc = "findCreate" /\ Insertion(u) /\ work' = [work EXCEPT ![w] = After(q, u)]
          /\ UNCHANGED <<conf, hour, owner, byEmail, tokens, mutex, ops, expired, plain, mixed>>
        BY <1>2 DEF FindCreateUser
    <2>2. q.name \in Names /\ q.email \in Addresses
        BY <2>1, WorkIs DEF Stage
    <2>3. nextId \in 0..MaxId
        BY <2>1, RestIs, Bounds DEF Insertion
    <2>4. Zero \in User /\ Zero.from = 0
        BY ZeroPerson, HourIs DEF AccountsInv
    <2>5. u \in User /\ u.id = nextId /\ u.name = q.name /\ u.email = q.email /\ u.from = 0
        BY <2>2, <2>3, <2>4 DEF User
    <2>6. u.from <= hour
        BY <2>5, HourIs DEF AccountsInv
    <2>7. u \in Person(hour)
        BY <2>2, <2>5, <2>6 DEF Person
    <2> QED BY <2>1, <2>5, <2>7, InsertedStep
<1>3. CASE CreateUser(w)
    <2> PICK u : u = [q.user EXCEPT !.id = nextId]
        OBVIOUS
    <2>1. /\ q.pc = "create" /\ Insertion(u) /\ work' = [work EXCEPT ![w] = After(q, u)]
          /\ UNCHANGED <<conf, hour, owner, byEmail, tokens, mutex, ops, expired, plain, mixed>>
        BY <1>3 DEF CreateUser
    <2>2. q.user.name \in Names /\ q.user.email \in Addresses /\ q.user \in Person(hour)
        BY <2>1, WorkIs DEF Stage
    <2>3. nextId \in 0..MaxId
        BY <2>1, RestIs, Bounds DEF Insertion
    <2>4. q.user \in User /\ q.user.from <= hour
        BY <2>2, PersonIs
    <2>5. /\ u \in User /\ u.id = nextId /\ u.name = q.user.name /\ u.email = q.user.email
          /\ u.from = q.user.from
        BY <2>2, <2>3, <2>4 DEF User
    <2>6. u \in Person(hour)
        BY <2>2, <2>4, <2>5 DEF Person
    <2> QED BY <2>1, <2>5, <2>6, InsertedStep
<1> QED BY <1>1, <1>2, <1>3


(* What follows a save.                                                    *)
LEMMA AfterSaveIs ==
    ASSUME NEW h \in 1..MaxHour, NEW r, WorkOK(h, r), r.pc = "save", NEW ok \in BOOLEAN,
           NEW q, q = AfterSave(r, ok)
    PROVE  /\ WorkOK(h, q)
           /\ \/ q = Idle
              \/ q.pc \in {"insert", "token", "move"} /\ q.user = r.user /\ q.others = r.others
<1>1. r \in Work /\ r.user.id # 0 /\ r.op \in {"comment", "register", "merge", "update", "profile"}
    BY DEF WorkOK, Stage
<1>2. h \in Nat
    BY Bounds
<1>3. CASE r.op \in {"update", "profile"} \/ (r.op = "register" /\ ~ ok)
    <2>1. q = Idle
        BY <1>3 DEF AfterSave
    <2> QED BY <2>1, <1>2, IdleOK
<1>4. CASE r.op \in {"comment", "merge"} \/ (r.op = "register" /\ ok)
    <2> PICK pc \in {"insert", "token", "move"} :
                /\ r.op = "comment" => pc = "insert"
                /\ r.op = "merge" => pc = IF r.others = {} THEN "token" ELSE "move"
                /\ r.op = "register" => pc = "token"
        BY <1>4
    <2>1. q = [r EXCEPT !.pc = pc]
        <3>1. CASE r.op = "comment"
            BY <3>1 DEF AfterSave
        <3>2. CASE r.op = "merge"
            BY <3>2 DEF AfterSave
        <3>3. CASE r.op = "register" /\ ok
            BY <3>3 DEF AfterSave
        <3> QED BY <1>4, <3>1, <3>2, <3>3
    <2>2. pc \in Pcs
        BY DEF Pcs
    <2>3. /\ q \in Work /\ q.pc = pc /\ q.op = r.op /\ q.user = r.user /\ q.others = r.others
          /\ q.item = r.item
        BY <1>1, <2>1, <2>2 DEF Work
    <2>4. pc = "insert" => r.op = "comment"
        BY <1>4
    <2>5. pc = "move" => r.op = "merge"
        BY <1>4
    <2>6. pc = "token" => r.op \in {"register", "merge"}
        BY <1>4
    <2>7. Stage(q)
        BY <1>1, <2>3, <2>4, <2>5, <2>6 DEF WorkOK, Stage
    <2> QED BY <2>3, <2>7 DEF WorkOK
<1> QED BY <1>1, <1>3, <1>4

(* Save writes the whole row; if it fails only the cache changes, and      *)
(* requests no longer follow the plain order.                              *)
LEMMA UpdateStep ==
    ASSUME AccountsInv, NEW w \in Requests, NEW ok \in BOOLEAN, UpdateUser(w, ok)
    PROVE  AccountsInv'
<1> PICK q : q = work[w]
    OBVIOUS
<1> PICK u : u = q.user
    OBVIOUS
<1> PICK r : r = AfterSave(q, ok)
    OBVIOUS
<1>1. /\ q.pc = "save" /\ CacheSave(u) /\ work' = [work EXCEPT ![w] = r]
      /\ users' = IF ok THEN RowPut(users, u) ELSE users
      /\ changed' = IF ok /\ q.op \in {"register", "update"}
                    THEN [changed EXCEPT ![u.id] = Max({@, u.from})] ELSE changed
      /\ plain' = (plain /\ ok /\ ~ (q.op = "profile" /\ KeyOf(u) # KeyOf(users[u.id])))
      /\ UNCHANGED <<conf, hour, nextId, owner, byEmail, tokens, mutex, ops, expired, mixed>>
    BY DEF UpdateUser, RowPut, KeyOf
<1>2. /\ WorkOK(hour, q) /\ u \in Person(hour) /\ u.id # 0
      /\ q.op \in {"comment", "register", "merge", "update", "profile"}
    BY <1>1, WorkIs DEF Stage
<1>3. u.id \in Ids /\ u.from \in Nat /\ u.from <= hour /\ hour \in Nat
    BY <1>2, PersonIs, HourIs DEF AccountsInv
<1>4. /\ WorkOK(hour, r)
      /\ \/ r = Idle
         \/ r.pc \in {"insert", "token", "move"} /\ r.user = u /\ r.others = q.others
    BY <1>1, <1>2, AfterSaveIs, HourIs DEF AccountsInv
<1>5. /\ work' \in [Requests -> Work] /\ work'[w] = r
      /\ \A v \in Requests : v # w => work'[v] = work[v]
    BY <1>1, <1>4, BecomesForm DEF WorkOK
<1>6. UsersOK(hour, users')
    BY <1>1, <1>2, <1>3, RowsPut, RestIs
<1>7. /\ changed' \in [Ids -> 0..hour] /\ \A j \in Ids : j # u.id => changed'[j] = changed[j]
      /\ changed'[u.id] = changed[u.id] \/ changed'[u.id] = Max({changed[u.id], u.from})
    <2>1. changed[u.id] \in 0..hour /\ changed[u.id] \in Nat
        BY <1>3, RestIs
    <2>2. Max({changed[u.id], u.from}) \in 0..hour
        BY <1>3, <2>1, MaxOfTwo
    <2> QED BY <1>1, <1>3, <2>2, RestIs
<1>8. /\ IdsOK(conf, hour, byId') /\ KeysOK(conf, hour, byKey')
      /\ \A j \in Ids : byId'[j] = IF conf.cached /\ j = u.id THEN u ELSE byId[j]
      /\ \A k \in Keys : byKey'[k] = IF conf.cached /\ k = KeyOf(u) THEN u ELSE byKey[k]
    BY <1>1, <1>2, CacheSaveForm
<1>9. ASSUME plain'
      PROVE  /\ Ordered(users', RowsOf(users'), byId', byKey', byEmail, changed', owner, nextId)
             /\ RowsOf(users') = {v \in RowsOf(users) : v.id # u.id} \cup {u}
             /\ SaveOK(users, changed, byKey, byEmail, q) /\ q.others \subseteq RowsOf(users)
    <2>1. plain /\ ok /\ (q.op = "profile" => KeyOf(u) = KeyOf(users[u.id]))
        BY <1>1, <1>9
    <2>2. LostOf(q) = {}
        BY <1>1 DEF LostOf
    <2>3. /\ Ordered(users, RowsOf(users), byId, byKey, byEmail, changed, owner, nextId)
          /\ Copies(users, changed, byKey, byEmail, q)
        BY <1>1, <2>1, <2>2, InTurn
    <2>4. SaveOK(users, changed, byKey, byEmail, q) /\ q.others \subseteq RowsOf(users)
        BY <1>1, <2>3 DEF Copies
    <2>5. changed'[u.id] <= u.from
        <3>1. u.from >= changed[u.id]
            BY <2>4 DEF SaveOK
        <3>2. changed[u.id] \in Nat
            BY <1>3, RestIs
        <3> QED BY <1>3, <1>7, <3>1, <3>2, MaxOfTwo
    <2> PICK us, f, g, fs, gs, c, cs, vs, ch, m, ow, n :
             /\ us = users /\ vs = users' /\ f = byId /\ g = byKey /\ fs = byId' /\ gs = byKey'
             /\ c = conf.cached /\ cs = changed' /\ ch = changed /\ m = byEmail /\ ow = owner
             /\ n = nextId
        OBVIOUS
    <2>6. c \in BOOLEAN
        BY DEF AccountsInv, Shape
    <2>7. (c \/ \A j \in Ids : f[j] = Nil) /\ (c \/ \A k \in Keys : g[k] = Nil)
        BY RestIs DEF IdsOK, KeysOK
    <2>8. UsersOK(hour, us) /\ n \in Nat /\ vs = RowPut(us, u)
        BY <1>1, <2>1, RestIs
    <2>9. /\ Ordered(us, RowsOf(us), f, g, m, ch, ow, n) /\ SaveOK(us, ch, g, m, q)
          /\ (q.op = "profile" => KeyOf(u) = KeyOf(us[u.id]))
          /\ \A j \in Ids : fs[j] = IF c /\ j = u.id THEN u ELSE f[j]
          /\ \A k \in Keys : gs[k] = IF c /\ k = KeyOf(u) THEN u ELSE g[k]
          /\ cs[u.id] <= u.from /\ \A j \in Ids : j # u.id => cs[j] = ch[j]
        BY <1>7, <1>8, <2>1, <2>3, <2>4, <2>5
    <2>10. /\ Ordered(vs, RowsOf(vs), fs, gs, m, cs, ow, n)
           /\ RowsOf(vs) = {v \in RowsOf(us) : v.id # u.id} \cup {u}
        BY ONLY <1>2, <1>3, <2>6, <2>7, <2>8, <2>9, u = q.user, OrderedSave, SMTT(60)
    <2> QED BY <2>4, <2>10
<1>10. ASSUME plain'
       PROVE  /\ Ordered(users', RowsOf(users') \cup LostOf(r), byId', byKey', byEmail', changed',
                         owner', nextId')
              /\ Copies(users', changed', byKey', byEmail', r)
    <2>1. LostOf(r) = {}
        BY <1>4, IdleIs DEF LostOf
    <2>2. Ordered(users', RowsOf(users'), byId', byKey', byEmail', changed', owner', nextId')
        BY <1>1, <1>9, <1>10
    <2> PICK us, ch, g, m : us = users' /\ ch = changed' /\ g = byKey' /\ m = byEmail'
        OBVIOUS
    <2>3. Copies(us, ch, g, m, Idle)
        BY IdleIs, LightCopies
    <2>4. RowsOf(us) = {v \in RowsOf(users) : v.id # u.id} \cup {u}
        BY <1>9, <1>10
    <2>5. \A o \in q.others : o \in RowsOf(us)
        BY <1>9, <1>10, <2>4 DEF SaveOK
    <2>6. u \in RowsOf(us)
        BY <2>4
    <2>7. r = Idle \/ Copies(us, ch, g, m, r)
        BY <1>4, <2>5, <2>6 DEF Copies, Exists
    <2> QED BY <2>1, <2>2, <2>3, <2>7
<1>11. /\ UNCHANGED <<conf, hour, ops, expired, mixed>> /\ plain' \in BOOLEAN /\ (plain' => plain)
       /\ nextId' \in 1..(MaxId + 1) /\ owner' \in OwnerTable
       /\ tokens' \subseteq Ids \X (1..MaxHour)
       /\ mutex' \in [0..MaxId -> Requests \cup {Nil}] /\ MailsOK(conf, byEmail')
    BY <1>1, RestIs
<1>12. work[w].pc # "idle"
    BY <1>1
<1> QED BY <1>4, <1>5, <1>6, <1>7, <1>8, <1>10, <1>11, <1>12, WorkStep

(* The new comment, vote or identity belongs to the user it is for; a vote *)
(* may belong to nobody.                                                   *)
LEMMA InsertItemStep ==
    ASSUME AccountsInv, NEW w \in Requests, NEW x \in Items, InsertItem(w, x)
    PROVE  AccountsInv'
<1> PICK q : q = work[w]
    OBVIOUS
<1> PICK r : r = IF q.op \in {"social", "gitea"} THEN [q EXCEPT !.pc = "token"] ELSE Idle
    OBVIOUS
<1>1. /\ q.pc = "insert" /\ work' = [work EXCEPT ![w] = r]
      /\ owner' = IF owner[x] = Nil THEN [owner EXCEPT ![x] = q.user.id] ELSE owner
      /\ mutex' = mutex /\ tokens' = tokens
      /\ UNCHANGED <<conf, hour, ops, expired, mixed, plain, users, nextId, cache, changed>>
    BY DEF InsertItem, history
<1>2. CASE q.op = "vote" => x \in Ballots
    <2>1. /\ q \in Work /\ WorkOK(hour, q) /\ q.op \in {"comment", "vote", "social", "gitea"}
          /\ q.user \in Person(hour) /\ (q.op # "vote" => q.user.id # 0)
        BY <1>1, WorkIs DEF Stage
    <2>2. q.user.id \in 0..MaxId
        BY <2>1, PersonIs
    <2>3. WorkOK(hour, r) /\ r \in Work /\ r.pc \in {"idle", "token"}
        <3>1. CASE q.op \in {"social", "gitea"}
            <4>1. /\ r \in Work /\ r.pc = "token" /\ r.op = q.op /\ r.user = q.user
                  /\ r.others = q.others /\ r.item = q.item
                BY <2>1, <3>1 DEF Work, Pcs
            <4>2. Stage(r)
                BY <2>1, <3>1, <4>1 DEF WorkOK, Stage
            <4> QED BY <2>1, <4>1, <4>2 DEF WorkOK
        <3>2. CASE q.op \notin {"social", "gitea"}
            <4>1. r = Idle
                BY <3>2
            <4> QED BY <4>1, IdleOK, IdleIs, HourIs DEF AccountsInv
        <3> QED BY <3>1, <3>2
    <2>4. /\ work' \in [Requests -> Work] /\ work'[w] = r
          /\ \A v \in Requests : v # w => work'[v] = work[v]
        BY <1>1, <2>3, BecomesForm
    <2>5. /\ owner' \in OwnerTable
          /\ \A y \in Items : owner'[y] = IF y = x /\ owner[x] = Nil THEN q.user.id ELSE owner[y]
        BY <1>1, <2>2, RestIs DEF OwnerTable
    <2>6. LostOf(r) = LostOf(q)
        BY <1>1, <2>3 DEF LostOf
    <2>7. ASSUME plain
          PROVE  Attached(RowsOf(users) \cup LostOf(r), owner')
        <3>1. LostOf(r) = {}
            BY <2>3 DEF LostOf
        <3>2. Attached(RowsOf(users), owner)
            BY <1>1, <2>6, <2>7, <3>1, AttachedNow
        <3>3. q.op # "vote" => \E u \in RowsOf(users) : u.id = q.user.id
            BY <1>1, <2>7, InTurn DEF Copies, Exists
        <3>4. \A y \in Comments \cup Identities : y \in Items /\ y \notin Ballots
            BY Bounds DEF Items
        <3>5. ASSUME NEW y \in Comments \cup Identities, owner'[y] # Nil
              PROVE  \E u \in RowsOf(users) : u.id = owner'[y]
            <4>1. CASE y = x /\ owner[x] = Nil
                BY <1>2, <2>5, <3>3, <3>4, <4>1
            <4>2. CASE ~ (y = x /\ owner[x] = Nil)
                BY <2>5, <3>2, <3>4, <3>5, <4>2 DEF Attached
            <4> QED BY <4>1, <4>2
        <3> QED BY <3>1, <3>5 DEF Attached
    <2>8. Copies(users, changed, byKey, byEmail, r)
        BY <2>3 DEF Copies
    <2>9. tokens' \subseteq Ids \X (1..MaxHour) /\ mutex' \in [0..MaxId -> Requests \cup {Nil}]
        BY <1>1, RestIs
    <2>10. work[w].pc # "idle"
        BY <1>1
    <2> QED BY <1>1, <2>3, <2>4, <2>5, <2>6, <2>7, <2>8, <2>9, <2>10, QuietStep
<1>3. q.op = "vote" => x \in Ballots
    BY DEF InsertItem
<1> QED BY <1>2, <1>3

(* A token is given out, and the request is done.                          *)
LEMMA TokenStep ==
    ASSUME AccountsInv, NEW w \in Requests, Token(w)
    PROVE  AccountsInv'
<1> PICK q : q = work[w]
    OBVIOUS
<1> PICK i : i = q.user.id
    OBVIOUS
<1> PICK s : s = (q.op \in {"social", "gitea"})
    OBVIOUS
<1> PICK u : u = IF s THEN FindUserByID(i) ELSE q.user
    OBVIOUS
<1>1. /\ q.pc = "token" /\ Done(w) /\ byKey' = byKey /\ byEmail' = byEmail
      /\ byId' = IF s THEN Put(byId, i, FindUserByID(i)) ELSE byId
      /\ tokens' = IF u.id = 0 THEN tokens ELSE tokens \cup {<<u.id, hour>>}
      /\ UNCHANGED <<conf, hour, ops, expired, mixed, plain, users, nextId, changed, owner>>
    BY DEF Token, history
<1>2. q.user \in Person(hour) /\ i # 0 /\ i \in Ids
    BY <1>1, WorkIs, PersonIs DEF Stage
<1>3. u \in Person(hour)
    BY <1>2, ById DEF AccountsInv
<1>4. tokens' \subseteq Ids \X (1..MaxHour)
    BY <1>1, <1>3, GoodTokens DEF AccountsInv
<1>5. IdCacheOK(byId')
    BY <1>1, <1>2, SeenId, CachesNow
<1>6. /\ work' \in [Requests -> Work] /\ work'[w] = Idle
      /\ \A v \in Requests : v # w => work'[v] = work[v]
      /\ mutex' \in [0..MaxId -> Requests \cup {Nil}]
    <2> HIDE DEF Done
    <2> QED BY <1>1, DoneForm
<1>7. WorkOK(hour, Idle) /\ Idle.pc = "idle"
    BY IdleOK, IdleIs, HourIs DEF AccountsInv
<1>8. Copies(users, changed, byKey, byEmail, Idle)
    BY IdleIs, LightCopies
<1>9. LostOf(Idle) = {} /\ LostOf(q) = {}
    BY <1>1, <1>7 DEF LostOf
<1> HIDE DEF Idle
<1>10. ASSUME plain
       PROVE  Ordered(users, RowsOf(users), byId', byKey, byEmail, changed, owner, nextId)
    <2>1. /\ Known(users, work) = RowsOf(users)
          /\ Ordered(users, RowsOf(users), byId, byKey, byEmail, changed, owner, nextId)
        BY <1>1, <1>9, <1>10, InTurn
    <2>2. IdsFresh(users, RowsOf(users), byId')
        BY <1>5, <1>10, <2>1 DEF IdCacheOK
    <2> QED BY <2>1, <2>2 DEF Ordered
<1>11. plain' => /\ Ordered(users', RowsOf(users') \cup LostOf(Idle), byId', byKey', byEmail',
                            changed', owner', nextId')
                 /\ Copies(users', changed', byKey', byEmail', Idle)
    BY <1>1, <1>8, <1>9, <1>10
<1>12. /\ UNCHANGED <<conf, hour, ops, expired, mixed>> /\ plain' \in BOOLEAN /\ (plain' => plain)
       /\ UsersOK(hour, users') /\ nextId' \in 1..(MaxId + 1) /\ owner' \in OwnerTable
       /\ IdsOK(conf, hour, byId') /\ KeysOK(conf, hour, byKey') /\ MailsOK(conf, byEmail')
       /\ changed' \in [Ids -> 0..hour]
    BY <1>1, <1>5, RestIs DEF IdCacheOK
<1>13. work[w].pc # "idle"
    BY <1>1
<1> QED BY <1>4, <1>6, <1>7, <1>11, <1>12, <1>13, WorkStep

(* The statement of a merge moves what it moves to a user that exists.     *)
LEMMA MoveStep ==
    ASSUME AccountsInv, NEW w \in Requests, Move(w)
    PROVE  AccountsInv'
<1> PICK q : q = work[w]
    OBVIOUS
<1> PICK b : b = IF q.done = 0 THEN owner ELSE q.before
    OBVIOUS
<1> PICK pc \in {"delRow", "move"} :
           pc = IF q.done + 1 = 3 * Len(OtherIds(q)) THEN "delRow" ELSE "move"
    OBVIOUS
<1> PICK r : r = [q EXCEPT !.done = @ + 1, !.before = b, !.pc = pc]
    OBVIOUS
<1>1. /\ q.pc = "move" /\ owner' = Moved(q)
      /\ work' = [work EXCEPT ![w] = r]
      /\ mutex' = mutex /\ tokens' = tokens
      /\ UNCHANGED <<conf, hour, ops, expired, mixed, plain, users, nextId, cache, changed>>
    BY WorkIs DEF Move, history
<1>2. /\ q \in Work /\ WorkOK(hour, q) /\ q.op = "merge"
      /\ q.user \in Person(hour) /\ q.user.id # 0
    BY <1>1, WorkIs DEF Stage
<1>3. q.user.id \in 0..MaxId
    BY <1>2, PersonIs
<1>4. /\ r \in Work /\ r.pc = pc /\ r.op = q.op /\ r.user = q.user /\ r.others = q.others
      /\ r.item = q.item
    <2>1. pc \in Pcs
        BY DEF Pcs
    <2>2. q.before \in [Items -> 0..MaxId \cup {Nil}] /\ q.done \in Nat
        BY <1>2 DEF Work
    <2>3. b \in [Items -> 0..MaxId \cup {Nil}] /\ q.done + 1 \in Nat
        BY <2>2, RestIs DEF OwnerTable
    <2> PICK d : d = q.done + 1
        OBVIOUS
    <2>4. r = [q EXCEPT !.done = d, !.before = b, !.pc = pc]
        OBVIOUS
    <2>5. q \in Work /\ d \in Nat /\ b \in [Items -> 0..MaxId \cup {Nil}] /\ pc \in Pcs
        BY <1>2, <2>1, <2>3
    <2>6. r \in Work
        BY ONLY <2>4, <2>5 DEF Work
    <2>7. /\ r.pc = pc /\ r.op = q.op /\ r.user = q.user /\ r.others = q.others
          /\ r.item = q.item
        BY ONLY <2>4, <2>5 DEF Work
    <2> QED BY <2>6, <2>7
<1>5. WorkOK(hour, r)
    <2>1. Stage(r)
        BY <1>2, <1>4 DEF WorkOK, Stage
    <2> QED BY <1>2, <1>4, <2>1 DEF WorkOK
<1>6. /\ work' \in [Requests -> Work] /\ work'[w] = r
      /\ \A v \in Requests : v # w => work'[v] = work[v]
    BY <1>1, <1>4, BecomesForm
<1>7. \A x \in Items : owner'[x] = q.user.id \/ owner'[x] = owner[x]
    BY <1>1 DEF Moved
<1>8. owner' \in OwnerTable
    <2>1. \A x \in Items : owner[x] \in 0..MaxId \cup {Nil}
        BY RestIs DEF OwnerTable
    <2>2. owner' = [x \in Items |-> owner'[x]]
        BY <1>1 DEF Moved
    <2>3. \A x \in Items : owner'[x] \in 0..MaxId \cup {Nil}
        BY <1>3, <1>7, <2>1
    <2> QED BY <2>2, <2>3 DEF OwnerTable
<1>9. LostOf(r) = {} /\ LostOf(q) = {}
    BY <1>1, <1>4 DEF LostOf
<1>10. ASSUME plain
       PROVE  /\ Attached(RowsOf(users) \cup LostOf(r), owner')
              /\ Copies(users, changed, byKey, byEmail, r)
    <2>1. Copies(users, changed, byKey, byEmail, q) /\ Attached(RowsOf(users), owner)
        BY <1>1, <1>9, <1>10, InTurn, AttachedNow
    <2>2. Exists(users, q.user) /\ q.others \subseteq RowsOf(users)
        BY <1>1, <2>1 DEF Copies
    <2>3. Attached(RowsOf(users), owner')
        BY <1>7, <2>1, <2>2 DEF Attached, Exists, Items
    <2>4. Copies(users, changed, byKey, byEmail, r)
        BY <1>4, <2>2 DEF Copies
    <2> QED BY <1>9, <2>3, <2>4
<1>11. tokens' \subseteq Ids \X (1..MaxHour) /\ mutex' \in [0..MaxId -> Requests \cup {Nil}]
    BY <1>1, RestIs
<1>12. work[w].pc # "idle"
    BY <1>1
<1> QED BY <1>1, <1>5, <1>6, <1>8, <1>9, <1>10, <1>11, <1>12, QuietStep

-----------------------------------------------------------------------------
(* Deletions                                                               *)

(* A deletion goes on with the next user, or is done.                      *)
LEMMA FinishIs ==
    ASSUME AccountsInv, NEW w \in Requests, work[w].pc \in {"delRow", "delRest"}, NEW u,
           Finish(w, u)
    PROVE  \E r \in Work :
             /\ WorkOK(hour, r) /\ r.pc \in {"idle", "delRow", "token"}
             /\ r.others \subseteq work[w].others \ {u}
             /\ work' \in [Requests -> Work] /\ work'[w] = r
             /\ \A v \in Requests : v # w => work'[v] = work[v]
             /\ mutex' \in [0..MaxId -> Requests \cup {Nil}]
<1> PICK q : q = work[w]
    OBVIOUS
<1>1. /\ q \in Work /\ WorkOK(hour, q) /\ q.others \subseteq Person(hour) /\ q.others \subseteq User
      /\ q.op \in {"delete", "merge"} /\ (q.op = "merge" => q.user.id # 0)
    <2>1. q \in Work /\ WorkOK(hour, q) /\ q.others \subseteq Person(hour)
        BY WorkIs
    <2>2. q.op \in {"delete", "merge"} /\ (q.op = "merge" => q.user.id # 0)
        BY WorkIs DEF Stage
    <2> QED BY <2>1, <2>2, PersonIs
<1>2. CASE q.others # {u}
    <2> PICK os : os = q.others \ {u}
        OBVIOUS
    <2> PICK r : r = [q EXCEPT !.others = os, !.pc = "delRow"]
        OBVIOUS
    <2>1. work' = [work EXCEPT ![w] = r] /\ mutex' = mutex
        BY <1>2, WorkIs DEF Finish
    <2>2. /\ r \in Work /\ r.pc = "delRow" /\ r.op = q.op /\ r.user = q.user /\ r.others = os
          /\ r.item = q.item
        BY <1>1 DEF Work, Pcs
    <2>3. Stage(r)
        BY <1>1, <2>2 DEF Stage
    <2>4. WorkOK(hour, r)
        BY <1>1, <2>2, <2>3 DEF WorkOK
    <2>5. /\ work' \in [Requests -> Work] /\ work'[w] = r
          /\ \A v \in Requests : v # w => work'[v] = work[v]
        BY <2>1, <2>2, BecomesForm
    <2> QED BY <2>1, <2>2, <2>4, <2>5, RestIs
<1>3. CASE q.others = {u} /\ q.op = "merge"
    <2> PICK r : r = [q EXCEPT !.others = {}, !.pc = "token"]
        OBVIOUS
    <2>1. work' = [work EXCEPT ![w] = r] /\ mutex' = mutex
        BY <1>3, WorkIs DEF Finish
    <2>2. /\ r \in Work /\ r.pc = "token" /\ r.op = q.op /\ r.user = q.user /\ r.others = {}
          /\ r.item = q.item
        BY <1>1 DEF Work, Pcs
    <2>3. Stage(r)
        BY <1>1, <1>3, <2>2 DEF Stage
    <2>4. WorkOK(hour, r)
        BY <1>1, <2>2, <2>3 DEF WorkOK
    <2>5. /\ work' \in [Requests -> Work] /\ work'[w] = r
          /\ \A v \in Requests : v # w => work'[v] = work[v]
        BY <2>1, <2>2, BecomesForm
    <2> QED BY <2>1, <2>2, <2>4, <2>5, RestIs
<1>4. CASE q.others = {u} /\ q.op # "merge"
    <2>1. Done(w)
        BY <1>4 DEF Finish
    <2> HIDE DEF Done
    <2>2. /\ work' \in [Requests -> Work] /\ work'[w] = Idle
          /\ \A v \in Requests : v # w => work'[v] = work[v]
          /\ mutex' \in [0..MaxId -> Requests \cup {Nil}]
        BY <2>1, DoneForm
    <2>3. WorkOK(hour, Idle) /\ Idle \in Work /\ Idle.pc = "idle" /\ Idle.others = {}
        BY IdleOK, IdleIs, HourIs DEF AccountsInv
    <2> HIDE DEF Idle
    <2> QED BY <2>2, <2>3
<1> QED BY <1>2, <1>3, <1>4

(* The row goes; the user stays known until the rest is done.              *)
LEMMA DelUserStep ==
    ASSUME AccountsInv, NEW w \in Requests, DelUser(w)
    PROVE  AccountsInv'
<1> PICK q : q = work[w]
    OBVIOUS
<1> PICK u : u = First(q.others)
    OBVIOUS
<1> PICK r : r = [q EXCEPT !.pc = "delRest"]
    OBVIOUS
<1>1. /\ q.pc = "delRow" /\ u.id # 0 /\ users' = RowDel(users, u.id)
      /\ work' = [work EXCEPT ![w] = r]
      /\ UNCHANGED <<conf, hour, nextId, owner, byId, byKey, byEmail, tokens, mutex, ops, expired,
                     changed, plain, mixed>>
    BY DEF DelUser, Goto, RowDel, history, cache
<1>2. q \in Work /\ WorkOK(hour, q) /\ q.others \subseteq Person(hour) /\ q.others \subseteq User
    <2>1. q \in Work /\ WorkOK(hour, q) /\ q.others \subseteq Person(hour)
        BY WorkIs
    <2> QED BY <2>1, PersonIs
<1>3. u \in q.others
    <2>1. First({}).id = 0
        BY DEF First, Zero
    <2>2. q.others # {}
        BY <1>1, <2>1
    <2> QED BY <1>2, <2>2, FirstIn
<1>4. u.id \in Ids /\ u \in Person(hour) /\ hour \in Nat
    BY <1>1, <1>2, <1>3, PersonIs, HourIs DEF AccountsInv
<1>5. UsersOK(hour, users') /\ RowsOf(users') = {v \in RowsOf(users) : v.id # u.id}
    BY <1>1, <1>4, RestIs, RowsDel
<1>6. /\ r \in Work /\ r.pc = "delRest" /\ r.op = q.op /\ r.user = q.user /\ r.others = q.others
      /\ r.item = q.item
    BY <1>2 DEF Work, Pcs
<1>7. WorkOK(hour, r)
    <2>1. Stage(r)
        BY <1>1, <1>2, <1>6 DEF WorkOK, Stage
    <2> QED BY <1>2, <1>6, <2>1 DEF WorkOK
<1>8. /\ work' \in [Requests -> Work] /\ work'[w] = r
      /\ \A v \in Requests : v # w => work'[v] = work[v]
    BY <1>1, <1>6, BecomesForm
<1>9. LostOf(r) = {u} /\ LostOf(q) = {}
    BY <1>1, <1>6 DEF LostOf
<1>10. ASSUME plain
       PROVE  /\ Ordered(users', RowsOf(users') \cup {u}, byId, byKey, byEmail, changed, owner,
                         nextId)
              /\ Copies(users', changed, byKey, byEmail, r)
    <2>1. /\ Ordered(users, RowsOf(users), byId, byKey, byEmail, changed, owner, nextId)
          /\ Copies(users, changed, byKey, byEmail, q)
        BY <1>1, <1>9, <1>10, InTurn
    <2>2. q.others \subseteq RowsOf(users)
        BY <1>1, <2>1 DEF Copies
    <2> PICK us, vs : us = users /\ vs = users'
        OBVIOUS
    <2>3. Ordered(us, RowsOf(us), byId, byKey, byEmail, changed, owner, nextId) /\ UsersOK(hour, us)
          /\ u \in RowsOf(us) /\ vs = RowDel(us, u.id)
        BY <1>1, <1>3, <2>1, <2>2, RestIs
    <2>4. Ordered(vs, RowsOf(vs) \cup {u}, byId, byKey, byEmail, changed, owner, nextId)
        BY <1>4, <2>3, OrderedDelete
    <2>5. \A o \in RowsOf(us) : o.id = u.id => o = u
        BY <1>4, <2>3, RowIs
    <2>6. \A o \in q.others \ {u} : o \in RowsOf(vs)
        BY <1>5, <2>2, <2>5
    <2>7. Copies(vs, changed, byKey, byEmail, r)
        BY <1>1, <1>3, <1>6, <2>6 DEF Copies
    <2> QED BY <2>4, <2>7
<1>11. plain' => /\ Ordered(users', RowsOf(users') \cup LostOf(r), byId', byKey', byEmail',
                            changed', owner', nextId')
                 /\ Copies(users', changed', byKey', byEmail', r)
    BY <1>1, <1>9, <1>10
<1>12. /\ UNCHANGED <<conf, hour, ops, expired, mixed>> /\ plain' \in BOOLEAN /\ (plain' => plain)
       /\ nextId' \in 1..(MaxId + 1) /\ owner' \in OwnerTable /\ changed' \in [Ids -> 0..hour]
       /\ IdsOK(conf, hour, byId') /\ KeysOK(conf, hour, byKey') /\ MailsOK(conf, byEmail')
       /\ tokens' \subseteq Ids \X (1..MaxHour)
       /\ mutex' \in [0..MaxId -> Requests \cup {Nil}]
    BY <1>1, RestIs
<1>13. work[w].pc # "idle"
    BY <1>1
<1> QED BY <1>5, <1>7, <1>8, <1>11, <1>12, <1>13, WorkStep

(* A deletion that fails goes on with the next user.                       *)
LEMMA DelUserFailsStep ==
    ASSUME AccountsInv, NEW w \in Requests, DelUserFails(w)
    PROVE  AccountsInv'
<1> PICK q : q = work[w]
    OBVIOUS
<1> PICK u : u = First(q.others)
    OBVIOUS
<1>1. /\ q.pc = "delRow" /\ Finish(w, u)
      /\ UNCHANGED <<conf, hour, ops, expired, mixed, plain, users, nextId, cache, changed>>
      /\ owner' = owner /\ tokens' = tokens
    BY DEF DelUserFails, history
<1>2. PICK r \in Work :
         /\ WorkOK(hour, r) /\ r.pc \in {"idle", "delRow", "token"}
         /\ r.others \subseteq q.others \ {u}
         /\ work' \in [Requests -> Work] /\ work'[w] = r
         /\ \A v \in Requests : v # w => work'[v] = work[v]
         /\ mutex' \in [0..MaxId -> Requests \cup {Nil}]
    <2> HIDE DEF Finish
    <2> QED BY <1>1, FinishIs
<1>3. LostOf(r) = {} /\ LostOf(q) = {}
    BY <1>1, <1>2 DEF LostOf
<1>4. plain => Attached(RowsOf(users) \cup LostOf(r), owner')
    BY <1>1, <1>3, AttachedNow
<1>5. ASSUME plain
      PROVE  Copies(users, changed, byKey, byEmail, r)
    <2>1. Copies(users, changed, byKey, byEmail, q)
        BY <1>1, <1>5, InTurn
    <2>2. q.others \subseteq RowsOf(users)
        BY <1>1, <2>1 DEF Copies
    <2> QED BY <1>2, <2>2 DEF Copies
<1>6. owner' \in OwnerTable /\ tokens' \subseteq Ids \X (1..MaxHour)
    BY <1>1, RestIs
<1>7. work[w].pc # "idle"
    BY <1>1
<1> QED BY <1>1, <1>2, <1>3, <1>4, <1>5, <1>6, <1>7, QuietStep

(* The comments, the identities and the cache of the deleted user go.      *)
LEMMA DelRestStep ==
    ASSUME AccountsInv, NEW w \in Requests, DelRest(w)
    PROVE  AccountsInv'
<1> PICK q : q = work[w]
    OBVIOUS
<1> PICK u : u = First(q.others)
    OBVIOUS
<1>1. /\ q.pc = "delRest" /\ Finish(w, u)
      /\ \E gone \in SUBSET Items :
            /\ \A x \in Items \ Ballots : owner[x] = u.id => x \in gone
            /\ owner' = [x \in Items |-> IF x \in gone THEN Nil ELSE owner[x]]
      /\ byId' = Put(byId, u.id, Nil) /\ byKey' = Put(byKey, KeyOf(u), Nil)
      /\ byEmail' = Put(byEmail, u.email, Nil)
      /\ UNCHANGED <<conf, hour, ops, expired, mixed, plain, users, nextId, changed, tokens>>
    <2>1. /\ q.pc = "delRest" /\ Finish(w, u)
          /\ byId' = Put(byId, u.id, Nil) /\ byKey' = Put(byKey, KeyOf(u), Nil)
          /\ byEmail' = Put(byEmail, u.email, Nil)
          /\ UNCHANGED <<conf, hour, ops, expired, mixed, plain, users, nextId, changed, tokens>>
        BY DEF DelRest, CacheDel, KeyOf, history
    <2> PICK own : own = {x \in Items \ Ballots : owner[x] = u.id}
        OBVIOUS
    <2>2. PICK more \in SUBSET (Comments \cup Ballots) :
             owner' = [x \in Items |-> IF x \in own \cup more THEN Nil ELSE owner[x]]
        BY DEF DelRest
    <2>3. PICK gone : gone = own \cup more
        OBVIOUS
    <2>4. gone \subseteq Items /\ \A x \in Items \ Ballots : owner[x] = u.id => x \in gone
        BY <2>2, <2>3 DEF Items
    <2> QED BY <2>1, <2>2, <2>3, <2>4
<1>2. PICK r \in Work :
         /\ WorkOK(hour, r) /\ r.pc \in {"idle", "delRow", "token"}
         /\ r.others \subseteq q.others \ {u}
         /\ work' \in [Requests -> Work] /\ work'[w] = r
         /\ \A v \in Requests : v # w => work'[v] = work[v]
         /\ mutex' \in [0..MaxId -> Requests \cup {Nil}]
    <2> HIDE DEF Finish
    <2> QED BY <1>1, FinishIs
<1>3. LostOf(r) = {} /\ LostOf(q) = {u}
    BY <1>1, <1>2 DEF LostOf
<1>4. /\ IdsOK(conf, hour, byId')
      /\ \A j \in Ids : byId'[j] = IF conf.cached /\ j = u.id THEN Nil ELSE byId[j]
    BY <1>1, RestIs, IdsPut
<1>5. /\ KeysOK(conf, hour, byKey')
      /\ \A j \in Keys : byKey'[j] = IF conf.cached /\ j = KeyOf(u) THEN Nil ELSE byKey[j]
    BY <1>1, RestIs, KeysPut
<1>6. /\ MailsOK(conf, byEmail')
      /\ \A j \in Addresses : byEmail'[j] = IF conf.cached /\ j = u.email THEN Nil ELSE byEmail[j]
    BY <1>1, RestIs, MailsPut
<1>7. /\ owner' \in OwnerTable
      /\ \A x \in Comments \cup Identities :
            owner'[x] = Nil \/ (owner[x] # u.id /\ owner'[x] = owner[x])
    <2>1. \A x \in Items : owner[x] \in 0..MaxId \cup {Nil}
        BY RestIs DEF OwnerTable
    <2>2. \A x \in Comments \cup Identities : x \in Items /\ x \notin Ballots
        BY Bounds DEF Items
    <2> QED BY <1>1, <2>1, <2>2 DEF OwnerTable
<1>8. ASSUME plain
      PROVE  /\ Ordered(users, RowsOf(users), byId', byKey', byEmail', changed, owner', nextId)
             /\ Copies(users, changed, byKey', byEmail', r)
    <2>1. /\ Ordered(users, RowsOf(users) \cup {u}, byId, byKey, byEmail, changed, owner, nextId)
          /\ Copies(users, changed, byKey, byEmail, q)
        BY <1>1, <1>3, <1>8, InTurn
    <2>2. conf.cached \in BOOLEAN
        BY DEF AccountsInv, Shape
    <2>3. /\ conf.cached \/ \A j \in Ids : byId[j] = Nil
          /\ conf.cached \/ \A k \in Keys : byKey[k] = Nil
          /\ conf.cached \/ \A e \in Addresses : byEmail[e] = Nil
        BY RestIs DEF IdsOK, KeysOK, MailsOK
    <2> PICK f, g, m, fs, gs, ms, ow, os, c :
             /\ f = byId /\ g = byKey /\ m = byEmail /\ fs = byId' /\ gs = byKey' /\ ms = byEmail'
             /\ ow = owner /\ os = owner' /\ c = conf.cached
        OBVIOUS
    <2>4. Ordered(users, RowsOf(users) \cup {u}, f, g, m, changed, ow, nextId)
        BY <2>1
    <2>5. /\ c \in BOOLEAN /\ (c \/ \A j \in Ids : f[j] = Nil)
          /\ (c \/ \A k \in Keys : g[k] = Nil) /\ (c \/ \A e \in Addresses : m[e] = Nil)
        BY <2>2, <2>3
    <2>6. \A j \in Ids : fs[j] = IF c /\ j = u.id THEN Nil ELSE f[j]
        BY <1>4
    <2>7. \A k \in Keys : gs[k] = IF c /\ k = KeyOf(u) THEN Nil ELSE g[k]
        BY <1>5
    <2>8. \A e \in Addresses : ms[e] = IF c /\ e = u.email THEN Nil ELSE m[e]
        BY <1>6
    <2>9. \A x \in Comments \cup Identities : os[x] = Nil \/ (ow[x] # u.id /\ os[x] = ow[x])
        BY <1>7
    <2>10. Ordered(users, RowsOf(users), fs, gs, ms, changed, os, nextId)
        BY ONLY <2>4, <2>5, <2>6, <2>7, <2>8, <2>9, OrderedRest, SMTT(60)
    <2>11. r.others \subseteq RowsOf(users)
        BY <1>1, <1>2, <2>1 DEF Copies
    <2> QED BY <1>2, <2>10, <2>11 DEF Copies
<1>9. plain' => /\ Ordered(users', RowsOf(users') \cup LostOf(r), byId', byKey', byEmail',
                           changed', owner', nextId')
                /\ Copies(users', changed', byKey', byEmail', r)
    BY <1>1, <1>3, <1>8
<1>10. /\ UNCHANGED <<conf, hour, ops, expired, mixed>> /\ plain' \in BOOLEAN /\ (plain' => plain)
       /\ nextId' \in 1..(MaxId + 1) /\ UsersOK(hour, users') /\ changed' \in [Ids -> 0..hour]
       /\ tokens' \subseteq Ids \X (1..MaxHour)
    BY <1>1, RestIs
<1>11. work[w].pc # "idle"
    BY <1>1
<1> QED BY <1>2, <1>4, <1>5, <1>6, <1>7, <1>9, <1>10, <1>11, WorkStep

-----------------------------------------------------------------------------
(* Time, the cache, and the start                                          *)

(* What may be held at an hour may be held later.                          *)
LEMMA PassesStep ==
    ASSUME AccountsInv, Passes
    PROVE  AccountsInv'
<1> PICK h, k : h = hour /\ k = hour'
    OBVIOUS
<1>1. /\ k = h + 1 /\ h \in Nat /\ k \in Nat /\ h <= k /\ k \in 1..MaxHour
      /\ UNCHANGED <<conf, users, nextId, owner, byId, byKey, byEmail, tokens, mutex, work, ops,
                     expired, changed, plain, mixed>>
    BY HourIs, Bounds DEF Passes, AccountsInv, cache, history
<1>2. Person(h) \subseteq Person(k)
    BY <1>1, PersonGrows
<1>3. /\ UsersOK(h, users) /\ IdsOK(conf, h, byId) /\ KeysOK(conf, h, byKey)
      /\ changed \in [Ids -> 0..h] /\ \A w \in Requests : WorkOK(h, work[w])
    BY DEF AccountsInv, Shape
<1>4. UsersOK(k, users)
    BY <1>2, <1>3 DEF UsersOK
<1>5. IdsOK(conf, k, byId)
    BY <1>2, <1>3 DEF IdsOK
<1>6. KeysOK(conf, k, byKey)
    BY <1>2, <1>3 DEF KeysOK
<1>7. changed \in [Ids -> 0..k]
    BY <1>1, <1>3
<1>8. \A w \in Requests : WorkOK(k, work[w])
    BY <1>2, <1>3 DEF WorkOK
<1>9. Shape'
    BY <1>1, <1>4, <1>5, <1>6, <1>7, <1>8 DEF AccountsInv, Shape
<1>10. InOrder'
    BY <1>1 DEF AccountsInv, InOrder
<1> QED BY <1>9, <1>10 DEF AccountsInv

(* Entries of the cache may go at any time.                                *)
LEMMA ExpireStep ==
    ASSUME AccountsInv, Expire
    PROVE  AccountsInv'
<1>1. /\ expired < MaxExpiries /\ expired' = expired + 1
      /\ UNCHANGED <<conf, hour, users, nextId, owner, tokens, mutex, work, ops, changed, plain,
                     mixed>>
    BY DEF Expire, history
<1>2. IdCacheOK(byId') /\ KeyCacheOK(byKey') /\ MailCacheOK(byEmail')
    <2> PICK f, g, m : f = byId' /\ g = byKey' /\ m = byEmail'
        OBVIOUS
    <2>1. CASE \E i \in Ids : f = Put(byId, i, Nil) /\ g = byKey /\ m = byEmail
        BY <2>1, DropId, CachesNow
    <2>2. CASE \E i \in Keys : g = Put(byKey, i, Nil) /\ f = byId /\ m = byEmail
        BY <2>2, DropKey, CachesNow
    <2>3. CASE \E i \in Addresses : m = Put(byEmail, i, Nil) /\ f = byId /\ g = byKey
        BY <2>3, DropMail, CachesNow
    <2> QED BY <2>1, <2>2, <2>3 DEF Expire, Keys
<1>3. Shape'
    <2>1. expired' \in 0..MaxExpiries
        BY <1>1, Bounds DEF AccountsInv, Shape
    <2>2. IdsOK(conf, hour, byId') /\ KeysOK(conf, hour, byKey') /\ MailsOK(conf, byEmail')
        BY <1>2 DEF IdCacheOK, KeyCacheOK, MailCacheOK
    <2> QED BY <1>1, <2>1, <2>2 DEF AccountsInv, Shape
<1>4. ASSUME plain
      PROVE  /\ Serial(work)
             /\ Ordered(users, Known(users, work), byId', byKey', byEmail', changed, owner, nextId)
             /\ \A w \in Requests : Copies(users, changed, byKey', byEmail', work[w])
    <2>1. /\ Serial(work)
          /\ Ordered(users, Known(users, work), byId, byKey, byEmail, changed, owner, nextId)
          /\ \A w \in Requests : Copies(users, changed, byKey, byEmail, work[w])
        BY <1>4 DEF AccountsInv, InOrder
    <2>2. Ordered(users, Known(users, work), byId', byKey', byEmail', changed, owner, nextId)
        BY <1>2, <1>4, <2>1 DEF Ordered, IdCacheOK, KeyCacheOK, MailCacheOK
    <2>3. /\ \A i \in Keys : byKey'[i] = byKey[i] \/ byKey'[i] = Nil
          /\ \A e \in Addresses : byEmail'[e] = byEmail[e] \/ byEmail'[e] = Nil
        <3>1. byKey \in [Keys -> Person(hour) \cup {Nil}]
              /\ byEmail \in [Addresses -> (SUBSET Ids) \cup {Nil}]
            BY RestIs DEF KeysOK, MailsOK
        <3> QED BY <3>1 DEF Expire, Put, Keys
    <2>4. ASSUME NEW w \in Requests
          PROVE  Copies(users, changed, byKey', byEmail', work[w])
        <3> PICK r : r = work[w]
            OBVIOUS
        <3>1. Copies(users, changed, byKey, byEmail, r)
            BY <2>1
        <3>2. \A v \in RowsOf(users) : KeyOf(v) \in Keys /\ v.email \in Addresses
            <4>1. ASSUME NEW v \in RowsOf(users)
                  PROVE  v.name \in Names /\ v.email \in Addresses
                <5>1. v \in Person(hour) /\ v.id \in Ids
                    BY RowIs, RestIs, HourIs
                <5>2. v.id # 0
                    BY <5>1, Bounds DEF Ids
                <5> QED BY <5>1, <5>2, PersonIs
            <4> QED BY <4>1 DEF KeyOf, Keys
        <3>3. SaveOK(users, changed, byKey, byEmail, r) =>
                 SaveOK(users, changed, byKey', byEmail', r)
            BY <2>3, <3>2 DEF SaveOK
        <3> QED BY <3>1, <3>3 DEF Copies
    <2> QED BY <2>1, <2>2, <2>4
<1>5. InOrder'
    BY <1>1, <1>4 DEF InOrder
<1> QED BY <1>3, <1>5 DEF AccountsInv

(* The greatest of some bounded numbers is one of them.                    *)
LEMMA MaxIn ==
    ASSUME NEW n \in Nat, NEW I, I \subseteq 0..n, I # {}
    PROVE  Max(I) \in I /\ \A y \in I : Max(I) >= y
<1> DEFINE J == {n - x : x \in I}
<1>1. J \subseteq Nat /\ J # {}
    <2>1. \A x \in I : n - x \in Nat
        OBVIOUS
    <2> QED BY <2>1
<1>2. PICK j \in J : \A y \in J : j <= y
    BY <1>1, LeastFound
<1>3. PICK x \in I : j = n - x
    BY <1>2
<1>4. \A y \in I : x >= y
    <2> SUFFICES ASSUME NEW y \in I PROVE x >= y
        OBVIOUS
    <2>1. n - x <= n - y
        BY <1>2, <1>3
    <2>2. x \in 0..n /\ y \in 0..n
        OBVIOUS
    <2> QED BY <2>1, <2>2
<1> QED BY <1>4 DEF Max

(* The tables that earlier runs left are in order, and no request is       *)
(* under way.                                                              *)
LEMMA InitInv ==
    ASSUME AccountsInit
    PROVE  AccountsInv
<1>1. /\ conf \in [auth : BOOLEAN, cached : BOOLEAN] /\ hour = 1
      /\ byId = [i \in Ids |-> Nil] /\ byKey = [k \in Keys |-> Nil]
      /\ byEmail = [e \in Addresses |-> Nil]
      /\ tokens = {} /\ mutex = [i \in 0..MaxId |-> Nil]
      /\ work = [w \in Requests |-> Idle] /\ ops = 0 /\ expired = 0
      /\ changed = [i \in Ids |-> 0] /\ plain = TRUE /\ mixed = FALSE
    BY DEF AccountsInit, Keys
<1>2. PICK t \in Tables : /\ users = t.users /\ owner = t.owner
                          /\ nextId = 1 + Max({0} \cup {t.users[i].id : i \in Ids})
    BY DEF AccountsInit
<1>3. /\ users \in [Ids -> User] /\ owner \in OwnerTable
      /\ \A i \in Ids : RowAt(i, users[i])
      /\ \A x \in Comments \cup Identities :
            owner[x] # Nil => owner[x] \in Ids /\ users[owner[x]] # Zero
    BY <1>2, AccountAssumption DEF AccountAssumption, Table, OwnerTable
<1>4. UsersOK(1, users)
    <2>1. Zero \in Person(1)
        BY ZeroPerson
    <2> HIDE DEF Zero
    <2>2. \A i \in Ids : users[i] \in Person(1) /\ (users[i] = Zero \/ users[i].id = i)
        BY <1>3, <2>1 DEF RowAt, Person
    <2> QED BY <1>3, <2>2 DEF UsersOK
<1>5. nextId \in 1..(MaxId + 1) /\ Unused(users, nextId)
    <2> DEFINE I == {0} \cup {users[i].id : i \in Ids}
    <2>1. I \subseteq 0..MaxId /\ I # {} /\ MaxId \in Nat
        BY <1>3, UserIs, Bounds
    <2> PICK a : a = Max(I)
        OBVIOUS
    <2>2. a \in 0..MaxId /\ \A y \in I : a >= y
        BY <2>1, MaxIn
    <2>3. nextId = 1 + a
        BY <1>2
    <2>4. ASSUME NEW i \in Ids, i >= nextId
          PROVE  users[i] = Zero
        <3>1. users[i] = Zero \/ users[i].id = i
            BY <1>4 DEF UsersOK
        <3>2. i \in Nat
            BY Bounds DEF Ids
        <3>3. a >= users[i].id
            BY <2>2
        <3>4. users[i].id # i
            BY <2>2, <2>3, <2>4, <3>2, <3>3
        <3> QED BY <3>1, <3>4
    <2> QED BY <2>1, <2>2, <2>3, <2>4 DEF Unused
<1>6. IdsOK(conf, 1, byId) /\ KeysOK(conf, 1, byKey) /\ MailsOK(conf, byEmail)
    BY <1>1 DEF IdsOK, KeysOK, MailsOK
<1>7. Idle \in Work /\ WorkOK(1, Idle) /\ LostOf(Idle) = {}
    BY IdleIs, IdleOK DEF LostOf
<1> HIDE DEF Idle
<1>8. \A w \in Requests : work[w] = Idle
    BY <1>1
<1>9. Shape
    <2>1. hour \in 1..MaxHour /\ ops \in 0..MaxOps /\ expired \in 0..MaxExpiries
          /\ mutex \in [0..MaxId -> Requests \cup {Nil}]
          /\ tokens \subseteq Ids \X (1..MaxHour) /\ changed \in [Ids -> 0..hour]
        BY <1>1, Bounds
    <2>0. plain \in BOOLEAN /\ mixed \in BOOLEAN
        BY <1>1, Zenon
    <2>2. work \in [Requests -> Work] /\ \A w \in Requests : WorkOK(hour, work[w])
        BY <1>1, <1>7
    <2> QED BY <1>1, <1>3, <1>4, <1>5, <1>6, <2>0, <2>1, <2>2 DEF Shape
<1>10. Known(users, work) = RowsOf(users)
    BY <1>7, <1>8 DEF Known
<1>11. Ordered(users, RowsOf(users), byId, byKey, byEmail, changed, owner, nextId)
    <2>1. IdsFresh(users, RowsOf(users), byId)
        BY <1>1 DEF IdsFresh, OfId
    <2>2. KeysFresh(users, RowsOf(users), byKey)
        BY <1>1 DEF KeysFresh, OfKey
    <2>3. MailsFresh(RowsOf(users), byEmail)
        BY <1>1 DEF MailsFresh, OfMail
    <2>4. Recent(RowsOf(users), changed)
        <3> SUFFICES ASSUME NEW u \in RowsOf(users) PROVE u.from >= changed[u.id]
            BY DEF Recent
        <3>1. u.id \in Ids /\ u \in Person(1)
            BY <1>4, RowIs
        <3>2. u.from \in Nat /\ changed[u.id] = 0
            BY <1>1, <3>1, PersonIs
        <3> QED BY <3>2
    <2>5. Attached(RowsOf(users), owner)
        <3> SUFFICES ASSUME NEW x \in Comments \cup Identities, owner[x] # Nil
                     PROVE  \E u \in RowsOf(users) : u.id = owner[x]
            BY DEF Attached
        <3>1. owner[x] \in Ids /\ users[owner[x]] # Zero
            BY <1>3
        <3>2. users[owner[x]] \in RowsOf(users) /\ users[owner[x]].id = owner[x]
            BY <1>4, <3>1, RowAtId
        <3> QED BY <3>2
    <2> QED BY <1>5, <2>1, <2>2, <2>3, <2>4, <2>5 DEF Ordered
<1>12. Serial(work)
    BY <1>8 DEF Serial
<1>13. \A w \in Requests : Copies(users, changed, byKey, byEmail, work[w])
    BY <1>8, IdleIs, LightCopies
<1> QED BY <1>9, <1>10, <1>11, <1>12, <1>13 DEF AccountsInv, InOrder

-----------------------------------------------------------------------------
(* Theorems                                                                *)

(* Every step keeps the invariant.                                         *)
LEMMA StepKeeps ==
    ASSUME AccountsInv, [AccountsNext]_accountVars
    PROVE  AccountsInv'
<1>1. ASSUME NEW w \in Requests, Step(w)
      PROVE  AccountsInv'
    <2>1. CASE MergeLock(w)
        BY <2>1, MergeLockStep
    <2>2. CASE MergeList(w)
        BY <2>2, MergeListStep
    <2>3. CASE FindCreateUser(w) \/ CreateUser(w)
        BY <2>3, CreatingSteps
    <2>4. CASE UpdateUser(w, TRUE) \/ UpdateUser(w, FALSE)
        BY <2>4, UpdateStep
    <2>5. CASE \E x \in Items : InsertItem(w, x)
        BY <2>5, InsertItemStep
    <2>6. CASE InsertFails(w) \/ MoveFails(w)
        BY <2>6, FailingSteps
    <2>7. CASE Token(w)
        BY <2>7, TokenStep
    <2>8. CASE Move(w)
        BY <2>8, MoveStep
    <2>9. CASE DelUser(w)
        BY <2>9, DelUserStep
    <2>10. CASE DelUserFails(w)
        BY <2>10, DelUserFailsStep
    <2>11. CASE DelRest(w)
        BY <2>11, DelRestStep
    <2> QED BY <1>1, <2>1, <2>2, <2>3, <2>4, <2>5, <2>6, <2>7, <2>8, <2>9, <2>10, <2>11 DEF Step
<1>2. ASSUME NEW w \in Requests, Begin(w)
      PROVE  AccountsInv'
    BY <1>2, BeginStep
<1>3. CASE Passes
    BY <1>3, PassesStep
<1>4. CASE Expire
    BY <1>4, ExpireStep
<1>5. CASE UNCHANGED accountVars
    BY <1>5 DEF AccountsInv, Shape, InOrder, accountVars, cache, history
<1> QED BY <1>1, <1>2, <1>3, <1>4, <1>5 DEF AccountsNext

(* The invariant holds in every state.                                     *)
LEMMA AccountsInvariant == AccountsSpec => []AccountsInv
<1>1. AccountsInit => AccountsInv
    BY InitInv
<1>2. AccountsInv /\ [AccountsNext]_accountVars => AccountsInv'
    BY StepKeeps
<1> QED BY <1>1, <1>2, PTL DEF AccountsSpec

(* When nothing is under way, the users of the table are all there is.     *)
LEMMA QuietOrder ==
    ASSUME AccountsInv, plain, Quiet
    PROVE  Ordered(users, RowsOf(users), byId, byKey, byEmail, changed, owner, nextId)
<1>1. \A w \in Requests : work[w] = Idle
    BY WorkIs DEF Quiet, Stage
<1>2. Known(users, work) = RowsOf(users)
    BY <1>1, NobodyLost
<1> QED BY <1>2 DEF AccountsInv, InOrder

(* UsersSound: between requests that follow one another, cache and table   *)
(* agree and nothing belongs to a user that is gone (UserCacheSave,        *)
(* UserCacheDel and DelUser, for any number of users and requests).        *)
THEOREM UsersAlwaysSound == AccountsSpec => []UsersSound
<1>1. AccountsInv => UsersSound
    <2> SUFFICES ASSUME AccountsInv PROVE UsersSound
        OBVIOUS
    <2>1. AccountsTypeOK
        <3>1. /\ UsersOK(hour, users) /\ IdsOK(conf, hour, byId) /\ KeysOK(conf, hour, byKey)
              /\ MailsOK(conf, byEmail)
            BY RestIs
        <3>2. Person(hour) \subseteq User
            BY DEF Person
        <3>3. users \in [Ids -> User] /\ \A i \in Ids : users[i].id \in {0, i}
            <4>1. Zero.id = 0
                BY DEF Zero
            <4> QED BY <3>1, <3>2, <4>1 DEF UsersOK
        <3>4. \A i \in Ids : byId[i] = Nil \/ byId[i] \in User
            BY <3>1, <3>2 DEF IdsOK
        <3>5. \A k \in Names \X Addresses : byKey[k] = Nil \/ byKey[k] \in User
            BY <3>1, <3>2 DEF KeysOK, Keys
        <3>6. \A e \in Addresses : byEmail[e] = Nil \/ byEmail[e] \in SUBSET Ids
            BY <3>1 DEF MailsOK
        <3>7. \A w \in Requests :
                 work[w].before \in [Items -> 0..MaxId \cup {Nil}] /\ work[w] \in Work
            BY WorkIs DEF Work
        <3>8. changed \in [Ids -> 0..MaxHour]
            <4>1. changed \in [Ids -> 0..hour] /\ hour \in Nat /\ hour <= MaxHour
                BY RestIs, HourIs, Bounds
            <4>2. 0..hour \subseteq 0..MaxHour
                BY <4>1, Bounds
            <4> QED BY <4>1, <4>2
        <3>9. /\ conf \in [auth : BOOLEAN, cached : BOOLEAN] /\ hour \in 1..MaxHour
              /\ nextId \in 1..(MaxId + 1) /\ owner \in [Items -> 0..MaxId \cup {Nil}]
              /\ tokens \subseteq Ids \X (1..MaxHour)
              /\ mutex \in [0..MaxId -> Requests \cup {Nil}]
              /\ ops \in 0..MaxOps /\ expired \in 0..MaxExpiries
              /\ plain \in BOOLEAN /\ mixed \in BOOLEAN
            BY DEF AccountsInv, Shape, OwnerTable
        <3> QED BY <3>3, <3>4, <3>5, <3>6, <3>7, <3>8, <3>9 DEF AccountsTypeOK
    <2>2. ASSUME plain, Quiet
          PROVE  /\ \A i \in Ids : byId[i] \in {Nil, users[i]}
                 /\ \A n \in Names, e \in Addresses : byKey[<<n, e>>] # Nil =>
                       LET u == byKey[<<n, e>>] IN
                       IF u.id = 0 THEN \A v \in Rows : <<v.name, v.email>> # <<n, e>>
                       ELSE u = users[u.id] /\ <<u.name, u.email>> = <<n, e>>
                 /\ \A e \in Addresses :
                       byEmail[e] # Nil => \A i \in byEmail[e] : users[i].email = e
                 /\ \A x \in Comments \cup Identities :
                       owner[x] # Nil => users[owner[x]].id # 0
        <3> PICK K : K = RowsOf(users)
            OBVIOUS
        <3>1. Ordered(users, K, byId, byKey, byEmail, changed, owner, nextId)
            BY <2>2, QuietOrder
        <3>2. \A u \in K : u.id \in Ids /\ u = users[u.id] /\ u.id # 0
            <4>1. \A u \in K : u.id \in Ids /\ u = users[u.id]
                BY RowIs, RestIs, HourIs
            <4> QED BY <4>1, Bounds DEF Ids
        <3>3. Zero.id = 0
            BY DEF Zero
        <3>4. K = Rows
            BY DEF Rows, RowsOf
        <3>5. \A i \in Ids : byId[i] \in {Nil, users[i]}
            BY <3>1, <3>2 DEF Ordered, IdsFresh, OfId
        <3>6. ASSUME NEW n \in Names, NEW e \in Addresses, byKey[<<n, e>>] # Nil,
                     NEW u, u = byKey[<<n, e>>]
              PROVE  IF u.id = 0 THEN \A v \in K : KeyOf(v) # <<n, e>>
                     ELSE u = users[u.id] /\ KeyOf(u) = <<n, e>>
            <4>1. OfKey(users, K, <<n, e>>, u)
                BY <3>1, <3>6 DEF Ordered, KeysFresh, Keys
            <4> QED BY <3>2, <3>3, <3>6, <4>1 DEF OfKey
        <3>7. \A e \in Addresses :
                 byEmail[e] # Nil => \A i \in byEmail[e] : users[i].email = e
            BY <3>1, <3>2 DEF Ordered, MailsFresh, OfMail
        <3>8. \A x \in Comments \cup Identities : owner[x] # Nil => users[owner[x]].id # 0
            BY <3>1, <3>2 DEF Ordered, Attached
        <3> QED BY <3>4, <3>5, <3>6, <3>7, <3>8 DEF KeyOf
    <2> QED BY <2>1, <2>2 DEF UsersSound, CacheFresh, NoDangling
<1> QED BY <1>1, AccountsInvariant, PTL

(* RevokedStays: while requests follow one another, whoever saves the whole*)
(* row of a user, neither table nor cache lets a token pass GetUserByReq   *)
(* that was issued in an earlier second than the last password change.     *)
THEOREM RevokedStayRefused == AccountsSpec => []RevokedStays
<1>1. AccountsInv => RevokedStays
    <2> SUFFICES ASSUME AccountsInv, plain, NEW t \in tokens, t[2] < changed[t[1]], Authentic(t)
                 PROVE  FALSE
        BY DEF RevokedStays
    <2> PICK i : i = t[1]
        OBVIOUS
    <2> PICK u : u = FindUserByID(i)
        OBVIOUS
    <2>1. i \in Ids /\ t[2] \in Nat
        BY RestIs, Bounds
    <2>2. u.id # 0 /\ (u.from # 0 => t[2] >= u.from)
        BY DEF Authentic
    <2> PICK K : K = Known(users, work)
        OBVIOUS
    <2>3. /\ Ordered(users, K, byId, byKey, byEmail, changed, owner, nextId)
          /\ RowsOf(users) \subseteq K
        BY RowsKnown DEF AccountsInv, InOrder
    <2>4. u \in K /\ u.id = i
        BY <2>1, <2>2, <2>3, ByIdKnown DEF AccountsInv, Ordered
    <2>5. u.from >= changed[i]
        BY <2>3, <2>4 DEF Ordered, Recent
    <2>6. changed[i] \in Nat /\ u.from \in Nat
        BY <2>1, RestIs, ById, PersonIs DEF AccountsInv
    <2> QED BY <2>1, <2>2, <2>5, <2>6
<1> QED BY <1>1, AccountsInvariant, PTL
=============================================================================
