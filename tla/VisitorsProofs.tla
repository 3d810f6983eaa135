--------------------------- MODULE VisitorsProofs ---------------------------
(***************************************************************************)
(* A social login ends with whoever approved it, and identities of two     *)
(* profiles never coincide.                                                *)
(*                                                                         *)
(* A state is given to one flow, and so is the code on its way back.  A    *)
(* callback that has passed the check of the state therefore exchanges the *)
(* code of the flow its own browser began, whatever else is stored in the  *)
(* session by then.  While the settings stay, the server that a callback   *)
(* asks is the one its identity is named after, and the name gives it back.*)
(*                                                                         *)
(* Requests on comments that follow one another leave the caches and the   *)
(* threads right, for any number of comments and requests: what holds when *)
(* one request is the only one, at each of its places, is kept by each of  *)
(* its steps, and by cache entries that expire between them.               *)
(***************************************************************************)
EXTENDS Social, CommentTree, SequenceTheorems, WellFoundedInduction, TLAPS

-----------------------------------------------------------------------------
(* Callbacks are records, and steps set fields of them.                    *)

Callback(pc, name, server, code, data, mixed, rid, user, place) ==
    [pc |-> pc, name |-> name, server |-> server, code |-> code, data |-> data,
     mixed |-> mixed, rid |-> rid, user |-> user, row |-> place]

WholeCall(c) == c = Callback(c.pc, c.name, c.server, c.code, c.data, c.mixed, c.rid, c.user,
                             c.row)

CallShape == call = [k \in Calls |-> call[k]] /\ \A k \in Calls : WholeCall(call[k])

(* A step of k that makes it c and leaves the other callbacks alone.       *)
Turns(k, c) ==
    /\ call' = [j \in Calls |-> call'[j]] /\ \A j \in Calls : WholeCall(call'[j])
    /\ \A j \in Calls : j # k => call'[j] = call[j]
    /\ call'[k] = c

(* Replacing the record of one callback.                                   *)
Becomes(k, c) == call' = [call EXCEPT ![k] = c]

(* Setting one field of a callback.                                        *)
SetPc(c, x) == [c EXCEPT !.pc = x]
SetName(c, x) == [c EXCEPT !.name = x]
SetServer(c, x) == [c EXCEPT !.server = x]
SetCode(c, x) == [c EXCEPT !.code = x]
SetData(c, x) == [c EXCEPT !.data = x]
SetMixed(c, x) == [c EXCEPT !.mixed = x]
SetRid(c, x) == [c EXCEPT !.rid = x]
SetUser(c, x) == [c EXCEPT !.user = x]
SetRow(c, x) == [c EXCEPT !.row = x]

(* Setting one field leaves the others.                                    *)
LEMMA SetFields ==
    ASSUME NEW pc, NEW name, NEW server, NEW code, NEW data, NEW mixed, NEW rid, NEW user,
           NEW place, NEW x
    PROVE  LET c == Callback(pc, name, server, code, data, mixed, rid, user, place)
           IN  /\ SetPc(c, x) = Callback(x, name, server, code, data, mixed, rid, user, place)
               /\ SetName(c, x) = Callback(pc, x, server, code, data, mixed, rid, user, place)
               /\ SetServer(c, x) = Callback(pc, name, x, code, data, mixed, rid, user, place)
               /\ SetCode(c, x) = Callback(pc, name, server, x, data, mixed, rid, user, place)
               /\ SetData(c, x) = Callback(pc, name, server, code, x, mixed, rid, user, place)
               /\ SetMixed(c, x) = Callback(pc, name, server, code, data, x, rid, user, place)
               /\ SetRid(c, x) = Callback(pc, name, server, code, data, mixed, x, user, place)
               /\ SetUser(c, x) = Callback(pc, name, server, code, data, mixed, rid, x, place)
               /\ SetRow(c, x) = Callback(pc, name, server, code, data, mixed, rid, user, x)
BY DEF SetPc, SetName, SetServer, SetCode, SetData, SetMixed, SetRid, SetUser, SetRow, Callback

(* The fields of a callback are what it was made of.                       *)
LEMMA Fields ==
    ASSUME NEW pc, NEW name, NEW server, NEW code, NEW data, NEW mixed, NEW rid, NEW user,
           NEW place
    PROVE  LET c == Callback(pc, name, server, code, data, mixed, rid, user, place)
           IN  /\ WholeCall(c)
               /\ c.pc = pc /\ c.name = name /\ c.server = server /\ c.code = code
               /\ c.data = data /\ c.mixed = mixed /\ c.rid = rid /\ c.user = user
               /\ c.row = place
BY DEF WholeCall, Callback

(* No callback.                                                            *)
LEMMA EndedForm ==
    /\ Ended = Callback("idle", "", "", 0, NoData, Ended.mixed, Ended.rid, 0, 0)
    /\ WholeCall(Ended)
    /\ Ended.pc = "idle" /\ Ended.user = 0 /\ Ended.row = 0
<1>1. /\ Ended = Callback("idle", "", "", 0, NoData, Ended.mixed, Ended.rid, 0, 0)
      /\ WholeCall(Ended)
    BY DEF Ended, WholeCall, Callback
<1> QED BY <1>1 DEF Ended

(* What a callback that has not begun holds of no account.                 *)
LEMMA EndedFields == Ended.mixed \in BOOLEAN /\ Ended.rid = <<"", "">>
BY DEF Ended

(* Replacing a callback by a whole one is a step of it alone.              *)
LEMMA BecomesTurns ==
    ASSUME CallShape, NEW k \in Calls, NEW c, WholeCall(c), Becomes(k, c)
    PROVE  Turns(k, c)
BY DEF CallShape, Turns, Becomes

(* Going on to another place.                                              *)
LEMMA GoesForm ==
    ASSUME CallShape, NEW k \in Calls, NEW c, c = call[k], NEW x, Goes(k, x)
    PROVE  Turns(k, Callback(x, c.name, c.server, c.code, c.data, c.mixed, c.rid, c.user, c.row))
<1>1. c = Callback(c.pc, c.name, c.server, c.code, c.data, c.mixed, c.rid, c.user, c.row)
    BY DEF CallShape, WholeCall
<1>2. Becomes(k, SetPc(c, x))
    BY DEF Goes, Becomes, SetPc
<1> QED BY <1>1, <1>2, SetFields, Fields, BecomesTurns

(* Coming to an end.                                                       *)
LEMMA EndForm ==
    ASSUME CallShape, NEW k \in Calls, call' = [call EXCEPT ![k] = Ended]
    PROVE  Turns(k, Ended)
BY EndedForm, BecomesTurns DEF Becomes

(* A callback has read the session and checked the state.                  *)
LEMMA NewCallForm ==
    ASSUME CallShape, NEW k \in Calls, NEW n, NEW s, NEW code, NEW d, NEW m, NEW p,
           Becomes(k, SetPc(SetMixed(SetData(SetCode(SetServer(SetName(Ended, n), s), code), d),
                                     m), p))
    PROVE  Turns(k, Callback(p, n, s, code, d, m, Ended.rid, 0, 0))
<1> PICK e, z, d0, m0, r0 : /\ e = "" /\ z = 0 /\ d0 = NoData
                            /\ m0 = Ended.mixed /\ r0 = Ended.rid
    OBVIOUS
<1>1. Ended = Callback("idle", e, e, z, d0, m0, r0, z, z)
    BY EndedForm
<1> PICK c1 : c1 = SetName(Ended, n)
    OBVIOUS
<1> PICK c2 : c2 = SetServer(c1, s)
    OBVIOUS
<1> PICK c3 : c3 = SetCode(c2, code)
    OBVIOUS
<1> PICK c4 : c4 = SetData(c3, d)
    OBVIOUS
<1> PICK c5 : c5 = SetMixed(c4, m)
    OBVIOUS
<1> PICK c6 : c6 = SetPc(c5, p)
    OBVIOUS
<1>2. c1 = Callback("idle", n, e, z, d0, m0, r0, z, z)
    BY ONLY <1>1, c1 = SetName(Ended, n), SetFields
<1>3. c2 = Callback("idle", n, s, z, d0, m0, r0, z, z)
    BY ONLY <1>2, c2 = SetServer(c1, s), SetFields
<1>4. c3 = Callback("idle", n, s, code, d0, m0, r0, z, z)
    BY ONLY <1>3, c3 = SetCode(c2, code), SetFields
<1>5. c4 = Callback("idle", n, s, code, d, m0, r0, z, z)
    BY ONLY <1>4, c4 = SetData(c3, d), SetFields
<1>6. c5 = Callback("idle", n, s, code, d, m, r0, z, z)
    BY ONLY <1>5, c5 = SetMixed(c4, m), SetFields
<1>7. c6 = Callback(p, n, s, code, d, m, r0, z, z)
    BY ONLY <1>6, c6 = SetPc(c5, p), SetFields
<1>8. Becomes(k, c6)
    OBVIOUS
<1>9. c6 = Callback(p, n, s, code, d, m, Ended.rid, 0, 0)
    BY <1>7
<1>10. WholeCall(c6)
    BY ONLY <1>7, Fields
<1>11. Turns(k, c6)
    BY <1>8, <1>10, BecomesTurns
<1> QED BY <1>9, <1>11

(* The callback that begins, as a whole record.                            *)
LEMMA CompleteForm ==
    ASSUME CallShape, NEW k \in Calls, NEW r, CompleteUserAuth(k, r),
           NEW n, n = r.person.provider, NEW d, d = session[k[1]][n],
           NEW p, p = IF validateState(d, r.state) THEN "fetch" ELSE "failed"
    PROVE  \E m \in BOOLEAN :
              /\ (m <=> (torn \/ \E h \in Changes : Reloading(h)))
              /\ Turns(k, Callback(p, n, registry[n], r.code, d, m, Ended.rid, 0, 0))
<1> PICK m \in BOOLEAN : m = (torn \/ \E h \in Changes : Reloading(h))
    BY Zenon
<1>1. Becomes(k, SetPc(SetMixed(SetData(SetCode(SetServer(SetName(Ended, n), registry[n]),
                                                r.code), d), m), p))
    BY DEF CompleteUserAuth, Becomes, SetPc, SetMixed, SetData, SetCode, SetServer, SetName
<1>4. Turns(k, Callback(p, n, registry[n], r.code, d, m, Ended.rid, 0, 0))
    BY <1>1, NewCallForm
<1>5. m <=> (torn \/ \E h \in Changes : Reloading(h))
    BY Zenon
<1> QED BY <1>4, <1>5

(* Entries of a session, also the data a callback works with.              *)
Entry(state, person, by) == [state |-> state, person |-> person, by |-> by]

(* The fields of an entry are what it was made of.                         *)
LEMMA EntryFields ==
    ASSUME NEW state, NEW person, NEW by
    PROVE  /\ Entry(state, person, by).state = state
           /\ Entry(state, person, by).person = person
           /\ Entry(state, person, by).by = by
BY DEF Entry

(* The profile that the exchange of a code returns.                        *)
SetPerson(d, x) == [d EXCEPT !.person = x]
SetBy(d, x) == [d EXCEPT !.by = x]

(* Setting one field of an entry leaves the others.                        *)
LEMMA ProfileEntry ==
    ASSUME NEW s, NEW p, NEW b, NEW x
    PROVE  /\ SetPerson(Entry(s, p, b), x) = Entry(s, x, b)
           /\ SetBy(Entry(s, p, b), x) = Entry(s, p, x)
BY DEF SetPerson, SetBy, Entry

(* The provider has exchanged the code for the profile of r.               *)
LEMMA AuthorizeForm ==
    ASSUME CallShape, NEW k \in Calls, NEW c, c = call[k], NEW r, NEW d, d = c.data,
           d = Entry(d.state, d.person, d.by),
           call' = [call EXCEPT ![k].pc = "store",
                      ![k].data = [@ EXCEPT !.person = r.person, !.by = r.by]]
    PROVE  Turns(k, Callback("store", c.name, c.server, c.code,
                             Entry(d.state, r.person, r.by), c.mixed, c.rid, c.user, c.row))
<1>1. c = Callback(c.pc, c.name, c.server, c.code, d, c.mixed, c.rid, c.user, c.row)
    BY DEF CallShape, WholeCall
<1> PICK x, y : x = r.person /\ y = r.by
    OBVIOUS
<1> PICK e, f : e = SetPerson(d, x) /\ f = SetBy(e, y)
    OBVIOUS
<1>2. f = Entry(d.state, x, y)
    BY ProfileEntry
<1>3. SetPc(c, "store") =
         Callback("store", c.name, c.server, c.code, d, c.mixed, c.rid, c.user, c.row)
    BY <1>1, SetFields
<1>4. SetPc(c, "store").data = d
    BY <1>3, Fields
<1>5. Becomes(k, SetData(SetPc(c, "store"), SetBy(SetPerson(d, x), y)))
    BY <1>4 DEF SetPc, SetData, Becomes, SetPerson, SetBy
<1>6. SetData(SetPc(c, "store"), f) =
         Callback("store", c.name, c.server, c.code, Entry(d.state, x, y), c.mixed, c.rid,
                  c.user, c.row)
    BY ONLY <1>2, <1>3, SetFields
<1> QED BY <1>5, <1>6, Fields, BecomesTurns

(* A profile has a name, and its identity is known or has to be made.      *)
LEMMA SocialForm ==
    ASSUME CallShape, NEW k \in Calls, NEW c, c = call[k], NEW rid, NEW found, NEW p,
           call' = [call EXCEPT ![k].rid = rid, ![k].row = found, ![k].pc = p]
    PROVE  Turns(k, Callback(p, c.name, c.server, c.code, c.data, c.mixed, rid, c.user, found))
<1>1. c = Callback(c.pc, c.name, c.server, c.code, c.data, c.mixed, c.rid, c.user, c.row)
    BY DEF CallShape, WholeCall
<1>2. Becomes(k, SetPc(SetRow(SetRid(c, rid), found), p))
    BY DEF SetPc, SetRow, SetRid, Becomes
<1>3. SetRid(c, rid) =
         Callback(c.pc, c.name, c.server, c.code, c.data, c.mixed, rid, c.user, c.row)
    BY <1>1, SetFields
<1>4. SetRow(SetRid(c, rid), found) =
         Callback(c.pc, c.name, c.server, c.code, c.data, c.mixed, rid, c.user, found)
    BY <1>3, SetFields
<1> QED BY <1>2, <1>4, SetFields, Fields, BecomesTurns

(* It has an account.                                                      *)
LEMMA RegisterForm ==
    ASSUME CallShape, NEW k \in Calls, NEW c, c = call[k], NEW u,
           call' = [call EXCEPT ![k].pc = "identity", ![k].user = u]
    PROVE  Turns(k, Callback("identity", c.name, c.server, c.code, c.data, c.mixed, c.rid, u,
                             c.row))
<1>1. c = Callback(c.pc, c.name, c.server, c.code, c.data, c.mixed, c.rid, c.user, c.row)
    BY DEF CallShape, WholeCall
<1>2. Becomes(k, SetUser(SetPc(c, "identity"), u))
    BY DEF SetPc, SetUser, Becomes
<1>3. SetPc(c, "identity") =
         Callback("identity", c.name, c.server, c.code, c.data, c.mixed, c.rid, c.user, c.row)
    BY <1>1, SetFields
<1> QED BY <1>2, <1>3, SetFields, Fields, BecomesTurns

(* It has an identity.                                                     *)
LEMMA CreateForm ==
    ASSUME CallShape, NEW k \in Calls, NEW c, c = call[k], NEW i,
           call' = [call EXCEPT ![k].pc = "login", ![k].row = i]
    PROVE  Turns(k, Callback("login", c.name, c.server, c.code, c.data, c.mixed, c.rid, c.user,
                             i))
<1>1. c = Callback(c.pc, c.name, c.server, c.code, c.data, c.mixed, c.rid, c.user, c.row)
    BY DEF CallShape, WholeCall
<1>2. Becomes(k, SetRow(SetPc(c, "login"), i))
    BY DEF SetPc, SetRow, Becomes
<1>3. SetPc(c, "login") =
         Callback("login", c.name, c.server, c.code, c.data, c.mixed, c.rid, c.user, c.row)
    BY <1>1, SetFields
<1> QED BY <1>2, <1>3, SetFields, Fields, BecomesTurns

(* The settings change under a callback.                                   *)
LEMMA MixForm ==
    ASSUME NEW c, WholeCall(c), NEW e, e = [c EXCEPT !.mixed = TRUE]
    PROVE  /\ WholeCall(e) /\ (e.mixed = TRUE)
           /\ e.pc = c.pc /\ e.name = c.name /\ e.server = c.server /\ e.code = c.code
           /\ e.data = c.data /\ e.rid = c.rid /\ e.user = c.user /\ e.row = c.row
<1> PICK t : t = TRUE
    OBVIOUS
<1>1. e = SetMixed(c, t)
    BY DEF SetMixed
<1>2. c = Callback(c.pc, c.name, c.server, c.code, c.data, c.mixed, c.rid, c.user, c.row)
    BY DEF WholeCall
<1>3. e = Callback(c.pc, c.name, c.server, c.code, c.data, t, c.rid, c.user, c.row)
    BY ONLY <1>1, <1>2, SetFields
<1>4. e.mixed = t
    BY <1>3, Fields
<1>5. /\ WholeCall(e) /\ e.pc = c.pc /\ e.name = c.name /\ e.server = c.server
      /\ e.code = c.code /\ e.data = c.data /\ e.rid = c.rid /\ e.user = c.user
      /\ e.row = c.row
    BY ONLY <1>3, Fields
<1> QED BY <1>4, <1>5

-----------------------------------------------------------------------------
(* The invariant.                                                          *)

(* How an identity is named.                                               *)
Rid(name, server, uid) ==
    <<IF name = "gitea" /\ server # "gitea.com" THEN server ELSE "", uid>>

Names == {x.provider : x \in People}
Rids == ({""} \cup {c.gitea : c \in Confs}) \X {x.uid : x \in People}
AccountSet == {Account(x) : x \in People}
IdentitySet == [provider : Names, rid : Rids, user : Nat, of : People, mixed : BOOLEAN]

(* The states that requests brought along: Brought, of any ways back.      *)
Given(ways) == {r.state : r \in {q \in ways : ~q.drawn}}

(* Ways back have codes of their own, which are also their states if the   *)
(* program drew them.                                                      *)
Ways(ways, n) ==
    /\ \A r \in ways : /\ r.person \in People /\ r.code \in 1..n
                       /\ (r.drawn /\ r.person.provider \notin Stateless) => r.state = r.code
    /\ \A r, s \in ways : r.code = s.code => r = s

(* States, and one that the program never draws.                           *)
States(n) == 0..n \cup {MaxFlows + 1}

(* The entry of browser b for a provider: of a flow of b, unless its state *)
(* was brought along, and the profile in it, if there is one, is the       *)
(* provider's.                                                             *)
EntryOK(b, name, d, ways, n) ==
    /\ d = Entry(d.state, d.person, d.by) /\ d.state \in States(n)
    /\ d.person = Nobody0 \/ (d.person \in People /\ d.person.provider = name)
    /\ name \notin Stateless => d.state # 0
    /\ (name \notin Stateless /\ d.state \notin Given(ways)) =>
         d.by = b /\ \A r \in ways : r.code = d.state => r.by = b

Sessions(ss, ways, n) ==
    /\ ss = [b \in Browsers |-> ss[b]]
    /\ \A b \in Browsers : \A name \in DOMAIN ss[b] : EntryOK(b, name, ss[b][name], ways, n)

(* Lists of providers name each and its server.                            *)
Known(list) == \A n \in DOMAIN list : n \in STRING /\ list[n] \in STRING /\ list[n] # ""

(* A reload is a record.                                                   *)
Reload(pc, list, alone) == [pc |-> pc, list |-> list, alone |-> alone]
Hook == {"read", "assign", "clear", "take", "use"}
ReloadOK(l) ==
    /\ l = Reload(l.pc, l.list, l.alone) /\ Known(l.list)
    /\ l.pc \in Hook \cup {"none", "done"} /\ l.alone \in BOOLEAN

(* What a reload that runs alone has done of its work, at each place.      *)
Reloaded(l, cf, reg, kept) ==
    /\ l.pc = "assign" => l.list = GetProviders(cf)
    /\ l.pc \in {"clear", "take"} => kept = GetProviders(cf)
    /\ l.pc \in {"take", "use"} => reg = <<>>
    /\ l.pc = "use" => l.list = GetProviders(cf)

(* When no reload is on, and none has overlapped another since one ran     *)
(* alone, the providers known are those of the settings.                   *)
Settings ==
    /\ conf \in Confs /\ torn \in BOOLEAN /\ Known(registry) /\ Known(providers)
    /\ reload = [h \in Changes |-> reload[h]] /\ \A h \in Changes : ReloadOK(reload[h])
    /\ (~ torn /\ \A h \in Changes : reload[h].pc \notin Hook) => registry = GetProviders(conf)
    /\ \A h \in Changes : (reload[h].pc \in Hook /\ ~ reload[h].alone) => torn
    /\ \A h \in Changes : (reload[h].pc \in Hook /\ reload[h].alone) =>
          /\ Reloaded(reload[h], conf, registry, providers)
          /\ \A g \in Changes : reload[g].pc \in Hook => g = h

(* A callback works with an entry of its browser and a code of the same    *)
(* provider, of the same flow once the state is checked (if it was drawn); *)
(* from "fetched" on the profile comes from the server it has asked.       *)
FlowOK(b, c, ways, n) ==
    c.pc # "idle" =>
      /\ EntryOK(b, c.name, c.data, ways, n)
      /\ c.code \in 1..n /\ \A r \in ways : r.code = c.code => r.person.provider = c.name
      /\ c.server # ""
      /\ (c.pc # "failed" /\ c.name \notin Stateless /\ c.data.state \notin Given(ways)) =>
           c.code = c.data.state
      /\ c.pc \notin {"fetch", "authorize", "failed"} => c.data.person.server = c.server

(* While the settings stay, it asks the server they name.                  *)
ConfOK(c, cf) ==
    (c.pc # "idle" /\ ~ c.mixed) =>
      c.name \in DOMAIN GetProviders(cf) /\ c.server = GetProviders(cf)[c.name]

(* What is found or made for a profile.                                    *)
RidOK(c, acc, ids) ==
    /\ c.user \in 0..Len(acc) /\ c.row \in 0..Len(ids) /\ c.mixed \in BOOLEAN
    /\ c.pc \in {"register", "identity", "login"} =>
         /\ c.rid \in Rids
         /\ ~ c.mixed => c.rid = Rid(c.name, c.server, c.data.person.uid)
         /\ c.rid[1] # "" => c.name = "gitea"
    /\ c.pc = "identity" =>
         c.user # 0 /\ (c.rid[1] # "" => acc[c.user].by = c.data.person)
    /\ c.pc = "login" =>
         c.row # 0 /\ ids[c.row].provider = c.name /\ ids[c.row].rid = c.rid

IdOK(i, acc) ==
    /\ i.user \in 1..Len(acc) /\ i.of \in People /\ i.of.provider = i.provider
    /\ i.of.server # ""
    /\ ~ i.mixed => i.rid = Rid(i.provider, i.of.server, i.of.uid)
    /\ i.rid[1] # "" => acc[i.user].by = i.of

Book(acc, ids) ==
    /\ acc \in Seq(AccountSet) /\ ids \in Seq(IdentitySet)
    /\ \A i \in 1..Len(ids) : IdOK(ids[i], acc)

CallsOK ==
    \A k \in Calls : /\ FlowOK(k[1], call[k], redirects, flows)
                     /\ ConfOK(call[k], conf)
                     /\ RidOK(call[k], accounts, identities)

SocialInv ==
    /\ Settings /\ changes \in 0..MaxChanges /\ flows \in 0..MaxFlows
    /\ Ways(redirects, flows) /\ spent \subseteq 1..flows
    /\ Sessions(session, redirects, flows)
    /\ CallShape /\ CallsOK
    /\ Book(accounts, identities)

-----------------------------------------------------------------------------
(* Facts about the parts of the invariant.                                 *)

(* The first of two.                                                       *)
LEMMA FirstOf ==
    ASSUME NEW s, NEW u
    PROVE  <<s, u>>[1] = s
OBVIOUS

(* The name of an identity gives back the server and the user.             *)
LEMMA RidInjective ==
    ASSUME NEW n, NEW s, NEW t, NEW u, NEW v, s # "", t # "", Rid(n, s, u) = Rid(n, t, v)
    PROVE  u = v /\ (n = "gitea" => s = t)
BY DEF Rid

(* The bounds are numbers.                                                 *)
LEMMA Bounds == MaxFlows \in Nat /\ MaxChanges \in Nat
BY SocialAssumption

(* A provider that is known has a name and a server.                       *)
LEMMA ProviderFacts ==
    ASSUME NEW c \in Confs, NEW n \in DOMAIN GetProviders(c)
    PROVE  /\ n \in STRING /\ GetProviders(c)[n] \in STRING /\ GetProviders(c)[n] # ""
           /\ GetProviders(c)[n] = IF n = "gitea" THEN c.gitea ELSE n
<1>1. n \in c.names /\ c.names \subseteq STRING \ {""} /\ c.gitea \in STRING \ {""}
    BY SocialAssumption DEF GetProviders
<1>2. GetProviders(c)[n] = IF n = "gitea" THEN c.gitea ELSE n
    BY DEF GetProviders, giteaSiteURL
<1> QED BY <1>1, <1>2

(* So has one that goth knows.                                             *)
LEMMA RegistryFacts ==
    ASSUME Settings, NEW n \in DOMAIN registry
    PROVE  n \in STRING /\ registry[n] \in STRING /\ registry[n] # ""
BY DEF Settings, Known

(* The lists that are made are right ones.                                 *)
LEMMA KnownLists ==
    /\ Known(<<>>)
    /\ \A c \in Confs : Known(GetProviders(c))
<1>1. Known(<<>>)
    <2>1. DOMAIN <<>> = {}
        OBVIOUS
    <2> QED BY <2>1 DEF Known
<1>2. ASSUME NEW c \in Confs PROVE Known(GetProviders(c))
    BY ProviderFacts DEF Known
<1> QED BY <1>1, <1>2

(* Registering a list adds its providers, or replaces their servers.       *)
LEMMA JoinLists ==
    ASSUME NEW list, Known(list), Known(registry)
    PROVE  Known(registered(list))
BY DEF Known, registered

(* When there were none, it is the list.                                   *)
LEMMA JoinNone ==
    ASSUME NEW c, registry = <<>>
    PROVE  registered(GetProviders(c)) = GetProviders(c)
<1>1. DOMAIN registry = {}
    OBVIOUS
<1> QED BY <1>1 DEF GetProviders, registered

(* What is known of the settings while they stay.                          *)
LEMMA SettingsSame ==
    ASSUME SocialInv, UNCHANGED settings
    PROVE  Settings' /\ (changes \in 0..MaxChanges)' /\ conf' = conf
<1>1. UNCHANGED <<conf, registry, providers, reload, changes, torn>>
    BY DEF settings
<1>2. Settings'
    BY <1>1 DEF SocialInv, Settings, Reloaded, GetProviders, giteaSiteURL
<1> QED BY <1>1, <1>2 DEF SocialInv

(* One more flow takes nothing from what is known of the others.           *)
LEMMA EntryFrame ==
    ASSUME NEW b, NEW name, NEW d, NEW ways, NEW n \in Nat, n < MaxFlows,
           EntryOK(b, name, d, ways, n), NEW r, r.code = n + 1
    PROVE  EntryOK(b, name, d, ways \cup {r}, n + 1)
<1>1. d.state \in States(n + 1) /\ d.state # n + 1
    <2>1. d.state \in 0..n \/ d.state = MaxFlows + 1
        BY DEF EntryOK, States
    <2>2. d.state \in 0..(n + 1) \/ d.state = MaxFlows + 1
        BY <2>1
    <2>3. d.state # n + 1
        BY <2>1, Bounds
    <2> QED BY <2>2, <2>3 DEF States
<1>2. Given(ways) \subseteq Given(ways \cup {r})
    BY DEF Given
<1> QED BY <1>1, <1>2 DEF EntryOK

(* Nor from what is known of a callback.                                   *)
LEMMA FlowFrame ==
    ASSUME NEW b, NEW c, NEW ways, NEW n \in Nat, n < MaxFlows, FlowOK(b, c, ways, n),
           NEW r, r.code = n + 1
    PROVE  FlowOK(b, c, ways \cup {r}, n + 1)
<1>1. CASE c.pc = "idle"
    BY <1>1 DEF FlowOK
<1>2. CASE c.pc # "idle"
    <2>1. EntryOK(b, c.name, c.data, ways \cup {r}, n + 1)
        BY <1>2, EntryFrame DEF FlowOK
    <2>2. c.code \in 1..n /\ c.code \in 1..(n + 1) /\ c.code # n + 1
        <3>1. c.code \in 1..n
            BY <1>2 DEF FlowOK
        <3> QED BY ONLY n \in Nat, <3>1
    <2>3. ASSUME NEW q \in ways \cup {r}, q.code = c.code PROVE q.person.provider = c.name
        <3>1. q \in ways
            BY <2>2, <2>3
        <3> QED BY <1>2, <2>3, <3>1 DEF FlowOK
    <2>5. Given(ways) \subseteq Given(ways \cup {r})
        BY DEF Given
    <2>4. /\ c.server # ""
          /\ (c.pc # "failed" /\ c.name \notin Stateless /\ c.data.state \notin Given(ways)) =>
               c.code = c.data.state
          /\ c.pc \notin {"fetch", "authorize", "failed"} => c.data.person.server = c.server
        BY <1>2 DEF FlowOK
    <2> QED BY ONLY <2>1, <2>2, <2>3, <2>4, <2>5 DEF FlowOK
<1> QED BY <1>1, <1>2

(* Tables only grow.                                                       *)
Grows(a, b) == Len(a) <= Len(b) /\ \A i \in 1..Len(a) : b[i] = a[i]

(* A table that stays has not shrunk.                                      *)
LEMMA GrowsSelf ==
    ASSUME NEW S, NEW a \in Seq(S)
    PROVE  Grows(a, a)
BY DEF Grows

(* Nor has one with a new row, which comes last.                           *)
LEMMA GrowsAppend ==
    ASSUME NEW S, NEW a \in Seq(S), NEW x \in S
    PROVE  /\ Append(a, x) \in Seq(S) /\ Len(Append(a, x)) = Len(a) + 1
           /\ Append(a, x)[Len(a) + 1] = x /\ Grows(a, Append(a, x))
BY DEF Grows

(* A place of a row is not zero, which stands for none.                    *)
LEMMA Places ==
    ASSUME NEW S, NEW s \in Seq(S), NEW i
    PROVE  /\ (i \in 0..Len(s) /\ i # 0) <=> i \in 1..Len(s)
           /\ i \in 1..Len(s) => i \in Nat
OBVIOUS

(* What a callback knows of its rows outlives new ones.                    *)
LEMMA RidFrame ==
    ASSUME NEW c, NEW acc \in Seq(AccountSet), NEW ids \in Seq(IdentitySet),
           NEW acc2 \in Seq(AccountSet), NEW ids2 \in Seq(IdentitySet),
           Grows(acc, acc2), Grows(ids, ids2), RidOK(c, acc, ids)
    PROVE  RidOK(c, acc2, ids2)
<1>1. c.user \in 0..Len(acc) /\ c.row \in 0..Len(ids)
    BY DEF RidOK
<1>2. c.user \in 0..Len(acc2) /\ c.row \in 0..Len(ids2)
    BY <1>1 DEF Grows
<1>3. c.user # 0 => acc2[c.user] = acc[c.user]
    BY <1>1 DEF Grows
<1>4. c.row # 0 => ids2[c.row] = ids[c.row]
    BY <1>1 DEF Grows
<1> QED BY <1>2, <1>3, <1>4 DEF RidOK

(* Storing an entry, and losing them all.                                  *)
LEMMA StoreSessions ==
    ASSUME NEW ways, NEW n, Sessions(session, ways, n), NEW b \in Browsers, NEW name, NEW data,
           EntryOK(b, name, data, ways, n), StoreInSession(b, name, data)
    PROVE  Sessions(session', ways, n)
<1> PICK e : e = [m \in DOMAIN session[b] \cup {name} |->
                     IF m = name THEN data ELSE session[b][m]]
    OBVIOUS
<1>1. session' = [session EXCEPT ![b] = e]
    BY DEF StoreInSession
<1>2. /\ session' = [a \in Browsers |-> session'[a]] /\ session'[b] = e
      /\ \A a \in Browsers : a # b => session'[a] = session[a]
    BY <1>1 DEF Sessions
<1>3. ASSUME NEW m \in DOMAIN e PROVE EntryOK(b, m, e[m], ways, n)
    BY <1>3 DEF Sessions
<1>4. ASSUME NEW a \in Browsers, NEW m \in DOMAIN session'[a]
      PROVE  EntryOK(a, m, session'[a][m], ways, n)
    BY <1>2, <1>3 DEF Sessions
<1> QED BY <1>2, <1>4 DEF Sessions

(* A session that is gone holds nothing.                                   *)
LEMMA EndSessions ==
    ASSUME NEW ways, NEW n, Sessions(session, ways, n), NEW b \in Browsers,
           session' = [session EXCEPT ![b] = NoSession]
    PROVE  Sessions(session', ways, n)
<1>1. /\ session' = [a \in Browsers |-> session'[a]] /\ session'[b] = NoSession
      /\ \A a \in Browsers : a # b => session'[a] = session[a]
    BY DEF Sessions
<1>2. DOMAIN NoSession = {}
    BY DEF NoSession
<1>3. ASSUME NEW a \in Browsers, NEW m \in DOMAIN session'[a]
      PROVE  EntryOK(a, m, session'[a][m], ways, n)
    BY <1>1, <1>2 DEF Sessions
<1> QED BY <1>1, <1>3 DEF Sessions

(* A profile from the server that was asked is a profile of its provider.  *)
LEMMA Profiled ==
    ASSUME NEW b, NEW c, NEW ways, NEW n, FlowOK(b, c, ways, n),
           c.pc \notin {"idle", "fetch", "authorize", "failed"}
    PROVE  /\ c.data.person \in People /\ c.data.person.provider = c.name
           /\ c.data.person.server = c.server /\ c.server # ""
<1>1. c.data.person.server = c.server /\ c.server # ""
    BY DEF FlowOK
<1>2. Nobody0.server = ""
    BY DEF Nobody0
<1> QED BY <1>1, <1>2 DEF FlowOK, EntryOK

(* Rows that are looked up.                                                *)
LEMMA LeastFound ==
    ASSUME NEW I, I \subseteq Nat, I # {}
    PROVE  Min(I) \in I
<1> DEFINE less == {ss \in Nat \X Nat : ss[1] < ss[2]}
<1>1. \A x, y \in Nat : <<x, y>> \in less <=> x < y
    OBVIOUS
<1>2. IsWellFoundedOn(less, Nat)
    BY NatLessThanWellFounded DEF OpToRel
<1> HIDE DEF less
<1>3. PICK x \in I : \A y \in I : <<y, x>> \notin less
    BY <1>2, WFMin
<1>4. \A y \in I : x <= y
    <2> SUFFICES ASSUME NEW y \in I PROVE x <= y
        OBVIOUS
    <2>1. x \in Nat /\ y \in Nat
        OBVIOUS
    <2>2. ~ (y < x)
        BY <1>1, <1>3, <2>1
    <2> QED BY <2>1, <2>2
<1> QED BY <1>4 DEF Min

(* The identity that is found has the name that was asked for.             *)
LEMMA FoundIdentity ==
    ASSUME identities \in Seq(IdentitySet), NEW n, NEW rid,
           NEW i, i = FindAuthIdentityByRemoteUID(n, rid)
    PROVE  /\ i \in 0..Len(identities)
           /\ i # 0 => identities[i].provider = n /\ identities[i].rid = rid
<1> DEFINE I == {j \in 1..Len(identities) : identities[j].provider = n /\ identities[j].rid = rid}
<1>1. i = IF I # {} THEN Min(I) ELSE 0
    BY DEF FindAuthIdentityByRemoteUID, SelectInSeq
<1>2. I # {} => Min(I) \in I
    <2>1. I \subseteq Nat
        OBVIOUS
    <2> HIDE DEF I
    <2> QED BY <2>1, LeastFound
<1> QED BY <1>1, <1>2

(* The account that is found is a row.                                     *)
LEMMA FoundUser ==
    ASSUME accounts \in Seq(AccountSet), NEW x, NEW i, i = FindUser(x)
    PROVE  i \in 0..Len(accounts)
<1> DEFINE I == {j \in 1..Len(accounts) : accounts[j].mail = Email(x) /\ accounts[j].nick = Nick(x)}
<1>1. i = IF I # {} THEN Min(I) ELSE 0
    BY DEF FindUser, SelectInSeq
<1>2. I # {} => Min(I) \in I
    <2>1. I \subseteq Nat
        OBVIOUS
    <2> HIDE DEF I
    <2> QED BY <2>1, LeastFound
<1> QED BY <1>1, <1>2

-----------------------------------------------------------------------------
(* The steps of a callback.                                                *)

(* One callback steps, sessions may lose or gain entries, tables grow.     *)
LEMMA TurnStep ==
    ASSUME SocialInv, NEW k \in Calls, NEW c, Turns(k, c),
           UNCHANGED <<settings, flows, redirects>>,
           spent' \subseteq 1..flows, Sessions(session', redirects, flows),
           FlowOK(k[1], c, redirects, flows), ConfOK(c, conf), RidOK(c, accounts', identities'),
           Grows(accounts, accounts'), Grows(identities, identities'),
           Book(accounts', identities')
    PROVE  SocialInv'
<1>1. CallShape'
    BY DEF CallShape, Turns
<1>2. CallsOK'
    <2> SUFFICES ASSUME NEW j \in Calls
                 PROVE  /\ FlowOK(j[1], call'[j], redirects, flows)
                        /\ ConfOK(call'[j], conf)
                        /\ RidOK(call'[j], accounts', identities')
        BY SettingsSame DEF CallsOK
    <2>1. CASE j = k
        BY <2>1 DEF Turns
    <2>2. CASE j # k
        <3>1. call'[j] = call[j]
            BY <2>2 DEF Turns
        <3>2. /\ FlowOK(j[1], call[j], redirects, flows) /\ ConfOK(call[j], conf)
              /\ RidOK(call[j], accounts, identities)
            BY DEF SocialInv, CallsOK
        <3>3. RidOK(call[j], accounts', identities')
            BY <3>2, RidFrame DEF SocialInv, Book
        <3> QED BY <3>1, <3>2, <3>3
    <2> QED BY <2>1, <2>2
<1>3. /\ Settings' /\ (changes \in 0..MaxChanges)'
      /\ Ways(redirects, flows)' /\ Sessions(session, redirects, flows)'
    BY SettingsSame DEF SocialInv
<1>4. (flows \in 0..MaxFlows /\ spent \subseteq 1..flows)'
    BY DEF SocialInv
<1>5. Book(accounts, identities)'
    OBVIOUS
<1> QED BY <1>1, <1>2, <1>3, <1>4, <1>5 DEF SocialInv

(* Nothing but the callback and the sessions changes.                      *)
LEMMA PlainStep ==
    ASSUME SocialInv, NEW k \in Calls, NEW c, Turns(k, c),
           UNCHANGED <<settings, flows, redirects, accounts, identities>>,
           spent' \subseteq 1..flows, Sessions(session', redirects, flows),
           FlowOK(k[1], c, redirects, flows), ConfOK(c, conf), RidOK(c, accounts, identities)
    PROVE  SocialInv'
<1>1. Grows(accounts, accounts') /\ Grows(identities, identities')
    BY GrowsSelf DEF SocialInv, Book
<1>2. Book(accounts', identities') /\ RidOK(c, accounts', identities')
    BY DEF SocialInv
<1> QED BY <1>1, <1>2, TurnStep

(* A callback ends.                                                        *)
LEMMA EndStep ==
    ASSUME SocialInv, NEW k \in Calls, call' = [call EXCEPT ![k] = Ended],
           UNCHANGED <<settings, flows, redirects, spent, accounts,
                       identities>>,
           Sessions(session', redirects, flows)
    PROVE  SocialInv'
<1>1. Turns(k, Ended)
    BY EndForm DEF SocialInv
<1>2. FlowOK(k[1], Ended, redirects, flows) /\ ConfOK(Ended, conf)
    BY EndedForm DEF FlowOK, ConfOK
<1>3. accounts \in Seq(AccountSet) /\ identities \in Seq(IdentitySet)
    BY DEF SocialInv, Book
<1>4. RidOK(Ended, accounts, identities)
    <2>1. Ended.pc = "idle" /\ Ended.user = 0 /\ Ended.row = 0 /\ Ended.mixed \in BOOLEAN
        BY EndedForm, EndedFields
    <2>2. 0 \in 0..Len(accounts) /\ 0 \in 0..Len(identities)
        BY <1>3
    <2> QED BY ONLY <2>1, <2>2 DEF RidOK
<1>5. spent' \subseteq 1..flows
    BY DEF SocialInv
<1> QED BY <1>1, <1>2, <1>4, <1>5, PlainStep

(* A callback that only goes on, with what it had.                         *)
LEMMA GoesStep ==
    ASSUME SocialInv, NEW k \in Calls, NEW x, Goes(k, x),
           x \in {"fetched", "authorize", "failed", "again", "social"},
           call[k].pc \notin {"idle", "failed"},
           x \in {"fetched", "again", "social"} => call[k].data.person.server = call[k].server,
           UNCHANGED <<settings, flows, redirects, spent, accounts,
                       identities>>,
           Sessions(session', redirects, flows)
    PROVE  SocialInv'
<1> PICK c : c = call[k]
    OBVIOUS
<1> PICK d : d = Callback(x, c.name, c.server, c.code, c.data, c.mixed, c.rid, c.user, c.row)
    OBVIOUS
<1>1. Turns(k, d)
    BY GoesForm DEF SocialInv
<1>2. /\ d.pc = x /\ d.name = c.name /\ d.server = c.server /\ d.code = c.code
      /\ d.data = c.data /\ d.mixed = c.mixed /\ d.user = c.user /\ d.row = c.row
    BY ONLY d = Callback(x, c.name, c.server, c.code, c.data, c.mixed, c.rid, c.user, c.row),
       Fields
<1>3. /\ FlowOK(k[1], c, redirects, flows) /\ ConfOK(c, conf)
      /\ RidOK(c, accounts, identities)
    BY DEF SocialInv, CallsOK
<1>4. FlowOK(k[1], d, redirects, flows)
    <2>1. /\ EntryOK(k[1], d.name, d.data, redirects, flows) /\ d.server # ""
          /\ d.code \in 1..flows
          /\ \A r \in redirects : r.code = d.code => r.person.provider = d.name
        BY <1>2, <1>3 DEF FlowOK
    <2>2. (d.name \notin Stateless /\ d.data.state \notin Given(redirects)) =>
             d.code = d.data.state
        BY <1>2, <1>3 DEF FlowOK
    <2>3. d.pc \notin {"fetch", "authorize", "failed"} => d.data.person.server = d.server
        BY <1>2
    <2> QED BY <2>1, <2>2, <2>3 DEF FlowOK
<1>5. ConfOK(d, conf)
    BY <1>2, <1>3 DEF ConfOK
<1>6. RidOK(d, accounts, identities)
    BY <1>2, <1>3 DEF RidOK
<1>7. spent' \subseteq 1..flows
    BY DEF SocialInv
<1> QED BY <1>1, <1>4, <1>5, <1>6, <1>7, PlainStep

(* A callback begins: of what the session holds, and with a state that     *)
(* fits it.                                                                *)
LEMMA CompleteStep ==
    ASSUME SocialInv, NEW k \in Calls, NEW r \in redirects, CompleteUserAuth(k, r)
    PROVE  SocialInv'
<1> PICK n : n = r.person.provider
    OBVIOUS
<1> PICK d : d = session[k[1]][n]
    OBVIOUS
<1> PICK p : p = IF validateState(d, r.state) THEN "fetch" ELSE "failed"
    OBVIOUS
<1>0. CallShape
    BY DEF SocialInv
<1>1. PICK m \in BOOLEAN :
         /\ (m <=> (torn \/ \E h \in Changes : Reloading(h)))
         /\ Turns(k, Callback(p, n, registry[n], r.code, d, m, Ended.rid, 0, 0))
    BY <1>0, CompleteForm
<1> PICK c : c = Callback(p, n, registry[n], r.code, d, m, Ended.rid, 0, 0)
    OBVIOUS
<1>2. /\ c.pc = p /\ c.name = n /\ c.server = registry[n] /\ c.code = r.code /\ c.data = d
      /\ c.mixed = m /\ c.user = 0 /\ c.row = 0
    BY ONLY c = Callback(p, n, registry[n], r.code, d, m, Ended.rid, 0, 0), Fields
<1>3. k[1] \in Browsers /\ n \in DOMAIN registry /\ n \in DOMAIN session[k[1]]
    BY DEF Calls, CompleteUserAuth
<1>4. EntryOK(k[1], n, d, redirects, flows)
    BY <1>3 DEF SocialInv, Sessions
<1>5. r.code \in 1..flows /\ \A q \in redirects : q.code = r.code => q.person.provider = n
    BY DEF SocialInv, Ways
<1>6. registry[n] # ""
    BY <1>3, RegistryFacts DEF SocialInv
<1>7. p \in {"fetch", "failed"}
    OBVIOUS
<1>8. ASSUME p # "failed", n \notin Stateless, d.state \notin Given(redirects)
      PROVE  r.code = d.state
    <2>1. validateState(d, r.state)
        BY <1>8
    <2>2. d.state # 0
        BY <1>4, <1>8 DEF EntryOK
    <2>3. d.state = r.state
        BY <2>1, <2>2 DEF validateState
    <2>5. r.drawn
        BY <1>8, <2>3 DEF Given
    <2>4. r.state = r.code
        BY <1>8, <2>5 DEF SocialInv, Ways
    <2> QED BY <2>3, <2>4
<1>9. FlowOK(k[1], c, redirects, flows)
    BY ONLY <1>2, <1>4, <1>5, <1>6, <1>7, <1>8 DEF FlowOK
<1>10. ConfOK(c, conf)
    <2> SUFFICES ASSUME ~ m PROVE ConfOK(c, conf)
        BY <1>2 DEF ConfOK
    <2>1. registry = GetProviders(conf)
        BY <1>1 DEF SocialInv, Settings, Reloading, Hook
    <2> QED BY <1>2, <1>3, <2>1 DEF ConfOK
<1>11. RidOK(c, accounts, identities)
    <2>1. 0 \in 0..Len(accounts) /\ 0 \in 0..Len(identities)
        BY DEF SocialInv, Book
    <2> QED BY ONLY <1>2, <1>7, <2>1, m \in BOOLEAN DEF RidOK
<1>12. /\ UNCHANGED <<settings, flows, redirects, accounts, identities>>
       /\ spent' \subseteq 1..flows /\ Sessions(session', redirects, flows)
    BY DEF CompleteUserAuth, SocialInv
<1>13. Turns(k, c)
    BY <1>1
<1> QED BY <1>9, <1>10, <1>11, <1>12, <1>13, PlainStep

(* The profile is asked for, or is in the session already.                 *)
LEMMA FetchStep ==
    ASSUME SocialInv, NEW k \in Calls, FetchUser(k)
    PROVE  SocialInv'
<1>1. /\ UNCHANGED <<settings, flows, redirects, spent, accounts,
                      identities>>
      /\ Sessions(session', redirects, flows)
    BY DEF FetchUser, SocialInv
<1>2. call[k].pc \in {"fetch", "again"}
    BY DEF FetchUser
<1>3. \/ call[k].data.person.server = call[k].server /\ Goes(k, "fetched")
      \/ Goes(k, "authorize") \/ Goes(k, "failed")
    BY DEF FetchUser
<1> QED BY <1>1, <1>2, <1>3, GoesStep

(* The code is exchanged: it is that of the flow the state belongs to.     *)
LEMMA AuthorizeStep ==
    ASSUME SocialInv, NEW k \in Calls, Authorize(k)
    PROVE  SocialInv'
<1> PICK c : c = call[k]
    OBVIOUS
<1> PICK d : d = c.data
    OBVIOUS
<1>1. /\ UNCHANGED <<settings, flows, redirects, accounts, identities>>
      /\ Sessions(session', redirects, flows) /\ c.pc = "authorize"
    BY DEF Authorize, SocialInv
<1>2. /\ FlowOK(k[1], c, redirects, flows) /\ ConfOK(c, conf)
      /\ RidOK(c, accounts, identities)
    BY DEF SocialInv, CallsOK
<1>3. /\ EntryOK(k[1], c.name, d, redirects, flows) /\ c.code \in 1..flows /\ c.server # ""
      /\ \A r \in redirects : r.code = c.code => r.person.provider = c.name
      /\ (c.name \notin Stateless /\ d.state \notin Given(redirects)) => c.code = d.state
    BY <1>1, <1>2 DEF FlowOK
<1>4. spent' \subseteq 1..flows
    BY <1>3 DEF Authorize, SocialInv
<1>5. CASE Goes(k, "failed") /\ spent' = spent
    BY <1>1, <1>5, GoesStep
<1>6. ASSUME NEW r \in redirects, r.code = c.code, r.person.server = c.server,
             call' = [call EXCEPT ![k].pc = "store",
                        ![k].data = [@ EXCEPT !.person = r.person, !.by = r.by]]
      PROVE  SocialInv'
    <2> PICK e : e = Entry(d.state, r.person, r.by)
        OBVIOUS
    <2> PICK f : f = Callback("store", c.name, c.server, c.code, e, c.mixed, c.rid, c.user, c.row)
        OBVIOUS
    <2>1. CallShape /\ d = Entry(d.state, d.person, d.by)
        BY <1>3 DEF SocialInv, EntryOK
    <2>2. Turns(k, f)
        BY <1>6, <2>1, AuthorizeForm
    <2>3. /\ f.pc = "store" /\ f.name = c.name /\ f.server = c.server /\ f.code = c.code
          /\ f.data = e /\ f.mixed = c.mixed /\ f.user = c.user /\ f.row = c.row
        BY ONLY f = Callback("store", c.name, c.server, c.code, e, c.mixed, c.rid, c.user, c.row),
           Fields
    <2>4. e.state = d.state /\ e.person = r.person /\ e.by = r.by
        BY ONLY e = Entry(d.state, r.person, r.by), EntryFields
    <2>5. r.person \in People /\ r.person.provider = c.name
        BY <1>3, <1>6 DEF SocialInv, Ways
    <2>6. e = Entry(e.state, e.person, e.by)
        BY <2>4
    <2>7. /\ c.name \notin Stateless => e.state # 0
          /\ (c.name \notin Stateless /\ e.state \notin Given(redirects)) =>
               e.by = k[1] /\ \A q \in redirects : q.code = e.state => q.by = k[1]
        BY <1>3, <1>6, <2>4 DEF EntryOK
    <2>8. e.state \in States(flows)
        BY <1>3, <2>4 DEF EntryOK
    <2>9. EntryOK(k[1], c.name, e, redirects, flows)
        BY ONLY <2>4, <2>5, <2>6, <2>7, <2>8 DEF EntryOK
    <2>10. e.person.server = c.server
        BY <1>6, <2>4
    <2>11. FlowOK(k[1], f, redirects, flows)
        BY ONLY <1>3, <2>3, <2>4, <2>9, <2>10 DEF FlowOK
    <2>12. ConfOK(f, conf) /\ RidOK(f, accounts, identities)
        BY <1>1, <1>2, <2>3 DEF ConfOK, RidOK
    <2> QED BY <1>1, <1>4, <2>2, <2>11, <2>12, PlainStep
<1> QED BY <1>5, <1>6 DEF Authorize

(* What the callback has is stored in the session.                         *)
LEMMA StoreStep ==
    ASSUME SocialInv, NEW k \in Calls, StoreToken(k)
    PROVE  SocialInv'
<1> PICK c : c = call[k]
    OBVIOUS
<1>1. k[1] \in Browsers /\ c.pc = "store"
    BY DEF Calls, StoreToken
<1>2. FlowOK(k[1], c, redirects, flows)
    BY DEF SocialInv, CallsOK
<1>3. EntryOK(k[1], c.name, c.data, redirects, flows) /\ c.data.person.server = c.server
    BY <1>1, <1>2 DEF FlowOK
<1>4. StoreInSession(k[1], c.name, c.data) /\ Goes(k, "again")
    BY DEF StoreToken
<1>5. Sessions(session', redirects, flows)
    BY <1>1, <1>3, <1>4, StoreSessions DEF SocialInv
<1> QED BY <1>1, <1>3, <1>4, <1>5, GoesStep DEF StoreToken

(* The session goes.                                                       *)
LEMMA LogoutStep ==
    ASSUME SocialInv, NEW k \in Calls, Logout(k)
    PROVE  SocialInv'
<1> PICK c : c = call[k]
    OBVIOUS
<1>1. k[1] \in Browsers /\ c.pc \in {"fetched", "failed"}
    BY DEF Calls, Logout
<1>2. session' = [session EXCEPT ![k[1]] = NoSession]
    BY DEF Logout
<1>3. Sessions(session', redirects, flows)
    BY <1>1, <1>2, EndSessions DEF SocialInv
<1>4. UNCHANGED <<settings, flows, redirects, spent, accounts, identities>>
    BY DEF Logout
<1>5. CASE c.pc = "failed"
    <2>1. call' = [call EXCEPT ![k] = Ended]
        BY <1>5 DEF Logout
    <2> QED BY <1>3, <1>4, <2>1, EndStep
<1>6. CASE c.pc = "fetched"
    <2>1. Goes(k, "social")
        BY <1>6 DEF Logout, Goes
    <2>2. c.data.person.server = c.server
        BY <1>6 DEF SocialInv, CallsOK, FlowOK
    <2> QED BY <1>3, <1>4, <1>6, <2>1, <2>2, GoesStep
<1> QED BY <1>1, <1>5, <1>6

(* What names the identity of a profile.                                   *)
LEMMA RemoteFacts ==
    ASSUME SocialInv, NEW x \in People, NEW rid, rid = RemoteUID(x)
    PROVE  /\ rid \in Rids /\ (rid[1] # "" => x.provider = "gitea")
           /\ x.provider # "gitea" => rid = <<"", x.uid>>
           /\ (x.provider = "gitea" /\ conf.gitea = "gitea.com") => rid = <<"", x.uid>>
           /\ (x.provider = "gitea" /\ conf.gitea # "gitea.com") => rid = <<conf.gitea, x.uid>>
<1>1. conf \in Confs
    BY DEF SocialInv, Settings
<1>2. /\ x.provider # "gitea" => rid = <<"", x.uid>>
      /\ (x.provider = "gitea" /\ conf.gitea = "gitea.com") => rid = <<"", x.uid>>
      /\ (x.provider = "gitea" /\ conf.gitea # "gitea.com") => rid = <<conf.gitea, x.uid>>
    BY DEF RemoteUID, giteaRemoteUID, giteaSiteURL
<1>3. <<"", x.uid>> \in Rids /\ <<conf.gitea, x.uid>> \in Rids
    BY <1>1 DEF Rids
<1>4. ASSUME x.provider # "gitea" PROVE rid[1] = ""
    <2>1. rid = <<"", x.uid>>
        BY <1>2, <1>4
    <2> QED BY ONLY <2>1
<1> QED BY <1>2, <1>3, <1>4

(* The identity is looked up by the settings of now: those the callback    *)
(* has asked the server of, unless they have changed.                      *)
LEMMA SocialStep ==
    ASSUME SocialInv, NEW k \in Calls, GetSocialUser(k)
    PROVE  SocialInv'
<1> PICK c : c = call[k]
    OBVIOUS
<1> PICK x : x = c.data.person
    OBVIOUS
<1> PICK rid : rid = RemoteUID(x)
    OBVIOUS
<1> PICK found : found = FindAuthIdentityByRemoteUID(c.name, rid)
    OBVIOUS
<1> PICK p : p = IF found = 0 THEN "register" ELSE "login"
    OBVIOUS
<1>1. /\ UNCHANGED <<settings, flows, redirects, spent, accounts,
                      identities>>
      /\ Sessions(session', redirects, flows) /\ c.pc = "social"
    BY DEF GetSocialUser, SocialInv
<1>2. /\ FlowOK(k[1], c, redirects, flows) /\ ConfOK(c, conf) /\ RidOK(c, accounts, identities)
    BY DEF SocialInv, CallsOK
<1>3. x \in People /\ x.provider = c.name /\ x.server = c.server /\ c.server # ""
    BY <1>1, <1>2, Profiled
<1>4. CASE call' = [call EXCEPT ![k] = Ended]
    BY <1>1, <1>4, EndStep
<1>5. CASE /\ call' = [call EXCEPT ![k].rid = rid, ![k].row = found, ![k].pc = p]
           /\ ~ (x.provider = "gitea" /\ conf.gitea = "invalid")
    <2> PICK f : f = Callback(p, c.name, c.server, c.code, c.data, c.mixed, rid, c.user, found)
        OBVIOUS
    <2>1. Turns(k, f)
        BY <1>5, SocialForm DEF SocialInv
    <2>2. /\ f.pc = p /\ f.name = c.name /\ f.server = c.server /\ f.code = c.code
          /\ f.data = c.data /\ f.mixed = c.mixed /\ f.rid = rid /\ f.user = c.user
          /\ f.row = found
        BY ONLY f = Callback(p, c.name, c.server, c.code, c.data, c.mixed, rid, c.user, found),
           Fields
    <2>3. p \in {"register", "login"}
        OBVIOUS
    <2>4. FlowOK(k[1], f, redirects, flows)
        BY ONLY <1>1, <1>2, <2>2, <2>3 DEF FlowOK
    <2>5. ConfOK(f, conf)
        BY ONLY <1>1, <1>2, <2>2, <2>3 DEF ConfOK
    <2>6. rid \in Rids /\ (rid[1] # "" => c.name = "gitea")
        BY <1>3, RemoteFacts
    <2>7. ~ c.mixed => rid = Rid(c.name, c.server, x.uid)
        <3> SUFFICES ASSUME ~ c.mixed PROVE rid = Rid(c.name, c.server, x.uid)
            OBVIOUS
        <3>1. conf \in Confs /\ c.name \in DOMAIN GetProviders(conf)
              /\ c.server = GetProviders(conf)[c.name]
            BY <1>1, <1>2 DEF ConfOK, SocialInv, Settings
        <3>2. c.name = "gitea" => c.server = conf.gitea
            BY <3>1, ProviderFacts
        <3>3. CASE c.name = "gitea"
            BY <1>3, <3>2, <3>3, RemoteFacts DEF Rid
        <3>4. CASE c.name # "gitea"
            <4>1. rid = <<"", x.uid>>
                BY <1>3, <3>4, RemoteFacts
            <4> QED BY ONLY <4>1, <3>4 DEF Rid
        <3> QED BY <3>3, <3>4
    <2>8. /\ found \in 0..Len(identities)
          /\ found # 0 => identities[found].provider = c.name /\ identities[found].rid = rid
        BY FoundIdentity DEF SocialInv, Book
    <2>9. p = "login" => found # 0
        OBVIOUS
    <2>10. c.user \in 0..Len(accounts) /\ c.mixed \in BOOLEAN
        BY <1>2 DEF RidOK
    <2>11. RidOK(f, accounts, identities)
        BY ONLY <2>2, <2>3, <2>6, <2>7, <2>8, <2>9, <2>10, x = c.data.person DEF RidOK
    <2>12. spent' \subseteq 1..flows
        BY <1>1 DEF SocialInv
    <2> QED BY <1>1, <2>1, <2>4, <2>5, <2>11, <2>12, PlainStep
<1> QED BY <1>4, <1>5 DEF GetSocialUser, giteaSiteURL

(* A profile is registered: one of a self-hosted server always with an     *)
(* account of its own.                                                     *)
LEMMA RegisterStep ==
    ASSUME SocialInv, NEW k \in Calls, RegisterSocialUser(k)
    PROVE  SocialInv'
<1> PICK c : c = call[k]
    OBVIOUS
<1> PICK x : x = c.data.person
    OBVIOUS
<1>1. /\ UNCHANGED <<settings, flows, redirects, spent, identities>>
      /\ Sessions(session', redirects, flows) /\ c.pc = "register"
    BY DEF RegisterSocialUser, SocialInv
<1>2. /\ FlowOK(k[1], c, redirects, flows) /\ ConfOK(c, conf) /\ RidOK(c, accounts, identities)
      /\ CallShape
    BY DEF SocialInv, CallsOK
<1>3. x \in People /\ x.provider = c.name
    BY <1>1, <1>2, Profiled
<1>4. Book(accounts, identities) /\ accounts \in Seq(AccountSet)
      /\ identities \in Seq(IdentitySet)
    BY DEF SocialInv, Book
<1>5. ASSUME NEW acc \in Seq(AccountSet), Grows(accounts, acc)
      PROVE  Book(acc, identities)
    <2> SUFFICES ASSUME NEW i \in 1..Len(identities) PROVE IdOK(identities[i], acc)
        BY <1>4 DEF Book
    <2> PICK d : d = identities[i]
        OBVIOUS
    <2>1. IdOK(d, accounts)
        BY <1>4 DEF Book
    <2>2. d.user \in 1..Len(accounts)
        BY <2>1 DEF IdOK
    <2>3. d.user \in 1..Len(acc) /\ acc[d.user] = accounts[d.user]
        BY <1>4, <1>5, <2>2 DEF Grows
    <2> QED BY <2>1, <2>3 DEF IdOK
<1>6. ASSUME NEW acc \in Seq(AccountSet), accounts' = acc, Grows(accounts, acc),
             NEW u \in 1..Len(acc), c.rid[1] # "" => acc[u].by = x,
             call' = [call EXCEPT ![k].pc = "identity", ![k].user = u]
      PROVE  SocialInv'
    <2> PICK f : f = Callback("identity", c.name, c.server, c.code, c.data, c.mixed, c.rid, u,
                              c.row)
        OBVIOUS
    <2>1. Turns(k, f)
        BY <1>2, <1>6, RegisterForm
    <2>2. /\ f.pc = "identity" /\ f.name = c.name /\ f.server = c.server /\ f.code = c.code
          /\ f.data = c.data /\ f.mixed = c.mixed /\ f.rid = c.rid /\ f.user = u
          /\ f.row = c.row
        BY ONLY f = Callback("identity", c.name, c.server, c.code, c.data, c.mixed, c.rid, u,
                             c.row), Fields
    <2>3. FlowOK(k[1], f, redirects, flows)
        BY ONLY <1>1, <1>2, <2>2 DEF FlowOK
    <2>4. ConfOK(f, conf)
        BY ONLY <1>1, <1>2, <2>2 DEF ConfOK
    <2>5. u \in 0..Len(acc) /\ u # 0
        BY ONLY acc \in Seq(AccountSet), u \in 1..Len(acc), Places
    <2>6. RidOK(f, acc, identities)
        BY ONLY <1>1, <1>2, <1>6, <2>2, <2>5, x = c.data.person DEF RidOK
    <2>7. Book(acc, identities)
        BY <1>5, <1>6
    <2>8. Grows(identities, identities')
        BY <1>1, <1>4, GrowsSelf
    <2>9. spent' \subseteq 1..flows
        BY <1>1 DEF SocialInv
    <2> QED BY <1>1, <1>6, <2>1, <2>3, <2>4, <2>6, <2>7, <2>8, <2>9, TurnStep
<1>7. CASE FindUser(x) # 0 /\ ~ (x.provider = "gitea" /\ c.rid[1] # "")
    <2> PICK u : u = FindUser(x)
        OBVIOUS
    <2>1. u \in 0..Len(accounts) /\ u # 0
        BY <1>4, <1>7, FoundUser
    <2>5. u \in 1..Len(accounts)
        BY ONLY <1>4, <2>1, Places
    <2>2. c.rid[1] = ""
        BY <1>1, <1>2, <1>3, <1>7 DEF RidOK
    <2>3. accounts' = accounts /\ call' = [call EXCEPT ![k].pc = "identity", ![k].user = u]
        BY <1>7 DEF RegisterSocialUser
    <2>4. Grows(accounts, accounts)
        BY <1>4, GrowsSelf
    <2> QED BY <1>4, <1>6, <2>2, <2>3, <2>4, <2>5
<1>8. CASE ~ (FindUser(x) # 0 /\ ~ (x.provider = "gitea" /\ c.rid[1] # ""))
    <2> PICK a : a = Account(x)
        OBVIOUS
    <2> PICK acc : acc = Append(accounts, a)
        OBVIOUS
    <2> PICK u : u = Len(accounts) + 1
        OBVIOUS
    <2>1. accounts' = acc /\ call' = [call EXCEPT ![k].pc = "identity", ![k].user = u]
        BY <1>8 DEF RegisterSocialUser
    <2>2. a \in AccountSet /\ a.by = x
        BY <1>3 DEF AccountSet, Account
    <2>3. /\ acc \in Seq(AccountSet) /\ Len(acc) = u /\ acc[u] = a /\ Grows(accounts, acc)
        BY <1>4, <2>2, GrowsAppend
    <2>4. u \in 1..Len(acc)
        BY <1>4, <2>3
    <2> QED BY <1>6, <2>1, <2>2, <2>3, <2>4
<1> QED BY <1>7, <1>8

(* The identity is filed under its name.                                   *)
LEMMA CreateStep ==
    ASSUME SocialInv, NEW k \in Calls, CreateAuthIdentity(k)
    PROVE  SocialInv'
<1> PICK c : c = call[k]
    OBVIOUS
<1> PICK x : x = c.data.person
    OBVIOUS
<1> PICK i : i = [provider |-> c.name, rid |-> c.rid, user |-> c.user, of |-> x,
                  mixed |-> c.mixed]
    OBVIOUS
<1> PICK ids : ids = Append(identities, i)
    OBVIOUS
<1> PICK n : n = Len(identities) + 1
    OBVIOUS
<1>1. /\ UNCHANGED <<settings, flows, redirects, spent, accounts>>
      /\ Sessions(session', redirects, flows) /\ c.pc = "identity" /\ identities' = ids
      /\ call' = [call EXCEPT ![k].pc = "login", ![k].row = n]
    BY DEF CreateAuthIdentity, SocialInv
<1>2. /\ FlowOK(k[1], c, redirects, flows) /\ ConfOK(c, conf) /\ RidOK(c, accounts, identities)
      /\ CallShape
    BY DEF SocialInv, CallsOK
<1>3. x \in People /\ x.provider = c.name /\ x.server = c.server /\ c.server # ""
    BY <1>1, <1>2, Profiled
<1>4. Book(accounts, identities) /\ accounts \in Seq(AccountSet)
      /\ identities \in Seq(IdentitySet)
    BY DEF SocialInv, Book
<1>5. /\ i.provider = c.name /\ i.rid = c.rid /\ i.user = c.user /\ i.of = x
      /\ i.mixed = c.mixed
    OBVIOUS
<1>6. /\ c.rid \in Rids /\ c.mixed \in BOOLEAN /\ c.user \in 0..Len(accounts) /\ c.user # 0
      /\ ~ c.mixed => c.rid = Rid(c.name, c.server, x.uid)
      /\ c.rid[1] # "" => (c.name = "gitea" /\ accounts[c.user].by = x)
    BY <1>1, <1>2 DEF RidOK
<1>7. c.user \in 1..Len(accounts) /\ c.user \in Nat
    BY ONLY <1>4, <1>6, Places
<1>8. i \in IdentitySet
    BY <1>3, <1>6, <1>7 DEF IdentitySet, Names
<1>9. IdOK(i, accounts)
    BY ONLY <1>3, <1>5, <1>6, <1>7 DEF IdOK
<1>10. /\ ids \in Seq(IdentitySet) /\ Len(ids) = n /\ ids[n] = i /\ Grows(identities, ids)
    BY <1>4, <1>8, GrowsAppend
<1>11. Book(accounts, ids)
    <2> SUFFICES ASSUME NEW j \in 1..Len(ids) PROVE IdOK(ids[j], accounts)
        BY <1>4, <1>10 DEF Book
    <2>1. j = n \/ j \in 1..Len(identities)
        BY <1>4, <1>10
    <2>2. CASE j = n
        BY <1>9, <1>10, <2>2
    <2>3. CASE j \in 1..Len(identities)
        BY <1>4, <1>10, <2>3 DEF Grows, Book
    <2> QED BY <2>1, <2>2, <2>3
<1> PICK f : f = Callback("login", c.name, c.server, c.code, c.data, c.mixed, c.rid, c.user, n)
    OBVIOUS
<1>12. Turns(k, f)
    BY <1>1, <1>2, CreateForm
<1>13. /\ f.pc = "login" /\ f.name = c.name /\ f.server = c.server /\ f.code = c.code
       /\ f.data = c.data /\ f.mixed = c.mixed /\ f.rid = c.rid /\ f.user = c.user
       /\ f.row = n
    BY ONLY f = Callback("login", c.name, c.server, c.code, c.data, c.mixed, c.rid, c.user, n),
       Fields
<1>14. FlowOK(k[1], f, redirects, flows) /\ ConfOK(f, conf)
    BY ONLY <1>1, <1>2, <1>13 DEF FlowOK, ConfOK
<1>15. n \in 0..Len(ids) /\ n # 0
    BY <1>4, <1>10
<1>16. RidOK(f, accounts, ids)
    BY ONLY <1>5, <1>6, <1>10, <1>13, <1>15, x = c.data.person DEF RidOK
<1>17. Grows(accounts, accounts') /\ spent' \subseteq 1..flows
    BY <1>1, <1>4, GrowsSelf DEF SocialInv
<1> QED BY <1>1, <1>10, <1>11, <1>12, <1>14, <1>16, <1>17, TurnStep

-----------------------------------------------------------------------------
(* The other steps.                                                        *)

(* The fields of a reload.                                                 *)
LEMMA ReloadFields ==
    ASSUME NEW pc, NEW list, NEW alone
    PROVE  /\ Reload(pc, list, alone).pc = pc /\ Reload(pc, list, alone).list = list
           /\ Reload(pc, list, alone).alone = alone
BY DEF Reload

(* New settings: every callback in progress counts as mixed.               *)
LEMMA UpdateStep ==
    ASSUME SocialInv, NEW cf \in Confs, UpdateConf(cf)
    PROVE  SocialInv'
<1> PICK h : h = changes + 1
    OBVIOUS
<1> PICK alone \in BOOLEAN : alone = \A g \in Changes : ~ Reloading(g)
    BY Zenon
<1>1. /\ conf' = cf /\ changes' = h /\ changes < MaxChanges
      /\ UNCHANGED <<registry, providers, session, flows, redirects, spent, accounts,
                     identities>>
    BY DEF UpdateConf
<1>10. /\ torn' = (torn \/ ~ alone)
       /\ reload' = [g \in Changes |-> IF g = h THEN [NoReload EXCEPT !.pc = "read",
                                                                    !.alone = alone]
                                      ELSE [reload[g] EXCEPT !.alone = FALSE]]
    BY DEF UpdateConf
<1>11. Settings
    BY DEF SocialInv
<1>12. ASSUME NEW g \in Changes, g # h
       PROVE  reload'[g] = Reload(reload[g].pc, reload[g].list, FALSE)
    <2> PICK l : l = reload[g]
        OBVIOUS
    <2>1. l = Reload(l.pc, l.list, l.alone)
        BY <1>11 DEF Settings, ReloadOK
    <2>2. reload'[g] = [l EXCEPT !.alone = FALSE]
        BY <1>10, <1>12
    <2> QED BY <2>1, <2>2 DEF Reload
<1>13. h \in Changes => reload'[h] = Reload("read", <<>>, alone)
    BY <1>10 DEF NoReload, Reload
<1>14. ASSUME NEW g \in Changes PROVE ReloadOK(reload'[g])
    <2>1. CASE g = h
        <3> PICK l : l = reload'[g]
            OBVIOUS
        <3>1. l.pc = "read" /\ l.list = <<>> /\ l.alone = alone
            <4> PICK t : t = <<>>
                OBVIOUS
            <4>1. l = Reload("read", t, alone)
                BY <1>13, <2>1
            <4>2. l.pc = "read" /\ l.list = t
                BY <4>1 DEF Reload
            <4>3. l.alone = alone
                BY <4>1 DEF Reload
            <4> QED BY <4>2, <4>3
        <3>2. l = Reload(l.pc, l.list, l.alone)
            BY <1>13, <2>1, <3>1
        <3> QED BY <3>1, <3>2, KnownLists DEF ReloadOK, Hook
    <2>2. CASE g # h
        <3> PICK l, e : l = reload[g] /\ e = reload'[g]
            OBVIOUS
        <3>1. ReloadOK(l)
            BY <1>11 DEF Settings
        <3>2. e = Reload(l.pc, l.list, FALSE)
            BY <1>12, <2>2
        <3>3. e.pc = l.pc /\ e.list = l.list /\ (e.alone = FALSE)
            BY <3>2 DEF Reload
        <3> QED BY <3>1, <3>2, <3>3 DEF ReloadOK
    <2> QED BY <2>1, <2>2
<1>15. ASSUME NEW g \in Changes
       PROVE  /\ reload'[g].pc \in Hook <=> (g = h \/ reload[g].pc \in Hook)
              /\ reload'[g].alone => g = h /\ alone
    <2>1. CASE g = h
        BY <1>13, <2>1 DEF Reload, Hook
    <2>2. CASE g # h
        <3> PICK l, e, f : l = reload[g] /\ e = reload'[g] /\ f = FALSE
            OBVIOUS
        <3>1. e = Reload(l.pc, l.list, f)
            BY <1>12, <2>2
        <3>2. e.pc = l.pc /\ e.alone = f
            BY <3>1, ReloadFields
        <3> QED BY <2>2, <3>2
    <2> QED BY <2>1, <2>2
<1>16. h \in Changes
    BY <1>1, Bounds DEF Changes, SocialInv
<1>2. Settings'
    <2>1. (conf \in Confs /\ torn \in BOOLEAN /\ Known(registry) /\ Known(providers))'
        BY <1>1, <1>10, <1>11 DEF Settings, Known
    <2>2. (reload = [g \in Changes |-> reload[g]] /\ \A g \in Changes : ReloadOK(reload[g]))'
        BY <1>10, <1>14
    <2>3. ~ (\A g \in Changes : reload'[g].pc \notin Hook)
        BY <1>15, <1>16
    <2>4. ASSUME NEW g \in Changes, reload'[g].pc \in Hook, ~ reload'[g].alone PROVE torn'
        <3>1. CASE g = h
            <4>1. ~ alone
                BY <1>13, <2>4, <3>1 DEF Reload
            <4> QED BY <1>10, <4>1
        <3>2. CASE g # h
            <4>1. Reloading(g)
                BY <1>15, <2>4, <3>2 DEF Hook, Reloading
            <4> QED BY <1>10, <4>1
        <3> QED BY <3>1, <3>2
    <2>5. ASSUME NEW g \in Changes, reload'[g].pc \in Hook, reload'[g].alone
          PROVE  /\ Reloaded(reload'[g], conf', registry', providers')
                 /\ \A f \in Changes : reload'[f].pc \in Hook => f = g
        <3>1. g = h /\ alone
            BY <1>15, <2>5
        <3>2. reload'[g].pc = "read"
            BY <1>13, <3>1 DEF Reload
        <3>3. ASSUME NEW f \in Changes, reload'[f].pc \in Hook PROVE f = h
            BY <1>15, <3>1, <3>3 DEF Reloading, Hook
        <3> QED BY <3>1, <3>2, <3>3 DEF Reloaded
    <2> QED BY <2>1, <2>2, <2>3, <2>4, <2>5 DEF Settings
<1>3. changes' \in 0..MaxChanges
    BY <1>1, <1>16 DEF Changes
<1>4. call' = [k \in Calls |-> call'[k]]
    BY DEF UpdateConf
<1>5. ASSUME NEW k \in Calls
      PROVE  /\ WholeCall(call'[k])
             /\ FlowOK(k[1], call'[k], redirects, flows) /\ ConfOK(call'[k], cf)
             /\ RidOK(call'[k], accounts, identities)
    <2> PICK c : c = call[k]
        OBVIOUS
    <2> PICK e : e = call'[k]
        OBVIOUS
    <2>1. /\ WholeCall(c) /\ FlowOK(k[1], c, redirects, flows)
          /\ RidOK(c, accounts, identities)
        BY DEF SocialInv, CallShape, CallsOK
    <2>2. CASE c.pc = "idle"
        <3>1. e = Ended
            BY <2>2 DEF UpdateConf
        <3>2. /\ e.pc = "idle" /\ e.user = 0 /\ e.row = 0 /\ e.mixed \in BOOLEAN
              /\ WholeCall(e)
            BY <3>1, EndedForm, EndedFields
        <3>3. 0 \in 0..Len(accounts) /\ 0 \in 0..Len(identities)
            BY DEF SocialInv, Book
        <3>4. WholeCall(e) /\ FlowOK(k[1], e, redirects, flows) /\ ConfOK(e, cf)
              /\ RidOK(e, accounts, identities)
            BY ONLY <3>2, <3>3 DEF FlowOK, ConfOK, RidOK
        <3> QED BY <3>4
    <2>3. CASE c.pc # "idle"
        <3>1. e = [c EXCEPT !.mixed = TRUE]
            BY <2>3 DEF UpdateConf
        <3>2. /\ WholeCall(e) /\ (e.mixed = TRUE)
              /\ e.pc = c.pc /\ e.name = c.name /\ e.server = c.server /\ e.code = c.code
              /\ e.data = c.data /\ e.rid = c.rid /\ e.user = c.user /\ e.row = c.row
            BY ONLY <2>1, <3>1, MixForm
        <3>3. e.mixed \in BOOLEAN
            BY <3>2
        <3>4. FlowOK(k[1], e, redirects, flows)
            BY ONLY <2>1, <3>2 DEF FlowOK
        <3>5. ConfOK(e, cf)
            BY ONLY <3>2 DEF ConfOK
        <3>6. RidOK(e, accounts, identities)
            BY ONLY <2>1, <3>2, <3>3 DEF RidOK
        <3> QED BY <3>2, <3>4, <3>5, <3>6
    <2> QED BY <2>2, <2>3
<1>6. CallShape'
    BY <1>4, <1>5 DEF CallShape
<1>7. CallsOK'
    BY <1>1, <1>5 DEF CallsOK
<1>8. /\ Ways(redirects, flows)' /\ Sessions(session, redirects, flows)'
      /\ Book(accounts, identities)'
    BY <1>1 DEF SocialInv
<1>9. (flows \in 0..MaxFlows /\ spent \subseteq 1..flows)'
    BY <1>1 DEF SocialInv
<1> QED BY <1>2, <1>3, <1>6, <1>7, <1>8, <1>9 DEF SocialInv

(* One step of a reload.                                                   *)
LEMMA HookStep ==
    ASSUME SocialInv, NEW h \in Changes, NEW from \in Hook, NEW to, NEW list,
           to \in (Hook \ {"read"}) \cup {"done"}, loadProviders(h, from, to, list),
           Known(list), Known(registry'), Known(providers'),
           torn' = IF to = "done" THEN torn /\ ~ reload[h].alone ELSE torn,
           reload[h].alone =>
             /\ Reloaded(Reload(to, list, TRUE), conf, registry', providers')
             /\ to = "done" => registry' = GetProviders(conf)
    PROVE  SocialInv'
<1>1. /\ reload[h].pc = from
      /\ reload' = [reload EXCEPT ![h] = [@ EXCEPT !.pc = to, !.list = list]]
      /\ UNCHANGED <<conf, changes, session, flows, redirects, spent, call, accounts,
                     identities>>
    BY DEF loadProviders
<1>2. Settings
    BY DEF SocialInv
<1> PICK l : l = reload[h]
    OBVIOUS
<1> PICK alone \in BOOLEAN : alone = l.alone
    BY <1>2 DEF Settings, ReloadOK
<1> PICK e : e = Reload(to, list, alone)
    OBVIOUS
<1>3. l = Reload(l.pc, l.list, alone)
    BY <1>2 DEF Settings, ReloadOK
<1>4. /\ reload' = [g \in Changes |-> reload'[g]]
      /\ reload'[h] = [l EXCEPT !.pc = to, !.list = list]
    BY <1>1, <1>2 DEF Settings
<1>11. \A g \in Changes : g # h => reload'[g] = reload[g]
    BY <1>1, <1>2 DEF Settings
<1>5. reload'[h] = e
    BY <1>3, <1>4 DEF Reload
<1>6. e.pc = to /\ e.list = list /\ e.alone = alone
    BY ReloadFields
<1>7. alone => Reloaded(e, conf, registry', providers')
    BY DEF Reload
<1>8. ReloadOK(e)
    BY <1>6 DEF ReloadOK
<1>9. GetProviders(conf)' = GetProviders(conf) /\ conf' \in Confs
    BY <1>1, <1>2 DEF GetProviders, giteaSiteURL, Settings
<1>10. Settings'
    <2>1. (conf \in Confs /\ torn \in BOOLEAN /\ Known(registry) /\ Known(providers))'
        <3>1. torn \in BOOLEAN
            BY <1>2 DEF Settings
        <3> QED BY <1>9, <3>1
    <2>2. (reload = [g \in Changes |-> reload[g]] /\ \A g \in Changes : ReloadOK(reload[g]))'
        BY <1>2, <1>4, <1>5, <1>8, <1>11 DEF Settings
    <2>3. CASE alone
        <3>1. \A g \in Changes : reload[g].pc \in Hook => g = h
            BY <1>1, <1>2, <2>3 DEF Settings
        <3>2. ASSUME NEW g \in Changes, g # h PROVE reload'[g].pc \notin Hook
            BY <1>11, <3>1, <3>2
        <3>3. (~ torn' /\ \A g \in Changes : reload'[g].pc \notin Hook) =>
                 registry' = GetProviders(conf)
            BY <1>5, <1>6, <2>3
        <3>4. \A g \in Changes : (reload'[g].pc \in Hook /\ ~ reload'[g].alone) => torn'
            BY <1>5, <1>6, <2>3, <3>2
        <3>5. \A g \in Changes : (reload'[g].pc \in Hook /\ reload'[g].alone) =>
                 /\ Reloaded(reload'[g], conf, registry', providers')
                 /\ \A f \in Changes : reload'[f].pc \in Hook => f = g
            BY <1>5, <1>7, <2>3, <3>2
        <3> QED BY <1>1, <1>9, <2>1, <2>2, <3>3, <3>4, <3>5 DEF Settings
    <2>4. CASE ~ alone
        <3>1. (torn = TRUE) /\ (torn' = TRUE)
            BY <1>1, <1>2, <2>4 DEF Settings
        <3>2. \A g \in Changes : ~ (reload[g].pc \in Hook /\ reload[g].alone)
            BY <1>1, <1>2, <2>4 DEF Settings
        <3>3. \A g \in Changes : ~ (reload'[g].pc \in Hook /\ reload'[g].alone)
            BY <1>5, <1>6, <1>11, <2>4, <3>2
        <3> QED BY <2>1, <2>2, <3>1, <3>3 DEF Settings
    <2> QED BY <2>3, <2>4
<1> QED BY <1>1, <1>10 DEF SocialInv, CallShape, CallsOK

(* The providers are listed, kept, cleared and registered.                 *)
LEMMA ReloadStep ==
    ASSUME SocialInv, NEW h \in Changes,
           \/ ListProviders(h) \/ KeepList(h) \/ ClearProviders(h)
           \/ TakeList(h) \/ UseProviders(h)
    PROVE  SocialInv'
<1> PICK l : l = reload[h]
    OBVIOUS
<1>1. /\ conf \in Confs /\ Known(registry) /\ Known(providers) /\ Known(l.list)
      /\ (l.pc \in Hook /\ l.alone) => Reloaded(l, conf, registry, providers)
    BY DEF SocialInv, Settings, ReloadOK
<1>2. ASSUME NEW to, NEW list
      PROVE  Reload(to, list, TRUE).pc = to /\ Reload(to, list, TRUE).list = list
    BY DEF Reload
<1>3. CASE ListProviders(h)
    <2> PICK list : list = GetProviders(conf)
        OBVIOUS
    <2>1. /\ loadProviders(h, "read", "assign", list)
          /\ UNCHANGED <<registry, providers, torn>>
        BY <1>3 DEF ListProviders
    <2>2. Known(list) /\ Known(registry') /\ Known(providers')
        BY <1>1, <2>1, KnownLists
    <2>3. Reloaded(Reload("assign", list, TRUE), conf, registry', providers')
        <3> PICK e : e = Reload("assign", list, TRUE)
            OBVIOUS
        <3>1. e.pc = "assign" /\ e.list = list
            BY <1>2
        <3> QED BY <3>1 DEF Reloaded
    <2> QED BY <2>1, <2>2, <2>3, HookStep DEF Hook
<1>4. CASE KeepList(h)
    <2>1. /\ loadProviders(h, "assign", "clear", <<>>) /\ l.pc = "assign"
          /\ providers' = l.list /\ UNCHANGED <<registry, torn>>
        BY <1>4 DEF KeepList, loadProviders
    <2>2. Known(<<>>) /\ Known(registry') /\ Known(providers')
        BY <1>1, <2>1, KnownLists
    <2>3. l.alone => Reloaded(Reload("clear", <<>>, TRUE), conf, registry', providers')
        BY <1>1, <1>2, <2>1 DEF Reloaded, Hook
    <2> QED BY <2>1, <2>2, <2>3, HookStep DEF Hook
<1>5. CASE ClearProviders(h)
    <2>1. /\ loadProviders(h, "clear", "take", <<>>) /\ l.pc = "clear"
          /\ registry' = <<>> /\ UNCHANGED <<providers, torn>>
        BY <1>5 DEF ClearProviders, loadProviders
    <2>2. Known(<<>>) /\ Known(registry') /\ Known(providers')
        BY <1>1, <2>1, KnownLists
    <2>3. l.alone => Reloaded(Reload("take", <<>>, TRUE), conf, registry', providers')
        BY <1>1, <1>2, <2>1 DEF Reloaded, Hook
    <2> QED BY <2>1, <2>2, <2>3, HookStep DEF Hook
<1>6. CASE TakeList(h)
    <2>1. /\ loadProviders(h, "take", "use", providers) /\ l.pc = "take"
          /\ UNCHANGED <<registry, providers, torn>>
        BY <1>6 DEF TakeList, loadProviders
    <2>2. Known(providers) /\ Known(registry') /\ Known(providers')
        BY <1>1, <2>1
    <2>3. l.alone => Reloaded(Reload("use", providers, TRUE), conf, registry', providers')
        BY <1>1, <1>2, <2>1 DEF Reloaded, Hook
    <2> QED BY <2>1, <2>2, <2>3, HookStep DEF Hook
<1>7. CASE UseProviders(h)
    <2>1. /\ loadProviders(h, "use", "done", <<>>) /\ l.pc = "use"
          /\ registry' = registered(l.list) /\ UNCHANGED providers
          /\ torn' = (torn /\ ~ l.alone)
        BY <1>7 DEF UseProviders, loadProviders
    <2>2. Known(<<>>) /\ Known(registry') /\ Known(providers')
        BY <1>1, <2>1, KnownLists, JoinLists
    <2>3. l.alone => registry' = GetProviders(conf)
        BY <1>1, <2>1, JoinNone DEF Reloaded, Hook
    <2>4. Reloaded(Reload("done", <<>>, TRUE), conf, registry', providers')
        <3> PICK e : e = Reload("done", <<>>, TRUE)
            OBVIOUS
        <3>1. e.pc = "done"
            BY <1>2
        <3> QED BY <3>1 DEF Reloaded
    <2> QED BY <2>1, <2>2, <2>3, <2>4, HookStep DEF Hook
<1> QED BY <1>3, <1>4, <1>5, <1>6, <1>7

(* A flow begins, with a code of its own, which is its state if it is      *)
(* drawn.                                                                  *)
LEMMA BeginStep ==
    ASSUME SocialInv, NEW b \in Browsers, NEW x \in People, NEW g \in States(flows),
           GetAuthURL(b, x.provider, x, g)
    PROVE  SocialInv'
<1> PICK n : n = x.provider
    OBVIOUS
<1> PICK s : s = SetState(n, g)
    OBVIOUS
<1> PICK drawn \in BOOLEAN : drawn <=> g = 0
    BY Zenon
<1> PICK r : r = [by |-> b, person |-> x, state |-> s, code |-> flows + 1, drawn |-> drawn]
    OBVIOUS
<1> PICK d : d = Entry(s, Nobody0, b)
    OBVIOUS
<1> PICK ways : ways = redirects \cup {r}
    OBVIOUS
<1>1. /\ flows < MaxFlows /\ flows' = flows + 1 /\ redirects' = ways
      /\ StoreInSession(b, n, d)
      /\ UNCHANGED <<settings, spent, call, accounts, identities>>
    BY DEF GetAuthURL, Entry
<1>2. r.by = b /\ r.person = x /\ r.state = s /\ r.code = flows + 1 /\ r.drawn = drawn
    OBVIOUS
<1>3. d.state = s /\ d.person = Nobody0 /\ d.by = b
    BY ONLY d = Entry(s, Nobody0, b), EntryFields
<1>4. flows \in Nat /\ flows' \in 0..MaxFlows
    BY <1>1, Bounds DEF SocialInv
<1>5. /\ s \in States(flows + 1) /\ (n \notin Stateless => s # 0)
      /\ (n \notin Stateless /\ drawn) => s = flows + 1
    BY <1>4 DEF SetState, States
<1>6. Ways(redirects, flows)
    BY DEF SocialInv
<1>7. ASSUME NEW q \in redirects PROVE q.code \in 1..flows /\ q.code # flows + 1
    BY <1>4, <1>6, <1>7 DEF Ways
<1>8. Ways(ways, flows + 1)
    <2>1. ASSUME NEW q \in ways
          PROVE  /\ q.person \in People /\ q.code \in 1..(flows + 1)
                 /\ (q.drawn /\ q.person.provider \notin Stateless) => q.state = q.code
        <3>1. CASE q = r
            BY <1>2, <1>4, <1>5, <3>1
        <3>2. CASE q \in redirects
            <4>1. q.code \in 1..(flows + 1)
                BY <1>4, <1>7, <3>2
            <4> QED BY <1>6, <3>2, <4>1 DEF Ways
        <3> QED BY <3>1, <3>2
    <2>2. ASSUME NEW q \in ways, NEW t \in ways, q.code = t.code PROVE q = t
        <3>1. (q = r \/ q \in redirects) /\ (t = r \/ t \in redirects)
            OBVIOUS
        <3> QED BY <1>2, <1>6, <1>7, <2>2, <3>1 DEF Ways
    <2> QED BY <2>1, <2>2 DEF Ways
<1>9. EntryOK(b, n, d, ways, flows + 1)
    <2>1. ASSUME NEW q \in ways, q.code = flows + 1 PROVE q.by = b
        BY <1>2, <1>7, <2>1
    <2>2. d = Entry(d.state, d.person, d.by)
        BY <1>3
    <2>3. s \notin Given(ways) => drawn
        BY <1>2 DEF Given
    <2> QED BY ONLY <1>3, <1>5, <2>1, <2>2, <2>3 DEF EntryOK
<1>10. Sessions(session, ways, flows + 1)
    <2>1. ASSUME NEW a \in Browsers, NEW m \in DOMAIN session[a]
          PROVE  EntryOK(a, m, session[a][m], ways, flows + 1)
        <3>1. EntryOK(a, m, session[a][m], redirects, flows)
            BY DEF SocialInv, Sessions
        <3> QED BY <1>1, <1>2, <1>4, <3>1, EntryFrame
    <2> QED BY <2>1 DEF SocialInv, Sessions
<1>11. Sessions(session', ways, flows + 1)
    BY <1>1, <1>9, <1>10, StoreSessions
<1>12. CallsOK'
    <2> SUFFICES ASSUME NEW k \in Calls
                 PROVE  /\ FlowOK(k[1], call[k], ways, flows + 1)
                        /\ ConfOK(call[k], conf) /\ RidOK(call[k], accounts, identities)
        BY <1>1, SettingsSame DEF CallsOK
    <2>1. /\ FlowOK(k[1], call[k], redirects, flows)
          /\ ConfOK(call[k], conf) /\ RidOK(call[k], accounts, identities)
        BY DEF SocialInv, CallsOK
    <2> QED BY <1>1, <1>2, <1>4, <2>1, FlowFrame
<1>13. Settings' /\ (changes \in 0..MaxChanges)'
    BY <1>1, SettingsSame
<1>14. spent' \subseteq 1..flows'
    <2>1. spent \subseteq 1..flows
        BY DEF SocialInv
    <2>2. 1..flows \subseteq 1..(flows + 1)
        BY <1>4
    <2> QED BY <1>1, <2>1, <2>2
<1>15. CallShape' /\ Book(accounts, identities)'
    BY <1>1 DEF SocialInv, CallShape
<1>16. Ways(redirects, flows)' /\ Sessions(session, redirects, flows)'
    BY <1>1, <1>8, <1>11
<1> QED BY <1>4, <1>12, <1>13, <1>14, <1>15, <1>16 DEF SocialInv

(* A session ends.                                                         *)
LEMMA SessionStep ==
    ASSUME SocialInv, NEW b \in Browsers, SessionEnds(b)
    PROVE  SocialInv'
<1>1. /\ session' = [session EXCEPT ![b] = NoSession]
      /\ UNCHANGED <<settings, flows, redirects, spent, call, accounts,
                     identities>>
    BY DEF SessionEnds
<1>2. Sessions(session', redirects, flows)
    BY <1>1, EndSessions DEF SocialInv
<1>3. Settings' /\ (changes \in 0..MaxChanges)' /\ CallShape' /\ CallsOK'
    BY <1>1, SettingsSame DEF SocialInv, CallShape, CallsOK
<1> QED BY <1>1, <1>2, <1>3 DEF SocialInv

(* It holds at first, and every step keeps it.                             *)
LEMMA SocialInitInv == SocialInit => SocialInv
<1> SUFFICES ASSUME SocialInit PROVE SocialInv
    OBVIOUS
<1>1. Settings
    <2>1. ASSUME NEW h \in Changes
          PROVE  ReloadOK(reload[h]) /\ reload[h].pc \notin Hook
        <3>1. reload[h] = NoReload
            BY DEF SocialInit
        <3>2. NoReload = Reload("none", <<>>, FALSE)
            BY DEF NoReload, Reload
        <3> PICK l : l = NoReload
            OBVIOUS
        <3>3. l.pc = "none" /\ l.list = <<>> /\ (l.alone = FALSE)
            BY <3>2 DEF Reload
        <3>4. ReloadOK(l)
            BY <3>2, <3>3, KnownLists DEF ReloadOK
        <3> QED BY <3>1, <3>3, <3>4 DEF Hook
    <2>2. /\ conf \in Confs /\ torn \in BOOLEAN /\ Known(registry) /\ Known(providers)
          /\ registry = GetProviders(conf) /\ reload = [h \in Changes |-> reload[h]]
        BY KnownLists DEF SocialInit
    <2> QED BY <2>1, <2>2 DEF Settings
<1>2. changes \in 0..MaxChanges /\ flows = 0 /\ flows \in 0..MaxFlows
    BY Bounds DEF SocialInit
<1>3. Ways(redirects, flows) /\ spent \subseteq 1..flows
    BY DEF SocialInit, Ways
<1>4. Sessions(session, redirects, flows)
    <2>1. DOMAIN NoSession = {}
        BY DEF NoSession
    <2> QED BY <2>1 DEF SocialInit, Sessions
<1>5. CallShape
    BY EndedForm DEF SocialInit, CallShape
<1>6. Book(accounts, identities)
    BY DEF SocialInit, Book
<1>7. RidOK(Ended, accounts, identities)
    <2>1. Ended.pc = "idle" /\ Ended.user = 0 /\ Ended.row = 0 /\ Ended.mixed \in BOOLEAN
        BY EndedForm, EndedFields
    <2>2. 0 \in 0..Len(accounts) /\ 0 \in 0..Len(identities)
        BY <1>6 DEF Book
    <2> QED BY ONLY <2>1, <2>2 DEF RidOK
<1>8. CallsOK
    BY <1>7, EndedForm DEF SocialInit, CallsOK, FlowOK, ConfOK
<1> QED BY <1>1, <1>2, <1>3, <1>4, <1>5, <1>6, <1>8 DEF SocialInv

(* Every step, of any browser and of the settings.                         *)
LEMMA SocialNextInv ==
    ASSUME SocialInv, [SocialNext]_socialVars
    PROVE  SocialInv'
<1>1. CASE UNCHANGED socialVars
    <2>1. UNCHANGED <<settings, session, flows, redirects, spent, call, accounts, identities>>
        BY <1>1 DEF socialVars
    <2> QED BY <2>1, SettingsSame DEF SocialInv, CallShape, CallsOK
<1>2. CASE \E c \in Confs : UpdateConf(c)
    BY <1>2, UpdateStep
<1>3. CASE \E h \in Changes : \/ ListProviders(h) \/ KeepList(h) \/ ClearProviders(h)
                               \/ TakeList(h) \/ UseProviders(h)
    BY <1>3, ReloadStep
<1>4. CASE \E b \in Browsers :
               \/ \E x \in People, g \in 0..flows \cup {MaxFlows + 1} :
                     GetAuthURL(b, x.provider, x, g)
               \/ SessionEnds(b)
    BY <1>4, BeginStep, SessionStep DEF States
<1>5. ASSUME NEW k \in Calls, RegisterFails(k) \/ ResponseCallbackPage(k) PROVE SocialInv'
    <2>1. /\ call' = [call EXCEPT ![k] = Ended]
          /\ UNCHANGED <<settings, session, flows, redirects, spent,
                          accounts, identities>>
        BY <1>5 DEF RegisterFails, ResponseCallbackPage
    <2>2. Sessions(session', redirects, flows)
        BY <2>1 DEF SocialInv
    <2> QED BY <2>1, <2>2, EndStep
<1>6. ASSUME NEW k \in Calls,
             \/ \E r \in redirects : CompleteUserAuth(k, r)
             \/ FetchUser(k) \/ Authorize(k) \/ StoreToken(k) \/ Logout(k) \/ GetSocialUser(k)
             \/ RegisterSocialUser(k) \/ CreateAuthIdentity(k)
      PROVE  SocialInv'
    BY <1>6, CompleteStep, FetchStep, AuthorizeStep, StoreStep, LogoutStep, SocialStep,
       RegisterStep, CreateStep
<1> QED BY <1>1, <1>2, <1>3, <1>4, <1>5, <1>6 DEF SocialNext

-----------------------------------------------------------------------------
(* What the invariant says.                                                *)

(* Two profiles of one provider with the same name are of the same server. *)
LEMMA SameServer ==
    ASSUME NEW x \in People, NEW y \in People, NEW n, x.provider = n, y.provider = n,
           x.server # "", y.server # "", Rid(n, x.server, x.uid) = Rid(n, y.server, y.uid)
    PROVE  x.uid = y.uid /\ x.server = y.server
<1> PICK s, t, u, v : s = x.server /\ t = y.server /\ u = x.uid /\ v = y.uid
    OBVIOUS
<1>1. s # "" /\ t # "" /\ Rid(n, s, u) = Rid(n, t, v)
    OBVIOUS
<1>2. u = v /\ (n = "gitea" => s = t)
    BY ONLY <1>1 DEF Rid
<1>3. n # "gitea" => s = n /\ t = n
    BY SocialAssumption
<1> QED BY <1>2, <1>3

(* Types, rows that exist and numbers within their bounds.                 *)
LEMMA TypesOK ==
    ASSUME SocialInv
    PROVE  SocialTypeOK
<1>1. conf \in Confs /\ torn \in BOOLEAN /\ changes \in 0..MaxChanges
      /\ flows \in 0..MaxFlows
    BY DEF SocialInv, Settings
<1>11. \A h \in Changes :
          reload[h].pc \in {"none", "read", "assign", "clear", "take", "use", "done"}
    BY DEF SocialInv, Settings, ReloadOK, Hook
<1>2. ASSUME NEW n \in DOMAIN registry PROVE n \in STRING /\ registry[n] \in STRING
    BY RegistryFacts DEF SocialInv
<1>3. 0..flows \subseteq 0..MaxFlows /\ 1..flows \subseteq 1..MaxFlows
    BY <1>1, Bounds
<1>4. ASSUME NEW b \in Browsers, NEW n \in DOMAIN session[b]
      PROVE  session[b][n].state \in 0..MaxFlows + 1
    <2>1. session[b][n].state \in States(flows)
        BY DEF SocialInv, Sessions, EntryOK
    <2> QED BY <1>1, <2>1, Bounds DEF States
<1>5. ASSUME NEW r \in redirects PROVE r.person \in People /\ r.code \in 1..MaxFlows
    <2>1. r.person \in People /\ r.code \in 1..flows
        BY DEF SocialInv, Ways
    <2> QED BY <1>3, <2>1
<1>6. spent \subseteq 1..MaxFlows
    <2>1. spent \subseteq 1..flows
        BY DEF SocialInv
    <2> QED BY <1>3, <2>1
<1>7. ASSUME NEW k \in Calls
      PROVE  call[k].user \in 0..Len(accounts) /\ call[k].row \in 0..Len(identities)
    BY DEF SocialInv, CallsOK, RidOK
<1>8. Book(accounts, identities)
    BY DEF SocialInv
<1>9. DOMAIN identities = 1..Len(identities) /\ DOMAIN accounts = 1..Len(accounts)
    BY <1>8 DEF Book
<1>10. ASSUME NEW i \in DOMAIN identities PROVE identities[i].user \in DOMAIN accounts
    BY <1>8, <1>9 DEF Book, IdOK
<1> QED BY <1>1, <1>2, <1>4, <1>5, <1>6, <1>7, <1>10, <1>11 DEF SocialTypeOK

(* Identities do not coincide; a hosted one has its own account.           *)
LEMMA InvSound ==
    ASSUME SocialInv
    PROVE  SocialSound
<1>1. Book(accounts, identities) /\ DOMAIN identities = 1..Len(identities)
    BY DEF SocialInv, Book
<1>2. ASSUME NEW i \in DOMAIN identities PROVE IdOK(identities[i], accounts)
    BY <1>1 DEF Book
<1>3. ASSUME NEW i \in DOMAIN identities, NEW j \in DOMAIN identities,
             NEW a, a = identities[i], NEW b, b = identities[j],
             ~ a.mixed, ~ b.mixed, a.provider = b.provider, a.rid = b.rid
      PROVE  a.of.uid = b.of.uid /\ a.of.server = b.of.server
    <2>1. IdOK(a, accounts) /\ IdOK(b, accounts)
        BY <1>2, <1>3
    <2>2. /\ a.of \in People /\ a.of.provider = a.provider /\ a.of.server # ""
          /\ a.rid = Rid(a.provider, a.of.server, a.of.uid)
        BY <1>3, <2>1 DEF IdOK
    <2>3. /\ b.of \in People /\ b.of.provider = a.provider /\ b.of.server # ""
          /\ b.rid = Rid(a.provider, b.of.server, b.of.uid)
        BY <1>3, <2>1 DEF IdOK
    <2> PICK x, y, n : x = a.of /\ y = b.of /\ n = a.provider
        OBVIOUS
    <2>4. /\ x \in People /\ y \in People /\ x.provider = n /\ y.provider = n
          /\ x.server # "" /\ y.server # ""
        BY <2>2, <2>3
    <2>5. Rid(n, x.server, x.uid) = Rid(n, y.server, y.uid)
        BY <1>3, <2>2, <2>3
    <2>6. x.uid = y.uid /\ x.server = y.server
        BY <2>4, <2>5, SameServer
    <2> QED BY <2>6
<1>4. ASSUME NEW i \in DOMAIN identities, NEW a, a = identities[i],
             \/ a.rid[1] # ""
             \/ a.provider = "gitea" /\ a.of.server # "gitea.com" /\ ~ a.mixed
      PROVE  accounts[a.user].by = a.of
    <2>1. IdOK(a, accounts)
        BY <1>2, <1>4
    <2>2. CASE a.rid[1] # ""
        BY <2>1, <2>2 DEF IdOK
    <2>3. CASE a.provider = "gitea" /\ a.of.server # "gitea.com" /\ ~ a.mixed
        <3> PICK rid, s, u : rid = a.rid /\ s = a.of.server /\ u = a.of.uid
            OBVIOUS
        <3>1. rid = <<s, u>>
            BY <2>1, <2>3 DEF IdOK, Rid
        <3>2. rid[1] = s
            BY ONLY <3>1, FirstOf
        <3>3. s # ""
            BY <2>1 DEF IdOK
        <3> QED BY <2>1, <3>2, <3>3 DEF IdOK
    <2> QED BY <1>4, <2>2, <2>3
<1>5. \A i, j \in DOMAIN identities :
         LET a == identities[i]
             b == identities[j]
         IN ~a.mixed /\ ~b.mixed /\ a.provider = b.provider /\ a.rid = b.rid =>
            a.of.uid = b.of.uid /\ a.of.server = b.of.server
    BY <1>3
<1>6. \A i \in DOMAIN identities :
         LET a == identities[i]
             hosted == a.provider = "gitea" /\ a.of.server # "gitea.com"
         IN a.rid[1] # "" \/ (hosted /\ ~a.mixed) => accounts[a.user].by = a.of
    BY <1>4
<1> QED BY <1>5, <1>6, TypesOK DEF SocialSound

(* Of whoever is to be logged in.                                          *)
LEMMA InvOwn ==
    ASSUME SocialInv, NEW k \in Calls, NEW c, c = call[k], c.pc = "login",
           NEW i, i = identities[c.row]
    PROVE  /\ ~ c.mixed /\ ~ i.mixed =>
                i.of.uid = c.data.person.uid /\ i.of.server = c.data.person.server
           /\ c.name \notin Stateless /\ c.data.state \notin Brought => c.data.by = k[1]
<1>1. FlowOK(k[1], c, redirects, flows) /\ RidOK(c, accounts, identities)
    BY DEF SocialInv, CallsOK
<1>2. /\ c.row \in 0..Len(identities) /\ c.row # 0 /\ i.provider = c.name /\ i.rid = c.rid
      /\ ~ c.mixed => c.rid = Rid(c.name, c.server, c.data.person.uid)
    BY <1>1 DEF RidOK
<1>3. identities \in Seq(IdentitySet)
    BY DEF SocialInv, Book
<1>4. c.row \in 1..Len(identities)
    BY ONLY <1>2, <1>3, Places
<1>5. IdOK(i, accounts)
    BY <1>4 DEF SocialInv, Book
<1>6. c.name \notin Stateless /\ c.data.state \notin Brought => c.data.by = k[1]
    BY <1>1 DEF FlowOK, EntryOK, Brought, Given
<1>7. ASSUME ~ c.mixed, ~ i.mixed
      PROVE  i.of.uid = c.data.person.uid /\ i.of.server = c.data.person.server
    <2> PICK x, y : x = i.of /\ y = c.data.person
        OBVIOUS
    <2>0. y \in People /\ y.provider = c.name /\ y.server = c.server /\ c.server # ""
        BY <1>1, Profiled
    <2>1. y \in People /\ y.provider = c.name /\ y.server = c.server /\ y.server # ""
        BY ONLY <2>0
    <2>2. /\ x \in People /\ x.provider = c.name /\ x.server # ""
          /\ i.rid = Rid(c.name, x.server, x.uid)
        BY <1>2, <1>5, <1>7 DEF IdOK
    <2>3. Rid(c.name, x.server, x.uid) = Rid(c.name, y.server, y.uid)
        BY <1>2, <1>7, <2>1, <2>2
    <2>4. x.uid = y.uid /\ x.server = y.server
        BY ONLY <2>1, <2>2, <2>3, SameServer
    <2> QED BY <2>4
<1> QED BY <1>6, <1>7

(* So it holds always.                                                     *)
LEMMA SocialAlways == SocialSpec => []SocialInv
BY SocialInitInv, SocialNextInv, PTL DEF SocialSpec

(* SocialSound: whatever callbacks overlap and settings change, one        *)
(* identity is never that of two profiles, and the user of a self-hosted   *)
(* server has an account made for it (giteaRemoteUID, RegisterSocialUser). *)
THEOREM IdentitiesSound == SocialSpec => []SocialSound
BY SocialAlways, InvSound, PTL

(* LoginOwn: who is logged in has approved it, in a flow that this browser *)
(* began (validateState, CompleteUserAuth).                                *)
THEOREM LoginsOwn == SocialSpec => LoginOwn
<1> DEFINE Own ==
        \A k \in Calls :
          call[k].pc = "login" /\ call'[k].pc = "idle" =>
            LET i == identities[call[k].row] IN
            /\ ~call[k].mixed /\ ~i.mixed =>
                 i.of.uid = call[k].data.person.uid /\ i.of.server = call[k].data.person.server
            /\ call[k].name \notin Stateless /\ call[k].data.state \notin Brought =>
                 call[k].data.by = k[1]
<1>1. SocialInv => Own
    <2> SUFFICES ASSUME SocialInv, NEW k \in Calls, call[k].pc = "login",
                        NEW i, i = identities[call[k].row]
                 PROVE  /\ ~call[k].mixed /\ ~i.mixed =>
                             /\ i.of.uid = call[k].data.person.uid
                             /\ i.of.server = call[k].data.person.server
                        /\ call[k].name \notin Stateless /\ call[k].data.state \notin Brought =>
                             call[k].data.by = k[1]
        OBVIOUS
    <2> QED BY InvOwn
<1>2. LoginOwn <=> [][Own]_socialVars
    BY DEF LoginOwn
<1> HIDE DEF Own
<1> QED BY <1>1, <1>2, SocialAlways, PTL

-----------------------------------------------------------------------------
(* Comments.  The invariant of requests that run one after the other.      *)

(* The requests do what their kind does.                                   *)
OfKind(s) ==
    /\ s.pc = "idle" <=> s.op = ""
    /\ s.op = "create" => s.pc \in {"insert", "entry", "listRead", "listWrite", "next"}
    /\ s.op = "update" => s.pc \in {"save", "entry", "listRead", "listWrite", "next"}
    /\ s.op = "warm" => s.pc \in {"entry", "listRead", "listWrite", "next"}
    /\ s.op = "delete" => s.pc \in {"delRow", "delCache", "expand", "next"}
    /\ s.op = "delete" => s.rid \in Ids
    /\ s.op = "flush" => s.pc \in {"flush", "next"}
    /\ s.op = "read" => s.pc = "store"
    /\ s.op \in {"create", "update"} => s.todo = {}

TreeShape ==
    /\ TypeOK
    /\ kids = [i \in Ids |-> kids[i]]
    /\ \A w \in Workers : OfKind(work[w])

(* Requests that did not overlap ran one after the other.                  *)
OneByOne == ~ raced => \A w, o \in Workers :
    work[w].pc # "idle" /\ work[o].pc # "idle" => w = o

(* What a flush has not found fresh it still has to do.                    *)
FlushLeft(s) == s.op = "flush" => \A i \in Alive :
    Fresh(i) \/ i \in s.todo \/ (s.pc = "flush" /\ s.id = i)

(* A deletion was reported of a comment that is gone for good, with its    *)
(* replies.                                                                *)
GoneForGood ==
    /\ \A i \in Ids : table[i] # Gone \/ i \in deleted => i <= last
    /\ \A i \in deleted : table[i] = Gone
    /\ \A c \in Alive : parent[c] \notin deleted

(* The comment that a request has just written in the table is the one     *)
(* that may be stale in the cache.                                         *)
HasWritten(s, i) == s.pc \in {"entry", "delCache"} /\ s.id = i

(* What a request carries is what the table holds, or could not be saved.  *)
Unsaved(s) == s.id \in unsaved /\ s.copy[s.id] # Gone /\ table[s.id] # Gone
Carries(s) ==
    /\ s.pc = "insert" => s.rid = 0 \/ table[s.rid] # Gone
    /\ s.pc = "save" => table[s.id] # Gone /\ s.copy[s.id] # Gone
    /\ s.pc = "store" => s.copy[s.id] = table[s.id]
    /\ s.pc = "entry" => s.copy[s.id] = table[s.id] \/ Unsaved(s)
    /\ s.op = "warm" => s.copy = table

(* A deletion deletes its comment first, and then has the replies that are *)
(* left on its list, unless a statement failed.                            *)
RepliesOf(i) == {c \in Alive : parent[c] = i}
Deletes(s) == s.op = "delete" =>
    /\ s.rid \in 1..last /\ s.rid \notin s.todo
    /\ (s.pc = "delRow" /\ s.id = s.rid) \/ table[s.rid] = Gone
    /\ s.pc = "expand" =>
          (s.rid \in s.open /\ kids[s.rid] = Miss) \/ RepliesOf(s.rid) \subseteq s.todo
    /\ s.pc = "next" \/ (s.pc = "delCache" /\ s.id # s.rid) =>
          s.failed \/ RepliesOf(s.rid) \subseteq s.todo
    /\ s.pc = "delRow" /\ s.id # s.rid =>
          s.failed \/ RepliesOf(s.rid) \subseteq s.todo \cup {s.id}

(* Nobody but the requests, one by one, has written the rows.              *)
Orderly == ~ raced /\ ~ outside

TreeInv ==
    /\ TreeShape
    /\ OneByOne
    /\ ~ raced => \A w \in Workers : FlushLeft(work[w])
    /\ Orderly =>
          /\ GoneForGood
          /\ \A i \in Ids : Near(i) \/ \E w \in Workers : HasWritten(work[w], i)
          /\ \A w \in Workers : Carries(work[w]) /\ Deletes(work[w])

(* What holds when s is the only request.                                  *)
Right(s) ==
    /\ GoneForGood
    /\ \A i \in Ids : Near(i) \/ HasWritten(s, i)
    /\ Carries(s) /\ Deletes(s)

-----------------------------------------------------------------------------
(* A set of numbers that is not empty has a least element.                 *)
LEMMA LeastNumber ==
    ASSUME NEW S, S \subseteq Nat, S # {}
    PROVE  \E i \in S : \A j \in S : i <= j
<1> DEFINE less == {ss \in Nat \X Nat : ss[1] < ss[2]}
<1>1. \A x, y \in Nat : <<x, y>> \in less <=> x < y
  OBVIOUS
<1>2. IsWellFoundedOn(less, Nat)
  BY NatLessThanWellFounded DEF OpToRel
<1> HIDE DEF less
<1>3. PICK i \in S : \A j \in S : <<j, i>> \notin less
  BY <1>2, WFMin
<1>4. \A j \in S : i <= j
  <2> SUFFICES ASSUME NEW j \in S PROVE i <= j
    OBVIOUS
  <2>1. i \in Nat /\ j \in Nat
    OBVIOUS
  <2>2. ~ (j < i)
    BY <1>1, <1>3, <2>1
  <2> QED
    BY <2>1, <2>2
<1> QED
  BY <1>4

(* A request that stops is one that the model knows.                       *)
LEMMA IdleFits == Idle \in Work /\ OfKind(Idle) /\ NoCopy \in [Ids -> Value]
<1>1. 1 \in Ids /\ 0 \in 0..MaxId
  BY TreeAssumption DEF Ids
<1>2. NoCopy \in [Ids -> Value]
  BY DEF NoCopy, Value
<1>3. Idle \in Work
  BY <1>1, <1>2 DEF Idle, Work
<1>4. OfKind(Idle)
  BY DEF Idle, OfKind
<1> QED
  BY <1>2, <1>3, <1>4

(* The first comment of a list is on it.                                   *)
LEMMA FirstThere ==
    ASSUME NEW S, S \subseteq Ids, S # {}
    PROVE  First(S) \in S
<1>1. S \subseteq Nat
  BY DEF Ids
<1>2. \E i \in S : \A j \in S : i <= j
  BY <1>1, LeastNumber
<1> QED
  BY <1>2 DEF First

(* A request that runs alone finds everything right.                       *)
LEMMA FoundRight ==
    ASSUME TreeInv, ~ raced, NEW w \in Workers,
           \A o \in Workers \ {w} : work[o].pc = "idle"
    PROVE  FlushLeft(work[w]) /\ (~ outside => Right(work[w]))
<1>1. FlushLeft(work[w])
  BY DEF TreeInv
<1>2. ASSUME ~ outside PROVE Right(work[w])
  <2>1. Orderly
    BY <1>2 DEF Orderly
  <2>2. \A i \in Ids : Near(i) \/ HasWritten(work[w], i)
    BY <2>1 DEF TreeInv, HasWritten
  <2> QED
    BY <2>1, <2>2 DEF TreeInv, Right
<1> QED
  BY <1>1, <1>2

(* A request that runs alone and leaves everything right keeps the         *)
(* invariant.                                                              *)
LEMMA LeftRight ==
    ASSUME TreeInv, NEW w \in Workers, NEW s, s \in Work, OfKind(s),
           work' = [work EXCEPT ![w] = s],
           ~ raced' => \A o \in Workers \ {w} : work[o].pc = "idle",
           TypeOK', kids' = [i \in Ids |-> kids'[i]],
           ~ raced' => FlushLeft(s)',
           Orderly' => Right(s)'
    PROVE  TreeInv'
<1>1. work'[w] = s /\ \A o \in Workers \ {w} : work'[o] = work[o]
  BY DEF TreeInv, TreeShape, TypeOK
<1>2. TreeShape'
  BY <1>1 DEF TreeInv, TreeShape
<1>3. \A o \in Workers \ {w} : OfKind(work[o])
  BY DEF TreeInv, TreeShape
<1>4. OneByOne'
  BY <1>1 DEF OneByOne
<1>5. ASSUME ~ raced' PROVE \A o \in Workers : FlushLeft(work[o])'
  <2>1. \A o \in Workers \ {w} : FlushLeft(work[o])'
    BY <1>1, <1>3, <1>5 DEF FlushLeft, OfKind
  <2> QED
    BY <2>1, <1>1, <1>5 DEF FlushLeft
<1>6. ASSUME Orderly'
      PROVE  /\ GoneForGood'
             /\ \A i \in Ids : Near(i)' \/ \E o \in Workers : HasWritten(work[o], i)'
             /\ \A o \in Workers : Carries(work[o])' /\ Deletes(work[o])'
  <2>1. Right(s)' /\ ~ raced'
    BY <1>6 DEF Orderly
  <2>2. \A i \in Ids : Near(i)' \/ HasWritten(work[w], i)'
    BY <2>1, <1>1 DEF Right, HasWritten
  <2>3. \A o \in Workers \ {w} : Carries(work[o])' /\ Deletes(work[o])'
    BY <2>1, <1>1, <1>3 DEF Carries, Unsaved, Deletes, OfKind
  <2>4. Carries(work[w])' /\ Deletes(work[w])'
    BY <2>1, <1>1 DEF Right, Carries, Unsaved, Deletes
  <2> QED
    BY <2>1, <2>2, <2>3, <2>4 DEF Right
<1> QED
  BY <1>2, <1>4, <1>5, <1>6 DEF TreeInv

(* A step of one request that leaves everything right.                     *)
Keeps(w) ==
    /\ TypeOK' /\ kids' = [i \in Ids |-> kids'[i]]
    /\ \E s \in Work :
          /\ OfKind(s) /\ work' = [work EXCEPT ![w] = s]
          /\ ~ raced' => FlushLeft(s)'
          /\ Orderly' => Right(s)'

(* Looking a comment up leaves fresh what was fresh.                       *)
LEMMA FilledFresh ==
    ASSUME TypeOK, NEW i \in Ids, Fill(i), table' = table
    PROVE  /\ entry' \in [Ids -> Value \cup {Miss}]
           /\ \A j \in Ids : Fresh(j) => Fresh(j)'
           /\ unsaved' = unsaved => \A j \in Ids : Near(j) => Near(j)'
<1>1. table \in [Ids -> Value] /\ entry \in [Ids -> Value \cup {Miss}]
  BY DEF TypeOK
<1>2. Find(i) \in Value \cup {Miss} /\ (Fresh(i) => Find(i) = table[i])
  BY <1>1 DEF Find, Fresh
<1>3. entry' = [entry EXCEPT ![i] = Find(i)]
  BY DEF Fill
<1>4. \A j \in Ids : Fresh(j) => Fresh(j)'
  BY <1>1, <1>2, <1>3 DEF Fresh
<1>5. ASSUME unsaved' = unsaved, NEW j \in Ids, Near(j), ~ Fresh(j)
      PROVE  Near(j)'
  <2>1. entry'[j] = entry[j]
    BY <1>1, <1>3, <1>5 DEF Find, Fresh
  <2> QED
    BY <2>1, <1>5 DEF Near
<1> QED
  BY <1>1, <1>2, <1>3, <1>4, <1>5 DEF Near

(* A request that starts while no other runs has nothing stale before it,  *)
(* so the comment it looked up is the one of the table.                    *)
LEMMA StartKeeps ==
    ASSUME TreeShape, NEW w \in Workers, NEW op, Idling(w, op), NEW s, s \in Work, OfKind(s),
           work' = [work EXCEPT ![w] = s],
           UNCHANGED <<table, parent, last, kids, deleted>>,
           entry' = entry \/ \E i \in Ids : Fill(i),
           s.op = "flush" => s.todo = Alive,
           Orderly' => Right(work[w]),
           (\A i \in Ids : Near(i)) /\ GoneForGood => Carries(s) /\ Deletes(s)
    PROVE  Keeps(w)
<1>1. TypeOK /\ table' = table
  BY DEF TreeShape
<1>2. entry' \in [Ids -> Value \cup {Miss}] /\ \A j \in Ids : Near(j) => Near(j)'
  <2>0. unsaved' = unsaved
    BY DEF Idling
  <2>1. CASE entry' = entry
    BY <2>0, <2>1, <1>1 DEF TypeOK, Fresh, Near
  <2>2. CASE \E i \in Ids : Fill(i)
    <3>1. PICK i \in Ids : Fill(i)
      BY <2>2
    <3> QED
      BY <2>0, <3>1, <1>1, FilledFresh
  <2> QED
    BY <2>1, <2>2
<1>3. TypeOK' /\ kids' = [i \in Ids |-> kids'[i]]
  <2>1. work' \in [Workers -> Work]
    BY <1>1 DEF TypeOK
  <2>2. raced' \in BOOLEAN /\ outside' \in BOOLEAN /\ unsaved' \subseteq Ids
    BY <1>1 DEF Idling, Busy, TypeOK
  <2> QED
    BY <1>1, <1>2, <2>1, <2>2 DEF TreeShape, TypeOK
<1>4. FlushLeft(s)'
  BY <1>1 DEF FlushLeft, Alive
<1>5. ASSUME Orderly' PROVE Right(s)'
  <2>1. Right(work[w]) /\ work[w].pc = "idle"
    BY <1>5 DEF Idling
  <2>2. (\A i \in Ids : Near(i)) /\ GoneForGood
    BY <2>1 DEF Right, HasWritten
  <2>3. \A i \in Ids : Near(i)'
    BY <2>2, <1>2
  <2>4. Carries(s) /\ Deletes(s)
    BY <2>2
  <2>5. Carries(s)' /\ Deletes(s)'
    <3>1. unsaved' = unsaved
      BY DEF Idling
    <3> QED
      BY <2>4, <3>1 DEF Carries, Unsaved, Deletes, RepliesOf, Alive
  <2>6. GoneForGood'
    BY <2>2 DEF GoneForGood, Alive
  <2> QED
    BY <2>3, <2>5, <2>6 DEF Right
<1> QED
  BY <1>3, <1>4, <1>5 DEF Keeps

(* CreateStart leaves everything right: the parent is in the table.        *)
LEMMA CreateStartKeeps ==
    ASSUME TreeShape, NEW w \in Workers, NEW p \in 0..MaxId, NEW v \in Versions,
           CreateStart(w, p, v), Orderly' => Right(work[w])
    PROVE  Keeps(w)
<1>1. PICK s : s = [Idle EXCEPT !.pc = "insert", !.op = "create",
                      !.rid = p, !.copy = [i \in Ids |-> v]]
  OBVIOUS
<1>2. work' = [work EXCEPT ![w] = s] /\ Idling(w, "create") /\ "create" \in Ops
  BY <1>1 DEF CreateStart, Idling
<1>3. s \in Work
  <2>1. [i \in Ids |-> v] \in [Ids -> Value]
    BY DEF Value
  <2> QED
    BY <1>1, <1>2, <2>1, IdleFits DEF Work
<1>4. s.pc = "insert" /\ s.op = "create" /\ s.rid = p /\ s.todo = {}
  BY <1>1 DEF Idle
<1>5. OfKind(s)
  BY <1>4 DEF OfKind
<1>6. entry' = entry \/ \E i \in Ids : Fill(i)
  BY DEF CreateStart, Ids
<1>7. ASSUME \A i \in Ids : Near(i) PROVE Carries(s) /\ Deletes(s)
  <2>1. p = 0 \/ (p \in Ids /\ Find(p) # Gone)
    BY DEF CreateStart, Ids
  <2>2. p = 0 \/ table[p] # Gone
    BY <2>1, <1>7 DEF Find, Fresh, Near
  <2> QED
    BY <2>2, <1>4 DEF Carries, Unsaved, Deletes
<1>8. UNCHANGED <<table, parent, last, kids, deleted>>
  BY DEF CreateStart
<1> QED
  BY <1>2, <1>3, <1>4, <1>5, <1>6, <1>7, <1>8, StartKeeps

(* UpdateStart leaves everything right: the comment is in the table.       *)
LEMMA UpdateStartKeeps ==
    ASSUME TreeShape, NEW w \in Workers, NEW i \in Ids, NEW v \in Versions,
           UpdateStart(w, i, v), Orderly' => Right(work[w])
    PROVE  Keeps(w)
<1>1. PICK s : s = [Idle EXCEPT !.pc = "save", !.op = "update", !.id = i,
                                !.copy = [NoCopy EXCEPT ![i] = v]]
  OBVIOUS
<1>2. work' = [work EXCEPT ![w] = s] /\ Idling(w, "update") /\ "update" \in Ops
  BY <1>1 DEF UpdateStart, Idling
<1>3. [NoCopy EXCEPT ![i] = v] \in [Ids -> Value] /\ [NoCopy EXCEPT ![i] = v][i] = v
  BY IdleFits DEF Value
<1>4. s \in Work
  BY <1>1, <1>2, <1>3, IdleFits DEF Work
<1>5. s.pc = "save" /\ s.op = "update" /\ s.id = i /\ s.todo = {} /\ s.copy[i] = v
  BY <1>1, <1>3 DEF Idle
<1>6. OfKind(s)
  BY <1>5 DEF OfKind
<1>7. ASSUME \A j \in Ids : Near(j) PROVE Carries(s) /\ Deletes(s)
  <2>1. table[i] # Gone
    BY <1>7 DEF UpdateStart, Find, Fresh, Near
  <2>2. v # Gone
    BY TreeAssumption
  <2> QED
    BY <2>1, <2>2, <1>5 DEF Carries, Unsaved, Deletes
<1>8. UNCHANGED <<table, parent, last, kids, deleted>> /\ Fill(i)
  BY DEF UpdateStart
<1> QED
  BY <1>2, <1>4, <1>5, <1>6, <1>7, <1>8, StartKeeps

(* DeleteStart leaves everything right: the comment is in the table.       *)
LEMMA DeleteStartKeeps ==
    ASSUME TreeShape, NEW w \in Workers, NEW i \in Ids,
           DeleteStart(w, i), Orderly' => Right(work[w])
    PROVE  Keeps(w)
<1>1. PICK s : s = [Idle EXCEPT !.pc = "delRow", !.op = "delete", !.id = i, !.rid = i]
  OBVIOUS
<1>2. work' = [work EXCEPT ![w] = s] /\ Idling(w, "delete") /\ "delete" \in Ops
  BY <1>1 DEF DeleteStart, Idling
<1>3. s \in Work
  <2>1. i \in 0..MaxId
    BY DEF Ids
  <2> QED
    BY <1>1, <1>2, <2>1, IdleFits DEF Work
<1>4. s.pc = "delRow" /\ s.op = "delete" /\ s.id = i /\ s.rid = i /\ s.todo = {}
  BY <1>1 DEF Idle
<1>5. OfKind(s)
  BY <1>4 DEF OfKind
<1>6. ASSUME \A j \in Ids : Near(j), GoneForGood PROVE Carries(s) /\ Deletes(s)
  <2>1. table[i] # Gone
    BY <1>6 DEF DeleteStart, Find, Fresh, Near
  <2>2. i \in 1..last
    BY <2>1, <1>6 DEF GoneForGood, Ids, TreeShape, TypeOK
  <2> QED
    BY <2>2, <1>4 DEF Carries, Unsaved, Deletes
<1>7. UNCHANGED <<table, parent, last, kids, deleted>> /\ Fill(i)
  BY DEF DeleteStart
<1> QED
  BY <1>2, <1>3, <1>4, <1>5, <1>6, <1>7, StartKeeps

(* ReadMiss leaves everything right: the reader holds what the table does. *)
LEMMA ReadMissKeeps ==
    ASSUME TreeShape, NEW w \in Workers, NEW i \in Ids,
           ReadMiss(w, i), Orderly' => Right(work[w])
    PROVE  Keeps(w)
<1>1. PICK s : s = [Idle EXCEPT !.pc = "store", !.op = "read", !.id = i,
                                !.copy = [NoCopy EXCEPT ![i] = table[i]]]
  OBVIOUS
<1>2. work' = [work EXCEPT ![w] = s] /\ Idling(w, "read") /\ "read" \in Ops
  BY <1>1 DEF ReadMiss, Idling
<1>3. /\ [NoCopy EXCEPT ![i] = table[i]] \in [Ids -> Value]
      /\ [NoCopy EXCEPT ![i] = table[i]][i] = table[i]
  BY IdleFits DEF TreeShape, TypeOK
<1>4. s \in Work
  BY <1>1, <1>2, <1>3, IdleFits DEF Work
<1>5. s.pc = "store" /\ s.op = "read" /\ s.id = i /\ s.copy[i] = table[i]
  BY <1>1, <1>3 DEF Idle
<1>6. OfKind(s)
  BY <1>5 DEF OfKind
<1>7. Carries(s) /\ Deletes(s)
  BY <1>5 DEF Carries, Unsaved, Deletes
<1>8. UNCHANGED <<table, parent, last, kids, deleted>> /\ entry' = entry
  BY DEF ReadMiss
<1> QED
  BY <1>2, <1>4, <1>5, <1>6, <1>7, <1>8, StartKeeps

(* WarmStart leaves everything right: it has the table in its hands.       *)
LEMMA WarmStartKeeps ==
    ASSUME TreeShape, NEW w \in Workers, WarmStart(w), Orderly' => Right(work[w])
    PROVE  Keeps(w)
<1>1. PICK s : s = [Idle EXCEPT !.pc = "next", !.op = "warm", !.copy = table, !.todo = Alive]
  OBVIOUS
<1>2. work' = [work EXCEPT ![w] = s] /\ Idling(w, "warm") /\ "warm" \in Ops
  BY <1>1 DEF WarmStart, Idling
<1>3. s \in Work
  BY <1>1, <1>2, IdleFits DEF Work, TreeShape, TypeOK, Alive
<1>4. s.pc = "next" /\ s.op = "warm" /\ s.copy = table
  BY <1>1 DEF Idle
<1>5. OfKind(s)
  BY <1>4 DEF OfKind
<1>6. Carries(s) /\ Deletes(s)
  BY <1>4 DEF Carries, Unsaved, Deletes
<1>7. UNCHANGED <<table, parent, last, kids, deleted>> /\ entry' = entry
  BY DEF WarmStart
<1> QED
  BY <1>2, <1>3, <1>4, <1>5, <1>6, <1>7, StartKeeps

(* FlushStart leaves everything right: every comment is still to be done.  *)
LEMMA FlushStartKeeps ==
    ASSUME TreeShape, NEW w \in Workers, FlushStart(w), Orderly' => Right(work[w])
    PROVE  Keeps(w)
<1>1. PICK s : s = [Idle EXCEPT !.pc = "next", !.op = "flush", !.todo = Alive]
  OBVIOUS
<1>2. work' = [work EXCEPT ![w] = s] /\ Idling(w, "flush") /\ "flush" \in Ops
  BY <1>1 DEF FlushStart, Idling
<1>3. s \in Work
  BY <1>1, <1>2, IdleFits DEF Work, TreeShape, TypeOK, Alive
<1>4. s.pc = "next" /\ s.op = "flush" /\ s.todo = Alive
  BY <1>1 DEF Idle
<1>5. OfKind(s)
  BY <1>4 DEF OfKind
<1>6. Carries(s) /\ Deletes(s)
  BY <1>4 DEF Carries, Unsaved, Deletes
<1>7. UNCHANGED <<table, parent, last, kids, deleted>> /\ entry' = entry
  BY DEF FlushStart
<1> QED
  BY <1>2, <1>3, <1>4, <1>5, <1>6, <1>7, StartKeeps

-----------------------------------------------------------------------------
(* The steps of a request.                                                 *)

(* The requests there are.                                                 *)
LEMMA KindsKnown ==
    ASSUME TreeShape, NEW w \in Workers
    PROVE  /\ work[w] \in Work /\ OfKind(work[w])
           /\ work[w].op \in {"", "create", "update", "delete", "read", "flush", "warm",
                              "outside"}
<1>1. work[w] \in Work /\ OfKind(work[w])
  BY DEF TreeShape, TypeOK
<1>2. work[w].op \in Ops \cup {""}
  BY <1>1 DEF Work
<1> QED
  BY <1>1, <1>2, TreeAssumption

(* A step of a request that changes the caches alone leaves everything     *)
(* right if the caches and the request fit the table.                      *)
LEMMA CacheKeeps ==
    ASSUME TreeShape, NEW w \in Workers, NEW s, s \in Work, OfKind(s),
           work' = [work EXCEPT ![w] = s],
           UNCHANGED <<table, parent, last, deleted, raced, outside>>, unsaved' \subseteq Ids,
           unsaved' = unsaved \/ s.pc # "entry",
           entry' \in [Ids -> Value \cup {Miss}],
           kids' = [i \in Ids |-> kids'[i]],
           \A i \in Ids : kids'[i] = Miss \/ kids'[i] \subseteq Ids,
           ~ raced' => FlushLeft(s)',
           Orderly' => /\ Right(work[w])
                       /\ \A i \in Ids : Near(i)' \/ HasWritten(s, i)
                       /\ Carries(s) /\ Deletes(s)'
    PROVE  Keeps(w)
<1>1. TypeOK'
  <2>1. work' \in [Workers -> Work]
    BY DEF TreeShape, TypeOK
  <2> QED
    BY <2>1 DEF TreeShape, TypeOK, history
<1>2. ASSUME Orderly' PROVE Right(s)'
  <2>1. /\ GoneForGood /\ Carries(s) /\ Deletes(s)'
        /\ \A i \in Ids : Near(i)' \/ HasWritten(s, i)
    BY <1>2 DEF Right, Orderly
  <2>2. GoneForGood' /\ Carries(s)'
    BY <2>1 DEF GoneForGood, Carries, Unsaved, Alive
  <2>3. \A i \in Ids : Near(i)' \/ HasWritten(s, i)'
    BY <2>1 DEF HasWritten
  <2> QED
    BY <2>1, <2>2, <2>3 DEF Right
<1> QED
  BY <1>1, <1>2 DEF Keeps

(* A write of the entry by the request that saved the row makes it fresh.  *)
LEMMA SaveEntryKeeps ==
    ASSUME TreeShape, NEW w \in Workers, SaveEntry(w), Orderly' => Right(work[w])
    PROVE  Keeps(w)
<1>1. PICK s : s = [work[w] EXCEPT !.pc = "listRead"]
  OBVIOUS
<1>2. work' = [work EXCEPT ![w] = s] /\ work[w].pc = "entry"
  BY <1>1 DEF SaveEntry, Goto
<1>3. /\ s \in Work /\ s.pc = "listRead" /\ s.op = work[w].op /\ s.copy = work[w].copy
      /\ s.todo = work[w].todo
  BY <1>1, KindsKnown DEF Work
<1>4. OfKind(s)
  BY <1>2, <1>3, KindsKnown DEF OfKind
<1>5. FlushLeft(s)'
  BY <1>2, <1>3, KindsKnown DEF OfKind, FlushLeft
<1>6. work[w].id \in Ids /\ work[w].copy \in [Ids -> Value]
  BY KindsKnown DEF Work
<1>7. /\ entry' = [entry EXCEPT ![work[w].id] = work[w].copy[work[w].id]]
      /\ entry \in [Ids -> Value \cup {Miss}]
  BY DEF SaveEntry, TreeShape, TypeOK
<1>8. entry' \in [Ids -> Value \cup {Miss}]
  BY <1>6, <1>7
<1>9. UNCHANGED <<table, parent, last, kids, deleted, raced, outside, unsaved>>
  BY DEF SaveEntry, history
<1>10. ASSUME Orderly'
       PROVE  (\A i \in Ids : Near(i)' \/ HasWritten(s, i)) /\ Carries(s) /\ Deletes(s)'
  <2>1. Right(work[w]) /\ (work[w].copy[work[w].id] = table[work[w].id] \/ Unsaved(work[w]))
    BY <1>2, <1>10 DEF Right, Carries
  <2>2. \A i \in Ids : Near(i)'
    BY <2>1, <1>2, <1>6, <1>7, <1>9 DEF Right, HasWritten, Fresh, Near, Unsaved
  <2>3. Carries(s)
    BY <2>1, <1>2, <1>3 DEF Right, Carries, Unsaved
  <2>4. Deletes(s)'
    BY <1>2, <1>3, KindsKnown DEF OfKind, Deletes
  <2> QED
    BY <2>2, <2>3, <2>4
<1> QED
  BY <1>2, <1>3, <1>4, <1>5, <1>8, <1>9, <1>10, CacheKeeps DEF TreeShape, TypeOK

(* The keys of reply lists are ids.                                        *)
LEMMA ListKeyFits ==
    ASSUME TypeOK, NEW i \in Ids
    PROVE  ListKey(i) \in Ids
BY DEF ListKey, TypeOK, Ids

(* Reading the reply list changes nothing else.                            *)
LEMMA ListReadKeeps ==
    ASSUME TreeShape, NEW w \in Workers, ListRead(w), Orderly' => Right(work[w])
    PROVE  Keeps(w)
<1> DEFINE i == work[w].id
           old == IF kids[ListKey(i)] = Miss THEN {} ELSE kids[ListKey(i)]
<1>1. i \in Ids /\ ListKey(i) \in Ids /\ work[w].pc = "listRead"
  BY KindsKnown, ListKeyFits DEF Work, TreeShape, ListRead
<1>2. old \subseteq Ids
  BY <1>1 DEF TreeShape, TypeOK
<1>3. PICK l \in SUBSET Ids, p \in {"next", "listWrite"} :
          work' = [work EXCEPT ![w] = [work[w] EXCEPT !.pc = p, !.list = l]]
  <2>1. PICK l : l = IF parent[i] = 0 THEN {} ELSE old \cup {i}
    OBVIOUS
  <2>2. l \in SUBSET Ids
    BY <2>1, <1>1, <1>2
  <2>3. CASE parent[i] = 0 /\ kids[i] # Miss
    <3>1. work[w].list \in SUBSET Ids
      BY KindsKnown DEF Work
    <3>2. work' = [work EXCEPT ![w] = [work[w] EXCEPT !.pc = "next"]]
      BY <2>3 DEF ListRead, Goto
    <3>3. [work[w] EXCEPT !.pc = "next"] = [work[w] EXCEPT !.pc = "next", !.list = work[w].list]
      BY KindsKnown DEF Work
    <3> QED
      BY <3>1, <3>2, <3>3
  <2>4. CASE ~ (parent[i] = 0 /\ kids[i] # Miss)
    <3>1. work' = [work EXCEPT ![w] = [work[w] EXCEPT !.pc = "listWrite", !.list = l]]
      BY <2>1, <2>4 DEF ListRead
    <3> QED
      BY <2>2, <3>1
  <2> QED
    BY <2>3, <2>4
<1>4. PICK s : s = [work[w] EXCEPT !.pc = p, !.list = l]
  OBVIOUS
<1>5. /\ s \in Work /\ s.pc = p /\ s.op = work[w].op /\ s.copy = work[w].copy
      /\ s.todo = work[w].todo
  BY <1>3, <1>4, KindsKnown DEF Work
<1>6. work[w].op \in {"create", "update", "warm", "outside"}
  BY <1>1, KindsKnown DEF OfKind
<1>7. OfKind(s) /\ FlushLeft(s)' /\ Deletes(s)'
  BY <1>1, <1>3, <1>5, <1>6, KindsKnown DEF OfKind, FlushLeft, Deletes
<1>8. UNCHANGED <<table, parent, last, entry, kids, deleted, raced, outside, unsaved>>
  BY DEF ListRead, history
<1>9. ASSUME Orderly' PROVE (\A j \in Ids : Near(j)' \/ HasWritten(s, j)) /\ Carries(s)
  <2>1. Right(work[w])
    BY <1>9
  <2>2. \A j \in Ids : Near(j)
    BY <2>1, <1>1 DEF Right, HasWritten
  <2>3. Carries(s)
    BY <2>1, <1>3, <1>5 DEF Right, Carries, Unsaved
  <2> QED
    BY <2>2, <2>3, <1>8 DEF Fresh, Near
<1> QED
  BY <1>3, <1>4, <1>5, <1>7, <1>8, <1>9, CacheKeeps DEF TreeShape, TypeOK

(* Writing the reply list changes nothing else.                            *)
LEMMA ListWriteKeeps ==
    ASSUME TreeShape, NEW w \in Workers, ListWrite(w), Orderly' => Right(work[w])
    PROVE  Keeps(w)
<1>1. PICK s : s = [work[w] EXCEPT !.pc = "next"]
  OBVIOUS
<1>2. work' = [work EXCEPT ![w] = s] /\ work[w].pc = "listWrite"
  BY <1>1 DEF ListWrite, Goto
<1>3. /\ s \in Work /\ s.pc = "next" /\ s.op = work[w].op /\ s.copy = work[w].copy
      /\ s.todo = work[w].todo
  BY <1>1, KindsKnown DEF Work
<1>4. work[w].op \in {"create", "update", "warm", "outside"}
  BY <1>2, KindsKnown DEF OfKind
<1>5. OfKind(s) /\ FlushLeft(s)' /\ Deletes(s)'
  BY <1>3, <1>4, KindsKnown DEF OfKind, FlushLeft, Deletes
<1>6. UNCHANGED <<table, parent, last, entry, deleted, raced, outside, unsaved>>
  BY DEF ListWrite, history
<1>7. PICK k \in Ids : kids' = [kids EXCEPT ![k] = work[w].list]
  BY KindsKnown, ListKeyFits DEF Work, TreeShape, ListWrite
<1>8. work[w].list \subseteq Ids
  BY KindsKnown DEF Work
<1>9. /\ kids' = [i \in Ids |-> kids'[i]]
      /\ \A i \in Ids : kids'[i] = Miss \/ kids'[i] \subseteq Ids
  BY <1>7, <1>8 DEF TreeShape, TypeOK
<1>10. ASSUME Orderly' PROVE (\A j \in Ids : Near(j)' \/ HasWritten(s, j)) /\ Carries(s)
  <2>1. Right(work[w])
    BY <1>10
  <2>2. \A j \in Ids : Near(j)
    BY <2>1, <1>2 DEF Right, HasWritten
  <2>3. Carries(s)
    BY <2>1, <1>3 DEF Right, Carries, Unsaved
  <2> QED
    BY <2>2, <2>3, <1>6 DEF Fresh, Near
<1> QED
  BY <1>2, <1>3, <1>5, <1>6, <1>9, <1>10, CacheKeeps DEF TreeShape, TypeOK

(* Dropping the keys of a comment leaves fresh what was fresh.             *)
LEMMA UncachedFits ==
    ASSUME TreeShape, NEW i \in Ids, Uncached(i), table' = table
    PROVE  /\ entry' \in [Ids -> Value \cup {Miss}]
           /\ kids' = [k \in Ids |-> kids'[k]]
           /\ \A k \in Ids : kids'[k] = Miss \/ kids'[k] \subseteq Ids
           /\ Fresh(i)' /\ kids'[i] = Miss
           /\ \A j \in Ids : Fresh(j) => Fresh(j)'
           /\ \A j \in Ids : Near(j) => Near(j)'
           /\ \A k \in Ids : kids[k] = Miss => kids'[k] = Miss
           /\ unsaved' \subseteq Ids
<1>1. /\ entry' = [entry EXCEPT ![i] = Miss] /\ entry \in [Ids -> Value \cup {Miss}]
      /\ unsaved' = unsaved \ {i} /\ unsaved \subseteq Ids
  BY DEF Uncached, TreeShape, TypeOK
<1>2. kids' = [k \in Ids |-> IF k = i \/ k = parent[i] THEN Miss ELSE kids[k]]
  BY DEF Uncached
<1>3. \A k \in Ids : kids[k] = Miss \/ kids[k] \subseteq Ids
  BY DEF TreeShape, TypeOK
<1>4. entry' \in [Ids -> Value \cup {Miss}] /\ Fresh(i)' /\ \A j \in Ids : Fresh(j) => Fresh(j)'
  BY <1>1 DEF Fresh
<1>5. \A j \in Ids : Near(j) => Near(j)'
  BY <1>1, <1>4 DEF Near
<1> QED
  BY <1>1, <1>2, <1>3, <1>4, <1>5

(* Dropping the keys of a comment that was deleted.                        *)
LEMMA DelCacheKeeps ==
    ASSUME TreeShape, NEW w \in Workers, DelCache(w), Orderly' => Right(work[w])
    PROVE  Keeps(w)
<1>0. PICK i : i = work[w].id
  OBVIOUS
<1>1. work[w].pc = "delCache" /\ i \in Ids /\ work[w].op \in {"delete", "outside"}
  BY <1>0, KindsKnown DEF DelCache, Work, OfKind
<1>2. PICK s :
          s = IF i = work[w].rid THEN [work[w] EXCEPT !.pc = "expand", !.open = {i}]
              ELSE [work[w] EXCEPT !.pc = "next"]
  OBVIOUS
<1>3. work' = [work EXCEPT ![w] = s]
  <2>1. CASE i = work[w].rid
    BY <2>1, <1>0, <1>2 DEF DelCache
  <2>2. CASE i # work[w].rid
    BY <2>2, <1>0, <1>2 DEF DelCache
  <2> QED
    BY <2>1, <2>2
<1>4. /\ s \in Work /\ s.op = work[w].op /\ s.todo = work[w].todo /\ s.copy = work[w].copy
      /\ s.rid = work[w].rid /\ s.id = work[w].id /\ s.failed = work[w].failed
      /\ (i = work[w].rid /\ s.pc = "expand" /\ s.open = {i}) \/ (i # work[w].rid /\ s.pc = "next")
  <2>1. CASE i = work[w].rid
    BY <2>1, <1>0, <1>1, <1>2, KindsKnown DEF Work
  <2>2. CASE i # work[w].rid
    BY <2>2, <1>0, <1>1, <1>2, KindsKnown DEF Work
  <2> QED
    BY <2>1, <2>2
<1>5. OfKind(s) /\ FlushLeft(s)'
  BY <1>1, <1>4, KindsKnown DEF OfKind, FlushLeft
<1>6. UNCHANGED <<table, parent, last, deleted, raced, outside>> /\ table' = table /\ Uncached(i)
  BY <1>0 DEF DelCache
<1>7. /\ entry' \in [Ids -> Value \cup {Miss}]
      /\ kids' = [k \in Ids |-> kids'[k]]
      /\ \A k \in Ids : kids'[k] = Miss \/ kids'[k] \subseteq Ids
      /\ Near(i)' /\ kids'[i] = Miss /\ unsaved' \subseteq Ids
      /\ \A j \in Ids : Near(j) => Near(j)'
  BY <1>1, <1>6, UncachedFits DEF Near
<1>8. ASSUME Orderly'
      PROVE  (\A j \in Ids : Near(j)' \/ HasWritten(s, j)) /\ Carries(s) /\ Deletes(s)'
  <2>1. Right(work[w])
    BY <1>8
  <2>2. \A j \in Ids : Near(j)'
    BY <2>1, <1>0, <1>7 DEF Right, HasWritten
  <2>3. Carries(s)
    BY <1>1, <1>4 DEF Carries, Unsaved
  <2>4. ASSUME s.op = "delete"
        PROVE  /\ s.rid \in 1..last /\ s.rid \notin s.todo /\ table[s.rid] = Gone
               /\ s.id # s.rid => s.failed \/ RepliesOf(s.rid) \subseteq s.todo
    BY <2>1, <2>4, <1>0, <1>1, <1>4 DEF Right, Deletes
  <2>5. s.op = "delete" => RepliesOf(s.rid)' = RepliesOf(s.rid)
    BY <1>6 DEF RepliesOf, Alive
  <2>6. Deletes(s)'
    BY <2>4, <2>5, <1>0, <1>4, <1>6, <1>7 DEF Deletes
  <2> QED
    BY <2>2, <2>3, <2>6
<1> QED
  BY <1>3, <1>4, <1>5, <1>6, <1>7, <1>8, CacheKeeps

(* Flushing the keys of a comment.                                         *)
LEMMA FlushOneKeeps ==
    ASSUME TreeShape, NEW w \in Workers, FlushOne(w), ~ raced' => FlushLeft(work[w]),
           Orderly' => Right(work[w])
    PROVE  Keeps(w)
<1>0. PICK i : i = work[w].id
  OBVIOUS
<1>1. PICK s : s = [work[w] EXCEPT !.pc = "next"]
  OBVIOUS
<1>2. work' = [work EXCEPT ![w] = s] /\ work[w].pc = "flush" /\ i \in Ids
  BY <1>0, <1>1, KindsKnown DEF FlushOne, Goto, Work
<1>3. /\ s \in Work /\ s.pc = "next" /\ s.op = work[w].op /\ s.copy = work[w].copy
      /\ s.todo = work[w].todo
  BY <1>1, KindsKnown DEF Work
<1>4. work[w].op \in {"flush", "outside"}
  BY <1>2, KindsKnown DEF OfKind
<1>5. OfKind(s) /\ Deletes(s)' /\ Carries(s)
  BY <1>3, <1>4, KindsKnown DEF OfKind, Deletes, Carries, Unsaved
<1>6. UNCHANGED <<table, parent, last, deleted, raced, outside>> /\ table' = table /\ Uncached(i)
  BY <1>0 DEF FlushOne
<1>7. /\ entry' \in [Ids -> Value \cup {Miss}]
      /\ kids' = [k \in Ids |-> kids'[k]]
      /\ \A k \in Ids : kids'[k] = Miss \/ kids'[k] \subseteq Ids
      /\ Fresh(i)' /\ unsaved' \subseteq Ids
      /\ \A j \in Ids : Fresh(j) => Fresh(j)'
      /\ \A j \in Ids : Near(j) => Near(j)'
  BY <1>2, <1>6, UncachedFits
<1>8. ~ raced' => FlushLeft(s)'
  <2> SUFFICES ASSUME ~ raced', s.op = "flush", NEW j \in Alive', ~ Fresh(j)'
               PROVE  j \in s.todo
    BY DEF FlushLeft
  <2>1. j \in Alive /\ j \in Ids
    BY <1>6 DEF Alive
  <2>2. Fresh(j) \/ j \in work[w].todo \/ i = j
    BY <2>1, <1>0, <1>3 DEF FlushLeft
  <2> QED
    BY <2>1, <2>2, <1>3, <1>7
<1>9. ASSUME Orderly' PROVE \A j \in Ids : Near(j)'
  BY <1>0, <1>2, <1>7, <1>9 DEF Right, HasWritten
<1> QED
  BY <1>2, <1>3, <1>5, <1>6, <1>7, <1>8, <1>9, CacheKeeps

(* The store of a reader: what it read is still in the table.              *)
LEMMA ReadStoreKeeps ==
    ASSUME TreeShape, NEW w \in Workers, ReadStore(w), Orderly' => Right(work[w])
    PROVE  Keeps(w)
<1>1. work' = [work EXCEPT ![w] = Idle] /\ work[w].pc = "store"
  BY DEF ReadStore, Return
<1>2. work[w].id \in Ids /\ work[w].copy \in [Ids -> Value]
  BY KindsKnown DEF Work
<1>3. /\ entry' = [entry EXCEPT ![work[w].id] = work[w].copy[work[w].id]]
      /\ entry \in [Ids -> Value \cup {Miss}]
  BY DEF ReadStore, TreeShape, TypeOK
<1>4. entry' \in [Ids -> Value \cup {Miss}]
  BY <1>2, <1>3
<1>5. UNCHANGED <<table, parent, last, kids, deleted, raced, outside, unsaved>>
  BY DEF ReadStore, history
<1>6. ASSUME Orderly' PROVE \A i \in Ids : Near(i)'
  <2>1. Right(work[w]) /\ work[w].copy[work[w].id] = table[work[w].id]
    BY <1>1, <1>6 DEF Right, Carries, Unsaved
  <2> QED
    BY <2>1, <1>1, <1>2, <1>3, <1>5 DEF Right, HasWritten, Fresh, Near
<1>7. FlushLeft(Idle)' /\ Carries(Idle) /\ Deletes(Idle)'
  BY DEF FlushLeft, Carries, Unsaved, Deletes, Idle
<1>8. PICK s : s = Idle
  OBVIOUS
<1>9. FlushLeft(s)' /\ Carries(s) /\ Deletes(s)'
  BY <1>8 DEF FlushLeft, Carries, Unsaved, Deletes, Idle
<1> QED
  BY <1>1, <1>4, <1>5, <1>6, <1>8, <1>9, IdleFits, CacheKeeps DEF TreeShape, TypeOK

(* A statement of a deletion fails: a descendant is left, and the request  *)
(* knows it.                                                               *)
LEMMA DelRowFailsKeeps ==
    ASSUME TreeShape, NEW w \in Workers, DelRowFails(w), Orderly' => Right(work[w])
    PROVE  Keeps(w)
<1>1. work[w].pc = "delRow" /\ work[w].op \in {"delete", "outside"}
  BY KindsKnown DEF DelRowFails, OfKind
<1>2. PICK s : s = IF work[w].id = work[w].rid THEN Idle
                   ELSE [work[w] EXCEPT !.pc = "next", !.failed = TRUE]
  OBVIOUS
<1>3. work' = [work EXCEPT ![w] = s]
  <2>1. CASE work[w].id = work[w].rid
    BY <2>1, <1>2 DEF DelRowFails, Return
  <2>2. CASE work[w].id # work[w].rid
    BY <2>2, <1>2 DEF DelRowFails
  <2> QED
    BY <2>1, <2>2
<1>4. s = Idle \/ (/\ s \in Work /\ s.pc = "next" /\ s.op = work[w].op /\ s.failed
                   /\ s.rid = work[w].rid /\ s.todo = work[w].todo /\ s.id = work[w].id
                   /\ work[w].id # work[w].rid)
  <2>1. CASE work[w].id # work[w].rid
    BY <2>1, <1>2, KindsKnown DEF Work
  <2> QED
    BY <2>1, <1>2
<1>5. s \in Work /\ OfKind(s)
  <2>1. CASE s = Idle
    BY <2>1, IdleFits
  <2>2. CASE s # Idle
    BY <2>2, <1>1, <1>4, KindsKnown DEF OfKind
  <2> QED
    BY <2>1, <2>2
<1>6. s.op # "flush" /\ s.op # "warm" /\ s.pc \in {"idle", "next"}
  <2>1. CASE s = Idle
    BY <2>1 DEF Idle
  <2>2. CASE s # Idle
    BY <2>2, <1>1, <1>4
  <2> QED
    BY <2>1, <2>2
<1>7. FlushLeft(s)' /\ Carries(s)
  BY <1>6 DEF FlushLeft, Carries, Unsaved
<1>8. UNCHANGED <<table, parent, last, entry, kids, deleted, raced, outside, unsaved>>
  BY DEF DelRowFails, history
<1>9. ASSUME Orderly'
      PROVE  (\A j \in Ids : Near(j)' \/ HasWritten(s, j)) /\ Deletes(s)'
  <2>1. Right(work[w])
    BY <1>9
  <2>2. \A j \in Ids : Near(j)'
    BY <2>1, <1>1, <1>8 DEF Right, HasWritten, Fresh, Near
  <2>3. Deletes(s)
    <3>1. CASE s = Idle
      BY <3>1 DEF Deletes, Idle
    <3>2. CASE s # Idle
      BY <3>2, <2>1, <1>4 DEF Right, Deletes
    <3> QED
      BY <3>1, <3>2
  <2>4. Deletes(s)'
    BY <2>3, <1>8 DEF Deletes, RepliesOf, Alive
  <2> QED
    BY <2>2, <2>4
<1> QED
  BY <1>3, <1>5, <1>7, <1>8, <1>9, CacheKeeps DEF TreeShape, TypeOK

(* Expanding a comment finds its replies: those of the comment itself are  *)
(* all found, for its list was dropped after its row.                      *)
LEMMA ExpandOneKeeps ==
    ASSUME TreeShape, NEW w \in Workers, work[w].pc = "expand", Orderly' => Right(work[w]),
           NEW i \in work[w].open, NEW found, found = {c \in Children(i) : Find(c) # Gone},
           kids' = [kids EXCEPT ![i] = Children(i)],
           entry' = [c \in Ids |-> IF c \in Children(i) THEN Find(c) ELSE entry[c]],
           work' = [work EXCEPT ![w].open = (@ \ {i}) \cup found, ![w].todo = @ \cup found],
           UNCHANGED <<table, parent, last, deleted, raced, outside, unsaved>>
    PROVE  Keeps(w)
<1>1. /\ work[w].op \in {"delete", "outside"} /\ i \in Ids
      /\ work[w].open \subseteq Ids /\ work[w].todo \subseteq Ids
  BY KindsKnown DEF OfKind, Work
<1>2. /\ table \in [Ids -> Value] /\ entry \in [Ids -> Value \cup {Miss}]
      /\ kids = [k \in Ids |-> kids[k]]
      /\ \A k \in Ids : kids[k] = Miss \/ kids[k] \subseteq Ids
  BY DEF TreeShape, TypeOK
<1>3. Children(i) \subseteq Ids /\ found \subseteq Ids
  BY <1>1, <1>2 DEF Children, Alive
<1>4. PICK s : s = [work[w] EXCEPT !.open = (work[w].open \ {i}) \cup found,
                                   !.todo = work[w].todo \cup found]
  OBVIOUS
<1>5. work' = [work EXCEPT ![w] = s]
  BY <1>4
<1>6. /\ s \in Work /\ s.op = work[w].op /\ s.pc = "expand" /\ s.rid = work[w].rid
      /\ s.open = (work[w].open \ {i}) \cup found /\ s.todo = work[w].todo \cup found
      /\ s.id = work[w].id
  BY <1>1, <1>3, <1>4, KindsKnown DEF Work
<1>7. OfKind(s) /\ FlushLeft(s)' /\ Carries(s)
  BY <1>1, <1>6, KindsKnown DEF OfKind, FlushLeft, Carries, Unsaved
<1>8. \A c \in Ids : Find(c) \in Value \cup {Miss}
  BY <1>2 DEF Find
<1>9. entry' \in [Ids -> Value \cup {Miss}]
  BY <1>2, <1>8
<1>10. /\ kids' = [k \in Ids |-> kids'[k]]
       /\ \A k \in Ids : kids'[k] = Miss \/ kids'[k] \subseteq Ids
       /\ \A k \in Ids : k # i => kids'[k] = kids[k]
  BY <1>2, <1>3
<1>11. ASSUME Orderly'
       PROVE  (\A j \in Ids : Near(j)') /\ Deletes(s)'
  <2>1. Right(work[w]) /\ table' = table /\ parent' = parent /\ last' = last
    BY <1>11
  <2>2. \A j \in Ids : Near(j)
    BY <2>1 DEF Right, HasWritten
  <2>3. \A j \in Ids : /\ Find(j) # Gone <=> table[j] # Gone
                     /\ Find(j) # Miss
                     /\ Find(j) \in {entry[j], table[j]}
    BY <2>2, <1>2, TreeAssumption DEF Find, Fresh, Near, Value
  <2>4. \A j \in Ids : Near(j)'
    <3> SUFFICES ASSUME NEW j \in Ids PROVE Near(j)'
      OBVIOUS
    <3>1. entry'[j] \in {entry[j], table[j]}
      BY <2>3
    <3> QED
      BY <2>1, <2>2, <3>1, <1>11 DEF Fresh, Near
  <2>5. ASSUME s.op = "delete" PROVE Deletes(s)'
    <3>1. /\ s.rid \in 1..last /\ s.rid \notin work[w].todo /\ table[s.rid] = Gone
          /\ \/ s.rid \in work[w].open /\ kids[s.rid] = Miss
             \/ RepliesOf(s.rid) \subseteq work[w].todo
      BY <2>1, <2>5, <1>6 DEF Right, Deletes
    <3>2. s.rid \in Ids
      BY <2>5, <1>6, KindsKnown DEF OfKind
    <3>3. s.rid \notin s.todo
      BY <3>1, <3>2, <2>3, <1>3, <1>6
    <3>4. RepliesOf(s.rid)' = RepliesOf(s.rid)
      BY <2>1 DEF RepliesOf, Alive
    <3>5. (s.rid \in s.open /\ kids'[s.rid] = Miss) \/ RepliesOf(s.rid) \subseteq s.todo
      <4>1. CASE RepliesOf(s.rid) \subseteq work[w].todo
        BY <4>1, <1>6
      <4>2. CASE s.rid \in work[w].open /\ kids[s.rid] = Miss /\ i # s.rid
        BY <4>2, <3>2, <1>6, <1>10
      <4>3. CASE kids[s.rid] = Miss /\ i = s.rid
        <5>1. Children(i) = RepliesOf(s.rid)
          BY <4>3 DEF Children, RepliesOf
        <5>2. \A c \in RepliesOf(s.rid) : c \in found
          BY <5>1, <2>3, <1>3 DEF RepliesOf, Alive
        <5> QED
          BY <5>2, <1>6
      <4> QED
        BY <3>1, <4>1, <4>2, <4>3
    <3> QED
      BY <3>1, <3>3, <3>4, <3>5, <2>1, <1>6 DEF Deletes
  <2>6. Deletes(s)'
    BY <2>5 DEF Deletes
  <2> QED
    BY <2>4, <2>6
<1>12. unsaved' \subseteq Ids /\ unsaved' = unsaved
  BY DEF TreeShape, TypeOK
<1> QED
  BY <1>5, <1>6, <1>7, <1>9, <1>10, <1>11, <1>12, CacheKeeps

(* Expand leaves everything right, when it has nothing left to expand too. *)
LEMMA ExpandKeeps ==
    ASSUME TreeShape, NEW w \in Workers, Expand(w), Orderly' => Right(work[w])
    PROVE  Keeps(w)
<1>1. work[w].pc = "expand" /\ UNCHANGED <<table, parent, last, deleted, raced, outside, unsaved>>
  BY DEF Expand, history
<1>2. ASSUME NEW i \in work[w].open,
             kids' = [kids EXCEPT ![i] = Children(i)],
             entry' = [c \in Ids |-> IF c \in Children(i) THEN Find(c) ELSE entry[c]],
             work' = [work EXCEPT
                        ![w].open = (@ \ {i}) \cup {c \in Children(i) : Find(c) # Gone},
                        ![w].todo = @ \cup {c \in Children(i) : Find(c) # Gone}]
      PROVE  Keeps(w)
  <2>1. PICK found : found = {c \in Children(i) : Find(c) # Gone}
    OBVIOUS
  <2>2. work' = [work EXCEPT ![w].open = (@ \ {i}) \cup found, ![w].todo = @ \cup found]
    BY <1>2, <2>1
  <2> QED
    BY <1>1, <1>2, <2>1, <2>2, ExpandOneKeeps
<1>3. ASSUME work[w].open = {}, Goto(w, "next"), UNCHANGED <<entry, kids>> PROVE Keeps(w)
  <2>1. PICK s : s = [work[w] EXCEPT !.pc = "next"]
    OBVIOUS
  <2>2. work' = [work EXCEPT ![w] = s]
    BY <1>3, <2>1 DEF Goto
  <2>3. /\ s \in Work /\ s.pc = "next" /\ s.op = work[w].op /\ s.rid = work[w].rid
        /\ s.todo = work[w].todo
    BY <2>1, KindsKnown DEF Work
  <2>4. work[w].op \in {"delete", "outside"}
    BY <1>1, KindsKnown DEF OfKind
  <2>5. OfKind(s) /\ FlushLeft(s)' /\ Carries(s)
    BY <2>3, <2>4, KindsKnown DEF OfKind, FlushLeft, Carries, Unsaved
  <2>6. ASSUME Orderly'
        PROVE  (\A j \in Ids : Near(j)') /\ Deletes(s)'
    <3>1. Right(work[w])
      BY <2>6
    <3>2. \A j \in Ids : Near(j)'
      BY <3>1, <1>1, <1>3 DEF Right, HasWritten, Fresh, Near
    <3>3. Deletes(s)
      BY <3>1, <1>1, <1>3, <2>3 DEF Right, Deletes
    <3>4. Deletes(s)'
      BY <3>3, <1>1, <1>3 DEF Deletes, RepliesOf, Alive
    <3> QED
      BY <3>2, <3>4
  <2> QED
    BY <1>1, <1>3, <2>2, <2>3, <2>5, <2>6, CacheKeeps DEF TreeShape, TypeOK
<1> QED
  BY <1>2, <1>3 DEF Expand

(* NextItem takes the next comment of the list, or ends the request: then  *)
(* a deletion that did not fail has left no reply.                         *)
LEMMA NextItemKeeps ==
    ASSUME TreeShape, NEW w \in Workers, NextItem(w), ~ raced' => FlushLeft(work[w]),
           Orderly' => Right(work[w])
    PROVE  Keeps(w)
<1>1. work[w].pc = "next" /\ UNCHANGED <<table, parent, last, entry, kids, raced, outside, unsaved>>
  BY DEF NextItem, history
<1>2. work[w].todo \subseteq Ids /\ work[w].op \notin {"", "read"}
  BY <1>1, KindsKnown DEF Work, OfKind
<1>3. CASE work[w].todo # {}
  <2>1. PICK i : i = First(work[w].todo)
    OBVIOUS
  <2>2. i \in work[w].todo /\ i \in Ids
    BY <2>1, <1>2, <1>3, FirstThere
  <2>3. PICK p : p = Body(work[w].op)
    OBVIOUS
  <2>4. /\ work[w].op = "delete" => p = "delRow"
        /\ work[w].op = "warm" => p = "entry"
        /\ work[w].op \notin {"delete", "warm"} => p = "flush"
    BY <2>3 DEF Body
  <2>5. p \in {"delRow", "entry", "flush"}
    BY <2>4
  <2>6. PICK s : s = [work[w] EXCEPT !.id = i, !.todo = work[w].todo \ {i}, !.list = {}, !.pc = p]
    OBVIOUS
  <2>7. work' = [work EXCEPT ![w] = s] /\ deleted' = deleted
    BY <1>3, <2>1, <2>3, <2>6 DEF NextItem
  <2>8. /\ s \in Work /\ s.pc = p /\ s.op = work[w].op /\ s.rid = work[w].rid
        /\ s.todo = work[w].todo \ {i} /\ s.id = i /\ s.copy = work[w].copy
        /\ s.failed = work[w].failed
    BY <2>2, <2>5, <2>6, <1>2, KindsKnown DEF Work
  <2>9. work[w].op \notin {"create", "update"}
    BY <1>3, KindsKnown DEF OfKind
  <2>10. OfKind(s)
    BY <2>4, <2>5, <2>8, <2>9, <1>2, KindsKnown DEF OfKind
  <2>11. ~ raced' => FlushLeft(s)'
    <3> SUFFICES ASSUME ~ raced', s.op = "flush", NEW j \in Alive', ~ Fresh(j)'
                 PROVE  j \in s.todo \/ (s.pc = "flush" /\ s.id = j)
      BY DEF FlushLeft
    <3>1. j \in Alive /\ ~ Fresh(j)
      BY <1>1 DEF Alive, Fresh, Near
    <3>2. j \in work[w].todo
      BY <3>1, <2>8, <1>1 DEF FlushLeft
    <3> QED
      BY <3>2, <2>4, <2>8
  <2>12. ASSUME Orderly'
         PROVE  (\A j \in Ids : Near(j)') /\ Carries(s) /\ Deletes(s)'
    <3>1. Right(work[w])
      BY <2>12
    <3>2. \A j \in Ids : Near(j)'
      BY <3>1, <1>1 DEF Right, HasWritten, Fresh, Near
    <3>3. Carries(s)
      <4>1. s.op = "warm" => s.copy = table
        BY <3>1, <2>8 DEF Right, Carries, Unsaved
      <4>2. s.pc = "entry" => s.op = "warm"
        BY <2>4, <2>8
      <4>3. s.pc # "insert" /\ s.pc # "save" /\ s.pc # "store"
        BY <2>5, <2>8
      <4> QED
        BY <4>1, <4>2, <4>3 DEF Carries, Unsaved
    <3>4. Deletes(s)
      <4> SUFFICES ASSUME s.op = "delete" PROVE Deletes(s)
        BY DEF Deletes
      <4>1. /\ s.rid \in 1..last /\ s.rid \notin work[w].todo /\ table[s.rid] = Gone
            /\ s.failed \/ RepliesOf(s.rid) \subseteq work[w].todo
        BY <3>1, <1>1, <2>8 DEF Right, Deletes
      <4>2. s.pc = "delRow" /\ s.id # s.rid
        BY <4>1, <2>2, <2>4, <2>8
      <4>3. s.failed \/ RepliesOf(s.rid) \subseteq s.todo \cup {s.id}
        BY <4>1, <2>8
      <4> QED
        BY <4>1, <4>2, <4>3, <2>8 DEF Deletes
    <3>5. Deletes(s)'
      BY <3>4, <1>1 DEF Deletes, RepliesOf, Alive
    <3> QED
      BY <3>2, <3>3, <3>5
  <2> QED
    BY <1>1, <2>7, <2>8, <2>10, <2>11, <2>12, CacheKeeps DEF TreeShape, TypeOK
<1>4. CASE work[w].todo = {}
  <2>1. work' = [work EXCEPT ![w] = Idle]
    BY <1>4 DEF NextItem, Return
  <2>2. \/ deleted' = deleted
        \/ /\ work[w].op = "delete" /\ ~ work[w].failed
           /\ deleted' = deleted \cup {work[w].rid}
    BY <1>4 DEF NextItem
  <2>3. TypeOK'
    <3>1. work' \in [Workers -> Work]
      BY <2>1, IdleFits DEF TreeShape, TypeOK
    <3>2. deleted' \subseteq Ids
      BY <2>2, KindsKnown DEF OfKind, TreeShape, TypeOK
    <3> QED
      BY <3>1, <3>2, <1>1 DEF TreeShape, TypeOK, history
  <2>4. PICK s : s = Idle
    OBVIOUS
  <2>5. s.op = "" /\ s.pc = "idle" /\ s \in Work /\ OfKind(s)
    BY <2>4, IdleFits DEF Idle
  <2>6. FlushLeft(s)' /\ Carries(s)' /\ Deletes(s)'
    BY <2>5 DEF FlushLeft, Carries, Unsaved, Deletes
  <2>7. ASSUME Orderly' PROVE Right(s)'
    <3>1. Right(work[w])
      BY <2>7, <1>1 DEF history
    <3>2. \A j \in Ids : Near(j)'
      BY <3>1, <1>1 DEF Right, HasWritten, Fresh, Near
    <3>3. GoneForGood'
      <4>1. CASE deleted' = deleted
        BY <4>1, <3>1, <1>1 DEF Right, GoneForGood, Alive
      <4>2. CASE /\ work[w].op = "delete" /\ ~ work[w].failed
                 /\ deleted' = deleted \cup {work[w].rid}
        <5>1. /\ work[w].rid \in 1..last /\ table[work[w].rid] = Gone
              /\ RepliesOf(work[w].rid) = {}
          BY <4>2, <3>1, <1>1, <1>4 DEF Right, Deletes
        <5>2. work[w].rid <= last
          BY <5>1 DEF TreeShape, TypeOK
        <5>3. \A c \in Alive : parent[c] # work[w].rid
          BY <5>1 DEF RepliesOf
        <5> QED
          BY <4>2, <5>1, <5>2, <5>3, <3>1, <1>1 DEF Right, GoneForGood, Alive
      <4> QED
        BY <2>2, <4>1, <4>2
    <3> QED
      BY <2>6, <3>2, <3>3 DEF Right
  <2>8. kids' = [k \in Ids |-> kids'[k]]
    BY <1>1 DEF TreeShape
  <2> QED
    BY <2>1, <2>3, <2>4, <2>5, <2>6, <2>7, <2>8 DEF Keeps
<1> QED
  BY <1>3, <1>4

(* CreateInsert gives a row to a comment that no deletion was reported of. *)
LEMMA CreateInsertKeeps ==
    ASSUME TreeShape, NEW w \in Workers, CreateInsert(w), Orderly' => Right(work[w])
    PROVE  Keeps(w)
<1>1. /\ work[w].pc = "insert" /\ UNCHANGED <<entry, kids, deleted, raced, outside, unsaved>>
      /\ work[w].op \in {"create", "outside"}
  BY KindsKnown DEF CreateInsert, OfKind, history
<1>2. /\ table \in [Ids -> Value] /\ parent \in [Ids -> 0..MaxId] /\ last \in 0..MaxId
      /\ work[w].copy \in [Ids -> Value] /\ work[w].rid \in 0..MaxId /\ MaxId \in Nat
  BY KindsKnown, TreeAssumption DEF TreeShape, TypeOK, Work
<1> DEFINE inserts ==
             /\ last < MaxId
             /\ last' = last + 1
             /\ table' = [table EXCEPT ![last + 1] = work[w].copy[last + 1]]
             /\ parent' = [parent EXCEPT ![last + 1] = work[w].rid]
             /\ work' = [work EXCEPT ![w].pc = "entry", ![w].id = last + 1]
<1>3. inserts \/ (Return(w) /\ UNCHANGED <<table, parent, last>>)
  BY DEF CreateInsert
<1>5. CASE inserts
  <2>0. PICK s : s = [work[w] EXCEPT !.pc = "entry", !.id = last + 1]
    OBVIOUS
  <2>9. work' = [work EXCEPT ![w] = s]
    BY <1>5, <2>0
  <2>1. PICK n : n = last + 1
    OBVIOUS
  <2>2. n \in Ids /\ n # 0 /\ n > last /\ n = last + 1
    BY <1>2, <1>5, <2>1 DEF Ids
  <2>3. /\ s \in Work /\ s.op = work[w].op /\ s.pc = "entry" /\ s.id = n
        /\ s.copy = work[w].copy /\ s.todo = work[w].todo
    <3>1. s = [work[w] EXCEPT !.pc = "entry", !.id = n]
      BY <2>0, <2>1
    <3> QED
      BY <3>1, <2>2, KindsKnown DEF Work
  <2>4. OfKind(s) /\ FlushLeft(s)' /\ Deletes(s)'
    BY <1>1, <2>3, KindsKnown DEF OfKind, FlushLeft, Deletes
  <2>5. /\ table' = [table EXCEPT ![n] = work[w].copy[n]]
        /\ parent' = [parent EXCEPT ![n] = work[w].rid]
        /\ last' = n
    BY <1>5, <2>1
  <2>6. TypeOK'
    <3>1. work' \in [Workers -> Work]
      BY <2>9, <2>3 DEF TreeShape, TypeOK
    <3>2. table' \in [Ids -> Value] /\ parent' \in [Ids -> 0..MaxId] /\ last' \in 0..MaxId
      BY <1>2, <2>2, <2>5 DEF Ids
    <3> QED
      BY <3>1, <3>2, <1>1 DEF TreeShape, TypeOK, history
  <2>7. ASSUME Orderly' PROVE Right(s)'
    <3>1. Right(work[w])
      BY <2>7, <1>1 DEF history
    <3>2. \A i \in Ids : Near(i)' \/ HasWritten(s, i)'
      BY <3>1, <1>1, <1>2, <2>2, <2>3, <2>5 DEF Right, HasWritten, Fresh, Near
    <3>3. Carries(s)'
      BY <1>1, <1>2, <2>2, <2>3, <2>5 DEF Carries, Unsaved
    <3>4. work[w].rid \notin deleted
      <4>1. work[w].rid = 0 \/ table[work[w].rid] # Gone
        BY <3>1, <1>1 DEF Right, Carries, Unsaved
      <4>2. 0 \notin deleted
        BY DEF TreeShape, TypeOK, Ids
      <4> QED
        BY <3>1, <4>1, <4>2 DEF Right, GoneForGood
    <3>5. n \notin deleted
      BY <3>1, <1>2, <2>2 DEF Right, GoneForGood
    <3>6. deleted' = deleted /\ deleted \subseteq Ids
      BY <1>1 DEF TreeShape, TypeOK
    <3>7. GoneForGood'
      <4>1. \A i \in Ids : table'[i] # Gone \/ i \in deleted => i <= n
        <5> TAKE i \in Ids
        <5>1. i \in Nat
          BY DEF Ids
        <5>2. CASE i = n
          BY <5>1, <5>2
        <5>3. CASE i # n
          BY <5>1, <5>3, <3>1, <1>2, <2>2, <2>5 DEF Right, GoneForGood
        <5> QED
          BY <5>2, <5>3
      <4>2. \A i \in deleted : table'[i] = Gone
        BY <3>1, <3>5, <3>6, <1>2, <2>5 DEF Right, GoneForGood
      <4>3. \A c \in Ids : table'[c] # Gone => parent'[c] \notin deleted
        <5> TAKE c \in Ids
        <5>1. CASE c = n
          BY <5>1, <3>4, <1>2, <2>2, <2>5
        <5>2. CASE c # n
          BY <5>2, <3>1, <1>2, <2>2, <2>5 DEF Right, GoneForGood, Alive
        <5> QED
          BY <5>1, <5>2
      <4> QED
        BY <4>1, <4>2, <4>3, <3>6, <2>5 DEF GoneForGood, Alive
    <3> QED
      BY <3>2, <3>3, <3>7, <2>4 DEF Right
  <2> QED
    BY <1>1, <2>9, <2>3, <2>4, <2>6, <2>7 DEF Keeps, TreeShape
<1>6. CASE Return(w) /\ UNCHANGED <<table, parent, last>>
  <2>0. PICK s : s = Idle
    OBVIOUS
  <2>1. s = Idle /\ UNCHANGED <<table, parent, last>> /\ work' = [work EXCEPT ![w] = s]
    BY <2>0, <1>6 DEF Return
  <2>2. s.op = "" /\ s.pc = "idle" /\ s \in Work /\ OfKind(s)
    BY <2>1, IdleFits DEF Idle
  <2>3. FlushLeft(s)' /\ Carries(s) /\ Deletes(s)'
    BY <2>2 DEF FlushLeft, Carries, Unsaved, Deletes
  <2>4. Orderly' => \A j \in Ids : Near(j)'
    BY <1>1, <2>1 DEF Right, HasWritten, Fresh, Near
  <2> QED
    BY <1>1, <2>1, <2>2, <2>3, <2>4, CacheKeeps DEF TreeShape, TypeOK
<1> QED
  BY <1>3, <1>5, <1>6

(* UpdateSave writes the row of a comment that is still there.             *)
LEMMA UpdateSaveKeeps ==
    ASSUME TreeShape, NEW w \in Workers, UpdateSave(w), Orderly' => Right(work[w])
    PROVE  Keeps(w)
<1>1. /\ work[w].pc = "save" /\ UNCHANGED <<parent, last, entry, kids, deleted, raced, outside>>
      /\ work[w].op \in {"update", "outside"}
  BY KindsKnown DEF UpdateSave, OfKind
<1>2. /\ table \in [Ids -> Value] /\ work[w].copy \in [Ids -> Value] /\ work[w].id \in Ids
  BY KindsKnown DEF TreeShape, TypeOK, Work
<1>3. PICK s : s = [work[w] EXCEPT !.pc = "entry"]
  OBVIOUS
<1>4. work' = [work EXCEPT ![w] = s]
  BY <1>3 DEF UpdateSave, Goto
<1>5. PICK n : n = work[w].id
  OBVIOUS
<1>6. /\ s \in Work /\ s.op = work[w].op /\ s.pc = "entry" /\ s.id = n
      /\ s.copy = work[w].copy /\ s.todo = work[w].todo
  BY <1>3, <1>5, KindsKnown DEF Work
<1>7. OfKind(s) /\ FlushLeft(s)' /\ Deletes(s)'
  BY <1>1, <1>6, KindsKnown DEF OfKind, FlushLeft, Deletes
<1>8. \/ table' = [table EXCEPT ![n] = work[w].copy[n]] /\ unsaved' = unsaved \ {n}
      \/ table' = table /\ unsaved' = unsaved \cup {n}
  BY <1>5 DEF UpdateSave
<1>9. TypeOK'
  <2>1. work' \in [Workers -> Work]
    BY <1>4, <1>6 DEF TreeShape, TypeOK
  <2>2. table' \in [Ids -> Value]
    BY <1>2, <1>5, <1>8
  <2>3. unsaved' \subseteq Ids
    BY <1>2, <1>5, <1>8 DEF TreeShape, TypeOK
  <2> QED
    BY <2>1, <2>2, <2>3, <1>1 DEF TreeShape, TypeOK
<1>10. ASSUME Orderly' PROVE Right(s)'
  <2>1. Right(work[w])
    BY <1>10, <1>1
  <2>2. \A i \in Ids : Near(i)' \/ HasWritten(s, i)'
    <3> SUFFICES ASSUME NEW i \in Ids PROVE Near(i)' \/ HasWritten(s, i)'
      OBVIOUS
    <3>1. CASE i = n
      BY <3>1, <1>6 DEF HasWritten
    <3>2. CASE i # n
      <4>1. Near(i)
        BY <2>1, <1>1 DEF Right, HasWritten
      <4>2. table'[i] = table[i] /\ (i \in unsaved' <=> i \in unsaved) /\ entry' = entry
        BY <3>2, <1>1, <1>2, <1>8
      <4> QED
        BY <4>1, <4>2 DEF Near, Fresh
    <3> QED
      BY <3>1, <3>2
  <2>3. table[n] # Gone /\ work[w].copy[n] # Gone
    BY <2>1, <1>1, <1>5 DEF Right, Carries
  <2>4. \A i \in Ids : table'[i] # Gone <=> table[i] # Gone
    BY <2>3, <1>2, <1>5, <1>8
  <2>5. n \in Ids
    BY <1>2, <1>5
  <2>6. s.copy[n] = table'[n] \/ (n \in unsaved' /\ s.copy[n] # Gone /\ table'[n] # Gone)
    <3>1. CASE table' = [table EXCEPT ![n] = work[w].copy[n]]
      BY <3>1, <2>5, <1>2, <1>6
    <3>2. CASE table' = table /\ unsaved' = unsaved \cup {n}
      BY <3>2, <2>3, <1>6
    <3> QED
      BY <3>1, <3>2, <1>8
  <2>7. Carries(s)'
    BY <1>1, <1>6, <2>6 DEF Carries, Unsaved
  <2>8. deleted \subseteq Ids
    BY DEF TreeShape, TypeOK
  <2>9. GoneForGood'
    BY <2>1, <2>4, <2>8, <1>1 DEF Right, GoneForGood, Alive
  <2> QED
    BY <2>2, <2>7, <2>9, <1>7 DEF Right
<1> QED
  BY <1>1, <1>4, <1>6, <1>7, <1>9, <1>10 DEF Keeps, TreeShape

(* DelRow deletes a row: of the comment itself, or of one that its list    *)
(* has named.                                                              *)
LEMMA DelRowKeeps ==
    ASSUME TreeShape, NEW w \in Workers, DelRow(w), Orderly' => Right(work[w])
    PROVE  Keeps(w)
<1>1. /\ work[w].pc = "delRow" /\ UNCHANGED <<parent, last, entry, kids, deleted>>
      /\ UNCHANGED <<raced, outside, unsaved>> /\ work[w].op \in {"delete", "outside"}
  BY KindsKnown DEF DelRow, OfKind, history
<1>2. /\ table \in [Ids -> Value] /\ work[w].id \in Ids
  BY KindsKnown DEF TreeShape, TypeOK, Work
<1>3. PICK s : s = [work[w] EXCEPT !.pc = "delCache"]
  OBVIOUS
<1>4. work' = [work EXCEPT ![w] = s]
  BY <1>3 DEF DelRow, Goto
<1>5. PICK n : n = work[w].id
  OBVIOUS
<1>6. /\ s \in Work /\ s.op = work[w].op /\ s.pc = "delCache" /\ s.id = n
      /\ s.rid = work[w].rid /\ s.todo = work[w].todo /\ s.failed = work[w].failed
  BY <1>3, <1>5, KindsKnown DEF Work
<1>7. OfKind(s) /\ FlushLeft(s)' /\ Carries(s)'
  BY <1>1, <1>6, KindsKnown DEF OfKind, FlushLeft, Carries, Unsaved
<1>8. table' = [table EXCEPT ![n] = Gone]
  BY <1>5 DEF DelRow
<1>9. TypeOK'
  <2>1. work' \in [Workers -> Work]
    BY <1>4, <1>6 DEF TreeShape, TypeOK
  <2>2. table' \in [Ids -> Value]
    BY <1>2, <1>5, <1>8 DEF Value
  <2> QED
    BY <2>1, <2>2, <1>1 DEF TreeShape, TypeOK, history
<1>10. ASSUME Orderly' PROVE Right(s)'
  <2>1. Right(work[w])
    BY <1>10, <1>1 DEF history
  <2>2. \A i \in Ids : Near(i)' \/ HasWritten(s, i)'
    BY <2>1, <1>1, <1>2, <1>5, <1>6, <1>8 DEF Right, HasWritten, Fresh, Near
  <2>3. \A i \in Ids : table'[i] # Gone => table[i] # Gone /\ i # n
    BY <1>2, <1>5, <1>8
  <2>4. deleted \subseteq Ids
    BY DEF TreeShape, TypeOK
  <2>5. GoneForGood'
    BY <2>1, <2>3, <2>4, <1>1 DEF Right, GoneForGood, Alive
  <2>6. ASSUME s.op = "delete" PROVE Deletes(s)'
    <3>1. /\ s.rid \in 1..last /\ s.rid \notin s.todo /\ s.rid \in Ids
          /\ s.id = s.rid \/ table[s.rid] = Gone
          /\ s.id # s.rid => s.failed \/ RepliesOf(s.rid) \subseteq s.todo \cup {s.id}
      BY <2>1, <2>6, <1>1, <1>5, <1>6, KindsKnown DEF Right, Deletes, OfKind
    <3>2. table'[s.rid] = Gone
      BY <3>1, <2>3, <1>6
    <3>3. RepliesOf(s.rid)' \subseteq RepliesOf(s.rid) \ {n}
      BY <2>3, <1>1 DEF RepliesOf, Alive
    <3>4. s.id # s.rid => s.failed \/ RepliesOf(s.rid)' \subseteq s.todo
      BY <3>1, <3>3, <1>6
    <3> QED
      BY <3>1, <3>2, <3>4, <1>1, <1>6 DEF Deletes
  <2>7. Deletes(s)'
    BY <2>6 DEF Deletes
  <2> QED
    BY <2>2, <2>5, <2>7, <1>7 DEF Right
<1> QED
  BY <1>1, <1>4, <1>6, <1>7, <1>9, <1>10 DEF Keeps, TreeShape

-----------------------------------------------------------------------------
(* A time to live that ends leaves fresh what was fresh.                   *)
LEMMA ExpireKeeps ==
    ASSUME TreeInv, NEW i \in Ids, ExpireEntry(i) \/ ExpireList(i)
    PROVE  TreeInv'
<1>1. UNCHANGED <<table, parent, last, work, deleted, raced, outside, unsaved>>
  BY DEF ExpireEntry, ExpireList, history
<1>2. /\ entry \in [Ids -> Value \cup {Miss}] /\ kids = [k \in Ids |-> kids[k]]
      /\ \A k \in Ids : kids[k] = Miss \/ kids[k] \subseteq Ids
  BY DEF TreeInv, TreeShape, TypeOK
<1>3. /\ entry' \in [Ids -> Value \cup {Miss}]
      /\ \A j \in Ids : Fresh(j) => Fresh(j)'
      /\ \A j \in Ids : Near(j) => Near(j)'
  <2>1. entry' = entry \/ entry' = [entry EXCEPT ![i] = Miss]
    BY DEF ExpireEntry, ExpireList
  <2> QED
    BY <1>1, <1>2, <2>1 DEF Fresh, Near
<1>4. /\ kids' = [k \in Ids |-> kids'[k]]
      /\ \A k \in Ids : kids'[k] = Miss \/ kids'[k] = kids[k]
  <2>1. kids' = kids \/ kids' = [kids EXCEPT ![i] = Miss]
    BY DEF ExpireEntry, ExpireList
  <2> QED
    BY <1>2, <2>1
<1>5. TreeShape'
  <2>1. TypeOK'
    BY <1>1, <1>2, <1>3, <1>4 DEF TreeInv, TreeShape, TypeOK, history
  <2> QED
    BY <2>1, <1>1, <1>4 DEF TreeInv, TreeShape
<1>6. OneByOne'
  BY <1>1 DEF TreeInv, OneByOne, history
<1>7. ASSUME ~ raced' PROVE \A w \in Workers : FlushLeft(work[w])'
  BY <1>1, <1>3, <1>7 DEF TreeInv, FlushLeft, Alive, history
<1>8. ASSUME Orderly'
      PROVE  /\ GoneForGood'
             /\ \A j \in Ids : Near(j)' \/ \E w \in Workers : HasWritten(work[w], j)'
             /\ \A w \in Workers : Carries(work[w])' /\ Deletes(work[w])'
  <2>1. Orderly
    BY <1>1, <1>8 DEF Orderly, history
  <2>2. GoneForGood'
    BY <2>1, <1>1 DEF TreeInv, GoneForGood, Alive
  <2>3. \A j \in Ids : Near(j)' \/ \E w \in Workers : HasWritten(work[w], j)'
    BY <2>1, <1>1, <1>3 DEF TreeInv, HasWritten
  <2>4. ASSUME NEW w \in Workers PROVE Carries(work[w])' /\ Deletes(work[w])'
    <3>1. Carries(work[w]) /\ Deletes(work[w])
      BY <2>1 DEF TreeInv
    <3>2. Carries(work[w])'
      BY <3>1, <1>1 DEF Carries, Unsaved
    <3>3. work[w].op = "delete" => work[w].rid \in Ids
      BY KindsKnown DEF TreeInv, OfKind
    <3>4. Deletes(work[w])'
      BY <3>1, <3>3, <1>1, <1>4 DEF Deletes, RepliesOf, Alive
    <3> QED
      BY <3>2, <3>4
  <2> QED
    BY <2>2, <2>3, <2>4
<1> QED
  BY <1>5, <1>6, <1>7, <1>8 DEF TreeInv

(* Rows are changed outside the program while no request runs: what is     *)
(* said of flushes stays, and nothing else is.                             *)
LEMMA OutsideKeeps ==
    ASSUME TreeInv, NEW i \in Ids, NEW v \in Value, OutsideWrite(i, v)
    PROVE  TreeInv'
<1>1. /\ outside' = TRUE /\ UNCHANGED <<parent, last, entry, kids, work, deleted>>
      /\ UNCHANGED <<raced, unsaved>> /\ table' = [table EXCEPT ![i] = v]
      /\ \A w \in Workers : work[w].pc = "idle"
  BY DEF OutsideWrite
<1>2. TreeShape'
  BY <1>1 DEF TreeInv, TreeShape, TypeOK
<1>3. OneByOne'
  BY <1>1 DEF OneByOne
<1>4. \A w \in Workers : work[w].op # "flush"
  BY <1>1 DEF TreeInv, TreeShape, OfKind
<1>5. \A w \in Workers : FlushLeft(work[w])'
  BY <1>1, <1>4 DEF FlushLeft
<1> QED
  BY <1>1, <1>2, <1>3, <1>5 DEF TreeInv, Orderly

(* Nothing is cached and no request runs at first.                         *)
LEMMA TreeInit == Init => TreeInv
<1> SUFFICES ASSUME Init PROVE TreeInv
  OBVIOUS
<1>1. \A w \in Workers : work[w] = Idle
  BY DEF Init
<1>2. Idle.pc = "idle" /\ Idle.op = ""
  BY DEF Idle
<1>3. TreeShape
  <2>1. work \in [Workers -> Work] /\ table \in [Ids -> Value]
    BY IdleFits DEF Init
  <2>2. last \in 0..MaxId /\ parent \in [Ids -> 0..MaxId]
    BY TreeAssumption DEF Init
  <2>3. TypeOK
    BY <2>1, <2>2 DEF Init, TypeOK
  <2>4. \A w \in Workers : OfKind(work[w])
    BY <1>1, IdleFits
  <2> QED
    BY <2>3, <2>4 DEF Init, TreeShape
<1>4. OneByOne
  BY <1>1, <1>2 DEF OneByOne
<1>5. \A w \in Workers : FlushLeft(work[w]) /\ Carries(work[w]) /\ Deletes(work[w])
  BY <1>1, <1>2 DEF FlushLeft, Carries, Unsaved, Deletes
<1>6. GoneForGood /\ \A i \in Ids : Near(i)
  BY DEF Init, GoneForGood, Alive, NoCopy, Fresh, Near
<1> QED
  BY <1>3, <1>4, <1>5, <1>6 DEF TreeInv

(* A step of a request keeps the invariant, whether it runs alone or not.  *)
LEMMA KeepsInv ==
    ASSUME TreeInv, NEW w \in Workers, Keeps(w),
           ~ raced' => \A o \in Workers \ {w} : work[o].pc = "idle"
    PROVE  TreeInv'
<1>1. PICK s \in Work :
          /\ OfKind(s) /\ work' = [work EXCEPT ![w] = s]
          /\ ~ raced' => FlushLeft(s)'
          /\ Orderly' => Right(s)'
  BY DEF Keeps
<1>2. TypeOK' /\ kids' = [i \in Ids |-> kids'[i]]
  BY DEF Keeps
<1> QED
  BY <1>1, <1>2, LeftRight

(* TreeInv is inductive: every step keeps it.                              *)
LEMMA TreeNext == TreeInv /\ [Next]_vars => TreeInv'
<1> SUFFICES ASSUME TreeInv, [Next]_vars PROVE TreeInv'
  OBVIOUS
<1>1. TreeShape
  BY DEF TreeInv
<1>2. ASSUME NEW w \in Workers, NEW op, Idling(w, op)
      PROVE  /\ ~ raced' => \A o \in Workers \ {w} : work[o].pc = "idle"
             /\ Orderly' => Right(work[w])
  <2>1. ~ raced' => ~ raced /\ ~ Busy(w)
    BY <1>2 DEF Idling
  <2>2. ~ raced' => \A o \in Workers \ {w} : work[o].pc = "idle"
    BY <2>1 DEF Busy
  <2>3. Orderly' => ~ raced' /\ ~ raced /\ ~ outside
    BY <1>2, <2>1 DEF Idling, Orderly
  <2> QED
    BY <2>2, <2>3, FoundRight
<1>3. ASSUME NEW w \in Workers, Step(w) PROVE TreeInv'
  <2>1. raced' = raced /\ outside' = outside
    BY <1>3 DEF Step, CreateInsert, UpdateSave, SaveEntry, ListRead, ListWrite, DelRow,
                DelRowFails, DelCache, Expand, NextItem, FlushOne, ReadStore, history
  <2>2. work[w].pc # "idle"
    BY <1>3 DEF Step, CreateInsert, UpdateSave, SaveEntry, ListRead, ListWrite, DelRow,
                DelRowFails, DelCache, Expand, NextItem, FlushOne, ReadStore
  <2>3. ~ raced' => \A o \in Workers \ {w} : work[o].pc = "idle"
    BY <2>1, <2>2 DEF TreeInv, OneByOne
  <2>4. (~ raced' => FlushLeft(work[w])) /\ (Orderly' => Right(work[w]))
    BY <2>1, <2>3, FoundRight DEF Orderly
  <2>5. Keeps(w)
    <3>1. CASE CreateInsert(w)
      BY <3>1, <1>1, <2>4, CreateInsertKeeps
    <3>2. CASE UpdateSave(w)
      BY <3>2, <1>1, <2>4, UpdateSaveKeeps
    <3>3. CASE SaveEntry(w)
      BY <3>3, <1>1, <2>4, SaveEntryKeeps
    <3>4. CASE ListRead(w)
      BY <3>4, <1>1, <2>4, ListReadKeeps
    <3>5. CASE ListWrite(w)
      BY <3>5, <1>1, <2>4, ListWriteKeeps
    <3>6. CASE DelRow(w)
      BY <3>6, <1>1, <2>4, DelRowKeeps
    <3>7. CASE DelRowFails(w)
      BY <3>7, <1>1, <2>4, DelRowFailsKeeps
    <3>8. CASE DelCache(w)
      BY <3>8, <1>1, <2>4, DelCacheKeeps
    <3>9. CASE Expand(w)
      BY <3>9, <1>1, <2>4, ExpandKeeps
    <3>10. CASE NextItem(w)
      BY <3>10, <1>1, <2>4, NextItemKeeps
    <3>11. CASE FlushOne(w)
      BY <3>11, <1>1, <2>4, FlushOneKeeps
    <3>12. CASE ReadStore(w)
      BY <3>12, <1>1, <2>4, ReadStoreKeeps
    <3> QED
      BY <1>3, <3>1, <3>2, <3>3, <3>4, <3>5, <3>6, <3>7, <3>8, <3>9, <3>10, <3>11, <3>12
         DEF Step
  <2> QED
    BY <2>3, <2>5, KeepsInv
<1>4. ASSUME NEW w \in Workers, NEW p \in 0..MaxId, NEW v \in Versions, CreateStart(w, p, v)
      PROVE  TreeInv'
  <2>1. Idling(w, "create")
    BY <1>4 DEF CreateStart
  <2> QED
    BY <1>1, <1>2, <1>4, <2>1, CreateStartKeeps, KeepsInv
<1>5. ASSUME NEW w \in Workers, NEW i \in Ids, NEW v \in Versions, UpdateStart(w, i, v)
      PROVE  TreeInv'
  <2>1. Idling(w, "update")
    BY <1>5 DEF UpdateStart
  <2> QED
    BY <1>1, <1>2, <1>5, <2>1, UpdateStartKeeps, KeepsInv
<1>6. ASSUME NEW w \in Workers, NEW i \in Ids, DeleteStart(w, i) PROVE TreeInv'
  <2>1. Idling(w, "delete")
    BY <1>6 DEF DeleteStart
  <2> QED
    BY <1>1, <1>2, <1>6, <2>1, DeleteStartKeeps, KeepsInv
<1>7. ASSUME NEW w \in Workers, NEW i \in Ids, ReadMiss(w, i) PROVE TreeInv'
  <2>1. Idling(w, "read")
    BY <1>7 DEF ReadMiss
  <2> QED
    BY <1>1, <1>2, <1>7, <2>1, ReadMissKeeps, KeepsInv
<1>8. ASSUME NEW w \in Workers, WarmStart(w) PROVE TreeInv'
  <2>1. Idling(w, "warm")
    BY <1>8 DEF WarmStart
  <2> QED
    BY <1>1, <1>2, <1>8, <2>1, WarmStartKeeps, KeepsInv
<1>9. ASSUME NEW w \in Workers, FlushStart(w) PROVE TreeInv'
  <2>1. Idling(w, "flush")
    BY <1>9 DEF FlushStart
  <2> QED
    BY <1>1, <1>2, <1>9, <2>1, FlushStartKeeps, KeepsInv
<1>10. ASSUME NEW i \in Ids, ExpireEntry(i) \/ ExpireList(i) PROVE TreeInv'
  BY <1>10, ExpireKeeps
<1>11. ASSUME NEW i \in Ids, NEW v \in Value, OutsideWrite(i, v) PROVE TreeInv'
  BY <1>11, OutsideKeeps
<1>12. CASE UNCHANGED vars
  <2>1. UNCHANGED <<table, parent, last, entry, kids, work, deleted, raced, outside, unsaved>>
    BY <1>12 DEF vars
  <2>2. TreeShape' /\ OneByOne'
    BY <2>1 DEF TreeInv, TreeShape, TypeOK, OneByOne
  <2>3. \A w \in Workers : (FlushLeft(work[w])' <=> FlushLeft(work[w]))
    BY <2>1 DEF FlushLeft, Alive, Fresh, Near
  <2>4. GoneForGood' <=> GoneForGood
    BY <2>1 DEF GoneForGood, Alive
  <2>5. \A i \in Ids : (Near(i)' <=> Near(i))
    BY <2>1 DEF Fresh, Near
  <2>6. \A w \in Workers : /\ Carries(work[w])' <=> Carries(work[w])
                           /\ Deletes(work[w])' <=> Deletes(work[w])
    BY <2>1 DEF Carries, Unsaved, Deletes, RepliesOf, Alive
  <2>7. \A w \in Workers, i \in Ids : HasWritten(work[w], i)' <=> HasWritten(work[w], i)
    BY <2>1 DEF HasWritten
  <2>8. Orderly' = Orderly /\ raced' = raced
    BY <2>1 DEF Orderly
  <2> QED
    BY <2>2, <2>3, <2>4, <2>5, <2>6, <2>7, <2>8 DEF TreeInv
<1>13. CASE Next
  BY <1>13, <1>3, <1>4, <1>5, <1>6, <1>7, <1>8, <1>9, <1>10, <1>11 DEF Next
<1> QED
  BY <1>12, <1>13

(* The types, and that comments are not cached with an old value but for a *)
(* copy whose Save failed, nor cached when they are gone, nor do           *)
(* replies survive a deletion that was reported, once requests that follow *)
(* one another have ended (CommentCacheSave, CommentCacheDel, DelComment,  *)
(* DelCommentChildren).                                                    *)
THEOREM CommentsSound == Spec => []TreeSound
<1>1. TreeInv => TreeSound
  <2> SUFFICES ASSUME TreeInv PROVE TreeSound
    OBVIOUS
  <2>1. TypeOK
    BY DEF TreeInv, TreeShape
  <2>2. EntriesFresh
    BY DEF TreeInv, EntriesFresh, Quiet, Orderly, HasWritten
  <2>3. RepliesDeleted
    BY DEF TreeInv, RepliesDeleted, Orderly, GoneForGood
  <2> QED
    BY <2>1, <2>2, <2>3 DEF TreeSound
<1> QED
  BY <1>1, TreeInit, TreeNext, PTL DEF Spec

(* When a flush ends, every comment that is in the table is read afresh or *)
(* cached as it is there, though rows were edited outside the program      *)
(* (CacheFlushAll).                                                        *)
THEOREM FlushesReach == Spec => FlushRefreshes
<1>1. ASSUME TreeInv, [Next]_vars, ~ raced, NEW w \in Workers,
             work[w].op = "flush", work'[w].pc = "idle"
      PROVE  \A i \in Alive : Fresh(i)
  <2>1. work[w].pc \in {"flush", "next"} /\ work \in [Workers -> Work]
    BY <1>1, KindsKnown DEF TreeInv, TreeShape, TypeOK, OfKind
  <2>2. work'[w] # work[w]
    BY <1>1, <2>1
  <2>3. ASSUME NEW o \in Workers, o # w PROVE ~ Step(o)
    BY <2>1, <2>2, <2>3 DEF Step, CreateInsert, UpdateSave, SaveEntry, ListRead, ListWrite,
       DelRow, DelRowFails, DelCache, Expand, NextItem, FlushOne, ReadStore, Goto, Return
  <2>4. ASSUME NEW o \in Workers
        PROVE  /\ \A p \in 0..MaxId, v \in Versions : ~ CreateStart(o, p, v)
               /\ \A i \in Ids, v \in Versions : ~ UpdateStart(o, i, v)
               /\ \A i \in Ids : ~ DeleteStart(o, i) /\ ~ ReadMiss(o, i)
               /\ ~ WarmStart(o) /\ ~ FlushStart(o)
    BY <2>1, <2>2, <2>4 DEF CreateStart, UpdateStart, DeleteStart, ReadMiss, WarmStart,
                             FlushStart, Idling
  <2>5. /\ \A i \in Ids : ~ (ExpireEntry(i) \/ ExpireList(i))
        /\ \A i \in Ids, v \in Value : ~ OutsideWrite(i, v)
    BY <2>2 DEF ExpireEntry, ExpireList, OutsideWrite
  <2>6. Next
    BY <1>1, <2>2 DEF vars
  <2>7. Step(w)
    <3>1. PICK o \in Workers :
              \/ \E p \in 0..MaxId, v \in Versions : CreateStart(o, p, v)
              \/ \E i \in Ids, v \in Versions : UpdateStart(o, i, v)
              \/ \E i \in Ids : DeleteStart(o, i) \/ ReadMiss(o, i)
              \/ WarmStart(o) \/ FlushStart(o)
              \/ Step(o)
      BY <2>5, <2>6, Zenon DEF Next
    <3>2. Step(o)
      BY <2>4, <3>1, Zenon
    <3> QED
      BY <2>3, <3>2
  <2>8. work[w].pc = "next" /\ NextItem(w)
    <3>1. FlushOne(w) \/ NextItem(w)
      BY <2>1, <2>7 DEF Step, CreateInsert, UpdateSave, SaveEntry, ListRead, ListWrite,
         DelRow, DelRowFails, DelCache, Expand, ReadStore
    <3>2. [work[w] EXCEPT !.pc = "next"].pc = "next"
      BY <2>1 DEF Work
    <3>3. ~ FlushOne(w)
      BY <2>1, <3>2, <1>1 DEF FlushOne, Goto
    <3> QED
      BY <3>1, <3>3 DEF NextItem
  <2>9. work[w].todo = {}
    <3>1. Body(work[w].op) = "flush"
      BY <1>1 DEF Body
    <3>2. PICK s : s = [work[w] EXCEPT !.id = First(work[w].todo),
                          !.todo = @ \ {First(@)}, !.list = {}, !.pc = "flush"]
      OBVIOUS
    <3>3. s.pc = "flush"
      BY <2>1, <3>2 DEF Work
    <3>4. work[w].todo # {} => work' = [work EXCEPT ![w] = s]
      BY <2>8, <3>1, <3>2 DEF NextItem
    <3> QED
      BY <1>1, <2>1, <3>3, <3>4
  <2> QED
    BY <1>1, <2>8, <2>9 DEF TreeInv, FlushLeft
<1>2. TreeInv /\ [Next]_vars =>
        [~ raced => \A w \in Workers : work[w].op = "flush" /\ work'[w].pc = "idle"
              => \A i \in Alive : Fresh(i)]_vars
  BY <1>1
<1> QED
  BY <1>2, TreeInit, TreeNext, PTL DEF Spec, FlushRefreshes
=============================================================================
