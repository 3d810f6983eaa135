------------------------------- MODULE Social -------------------------------
(***************************************************************************)
(* Social login: the OAuth exchange of internal/auth/gothic_fiber and the  *)
(* handlers of server/handler/auth_social_login.go around it.              *)
(*                                                                         *)
(* A browser begins a flow: its session keeps, under the provider's name,  *)
(* the address it was sent to, with a state in it.  The provider sends the *)
(* browser back to the callback with that state and a code, which the      *)
(* callback exchanges for a profile.  The profile is an identity of an     *)
(* account, or becomes one.  Meanwhile the configuration may change, and   *)
(* with it the Gitea server that is asked; changes may overlap.            *)
(***************************************************************************)
EXTENDS Integers, Sequences, FiniteSets, SequencesExt

CONSTANTS
    Browsers,
    Tabs,        \* callbacks of one browser that may overlap
    People,      \* profiles: [provider, server, uid, mail, nick]
    Confs,       \* settings: [on, names, gitea]; no address stands for the default one
    Stateless,   \* providers whose address carries no state
    MaxFlows,    \* bound: flows begun
    MaxChanges   \* bound: changes of the settings

ASSUME SocialAssumption ==
    /\ MaxFlows \in Nat /\ MaxChanges \in Nat
    /\ \A x \in People : x.provider # "gitea" => x.server = x.provider
    /\ \A c \in Confs : c.names \subseteq STRING \ {""} /\ c.gitea \in STRING \ {""}

VARIABLES
    conf,        \* app.Conf().Auth
    registry,    \* the providers that goth knows, and the server each asks
    providers,   \* the list of AuthSocialLogin, which all reloads share
    reload,      \* the reload of the providers after every change
    changes,     \* changes of the settings made so far
    torn,        \* history: reloads have overlapped, and none has run alone since
    session,     \* what the session of every browser holds
    flows,       \* flows begun so far
    redirects,   \* the ways back from the providers, with their codes
    spent,       \* the codes that have been exchanged
    call,        \* callbacks in progress
    accounts,    \* table users, in order of creation
    identities   \* table auth_identities, in order of creation

settings == <<conf, registry, providers, reload, changes, torn>>
socialVars == <<settings, session, flows, redirects, spent, call, accounts, identities>>

Calls == Browsers \X Tabs
NoSession == <<>>
Nobody0 == [provider |-> "", server |-> "", uid |-> "", mail |-> <<"", "">>, nick |-> ""]
NoData == [state |-> 0, person |-> Nobody0, by |-> 0]
Ended == [pc |-> "idle", name |-> "", server |-> "", code |-> 0, data |-> NoData,
          mixed |-> FALSE, rid |-> <<"", "">>, user |-> 0, row |-> 0]

(* GetProviders: those enabled, and Gitea if its address is valid.         *)
giteaSiteURL(c) == c.gitea
GetProviders(c) ==
    [n \in c.names \ (IF giteaSiteURL(c) = "invalid" THEN {"gitea"} ELSE {}) |->
        IF n = "gitea" THEN giteaSiteURL(c) ELSE n]

Changes == 1..MaxChanges
NoReload == [pc |-> "none", list |-> <<>>, alone |-> FALSE]
Reloading(h) == reload[h].pc \in {"read", "assign", "clear", "take", "use"}

SocialInit ==
    /\ conf \in Confs /\ registry = GetProviders(conf) /\ providers = registry
    /\ reload = [h \in Changes |-> NoReload] /\ changes = 0 /\ torn = FALSE
    /\ session = [b \in Browsers |-> NoSession]
    /\ flows = 0 /\ redirects = {} /\ spent = {}
    /\ call = [k \in Calls |-> Ended]
    /\ accounts = <<>> /\ identities = <<>>

-----------------------------------------------------------------------------
(* The settings are replaced first; the hook then lists the providers of   *)
(* the settings of now, keeps the list where every hook keeps it, clears   *)
(* what goth knows, and registers the list that is kept then.              *)
UpdateConf(c) ==
    LET h == changes + 1
        alone == \A g \in Changes : ~Reloading(g)
    IN /\ changes < MaxChanges
       /\ conf' = c /\ changes' = h /\ torn' = (torn \/ ~alone)
       /\ reload' = [g \in Changes |->
            IF g = h THEN [NoReload EXCEPT !.pc = "read", !.alone = alone]
            ELSE [reload[g] EXCEPT !.alone = FALSE]]
       /\ call' = [k \in Calls |-> IF call[k].pc = "idle" THEN Ended
                                   ELSE [call[k] EXCEPT !.mixed = TRUE]]
       /\ UNCHANGED <<registry, providers, session, flows, redirects, spent, accounts,
                      identities>>

loadProviders(h, from, to, list) ==
    /\ reload[h].pc = from
    /\ reload' = [reload EXCEPT ![h] = [@ EXCEPT !.pc = to, !.list = list]]
    /\ UNCHANGED <<conf, changes, session, flows, redirects, spent, call, accounts, identities>>

ListProviders(h) ==
    /\ loadProviders(h, "read", "assign", GetProviders(conf))
    /\ UNCHANGED <<registry, providers, torn>>
KeepList(h) ==
    /\ loadProviders(h, "assign", "clear", <<>>)
    /\ providers' = reload[h].list
    /\ UNCHANGED <<registry, torn>>
ClearProviders(h) ==
    /\ loadProviders(h, "clear", "take", <<>>)
    /\ registry' = <<>>
    /\ UNCHANGED <<providers, torn>>
TakeList(h) ==
    /\ loadProviders(h, "take", "use", providers)
    /\ UNCHANGED <<registry, providers, torn>>
registered(list) ==
    [n \in DOMAIN list \cup DOMAIN registry |-> IF n \in DOMAIN list THEN list[n] ELSE registry[n]]
UseProviders(h) ==
    /\ loadProviders(h, "use", "done", <<>>)
    /\ registry' = registered(reload[h].list)
    /\ torn' = (torn /\ ~reload[h].alone)
    /\ UNCHANGED providers

(* GetAuthURL: a flow begins and replaces an earlier one with the same     *)
(* provider.  Its state is the one in the query of the request, if there   *)
(* is one (s # 0: an earlier state, or one that the program never drew),   *)
(* else a fresh nonce.                                                     *)
SetState(name, s) ==
    IF name \in Stateless THEN 0 ELSE IF s # 0 THEN s ELSE flows + 1

StoreInSession(b, name, data) ==
    session' = [session EXCEPT ![b] =
                  [n \in DOMAIN session[b] \cup {name} |->
                      IF n = name THEN data ELSE session[b][n]]]

GetAuthURL(b, name, x, s) ==
    LET state == SetState(name, s) IN
    /\ conf.on /\ flows < MaxFlows
    /\ name \in DOMAIN registry
    /\ x.provider = name /\ x.server = registry[name]
    /\ flows' = flows + 1
    /\ StoreInSession(b, name, [state |-> state, person |-> Nobody0, by |-> b])
    /\ redirects' = redirects \cup {[by |-> b, person |-> x, state |-> state,
                                     code |-> flows + 1, drawn |-> s = 0]}
    /\ UNCHANGED <<settings, spent, call, accounts, identities>>

(* After ten minutes, or with the server, a session is gone.               *)
SessionEnds(b) ==
    /\ session[b] # NoSession
    /\ session' = [session EXCEPT ![b] = NoSession]
    /\ UNCHANGED <<settings, flows, redirects, spent, call, accounts, identities>>

-----------------------------------------------------------------------------
(* The callback: CompleteUserAuth                                          *)

validateState_Skip(data, state) == TRUE
validateState(data, state) == data.state = 0 \/ data.state = state

(* Whoever follows the way back: the browser that was sent there, or       *)
(* another one that was given the address.                                 *)
CompleteUserAuth(k, r) ==
    LET b == k[1]
        name == r.person.provider
    IN /\ call[k].pc = "idle" /\ conf.on
       /\ name \in DOMAIN registry /\ name \in DOMAIN session[b]
       /\ call' = [call EXCEPT ![k] =
                     [Ended EXCEPT !.name = name, !.server = registry[name], !.code = r.code,
                        !.data = session[b][name],
                        !.mixed = torn \/ (\E h \in Changes : Reloading(h)),
                        !.pc = IF validateState(session[b][name], r.state) THEN "fetch"
                               ELSE "failed"]]
       /\ UNCHANGED <<settings, session, flows, redirects, spent, accounts, identities>>

Goes(k, pc) == call' = [call EXCEPT ![k].pc = pc]

(* FetchUser with what the session holds: only an overlapping callback has *)
(* left a token there.                                                     *)
FetchUser(k) ==
    /\ call[k].pc \in {"fetch", "again"}
    /\ \/ /\ call[k].data.person.server = call[k].server
          /\ Goes(k, "fetched")
       \/ Goes(k, IF call[k].pc = "fetch" THEN "authorize" ELSE "failed")
    /\ UNCHANGED <<settings, session, flows, redirects, spent, accounts, identities>>

(* The provider exchanges a code once, if it is its own.                   *)
Authorize(k) ==
    /\ call[k].pc = "authorize"
    /\ \/ /\ \E r \in redirects :
                /\ r.code = call[k].code /\ r.code \notin spent
                /\ r.person.server = call[k].server
                /\ call' = [call EXCEPT ![k].pc = "store",
                              ![k].data = [@ EXCEPT !.person = r.person, !.by = r.by]]
          /\ spent' = spent \cup {call[k].code}
       \/ Goes(k, "failed") /\ UNCHANGED spent
    /\ UNCHANGED <<settings, session, flows, redirects, accounts, identities>>

StoreToken(k) ==
    /\ call[k].pc = "store"
    /\ StoreInSession(k[1], call[k].name, call[k].data)
    /\ Goes(k, "again")
    /\ UNCHANGED <<settings, flows, redirects, spent, accounts, identities>>

(* The deferred Logout destroys the whole session, also after an error.    *)
Logout(k) ==
    /\ call[k].pc \in {"fetched", "failed"}
    /\ session' = [session EXCEPT ![k[1]] = NoSession]
    /\ call' = IF call[k].pc = "failed" THEN [call EXCEPT ![k] = Ended]
               ELSE [call EXCEPT ![k].pc = "social"]
    /\ UNCHANGED <<settings, flows, redirects, spent, accounts, identities>>

-----------------------------------------------------------------------------
(* From the profile to an account                                          *)

(* A user of gitea.com keeps the plain ID, a self-hosted server is part of *)
(* the ID.  The settings are those of now.                                 *)
giteaRemoteUID_Plain(x) == <<"", x.uid>>
giteaRemoteUID(x) == <<IF giteaSiteURL(conf) = "gitea.com" THEN "" ELSE giteaSiteURL(conf), x.uid>>
RemoteUID(x) == IF x.provider = "gitea" THEN giteaRemoteUID(x) ELSE <<"", x.uid>>

(* A missing address is made up of the ID, a missing name of the address.  *)
Email(x) == IF x.provider = "steam" \/ x.mail[2] = "" THEN <<x.uid, x.provider>> ELSE x.mail
Nick(x) == IF x.nick = "" THEN Email(x)[1] ELSE x.nick

FindAuthIdentityByRemoteUID(name, rid) ==
    SelectInSeq(identities, LAMBDA i : i.provider = name /\ i.rid = rid)

GetSocialUser(k) ==
    LET x == call[k].data.person
        found == FindAuthIdentityByRemoteUID(call[k].name, RemoteUID(x))
    IN /\ call[k].pc = "social"
       /\ call' = IF x.provider = "gitea" /\ giteaSiteURL(conf) = "invalid"
                  THEN [call EXCEPT ![k] = Ended]
                  ELSE [call EXCEPT ![k].rid = RemoteUID(x), ![k].row = found,
                          ![k].pc = IF found = 0 THEN "register" ELSE "login"]
       /\ UNCHANGED <<settings, session, flows, redirects, spent, accounts, identities>>

(* RegisterSocialUser: a self-hosted server gets an account of its own,    *)
(* the others join the account with the same name and address.             *)
Account(x) == [mail |-> Email(x), nick |-> Nick(x), by |-> x]
FindUser(x) ==
    SelectInSeq(accounts, LAMBDA a : a.mail = Email(x) /\ a.nick = Nick(x))

RegisterSocialUser(k) ==
    LET x == call[k].data.person
        own == x.provider = "gitea" /\ call[k].rid[1] # ""
    IN /\ call[k].pc = "register"
       /\ IF FindUser(x) # 0 /\ ~own
          THEN /\ call' = [call EXCEPT ![k].pc = "identity", ![k].user = FindUser(x)]
               /\ UNCHANGED accounts
          ELSE /\ accounts' = Append(accounts, Account(x))
               /\ call' = [call EXCEPT ![k].pc = "identity", ![k].user = Len(accounts) + 1]
       /\ UNCHANGED <<settings, session, flows, redirects, spent, identities>>

CreateAuthIdentity(k) ==
    /\ call[k].pc = "identity"
    /\ identities' = Append(identities, [provider |-> call[k].name, rid |-> call[k].rid,
                              user |-> call[k].user, of |-> call[k].data.person,
                              mixed |-> call[k].mixed])
    /\ call' = [call EXCEPT ![k].pc = "login", ![k].row = Len(identities) + 1]
    /\ UNCHANGED <<settings, session, flows, redirects, spent, accounts>>

(* The profile is refused or a statement fails.                            *)
RegisterFails(k) ==
    /\ call[k].pc \in {"register", "identity"}
    /\ call' = [call EXCEPT ![k] = Ended]
    /\ UNCHANGED <<settings, session, flows, redirects, spent, accounts, identities>>

(* The token of the identity's account is handed to the browser.           *)
ResponseCallbackPage(k) ==
    /\ call[k].pc = "login"
    /\ call' = [call EXCEPT ![k] = Ended]
    /\ UNCHANGED <<settings, session, flows, redirects, spent, accounts, identities>>

SocialNext ==
    \/ \E c \in Confs : UpdateConf(c)
    \/ \E h \in Changes : \/ ListProviders(h) \/ KeepList(h) \/ ClearProviders(h)
                          \/ TakeList(h) \/ UseProviders(h)
    \/ \E b \in Browsers :
          \/ \E x \in People, s \in 0..flows \cup {MaxFlows + 1} :
                GetAuthURL(b, x.provider, x, s)
          \/ SessionEnds(b)
    \/ \E k \in Calls :
          \/ \E r \in redirects : CompleteUserAuth(k, r)
          \/ FetchUser(k) \/ Authorize(k) \/ StoreToken(k) \/ Logout(k) \/ GetSocialUser(k)
          \/ RegisterSocialUser(k) \/ CreateAuthIdentity(k) \/ RegisterFails(k)
          \/ ResponseCallbackPage(k)

SocialSpec == SocialInit /\ [][SocialNext]_socialVars

-----------------------------------------------------------------------------
SocialTypeOK ==
    /\ conf \in Confs /\ torn \in BOOLEAN
    /\ changes \in 0..MaxChanges /\ flows \in 0..MaxFlows
    /\ \A h \in Changes :
          reload[h].pc \in {"none", "read", "assign", "clear", "take", "use", "done"}
    /\ \A n \in DOMAIN registry : n \in STRING /\ registry[n] \in STRING
    /\ \A b \in Browsers : \A n \in DOMAIN session[b] : session[b][n].state \in 0..MaxFlows + 1
    /\ \A r \in redirects : r.person \in People /\ r.code \in 1..MaxFlows
    /\ spent \subseteq 1..MaxFlows
    /\ \A k \in Calls : call[k].user \in 0..Len(accounts) /\ call[k].row \in 0..Len(identities)
    /\ \A i \in DOMAIN identities : identities[i].user \in DOMAIN accounts

(* gitea.go: "IDs from different installations must never coincide": one   *)
(* identity is never that of two profiles.  A self-hosted server's user is *)
(* registered with an account made for it.  (Not of callbacks during which *)
(* the settings changed: they ask one server and name another.  Nor after  *)
(* reloads overlapped, which may leave the providers of older settings     *)
(* behind, until one runs alone.)                                          *)
SocialSound ==
    /\ SocialTypeOK
    /\ \A i, j \in DOMAIN identities :
          LET a == identities[i]
              b == identities[j]
          IN ~a.mixed /\ ~b.mixed /\ a.provider = b.provider /\ a.rid = b.rid =>
             a.of.uid = b.of.uid /\ a.of.server = b.of.server
    /\ \A i \in DOMAIN identities :
          LET a == identities[i]
              hosted == a.provider = "gitea" /\ a.of.server # "gitea.com"
          IN a.rid[1] # "" \/ (hosted /\ ~a.mixed) => accounts[a.user].by = a.of

(* The states that requests brought along, which others may know.          *)
Brought == {r.state : r \in {q \in redirects : ~q.drawn}}

(* Whom a callback logs in has approved it himself, in a flow that this    *)
(* browser began (if the provider returns the state, and the program drew  *)
(* it): whatever flows and callbacks of several tabs and browsers overlap, *)
(* and whichever ways back are mixed up, expire, or are followed twice.    *)
LoginOwn ==
    [][\A k \in Calls :
         call[k].pc = "login" /\ call'[k].pc = "idle" =>
           LET i == identities[call[k].row] IN
           /\ ~call[k].mixed /\ ~i.mixed =>
                i.of.uid = call[k].data.person.uid /\ i.of.server = call[k].data.person.server
           /\ call[k].name \notin Stateless /\ call[k].data.state \notin Brought =>
                call[k].data.by = k[1]]_socialVars
=============================================================================
