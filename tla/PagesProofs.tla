----------------------------- MODULE PagesProofs -----------------------------
(***************************************************************************)
(* The row of a page: it is made once, and what is stored in it survives   *)
(* the requests that work on copies of it.  And the pages of all sites:    *)
(* names hold them and the caches together through every change of sites.  *)
(***************************************************************************)
EXTENDS Pages, Sites, FiniteSetTheorems, WellFoundedInduction, TLAPS

-----------------------------------------------------------------------------
(* The inductive invariant.                                                *)

(* The requests whose count is in the table already, or never will be.     *)
Past == {w \in Workers : work[w].pc \in {"uncache", "done"}}

(* A copy of the page is of a row that was made, and counts no more views  *)
(* than requests are past their count.                                     *)
Copy(n, c) == [id : 0..n, title : Title, pv : 0..c]

CopiesKnown ==
    /\ table \in [Ids -> Copy(last, Cardinality(Past))]
    /\ counted \in [Ids -> 0..Cardinality(Past)]
    /\ byKey \in Copy(last, Cardinality(Past)) \cup {Miss}
    /\ byId \in [Ids -> Copy(last, Cardinality(Past)) \cup {Miss}]
    /\ \A w \in Workers : work[w].page \in Copy(last, Cardinality(Past))

(* What a request that has come so far has at hand, and which kinds do.    *)
HavePage == {"cacheNew", "inc", "uncache", "net", "setTitle", "delete", "editDel", "save",
             "cacheSave"}
Role(k, r) ==
    /\ r.pc \in HavePage => r.page.id # 0
    /\ r.pc \in {"editDel", "save", "cacheSave"} => k = "edit"
    /\ r.pc = "delete" => k = "delete"
Roles == \A w \in Workers : Role(kind[w], work[w])

(* Rows that are not made yet are empty and were never deleted.            *)
RowsNew ==
    /\ \A i \in Ids : i > last => table[i].id = 0 /\ counted[i] = 0
    /\ gone \subseteq 1..last

(* Who is in the middle of a query, or of a find-or-create, leads it.      *)
Creating == {"findIn", "joinIn", "storeIn", "shareIn", "foundIn", "insert", "cacheNew"}
Storing == {"store", "storeIn"}
Looking == {"store", "storeIn", "share", "shareIn"}
Leads(w) ==
    /\ work[w].pc \in Creating => create = w
    /\ work[w].pc \in Looking <=> query = w
Leaders == \A w \in Workers : Leads(w)

AllLive == Unmade("delete") => \A i \in Ids : i <= last => table[i].id # 0
RowsKept == RowsNew /\ ViewsKept /\ NeverRevived /\ AllLive

(* Without deletions, expiry and late answers: while the row is not there, *)
(* whoever leads the creation has seen an empty answer that is in the      *)
(* cache, if it is on, so that no query that will be stored can be under   *)
(* way; when it is there, an empty answer is only found in the cache as    *)
(* long as the leader has not replaced it, and no leader waits for one.    *)
Missed(w) == At(w, "insert") \/ (At(w, "foundIn") /\ work[w].page.id = 0)
Single ==
    /\ last <= 1
    /\ \A w \in Workers : Missed(w) => last = 0 /\ (cached => byKey # Miss)
    /\ last = 0 /\ cached /\ query # None => (byKey = Miss <=> work[query].pc \in Storing)
    /\ last # 0 /\ query # None /\ work[query].pc \in Storing => work[query].page.id # 0
    /\ \A w \in Workers : last # 0 /\ query # None /\ work[w].pc \in {"joinIn", "shareIn"} =>
                             work[query].page.id # 0
    /\ \A w \in Workers : At(w, "joinIn") => query # None
    /\ last # 0 /\ byKey # Miss /\ byKey.id = 0 => \E w \in Workers : At(w, "cacheNew")
OneMade == Unmade("delete") /\ ~ expires /\ ~ late => Single

NotCached == ~ cached => byKey = Miss /\ \A w \in Workers : work[w].pc \notin Storing

PagesIInv ==
    /\ PagesTypeOK /\ CopiesKnown /\ Roles
    /\ RowsKept /\ Leaders /\ NotCached /\ OneMade

-----------------------------------------------------------------------------
(* Lemmas about records and about the number of requests that are past.    *)

(* A step that moves request w alone.                                      *)
Goes(w, pc, p) ==
    /\ work' \in [Workers -> [pc : Pc, page : Page]]
    /\ \A x \in Workers : x # w => work'[x] = work[x]
    /\ work'[w].pc = pc /\ work'[w].page = p

(* Setting the step of a request leaves its copy.                          *)
LEMMA MovesGoes ==
    ASSUME work \in [Workers -> [pc : Pc, page : Page]],
           NEW w \in Workers, NEW pc \in Pc, Moves(w, pc)
    PROVE  Goes(w, pc, work[w].page)
<1>1. PICK r : r = [work[w] EXCEPT !.pc = pc]
  OBVIOUS
<1>2. work[w] \in [pc : Pc, page : Page]
  OBVIOUS
<1>3. r \in [pc : Pc, page : Page] /\ r.pc = pc /\ r.page = work[w].page
  BY <1>1, <1>2
<1>4. work' = [work EXCEPT ![w] = r]
  BY <1>1 DEF Moves
<1>5. QED
  BY <1>3, <1>4 DEF Goes

(* Setting both.                                                           *)
LEMMA WithGoes ==
    ASSUME work \in [Workers -> [pc : Pc, page : Page]],
           NEW w \in Workers, NEW pc \in Pc, NEW p \in Page, With(w, pc, p)
    PROVE  Goes(w, pc, p)
BY DEF With, Goes

(* Setting one field of a page leaves the others.                          *)
LEMMA PageFields ==
    ASSUME NEW n, NEW c, NEW p \in Copy(n, c)
    PROVE  /\ \A t \in Title : /\ [p EXCEPT !.title = t] \in Copy(n, c)
                               /\ [p EXCEPT !.title = t].id = p.id
                               /\ [p EXCEPT !.title = t].pv = p.pv
                               /\ [p EXCEPT !.title = t].title = t
           /\ \A v \in 0..(c + 1) : /\ [p EXCEPT !.pv = v] \in Copy(n, c + 1)
                                    /\ [p EXCEPT !.pv = v].id = p.id
                                    /\ [p EXCEPT !.pv = v].pv = v
                                    /\ [p EXCEPT !.pv = v].title = p.title
BY DEF Copy

(* Copies stay known when more rows are made and more requests are past.   *)
LEMMA CopyGrows ==
    ASSUME NEW n \in Nat, NEW m \in Nat, NEW c \in Nat, NEW d \in Nat, n <= m, c <= d
    PROVE  Copy(n, c) \subseteq Copy(m, d)
<1>1. 0..n \subseteq 0..m /\ 0..c \subseteq 0..d
  OBVIOUS
<1>2. QED
  BY <1>1 DEF Copy

(* No more requests are past than there are.                               *)
LEMMA PastBound ==
    IsFiniteSet(Past) /\ Cardinality(Past) \in Nat /\ Cardinality(Past) <= Cardinality(Workers)
<1>1. Past \subseteq Workers /\ IsFiniteSet(Workers)
  BY PagesAssumption DEF PagesAssumption, Past
<1>2. QED
  BY <1>1, FS_Subset, FS_CardinalityType

(* One more request is past.                                               *)
LEMMA PastMore ==
    ASSUME NEW S, NEW T, IsFiniteSet(T), S \subseteq T
    PROVE  /\ Cardinality(S) <= Cardinality(T)
           /\ Cardinality(S) \in Nat /\ Cardinality(T) \in Nat
           /\ S # T => Cardinality(S) + 1 <= Cardinality(T)
<1>1. /\ IsFiniteSet(S) /\ Cardinality(S) \in Nat /\ Cardinality(T) \in Nat
      /\ Cardinality(S) <= Cardinality(T)
      /\ Cardinality(S) = Cardinality(T) => S = T
  BY FS_Subset, FS_CardinalityType
<1>2. QED
  BY <1>1

(* A step that moves one request on keeps who is past.                     *)
LEMMA GoesPast ==
    ASSUME PagesTypeOK, NEW w \in Workers, NEW pc \in Pc, NEW p, Goes(w, pc, p),
           w \in Past => pc = "done"
    PROVE  /\ Past \subseteq Past'
           /\ (w \notin Past /\ pc \in {"uncache", "done"}) => Past # Past'
BY DEF Goes, Past

-----------------------------------------------------------------------------
(* Types, copies and roles.                                                *)

Others ==
    /\ UNCHANGED fixed /\ last' \in 0..MaxId /\ last <= last' /\ gone' \subseteq Ids
    /\ {query', create', lock'} \subseteq Workers \cup {None} /\ late' \in BOOLEAN
    /\ work' \in [Workers -> [pc : Pc, page : Page]]
    /\ \A i \in Ids : table'[i].id \in {0, i}

(* Types follow from what is known of the copies.                          *)
LEMMA KnownTypes ==
    ASSUME PagesTypeOK, Others, CopiesKnown'
    PROVE  PagesTypeOK'
<1>1. last' \in 0..MaxId /\ Cardinality(Past') \in 0..Cardinality(Workers)
      /\ MaxId \in Nat /\ Cardinality(Workers) \in Nat
  <2>1. (IsFiniteSet(Past) /\ Cardinality(Past) \in Nat
           /\ Cardinality(Past) <= Cardinality(Workers))'
    BY PastBound, PTL
  <2>2. Cardinality(Workers) \in Nat
    BY PagesAssumption, FS_CardinalityType DEF PagesAssumption
  <2>3. QED
    BY <2>1, <2>2, PagesAssumption DEF PagesAssumption, Others
<1>2. Copy(last', Cardinality(Past')) \subseteq Page
  <2>1. Page = Copy(MaxId, Cardinality(Workers))
    BY DEF Page, Copy, Counts
  <2>2. QED
    BY <1>1, <2>1, CopyGrows
<1>3. /\ table' \in [Ids -> Page] /\ byKey' \in Page \cup {Miss}
      /\ byId' \in [Ids -> Page \cup {Miss}] /\ counted' \in [Ids -> Counts]
  BY <1>1, <1>2 DEF CopiesKnown, Counts
<1>4. QED
  BY <1>3 DEF PagesTypeOK, Others, fixed

Know == Copy(last, Cardinality(Past))

(* What is known stays known, and more may be.                             *)
LEMMA KnownGrows ==
    ASSUME PagesTypeOK, last' \in 0..MaxId, last <= last', Past \subseteq Past'
    PROVE  /\ Know \subseteq Know' /\ Cardinality(Past) <= Cardinality(Past')
           /\ Cardinality(Past) \in Nat /\ Cardinality(Past') \in Nat
           /\ Past # Past' => Cardinality(Past) + 1 <= Cardinality(Past')
<1>1. IsFiniteSet(Past')
  <2>1. (IsFiniteSet(Past) /\ Cardinality(Past) \in Nat
           /\ Cardinality(Past) <= Cardinality(Workers))'
    BY PastBound, PTL
  <2>2. QED
    BY <2>1
<1>2. /\ Cardinality(Past) <= Cardinality(Past')
      /\ Cardinality(Past) \in Nat /\ Cardinality(Past') \in Nat
      /\ Past # Past' => Cardinality(Past) + 1 <= Cardinality(Past')
  BY <1>1, PastMore
<1>3. last \in Nat /\ last' \in Nat
  BY PagesAssumption DEF PagesAssumption, PagesTypeOK
<1>4. QED
  BY <1>2, <1>3, CopyGrows DEF Know

(* A step that leaves the rows alone and moves one request on, with a copy *)
(* that is known.                                                          *)
LEMMA QuietKnown ==
    ASSUME PagesTypeOK, CopiesKnown, Roles, UNCHANGED store, late' \in BOOLEAN,
           NEW w \in Workers, NEW pc \in Pc, NEW p \in Know, Goes(w, pc, p),
           w \in Past => pc = "done",
           Role(kind[w], [pc |-> pc, page |-> p]),
           byKey' \in Know \cup {Miss}, byId' \in [Ids -> Know \cup {Miss}],
           {query', create', lock'} \subseteq Workers \cup {None}
    PROVE  (PagesTypeOK /\ CopiesKnown /\ Roles)'
<1>1. Others
  BY DEF Others, store, PagesTypeOK, Goes, fixed
<1>2. last' \in 0..MaxId /\ last <= last' /\ Past \subseteq Past'
  BY GoesPast DEF store, PagesTypeOK
<1>3. Know \subseteq Know' /\ Cardinality(Past) <= Cardinality(Past')
      /\ Cardinality(Past) \in Nat /\ Cardinality(Past') \in Nat
  BY <1>2, KnownGrows
<1>4. CopiesKnown'
  <2>1. \A x \in Workers : work'[x].page \in Know'
    BY <1>3 DEF Goes, CopiesKnown, Know
  <2>2. table' \in [Ids -> Know'] /\ counted' \in [Ids -> 0..Cardinality(Past')]
    BY <1>3 DEF CopiesKnown, Know, store
  <2>3. QED
    BY <1>3, <2>1, <2>2 DEF CopiesKnown, Know
<1>5. Roles'
  BY DEF Roles, Role, Goes, store, fixed
<1>6. QED
  BY <1>1, <1>4, <1>5, KnownTypes

(* A set of numbers that is not empty has a least element.                 *)
LEMMA LeastOf ==
    ASSUME NEW S, S \subseteq Nat, S # {}
    PROVE  \E i \in S : \A j \in S : i <= j
<1> DEFINE less == {ss \in Nat \X Nat : ss[1] < ss[2]}
<1>1. \A x, y \in Nat : <<x, y>> \in less <=> x < y
  OBVIOUS
<1>2. IsWellFoundedOn(less, Nat)
  BY NatLessThanWellFounded DEF OpToRel
<1> HIDE DEF less
<1>3. PICK i \in S : \A j \in S : <<j, i>> \notin less
  BY <1>2, WFMin
<1>4. \A j \in S : i <= j
  <2> SUFFICES ASSUME NEW j \in S PROVE i <= j
    OBVIOUS
  <2>1. i \in Nat /\ j \in Nat
    OBVIOUS
  <2>2. ~ (j < i)
    BY <1>1, <1>3, <2>1
  <2> QED
    BY <2>1, <2>2
<1> QED
  BY <1>4

(* The copies that requests work on, and the rows, are known pages.        *)
LEMMA KnownFacts ==
    ASSUME PagesTypeOK, CopiesKnown
    PROVE  /\ Empty \in Know /\ First \in Know
           /\ \A w \in Workers : /\ work[w] \in [pc : Pc, page : Page]
                                 /\ work[w].page \in Know /\ work[w].pc \in Pc
           /\ \A i \in Ids : table[i] \in Know /\ table[i].id \in {0, i}
           /\ byKey # Miss => byKey \in Know
           /\ \A i \in Ids : byId[i] # Miss => byId[i] \in Know
           /\ Know \subseteq Page /\ Miss \notin Know
           /\ work \in [Workers -> [pc : Pc, page : Page]]
           /\ last \in Nat /\ last <= MaxId /\ MaxId \in Nat
<1>1. last \in Nat /\ last <= MaxId /\ MaxId \in Nat
  BY PagesAssumption DEF PagesAssumption, PagesTypeOK
<1>2. Cardinality(Past) \in Nat /\ Cardinality(Past) <= Cardinality(Workers)
  BY PastBound
<1>3. Cardinality(Workers) \in Nat
  BY PagesAssumption, FS_CardinalityType DEF PagesAssumption
<1>4. Know \subseteq Page
  <2>1. Page = Copy(MaxId, Cardinality(Workers))
    BY DEF Page, Copy, Counts
  <2>2. QED
    BY <1>1, <1>2, <1>3, <2>1, CopyGrows DEF Know
<1>5. Miss \notin Know
  BY <1>4, MissAssumption
<1>6. Empty \in Know
  BY <1>1, <1>2 DEF Empty, Know, Copy, Title
<1>7. First \in Know
  <2>1. CASE Alive = {}
    BY <2>1, <1>6 DEF First
  <2>2. CASE Alive # {}
    <3>1. \E i \in Alive : \A j \in Alive : i <= j
      <4>1. Alive \subseteq Nat
        BY DEF Alive, Ids
      <4>2. QED
        BY <4>1, <2>2, LeastOf
    <3>2. (CHOOSE i \in Alive : \A j \in Alive : i <= j) \in Alive
      BY <3>1
    <3>3. QED
      BY <2>2, <3>2 DEF First, Alive, CopiesKnown, Know
  <2>3. QED
    BY <2>1, <2>2
<1>8. QED
  BY <1>1, <1>4, <1>5, <1>6, <1>7 DEF PagesTypeOK, CopiesKnown, Know

(* Types, copies and roles after the steps that move one request and leave *)
(* the rows alone.                                                         *)
LEMMA QuietStepsKnown ==
    ASSUME PagesTypeOK, CopiesKnown, Roles, NEW w \in Workers, late' \in BOOLEAN,
           \/ Begin(w) \/ FindPage(w) \/ AfterFind(w) \/ FindCreatePage(w) \/ Uncache(w)
           \/ (\E i \in Ids : Open(w, i)) \/ EditDel(w) \/ CacheSave(w)
           \/ (\E t \in Title : FetchTitle(w, t))
    PROVE  (PagesTypeOK /\ CopiesKnown /\ Roles)'
<1> USE KnownFacts
<1>0. /\ byKey \in Know \cup {Miss} /\ byId \in [Ids -> Know \cup {Miss}]
      /\ {query, create, lock} \subseteq Workers \cup {None}
  BY DEF PagesTypeOK, CopiesKnown, Know
<1>r. Role(kind[w], work[w])
  BY DEF Roles
<1>1. ASSUME Begin(w) PROVE (PagesTypeOK /\ CopiesKnown /\ Roles)'
  <2>1. Goes(w, "find", work[w].page) /\ w \notin Past
    BY <1>1, MovesGoes DEF Begin, Past, At, Pc
  <2>2. UNCHANGED <<store, cache, query, create>> /\ lock' \in Workers \cup {None}
    BY <1>0, <1>1 DEF Begin
  <2>3. Role(kind[w], [pc |-> "find", page |-> work[w].page])
    BY DEF Role, HavePage
  <2>4. QED
    BY <1>0, <2>1, <2>2, <2>3, QuietKnown DEF cache, Pc
<1>2. ASSUME FindPage(w) PROVE (PagesTypeOK /\ CopiesKnown /\ Roles)'
  <2>1. \E pc \in {"share", "shareIn", "join", "joinIn", "store", "storeIn"}, p \in Know :
           Goes(w, pc, p)
    <3>1. CASE query # None
      <4>1. PICK pc \in {"join", "joinIn"} : Moves(w, pc)
        BY <1>2, <3>1 DEF FindPage, Join
      <4>2. pc \in Pc
        BY DEF Pc
      <4> QED
        BY <4>1, <4>2, MovesGoes
    <3>2. CASE query = None
      <4>1. PICK pc \in {"store", "storeIn", "share", "shareIn"}, p \in Know : With(w, pc, p)
        BY <1>2, <3>2 DEF FindPage, Store, Share
      <4>2. pc \in Pc /\ p \in Page
        BY DEF Pc
      <4> QED
        BY <4>1, <4>2, WithGoes
    <3> QED
      BY <3>1, <3>2
  <2>2. UNCHANGED <<store, cache, create, lock>> /\ query' \in Workers \cup {None}
    BY <1>0, <1>2 DEF FindPage
  <2>3. PICK pc \in {"share", "shareIn", "join", "joinIn", "store", "storeIn"}, p \in Know :
           Goes(w, pc, p)
    BY <2>1
  <2>4. Role(kind[w], [pc |-> pc, page |-> p]) /\ pc \in Pc
    BY <2>3 DEF Role, HavePage, Pc
  <2>5. w \notin Past
    BY <1>2 DEF FindPage, Past
  <2>6. QED
    BY <1>0, <2>2, <2>3, <2>4, <2>5, QuietKnown DEF cache
<1>3. ASSUME AfterFind(w) PROVE (PagesTypeOK /\ CopiesKnown /\ Roles)'
  <2>1. \E pc \in {"inc", "findCreate", "done"} :
           Goes(w, pc, work[w].page) /\ (pc = "inc" => work[w].page.id # 0)
    BY <1>3, MovesGoes DEF AfterFind, End, Pc
  <2>2. UNCHANGED <<store, cache, query, create>> /\ lock' \in Workers \cup {None}
    BY <1>0, <1>3 DEF AfterFind, End
  <2>3. PICK pc \in {"inc", "findCreate", "done"} :
           Goes(w, pc, work[w].page) /\ (pc = "inc" => work[w].page.id # 0)
    BY <2>1
  <2>4. Role(kind[w], [pc |-> pc, page |-> work[w].page]) /\ pc \in Pc
    BY <2>3 DEF Role, HavePage, Pc
  <2>5. w \notin Past
    BY <1>3 DEF AfterFind, At, Past
  <2>6. QED
    BY <1>0, <2>2, <2>3, <2>4, <2>5, QuietKnown DEF cache
<1>4. ASSUME FindCreatePage(w) PROVE (PagesTypeOK /\ CopiesKnown /\ Roles)'
  <2>1. PICK pc \in {"findIn", "joinCreate"} : Goes(w, pc, work[w].page)
    BY <1>4, MovesGoes DEF FindCreatePage, Pc
  <2>2. UNCHANGED <<store, cache, query, lock>> /\ create' \in Workers \cup {None}
    BY <1>0, <1>4 DEF FindCreatePage
  <2>4. Role(kind[w], [pc |-> pc, page |-> work[w].page]) /\ pc \in Pc
    BY <2>1 DEF Role, HavePage, Pc
  <2>5. w \notin Past
    BY <1>4 DEF FindCreatePage, At, Past
  <2>6. QED
    BY <1>0, <2>1, <2>2, <2>4, <2>5, QuietKnown DEF cache
<1>5. ASSUME Uncache(w) PROVE (PagesTypeOK /\ CopiesKnown /\ Roles)'
  <2>1. Goes(w, "done", work[w].page)
    BY <1>5, MovesGoes DEF Uncache, End, Pc
  <2>2. /\ UNCHANGED <<store, query, create>> /\ lock' \in Workers \cup {None}
        /\ byKey' \in Know \cup {Miss} /\ byId' \in [Ids -> Know \cup {Miss}]
    BY <1>0, <1>5 DEF Uncache, End, Dropped
  <2>4. Role(kind[w], [pc |-> "done", page |-> work[w].page]) /\ "done" \in Pc
    BY DEF Role, HavePage, Pc
  <2>6. QED
    BY <1>0, <2>1, <2>2, <2>4, QuietKnown
<1>6. ASSUME NEW i \in Ids, Open(w, i) PROVE (PagesTypeOK /\ CopiesKnown /\ Roles)'
  <2>1. FindPageByID(i) \in Know
    BY DEF FindPageByID
  <2>2. PICK pc \in {"done", "editDel", "delete", "net"}, p \in Know :
           /\ Goes(w, pc, p)
           /\ pc # "done" => p.id # 0
           /\ pc = "editDel" => kind[w] = "edit"
           /\ pc = "delete" => kind[w] = "delete"
    <3>1. CASE FindPageByID(i).id = 0 \/ (kind[w] = "auto" /\ FindPageByID(i).title # Blank)
      BY <1>6, <3>1, MovesGoes DEF Open, Pc
    <3>2. CASE ~ (FindPageByID(i).id = 0 \/ (kind[w] = "auto" /\ FindPageByID(i).title # Blank))
      BY <1>6, <2>1, <3>2, WithGoes DEF Open, Pc
    <3>3. QED
      BY <3>1, <3>2
  <2>3. /\ UNCHANGED <<store, query, create, lock, byKey>>
        /\ byId' \in [Ids -> Know \cup {Miss}]
    BY <1>0, <1>6, <2>1 DEF Open, Filled
  <2>4. Role(kind[w], [pc |-> pc, page |-> p]) /\ pc \in Pc
    BY <2>2 DEF Role, HavePage, Pc
  <2>5. w \notin Past
    BY <1>6 DEF Open, At, Past
  <2>6. QED
    BY <1>0, <2>2, <2>3, <2>4, <2>5, QuietKnown
<1>7. ASSUME EditDel(w) PROVE (PagesTypeOK /\ CopiesKnown /\ Roles)'
  <2>1. Goes(w, "save", work[w].page) /\ w \notin Past
    BY <1>7, MovesGoes DEF EditDel, Pc, At, Past
  <2>2. /\ UNCHANGED <<store, query, create, lock>>
        /\ byKey' \in Know \cup {Miss} /\ byId' \in [Ids -> Know \cup {Miss}]
    BY <1>0, <1>7 DEF EditDel, Dropped
  <2>4. Role(kind[w], [pc |-> "save", page |-> work[w].page]) /\ "save" \in Pc
    BY <1>7, <1>r DEF Role, HavePage, Pc, EditDel, At
  <2>6. QED
    BY <1>0, <2>1, <2>2, <2>4, QuietKnown
<1>8. ASSUME CacheSave(w) PROVE (PagesTypeOK /\ CopiesKnown /\ Roles)'
  <2>1. Goes(w, "done", work[w].page)
    BY <1>8, MovesGoes DEF CacheSave, End, Pc
  <2>2. /\ UNCHANGED <<store, query, create>> /\ lock' \in Workers \cup {None}
        /\ byKey' \in Know \cup {Miss} /\ byId' \in [Ids -> Know \cup {Miss}]
    BY <1>0, <1>8 DEF CacheSave, End, Saved, cache
  <2>4. Role(kind[w], [pc |-> "done", page |-> work[w].page]) /\ "done" \in Pc
    BY DEF Role, HavePage, Pc
  <2>6. QED
    BY <1>0, <2>1, <2>2, <2>4, QuietKnown
<1>9. ASSUME NEW t \in Title, FetchTitle(w, t) PROVE (PagesTypeOK /\ CopiesKnown /\ Roles)'
  <2>1. PICK p : p = [work[w].page EXCEPT !.title = t]
    OBVIOUS
  <2>2. p \in Know /\ p.id = work[w].page.id /\ p \in Page
    BY <2>1, PageFields DEF Know
  <2>3. PICK pc \in {"done", "setTitle"} : Goes(w, pc, p)
            /\ UNCHANGED <<store, cache, query, create, lock>>
    BY <1>9, <2>1, <2>2, WithGoes DEF FetchTitle, Pc
  <2>4. Role(kind[w], [pc |-> pc, page |-> p]) /\ pc \in Pc
    BY <1>9, <1>r, <2>2, <2>3 DEF Role, HavePage, Pc, FetchTitle, At
  <2>5. w \notin Past
    BY <1>9 DEF FetchTitle, At, Past
  <2>6. QED
    BY <1>0, <2>2, <2>3, <2>4, <2>5, QuietKnown DEF cache
<1>10. QED
  BY <1>1, <1>2, <1>3, <1>4, <1>5, <1>6, <1>7, <1>8, <1>9

(* A leader shares its result p with those who wait, J, and releases its   *)
(* group: rows and ids in the cache may be stored, no row changes.         *)
LEMMA SharingKnown ==
    ASSUME PagesTypeOK, CopiesKnown, Roles, UNCHANGED store, late' \in BOOLEAN,
           NEW w \in Workers, NEW p \in Know, NEW J, NEW f,
           \A x \in Workers : f[x] \in Pc /\ Role(kind[x], [pc |-> f[x], page |-> p]),
           J \cap Past = {},
           work' = [x \in Workers |-> IF x \in J THEN [pc |-> f[x], page |-> p] ELSE work[x]],
           byKey' \in Know \cup {Miss}, byId' \in [Ids -> Know \cup {Miss}],
           {query', create', lock'} \subseteq Workers \cup {None}
    PROVE  (PagesTypeOK /\ CopiesKnown /\ Roles)'
<1>0. \A x \in Workers :
         /\ x \in J => work'[x] = [pc |-> f[x], page |-> p]
         /\ x \notin J => work'[x] = work[x]
  OBVIOUS
<1>1. work' \in [Workers -> [pc : Pc, page : Page]]
  BY KnownFacts
<1>2. Others
  BY <1>1 DEF Others, store, PagesTypeOK, fixed
<1>3. Past \subseteq Past'
  BY <1>0 DEF Past
<1>4. Know \subseteq Know' /\ Cardinality(Past) <= Cardinality(Past')
      /\ Cardinality(Past) \in Nat /\ Cardinality(Past') \in Nat
  BY <1>2, <1>3, KnownGrows DEF Others
<1>5. CopiesKnown'
  <2>1. \A x \in Workers : work'[x].page \in Know'
    BY <1>0, <1>4, KnownFacts
  <2>2. table' \in [Ids -> Know'] /\ counted' \in [Ids -> 0..Cardinality(Past')]
    BY <1>4 DEF CopiesKnown, Know, store
  <2>3. QED
    BY <1>4, <2>1, <2>2 DEF CopiesKnown, Know
<1>6. Roles'
  <2> SUFFICES ASSUME NEW x \in Workers PROVE Role(kind[x], work'[x])
    BY DEF Roles, store, fixed
  <2>1. CASE x \in J
    BY <1>0, <2>1
  <2>2. CASE x \notin J
    BY <1>0, <2>2 DEF Roles
  <2>3. QED
    BY <2>1, <2>2
<1>7. QED
  BY <1>2, <1>5, <1>6, KnownTypes

(* StoreFound shares what a query has found.                               *)
LEMMA StoreFoundKnown ==
    ASSUME PagesTypeOK, CopiesKnown, Roles, NEW w \in Workers, StoreFound(w),
           late' \in BOOLEAN
    PROVE  (PagesTypeOK /\ CopiesKnown /\ Roles)'
<1> DEFINE J == {x \in Workers : x = w \/ work[x].pc \in {"join", "joinIn"}}
           f == [x \in Workers |-> Found(work[x].pc)]
<1>1. \A x \in Workers : f[x] \in {"found", "foundIn"}
  BY DEF Found
<1>2. \A x \in Workers : f[x] \in Pc /\ Role(kind[x], [pc |-> f[x], page |-> work[w].page])
  BY <1>1 DEF Pc, Role, HavePage
<1>3. J \cap Past = {}
  BY DEF Past, StoreFound
<1>4. work' = [x \in Workers |-> IF x \in J THEN [pc |-> f[x], page |-> work[w].page] ELSE work[x]]
  BY DEF StoreFound
<1>5. /\ byKey' \in Know \cup {Miss} /\ byId' \in [Ids -> Know \cup {Miss}]
      /\ {query', create', lock'} \subseteq Workers \cup {None} /\ UNCHANGED store
  BY KnownFacts DEF StoreFound, PagesTypeOK, CopiesKnown, Know
<1>6. work[w].page \in Know
  BY KnownFacts
<1> HIDE DEF J, f
<1>7. QED
  BY <1>2, <1>3, <1>4, <1>5, <1>6, SharingKnown

(* The leader of a creation shares its page.                               *)
LEMMA SharedKnown ==
    ASSUME PagesTypeOK, CopiesKnown, Roles, NEW w \in Workers, w \notin Past,
           late' \in BOOLEAN, Shared(w, work[w].page), work[w].page.id # 0,
           UNCHANGED <<store, query, lock>>,
           byKey' \in Know \cup {Miss}, byId' \in [Ids -> Know \cup {Miss}]
    PROVE  (PagesTypeOK /\ CopiesKnown /\ Roles)'
<1> DEFINE J == {x \in Workers : x = w \/ At(x, "joinCreate")}
           f == [x \in Workers |-> IF kind[x] = "view" THEN "inc" ELSE "done"]
<1>2. \A x \in Workers : f[x] \in Pc /\ Role(kind[x], [pc |-> f[x], page |-> work[w].page])
  BY DEF Pc, Role, HavePage
<1>3. J \cap Past = {}
  BY DEF Past, At
<1>4. work' = [x \in Workers |-> IF x \in J THEN [pc |-> f[x], page |-> work[w].page] ELSE work[x]]
  BY DEF Shared
<1>5. {query', create', lock'} \subseteq Workers \cup {None} /\ UNCHANGED store
  BY DEF Shared, PagesTypeOK
<1>6. work[w].page \in Know
  BY KnownFacts
<1> HIDE DEF J, f
<1>7. QED
  BY <1>2, <1>3, <1>4, <1>5, <1>6, SharingKnown

(* The end of a creation, with a row that was found or is new.             *)
LEMMA CreatedKnown ==
    ASSUME PagesTypeOK, CopiesKnown, Roles, NEW w \in Workers, AfterFindIn(w) \/ CacheNew(w),
           late' \in BOOLEAN
    PROVE  (PagesTypeOK /\ CopiesKnown /\ Roles)'
<1>0. /\ byKey \in Know \cup {Miss} /\ byId \in [Ids -> Know \cup {Miss}]
      /\ {query, create, lock} \subseteq Workers \cup {None} /\ work[w].page \in Know
      /\ Role(kind[w], work[w])
  BY KnownFacts DEF PagesTypeOK, CopiesKnown, Know, Roles
<1>1. CASE AfterFindIn(w) /\ work[w].page.id # 0
  BY <1>0, <1>1, SharedKnown DEF AfterFindIn, At, Past, cache
<1>2. CASE AfterFindIn(w) /\ work[w].page.id = 0
  <2>1. Goes(w, "insert", work[w].page) /\ w \notin Past
    BY <1>2, KnownFacts, MovesGoes DEF AfterFindIn, Pc, At, Past
  <2>2. Role(kind[w], [pc |-> "insert", page |-> work[w].page]) /\ "insert" \in Pc
    BY DEF Role, HavePage, Pc
  <2>3. UNCHANGED <<store, cache, query, create, lock>>
    BY <1>2 DEF AfterFindIn
  <2>4. QED
    BY <1>0, <2>1, <2>2, <2>3, QuietKnown DEF cache
<1>3. CASE CacheNew(w)
  <2>1. work[w].page.id # 0 /\ w \notin Past
    BY <1>0, <1>3 DEF CacheNew, At, Role, HavePage, Past
  <2>2. byKey' \in Know \cup {Miss} /\ byId' \in [Ids -> Know \cup {Miss}]
    BY <1>0, <1>3 DEF CacheNew, Saved, cache
  <2>3. QED
    BY <1>3, <2>1, <2>2, SharedKnown DEF CacheNew
<1>4. QED
  BY <1>1, <1>2, <1>3

(* A step that writes a row and moves one request on.                      *)
LEMMA WriteKnown ==
    ASSUME PagesTypeOK, CopiesKnown, Roles, UNCHANGED <<fixed, cache, query, create, lock>>,
           late' \in BOOLEAN, last' \in 0..MaxId, last <= last', gone' \subseteq Ids,
           NEW w \in Workers, NEW pc \in Pc, NEW p \in Know', Goes(w, pc, p), w \notin Past,
           Role(kind[w], [pc |-> pc, page |-> p]),
           NEW i, NEW q \in Know', q.id \in {0, i},
           table' = [table EXCEPT ![i] = q] \/ UNCHANGED table,
           counted' \in [Ids -> 0..Cardinality(Past')]
    PROVE  (PagesTypeOK /\ CopiesKnown /\ Roles)'
<1>1. Others
  BY KnownFacts DEF Others, PagesTypeOK, Goes, fixed
<1>2. Past \subseteq Past'
  BY GoesPast
<1>3. Know \subseteq Know'
  BY <1>2, KnownGrows
<1>4. CopiesKnown'
  <2>1. \A x \in Workers : work'[x].page \in Know'
    BY <1>3, KnownFacts DEF Goes
  <2>2. table' \in [Ids -> Know']
    BY <1>3 DEF CopiesKnown, Know
  <2>3. byKey' \in Know' \cup {Miss} /\ byId' \in [Ids -> Know' \cup {Miss}]
    BY <1>3 DEF CopiesKnown, Know, cache
  <2>4. QED
    BY <2>1, <2>2, <2>3 DEF CopiesKnown, Know
<1>5. Roles'
  BY DEF Roles, Role, Goes, fixed
<1>6. QED
  BY <1>1, <1>4, <1>5, KnownTypes

(* A count grows by one, which the request that is past now accounts for.  *)
LEMMA CountGrows ==
    ASSUME PagesTypeOK, CopiesKnown, NEW i \in Ids, Past \subseteq Past', Past # Past',
           UNCHANGED last, counted' = [counted EXCEPT ![i] = @ + 1]
    PROVE  /\ counted' \in [Ids -> 0..Cardinality(Past')]
           /\ [table[i] EXCEPT !.pv = table[i].pv + 1] \in Know'
           /\ [table[i] EXCEPT !.pv = table[i].pv + 1].id = table[i].id
           /\ [table[i] EXCEPT !.pv = table[i].pv + 1].pv = table[i].pv + 1
           /\ [table[i] EXCEPT !.pv = table[i].pv + 1].title = table[i].title
           /\ table[i].pv \in Nat /\ counted[i] \in Nat
<1>1. /\ Cardinality(Past) + 1 <= Cardinality(Past') /\ Cardinality(Past) \in Nat
      /\ Cardinality(Past') \in Nat
  BY KnownFacts, KnownGrows DEF PagesTypeOK
<1>2. \A j \in Ids : counted[j] \in 0..Cardinality(Past)
  BY DEF CopiesKnown
<1>3. PICK c : c = Cardinality(Past)
  OBVIOUS
<1>4. table[i] \in Copy(last, c) /\ table[i].pv \in 0..c /\ table[i].pv + 1 \in 0..(c + 1)
  <2>1. table[i] \in Copy(last, c)
    BY <1>3 DEF CopiesKnown
  <2>2. table[i].pv \in 0..c
    BY <2>1 DEF Copy
  <2>3. QED
    BY <2>1, <2>2, <1>1, <1>3
<1>5. PICK r : r = [table[i] EXCEPT !.pv = table[i].pv + 1]
  OBVIOUS
<1>6. r \in Copy(last, c + 1) /\ r.id = table[i].id /\ r.pv = table[i].pv + 1
      /\ r.title = table[i].title
  BY <1>4, <1>5, PageFields
<1>7. Copy(last, c + 1) \subseteq Know'
  BY <1>1, <1>3, CopyGrows, KnownFacts DEF Know
<1>8. counted' \in [Ids -> 0..Cardinality(Past')]
  BY <1>1, <1>2 DEF CopiesKnown
<1>9. QED
  BY <1>2, <1>4, <1>5, <1>6, <1>7, <1>8, <1>1, <1>3

(* Types, copies and roles after the steps that write a row.               *)
LEMMA WritesKnown ==
    ASSUME PagesTypeOK, CopiesKnown, Roles, NEW w \in Workers, late' \in BOOLEAN,
           \/ CreatePage(w) \/ IncrementPagePV(w) \/ SetTitle(w) \/ DelPage(w)
           \/ (\E t \in Titles : UpdatePage(w, t))
    PROVE  (PagesTypeOK /\ CopiesKnown /\ Roles)'
<1> USE KnownFacts
<1>0. gone \subseteq Ids /\ counted \in [Ids -> 0..Cardinality(Past)]
      /\ Role(kind[w], work[w]) /\ last \in 0..MaxId
  BY DEF PagesTypeOK, CopiesKnown, Roles
<1>a. ASSUME Past \subseteq Past', UNCHANGED last
      PROVE  Know \subseteq Know' /\ counted \in [Ids -> 0..Cardinality(Past')]
  <2>1. Know \subseteq Know' /\ Cardinality(Past) <= Cardinality(Past')
        /\ Cardinality(Past) \in Nat /\ Cardinality(Past') \in Nat
    BY <1>0, <1>a, KnownGrows
  <2>2. QED
    BY <1>0, <2>1
<1>1. ASSUME CreatePage(w) PROVE (PagesTypeOK /\ CopiesKnown /\ Roles)'
  <2>1. PICK q : q = [id |-> last + 1, title |-> Blank, pv |-> 0]
    OBVIOUS
  <2>2. last' = last + 1 /\ last' \in 0..MaxId /\ last <= last' /\ last + 1 \in Ids
    BY <1>1 DEF CreatePage, Ids
  <2>3. table' = [table EXCEPT ![last + 1] = q] /\ table'[last + 1] = q
    BY <1>1, <2>1, <2>2 DEF CreatePage, PagesTypeOK
  <2>4. Cardinality(Past') \in Nat
    <3>1. (IsFiniteSet(Past) /\ Cardinality(Past) \in Nat
             /\ Cardinality(Past) <= Cardinality(Workers))'
      BY PastBound, PTL
    <3>2. QED
      BY <3>1
  <2>5. q \in Know'
    BY <2>1, <2>2, <2>4 DEF Know, Copy, Title
  <2>6. q \in Page
    <3>1. Cardinality(Workers) \in Nat
      BY PagesAssumption, FS_CardinalityType DEF PagesAssumption
    <3>2. QED
      BY <2>1, <2>2, <3>1 DEF Page, Title, Counts
  <2>7. Goes(w, "cacheNew", q) /\ w \notin Past
    BY <1>1, <2>3, <2>6, WithGoes DEF CreatePage, Pc, At, Past
  <2>8. Past \subseteq Past' /\ Cardinality(Past) <= Cardinality(Past') /\ Cardinality(Past) \in Nat
    BY <2>2, <2>7, GoesPast, KnownGrows DEF Pc
  <2>9. counted' \in [Ids -> 0..Cardinality(Past')] /\ gone' \subseteq Ids
    BY <1>0, <1>1, <2>4, <2>8 DEF CreatePage
  <2>10. Role(kind[w], [pc |-> "cacheNew", page |-> q]) /\ q.id = last + 1 /\ "cacheNew" \in Pc
    BY <2>1 DEF Role, Pc
  <2>11. UNCHANGED <<fixed, cache, query, create, lock>>
    BY <1>1 DEF CreatePage, fixed
  <2>12. QED
    BY <2>2, <2>3, <2>5, <2>7, <2>9, <2>10, <2>11, WriteKnown
<1>2. ASSUME IncrementPagePV(w) PROVE (PagesTypeOK /\ CopiesKnown /\ Roles)'
  <2>1. Goes(w, "uncache", work[w].page) /\ w \notin Past
    BY <1>2, MovesGoes DEF IncrementPagePV, Pc, At, Past
  <2>2. Past \subseteq Past' /\ Past # Past' /\ "uncache" \in Pc
    BY <2>1, GoesPast DEF Pc
  <2>3. UNCHANGED <<fixed, last, gone, cache, query, create, lock>>
    BY <1>2 DEF IncrementPagePV, fixed
  <2>4. Know \subseteq Know' /\ counted \in [Ids -> 0..Cardinality(Past')]
    BY <1>a, <2>2, <2>3
  <2>5. Role(kind[w], [pc |-> "uncache", page |-> work[w].page])
    BY <1>0, <1>2 DEF IncrementPagePV, At, Role, HavePage
  <2>6. CASE work[w].page.id \in Alive
    <3>1. PICK i : i = work[w].page.id
      OBVIOUS
    <3>2. i \in Ids /\ table[i].id \in {0, i}
      BY <2>6, <3>1 DEF Alive
    <3>3. PICK q : q = [table[i] EXCEPT !.pv = table[i].pv + 1]
      OBVIOUS
    <3>4. table' = [table EXCEPT ![i] = q] /\ counted' = [counted EXCEPT ![i] = @ + 1]
      BY <1>2, <2>6, <3>1, <3>3 DEF IncrementPagePV
    <3>5. q \in Know' /\ q.id = table[i].id /\ counted' \in [Ids -> 0..Cardinality(Past')]
      BY <2>2, <2>3, <3>2, <3>3, <3>4, CountGrows
    <3>6. work[w].page \in Know' /\ last' \in 0..MaxId /\ last <= last' /\ gone' \subseteq Ids
      BY <1>0, <2>3, <2>4
    <3>7. UNCHANGED <<fixed, cache, query, create, lock>>
      BY <2>3
    <3>8. QED
      BY <2>1, <2>2, <2>5, <3>2, <3>4, <3>5, <3>6, <3>7, WriteKnown
  <2>7. CASE work[w].page.id \notin Alive
    <3>1. UNCHANGED <<table, counted>>
      BY <1>2, <2>7 DEF IncrementPagePV
    <3>2. UNCHANGED store /\ UNCHANGED cache
      BY <2>3, <3>1 DEF store
    <3>3. QED
      BY <2>1, <2>2, <2>3, <2>5, <3>2, QuietKnown DEF PagesTypeOK, CopiesKnown, Know, cache
  <2>8. QED
    BY <2>6, <2>7
<1>3. ASSUME SetTitle(w) PROVE (PagesTypeOK /\ CopiesKnown /\ Roles)'
  <2>1. Goes(w, "uncache", work[w].page) /\ w \notin Past
    BY <1>3, MovesGoes DEF SetTitle, Pc, At, Past
  <2>2. Past \subseteq Past' /\ "uncache" \in Pc
    BY <2>1, GoesPast DEF Pc
  <2>3. UNCHANGED <<fixed, last, counted, gone, cache, query, create, lock>>
    BY <1>3 DEF SetTitle, fixed
  <2>4. Know \subseteq Know' /\ counted' \in [Ids -> 0..Cardinality(Past')]
    BY <1>a, <2>2, <2>3
  <2>5. Role(kind[w], [pc |-> "uncache", page |-> work[w].page])
    BY <1>0, <1>3 DEF SetTitle, At, Role, HavePage
  <2>6. work[w].page \in Know' /\ last' \in 0..MaxId /\ last <= last' /\ gone' \subseteq Ids
      /\ UNCHANGED <<fixed, cache, query, create, lock>>
    BY <1>0, <2>3, <2>4
  <2>7. PICK i : i = work[w].page.id
    OBVIOUS
  <2>8. \E q \in Know' : /\ q.id \in {0, i}
                         /\ table' = [table EXCEPT ![i] = q] \/ UNCHANGED table
    <3>1. CASE i \in Alive /\ ~ UNCHANGED table
      <4>1. i \in Ids /\ table[i] \in Know /\ table[i].id \in {0, i}
        BY <3>1 DEF Alive
      <4>2. work[w].page.title \in Title
        BY DEF Know, Copy
      <4>3. PICK q : q = [table[i] EXCEPT !.title = work[w].page.title]
        OBVIOUS
      <4>4. q \in Know /\ q.id = table[i].id
        BY <4>1, <4>2, <4>3, PageFields DEF Know
      <4>5. table' = [table EXCEPT ![i] = q]
        BY <1>3, <2>7, <3>1, <4>3 DEF SetTitle
      <4>6. QED
        BY <2>4, <4>1, <4>4, <4>5
    <3>2. CASE i \notin Alive \/ UNCHANGED table
      <4>1. UNCHANGED table
        BY <1>3, <2>7, <3>2 DEF SetTitle
      <4>2. Empty \in Know' /\ Empty.id = 0
        BY <2>4 DEF Empty
      <4>3. QED
        BY <4>1, <4>2
    <3>3. QED
      BY <3>1, <3>2
  <2>9. QED
    BY <2>1, <2>2, <2>4, <2>5, <2>6, <2>8, WriteKnown
<1>4. ASSUME DelPage(w) PROVE (PagesTypeOK /\ CopiesKnown /\ Roles)'
  <2>1. Goes(w, "uncache", work[w].page) /\ w \notin Past
    BY <1>4, MovesGoes DEF DelPage, Pc, At, Past
  <2>2. Past \subseteq Past' /\ "uncache" \in Pc
    BY <2>1, GoesPast DEF Pc
  <2>3. UNCHANGED <<fixed, last, counted, cache, query, create, lock>>
    BY <1>4 DEF DelPage, fixed
  <2>4. Know \subseteq Know' /\ counted' \in [Ids -> 0..Cardinality(Past')]
    BY <1>a, <2>2, <2>3
  <2>5. Role(kind[w], [pc |-> "uncache", page |-> work[w].page]) /\ work[w].page.id # 0
    BY <1>0, <1>4 DEF DelPage, At, Role, HavePage
  <2>6. work[w].page.id \in 1..last
    <3>1. work[w].page \in Know
      OBVIOUS
    <3>2. work[w].page.id \in 0..last
      BY <3>1 DEF Know, Copy
    <3>3. QED
      BY <3>2, <2>5
  <2>7. work[w].page \in Know' /\ last' \in 0..MaxId /\ last <= last' /\ gone' \subseteq Ids
      /\ UNCHANGED <<fixed, cache, query, create, lock>>
    <3>1. work[w].page.id \in Ids
      BY <2>6 DEF Ids
    <3>2. gone' \subseteq Ids
      BY <1>0, <1>4, <3>1 DEF DelPage
    <3>3. QED
      BY <1>0, <2>3, <2>4, <3>2
  <2>8. Empty \in Know' /\ Empty.id \in {0, work[w].page.id}
    BY <2>4 DEF Empty
  <2>9. table' = [table EXCEPT ![work[w].page.id] = Empty]
    BY <1>4 DEF DelPage
  <2>10. QED
    BY <2>1, <2>2, <2>4, <2>5, <2>7, <2>8, <2>9, WriteKnown
<1>5. ASSUME NEW t \in Titles, UpdatePage(w, t) PROVE (PagesTypeOK /\ CopiesKnown /\ Roles)'
  <2>0. PICK p : p = [work[w].page EXCEPT !.title = t]
    OBVIOUS
  <2>1. p \in Know /\ p.id = work[w].page.id /\ p \in Page
    <3>1. t \in Title
      BY DEF Title
    <3>2. QED
      BY <2>0, <3>1, PageFields DEF Know
  <2>2. Goes(w, "cacheSave", p) /\ w \notin Past
    BY <1>5, <2>0, <2>1, WithGoes DEF UpdatePage, Pc, At, Past
  <2>3. Past \subseteq Past' /\ "cacheSave" \in Pc
    BY <2>2, GoesPast DEF Pc
  <2>4. UNCHANGED <<fixed, last, counted, gone, cache, query, create, lock>>
    BY <1>5 DEF UpdatePage, fixed
  <2>5. Know \subseteq Know' /\ counted' \in [Ids -> 0..Cardinality(Past')]
    BY <1>a, <2>3, <2>4
  <2>6. Role(kind[w], [pc |-> "cacheSave", page |-> p])
    BY <1>0, <1>5, <2>1 DEF UpdatePage, At, Role, HavePage
  <2>7. p \in Know' /\ last' \in 0..MaxId /\ last <= last' /\ gone' \subseteq Ids
      /\ UNCHANGED <<fixed, cache, query, create, lock>>
    BY <1>0, <2>1, <2>4, <2>5
  <2>8. table' = [table EXCEPT ![p.id] = p] /\ p.id \in {0, p.id}
    BY <1>5, <2>0 DEF UpdatePage
  <2>9. QED
    BY <2>2, <2>3, <2>5, <2>6, <2>7, <2>8, WriteKnown
<1>6. QED
  BY <1>1, <1>2, <1>3, <1>4, <1>5

-----------------------------------------------------------------------------
(* Leaders, and the cache that is switched off.                            *)

(* A step that moves one request on, seen from the groups.                 *)
LEMMA GoesLeaders ==
    ASSUME Leaders, NEW w \in Workers, NEW pc, NEW p, Goes(w, pc, p),
           pc \in Creating => create' = w,
           pc \in Looking <=> query' = w,
           \A x \in Workers : x # w => /\ create = x => create' = x
                                       /\ query' = x <=> query = x
    PROVE  Leaders'
<1> SUFFICES ASSUME NEW x \in Workers PROVE Leads(x)'
  BY DEF Leaders
<1>1. CASE x = w
  BY <1>1 DEF Goes, Leads
<1>2. CASE x # w
  BY <1>2 DEF Goes, Leads, Leaders
<1>3. QED
  BY <1>1, <1>2

(* The requests keep to their groups.                                      *)
LEMMA StepLeaders ==
    ASSUME PagesTypeOK, CopiesKnown, Roles, Leaders, NEW w \in Workers, Step(w)
    PROVE  Leaders'
<1> USE KnownFacts
<1>0. Leads(w) /\ None \notin Workers /\ work \in [Workers -> [pc : Pc, page : Page]]
      /\ \A x \in Workers : Leads(x)
  BY PagesAssumption DEF Leaders, PagesAssumption
<1>a. ASSUME NEW pc \in Pc, NEW p, Goes(w, pc, p), UNCHANGED <<create, query>>,
             pc \in Creating => work[w].pc \in Creating,
             pc \notin Looking, work[w].pc \notin Looking
      PROVE  Leaders'
  BY <1>0, <1>a, GoesLeaders DEF Leads
<1>1. ASSUME Begin(w) PROVE Leaders'
  <2>1. Goes(w, "find", work[w].page) /\ "find" \notin Creating /\ "find" \in Pc
    BY <1>1, MovesGoes DEF Begin, Pc, Creating
  <2>2. QED
    BY <1>1, <1>a, <2>1 DEF Begin, At, Looking
<1>2. ASSUME FindPage(w) PROVE Leaders'
  <2>1. UNCHANGED <<cached, create, byKey>>
    BY <1>2 DEF FindPage, store, fixed, cache
  <2>2. CASE query # None
    <3>1. PICK pc \in {"join", "joinIn"} :
             Goes(w, pc, work[w].page) /\ (pc = "joinIn" => work[w].pc = "findIn")
      <4>1. PICK pc \in {"join", "joinIn"} : Moves(w, pc) /\ pc = Join(work[w].pc)
        BY <1>2, <2>2 DEF FindPage, Join
      <4>2. pc \in Pc
        BY DEF Pc
      <4> QED
        BY <1>2, <4>1, <4>2, MovesGoes DEF FindPage, Join
    <3>2. query' = query
      BY <1>2, <2>2 DEF FindPage
    <3>3. QED
      BY <1>2, <1>a, <2>1, <3>1, <3>2 DEF FindPage, Creating, Pc, Looking
  <2>3. CASE query = None
    <3>1. PICK pc \in Looking, p \in Know :
             /\ Goes(w, pc, p) /\ query' = w
             /\ pc \in {"storeIn", "shareIn"} => work[w].pc = "findIn"
      <4>1. PICK pc \in Looking, p \in Know :
               /\ With(w, pc, p) /\ query' = w
               /\ pc \in {"storeIn", "shareIn"} => work[w].pc = "findIn"
        BY <1>2, <2>3 DEF FindPage, Store, Share, Looking
      <4>2. pc \in Pc /\ p \in Page
        BY DEF Pc, Looking
      <4> QED
        BY <4>1, <4>2, WithGoes
    <3>2. QED
      BY <1>0, <2>1, <2>3, <3>1, GoesLeaders DEF Creating, Leads, Looking
  <2>4. QED
    BY <2>2, <2>3
<1>3. ASSUME AfterFind(w) PROVE Leaders'
  <2>1. PICK pc \in {"inc", "findCreate", "done"} : Goes(w, pc, work[w].page)
    BY <1>3, MovesGoes DEF AfterFind, End, Pc
  <2>2. QED
    BY <1>3, <1>a, <2>1 DEF AfterFind, At, Creating, Looking, Pc
<1>4. ASSUME FindCreatePage(w) PROVE Leaders'
  <2>1. UNCHANGED <<cached, byKey, query>>
    BY <1>4 DEF FindCreatePage, store, fixed, cache
  <2>2. CASE create = None
    <3>1. Goes(w, "findIn", work[w].page) /\ create' = w
      BY <1>4, <2>2, MovesGoes DEF FindCreatePage, Pc
    <3>2. query # w
      BY <1>0, <1>4 DEF FindCreatePage, At, Leads, Looking
    <3>3. QED
      BY <1>0, <2>1, <2>2, <3>1, <3>2, GoesLeaders DEF Leads, Creating, Looking
  <2>3. CASE create # None
    <3>1. Goes(w, "joinCreate", work[w].page) /\ UNCHANGED create
      BY <1>4, <2>3, MovesGoes DEF FindCreatePage, Pc
    <3>2. QED
      BY <1>4, <1>a, <2>1, <3>1 DEF FindCreatePage, At, Creating, Looking, Pc
  <2>4. QED
    BY <2>2, <2>3
<1>5. ASSUME Uncache(w) PROVE Leaders'
  <2>1. Goes(w, "done", work[w].page)
    BY <1>5, MovesGoes DEF Uncache, End, Pc
  <2>2. QED
    BY <1>5, <1>a, <2>1 DEF Uncache, At, Creating, Looking, Pc
<1>6. ASSUME NEW i \in Ids, Open(w, i) PROVE Leaders'
  <2>1. FindPageByID(i) \in Know
    BY DEF FindPageByID
  <2>2. PICK pc \in {"done", "editDel", "delete", "net"}, p \in Know : Goes(w, pc, p)
    <3>1. CASE FindPageByID(i).id = 0 \/ (kind[w] = "auto" /\ FindPageByID(i).title # Blank)
      BY <1>6, <3>1, MovesGoes DEF Open, Pc
    <3>2. CASE ~ (FindPageByID(i).id = 0 \/ (kind[w] = "auto" /\ FindPageByID(i).title # Blank))
      BY <1>6, <2>1, <3>2, WithGoes DEF Open, Pc
    <3>3. QED
      BY <3>1, <3>2
  <2>3. QED
    BY <1>6, <1>a, <2>2 DEF Open, At, Creating, Looking, Pc
<1>7. ASSUME EditDel(w) PROVE Leaders'
  <2>1. Goes(w, "save", work[w].page)
    BY <1>7, MovesGoes DEF EditDel, Pc
  <2>2. QED
    BY <1>7, <1>a, <2>1 DEF EditDel, At, Creating, Looking, Pc
<1>8. ASSUME CacheSave(w) PROVE Leaders'
  <2>1. Goes(w, "done", work[w].page)
    BY <1>8, MovesGoes DEF CacheSave, End, Pc
  <2>2. QED
    BY <1>8, <1>a, <2>1 DEF CacheSave, At, Creating, Looking, Pc, Saved
<1>9. ASSUME NEW t \in Title, FetchTitle(w, t) PROVE Leaders'
  <2>1. PICK p : p = [work[w].page EXCEPT !.title = t]
    OBVIOUS
  <2>2. p \in Know
    BY <2>1, PageFields DEF Know
  <2>3. PICK pc \in {"done", "setTitle"} : Goes(w, pc, p)
    BY <1>9, <2>1, <2>2, WithGoes DEF FetchTitle, Pc
  <2>4. QED
    BY <1>9, <1>a, <2>3 DEF FetchTitle, At, Creating, Looking, Pc
<1>10. ASSUME StoreFound(w) PROVE Leaders'
  <2>1. query = w /\ query' = None /\ create' = create
    BY <1>0, <1>10 DEF StoreFound, Leads, Looking
  <2>2. ASSUME NEW x \in Workers PROVE Leads(x)'
    <3>1. CASE x = w \/ work[x].pc \in {"join", "joinIn"}
      <4>1. work'[x].pc = Found(work[x].pc)
        BY <1>10, <3>1 DEF StoreFound
      <4>2. work'[x].pc = "foundIn" => work[x].pc \in {"storeIn", "shareIn", "joinIn"}
        BY <1>0, <1>10, <3>1, <4>1 DEF StoreFound, Found
      <4>3. work'[x].pc \in {"found", "foundIn"}
        BY <4>1 DEF Found
      <4>4. QED
        BY <1>0, <2>1, <4>2, <4>3 DEF Leads, Creating, Looking
    <3>2. CASE ~ (x = w \/ work[x].pc \in {"join", "joinIn"})
      <4>1. work'[x] = work[x]
        BY <1>10, <3>2 DEF StoreFound
      <4>2. QED
        BY <1>0, <2>1, <3>2, <4>1 DEF Leads
    <3>3. QED
      BY <3>1, <3>2
  <2>3. QED
    BY <2>1, <2>2 DEF Leaders
<1>11. ASSUME w \notin Past, work[w].pc \in {"foundIn", "cacheNew"}, UNCHANGED query,
              Shared(w, work[w].page)
       PROVE  Leaders'
  <2>1. create = w /\ create' = None /\ query # w
    BY <1>0, <1>11 DEF Shared, Leads, Creating, Looking
  <2>2. ASSUME NEW x \in Workers PROVE Leads(x)'
    <3>1. CASE x = w \/ At(x, "joinCreate")
      <4>1. work'[x].pc \in {"inc", "done"}
        BY <1>11, <3>1 DEF Shared
      <4>2. query # x
        BY <1>0, <2>1, <3>1 DEF Leads, At, Looking
      <4>3. QED
        BY <1>11, <4>1, <4>2 DEF Leads, Creating, Looking
    <3>2. CASE ~ (x = w \/ At(x, "joinCreate"))
      <4>1. work'[x] = work[x]
        BY <1>11, <3>2 DEF Shared
      <4>2. QED
        BY <1>0, <1>11, <2>1, <3>2, <4>1 DEF Leads
    <3>3. QED
      BY <3>1, <3>2
  <2>3. QED
    BY <2>2 DEF Leaders
<1>12. ASSUME AfterFindIn(w) PROVE Leaders'
  <2>2. CASE work[w].page.id # 0
    BY <1>11, <1>12, <2>2 DEF AfterFindIn, At, Past
  <2>3. CASE work[w].page.id = 0
    <3>1. Goes(w, "insert", work[w].page)
      BY <1>12, <2>3, MovesGoes DEF AfterFindIn, Pc
    <3>2. QED
      BY <1>12, <1>a, <2>3, <3>1 DEF AfterFindIn, At, Creating, Looking, Pc
  <2>4. QED
    BY <2>2, <2>3
<1>13. ASSUME CacheNew(w) PROVE Leaders'
  <2>1. QED
    BY <1>11, <1>13 DEF CacheNew, At, Past
<1>14. ASSUME CreatePage(w) PROVE Leaders'
  <2>1. work'[w].pc = "cacheNew" /\ \A x \in Workers : x # w => work'[x] = work[x]
    BY <1>14 DEF CreatePage, With
  <2>2. UNCHANGED <<create, query, cached, byKey>> /\ work[w].pc = "insert"
    BY <1>14 DEF CreatePage, fixed, cache, At
  <2>3. ASSUME NEW x \in Workers PROVE Leads(x)'
    BY <1>0, <2>1, <2>2 DEF Leads, Creating, Looking
  <2>4. QED
    BY <2>2, <2>3 DEF Leaders
<1>15. ASSUME IncrementPagePV(w) PROVE Leaders'
  <2>1. Goes(w, "uncache", work[w].page)
    BY <1>15, MovesGoes DEF IncrementPagePV, Pc
  <2>2. QED
    BY <1>15, <1>a, <2>1 DEF IncrementPagePV, At, Creating, Looking, Pc
<1>16. ASSUME SetTitle(w) PROVE Leaders'
  <2>1. Goes(w, "uncache", work[w].page)
    BY <1>16, MovesGoes DEF SetTitle, Pc
  <2>2. QED
    BY <1>16, <1>a, <2>1 DEF SetTitle, At, Creating, Looking, Pc
<1>17. ASSUME DelPage(w) PROVE Leaders'
  <2>1. Goes(w, "uncache", work[w].page)
    BY <1>17, MovesGoes DEF DelPage, Pc
  <2>2. QED
    BY <1>17, <1>a, <2>1 DEF DelPage, At, Creating, Looking, Pc
<1>18. ASSUME NEW t \in Titles, UpdatePage(w, t) PROVE Leaders'
  <2>1. PICK p : p = [work[w].page EXCEPT !.title = t]
    OBVIOUS
  <2>2. p \in Know
    <3>1. t \in Title
      BY DEF Title
    <3>2. QED
      BY <2>1, <3>1, PageFields DEF Know
  <2>3. Goes(w, "cacheSave", p)
    BY <1>18, <2>1, <2>2, WithGoes DEF UpdatePage, Pc
  <2>4. QED
    BY <1>18, <1>a, <2>3 DEF UpdatePage, At, Creating, Looking, Pc
<1>19. QED
  BY <1>1, <1>2, <1>3, <1>4, <1>5, <1>6, <1>7, <1>8, <1>9, <1>10, <1>12, <1>13, <1>14, <1>15,
     <1>16, <1>17, <1>18 DEF Step

-----------------------------------------------------------------------------
(* The rows.                                                               *)

(* Steps that write a row: the others leave all rows alone.                *)
Writes(w) ==
    \/ CreatePage(w) \/ IncrementPagePV(w) \/ SetTitle(w) \/ DelPage(w)
    \/ (\E t \in Titles : UpdatePage(w, t))

(* A step of a request that writes no row leaves what is stored alone.     *)
LEMMA OthersWriteNot ==
    ASSUME NEW w \in Workers, Step(w)
    PROVE  Writes(w) \/ UNCHANGED store
BY DEF Step, Writes, Begin, FindPage, StoreFound, AfterFind, FindCreatePage, AfterFindIn,
       CacheNew, Uncache, Open, EditDel, CacheSave, FetchTitle, Shared, store

(* What the requests do to the rows, with the row and its old value named. *)
LEMMA WritesRows ==
    ASSUME PagesTypeOK, CopiesKnown, Roles, RowsKept, NEW w \in Workers, Writes(w)
    PROVE  RowsKept' /\ TitleKept
<1> USE KnownFacts
<1>0. /\ Role(kind[w], work[w]) /\ gone \subseteq 1..last
      /\ table \in [Ids -> Page] /\ counted \in [Ids -> Counts]
      /\ \A i \in Ids : i > last => table[i].id = 0 /\ counted[i] = 0
      /\ UNCHANGED kind /\ \A i \in Ids : i \in Nat
  <2>1. UNCHANGED kind
    BY DEF Writes, CreatePage, IncrementPagePV, SetTitle, DelPage, UpdatePage, fixed
  <2>2. \A i \in Ids : i \in Nat
    BY DEF Ids
  <2>3. QED
    BY <2>1, <2>2 DEF Roles, PagesTypeOK, RowsKept, RowsNew
<1>k. \A k : Unmade(k)' <=> Unmade(k)
  BY <1>0 DEF Unmade
<1>w. work[w].page.id \in 0..last
  <2>1. work[w].page \in Know
    OBVIOUS
  <2>2. QED
    BY <2>1 DEF Know, Copy
<1>1. ASSUME CreatePage(w)
      PROVE  RowsKept' /\ TitleKept
  <2>1. /\ last' = last + 1 /\ last + 1 \in Ids /\ UNCHANGED <<counted, gone>>
        /\ \A i \in Ids : i # last + 1 => table'[i] = table[i]
        /\ table'[last + 1].id = last + 1 /\ table'[last + 1].pv = 0
    <3>1. PICK q : q = [id |-> last + 1, title |-> Blank, pv |-> 0]
      OBVIOUS
    <3>2. q.id = last + 1 /\ q.pv = 0
      BY <3>1
    <3>3. table' = [table EXCEPT ![last + 1] = q] /\ last + 1 \in Ids /\ last' = last + 1
          /\ UNCHANGED <<counted, gone>>
      BY <1>1, <3>1 DEF CreatePage, Ids
    <3>4. QED
      BY <1>0, <3>2, <3>3
  <2>2. RowsNew'
    BY <1>0, <2>1 DEF RowsNew
  <2>3. Alive' = Alive \cup {last + 1} /\ last + 1 \notin Alive
    BY <1>0, <2>1 DEF Alive
  <2>4. ViewsKept'
    BY <1>0, <1>k, <2>1, <2>3 DEF RowsKept, ViewsKept, Alive
  <2>5. NeverRevived'
    BY <1>0, <1>k, <2>1, <2>3 DEF RowsKept, NeverRevived
  <2>6. AllLive'
    BY <1>0, <1>k, <2>1 DEF RowsKept, AllLive
  <2>7. TitleKept
    BY <2>1, <2>3 DEF TitleKept, Alive
  <2>8. QED
    BY <2>1, <2>2, <2>4, <2>5, <2>6, <2>7 DEF RowsKept
<1>2. ASSUME IncrementPagePV(w)
      PROVE  RowsKept' /\ TitleKept
  <2>1. PICK i : i = work[w].page.id
    OBVIOUS
  <2>2. UNCHANGED <<last, gone>>
    BY <1>2 DEF IncrementPagePV
  <2>3. CASE i \notin Alive
    <3>1. UNCHANGED <<table, counted>>
      BY <1>2, <2>1, <2>3 DEF IncrementPagePV
    <3>2. QED
      BY <1>0, <1>k, <2>2, <3>1 DEF RowsKept, RowsNew, ViewsKept, NeverRevived, AllLive,
                                    TitleKept, Alive
  <2>4. CASE i \in Alive
    <3>1. i \in Ids /\ table[i].id # 0
      BY <2>4 DEF Alive
    <3>2. PICK q : q = [table[i] EXCEPT !.pv = table[i].pv + 1]
      OBVIOUS
    <3>3. q.id = table[i].id /\ q.pv = table[i].pv + 1 /\ q.title = table[i].title
      BY <1>0, <3>1, <3>2 DEF Page
    <3>4. table' = [table EXCEPT ![i] = q] /\ counted' = [counted EXCEPT ![i] = @ + 1]
      BY <1>2, <2>1, <2>4, <3>2 DEF IncrementPagePV
    <3>5. /\ table'[i] = q /\ counted'[i] = counted[i] + 1
          /\ \A j \in Ids : j # i => table'[j] = table[j] /\ counted'[j] = counted[j]
      BY <1>0, <3>1, <3>4
    <3>6. \A j \in Ids : table'[j].id = table[j].id /\ table'[j].title = table[j].title
      BY <3>3, <3>5
    <3>7. Alive' = Alive
      BY <3>6 DEF Alive
    <3>8. RowsNew'
      BY <1>0, <1>w, <2>1, <2>2, <3>1, <3>5, <3>6 DEF RowsNew
    <3>9. ViewsKept'
      BY <1>k, <3>1, <3>3, <3>5, <3>7 DEF RowsKept, ViewsKept, Alive
    <3>10. NeverRevived' /\ AllLive' /\ TitleKept
      BY <1>k, <2>2, <3>6, <3>7 DEF RowsKept, NeverRevived, AllLive, TitleKept, Alive
    <3>11. QED
      BY <3>6, <3>8, <3>9, <3>10 DEF RowsKept
  <2>5. QED
    BY <2>3, <2>4
<1>3. ASSUME SetTitle(w)
      PROVE  RowsKept' /\ TitleKept
  <2>1. PICK i : i = work[w].page.id
    OBVIOUS
  <2>2. UNCHANGED <<last, gone, counted>> /\ At(w, "setTitle") /\ work'[w].pc = "uncache"
    BY <1>3 DEF SetTitle, Moves
  <2>3. CASE ~ (i \in Alive /\ (kind[w] = "auto" => table[i].title = Blank))
    <3>1. UNCHANGED table
      BY <1>3, <2>1, <2>3 DEF SetTitle
    <3>2. QED
      BY <1>0, <1>k, <2>2, <3>1 DEF RowsKept, RowsNew, ViewsKept, NeverRevived, AllLive,
                                    TitleKept, Alive
  <2>4. CASE i \in Alive /\ (kind[w] = "auto" => table[i].title = Blank)
    <3>1. i \in Ids /\ table[i].id # 0
      BY <2>4 DEF Alive
    <3>2. PICK q : q = [table[i] EXCEPT !.title = work[w].page.title]
      OBVIOUS
    <3>3. q.id = table[i].id /\ q.pv = table[i].pv
      BY <1>0, <3>1, <3>2 DEF Page
    <3>4. table' = [table EXCEPT ![i] = q]
      BY <1>3, <2>1, <2>4, <3>2 DEF SetTitle
    <3>5. table'[i] = q /\ \A j \in Ids : j # i => table'[j] = table[j]
      BY <1>0, <3>1, <3>4
    <3>6. \A j \in Ids : table'[j].id = table[j].id /\ table'[j].pv = table[j].pv
      BY <3>3, <3>5
    <3>7. Alive' = Alive
      BY <3>6 DEF Alive
    <3>8. RowsNew' /\ ViewsKept' /\ NeverRevived' /\ AllLive'
      BY <1>0, <1>k, <2>2, <3>6, <3>7 DEF RowsKept, RowsNew, ViewsKept, NeverRevived, AllLive,
                                          Alive
    <3>9. TitleKept
      <4>1. work[w] # work'[w]
        BY <2>2 DEF At
      <4>2. QED
        BY <2>4, <3>5, <4>1 DEF TitleKept, Alive
    <3>10. QED
      BY <3>6, <3>8, <3>9 DEF RowsKept
  <2>5. QED
    BY <2>3, <2>4
<1>4. ASSUME DelPage(w)
      PROVE  RowsKept' /\ TitleKept
  <2>1. PICK i : i = work[w].page.id
    OBVIOUS
  <2>2. /\ UNCHANGED <<last, counted>> /\ gone' = gone \cup {i}
        /\ table' = [table EXCEPT ![i] = Empty]
        /\ work'[w].pc = "uncache" /\ At(w, "delete")
    BY <1>4, <2>1 DEF DelPage, Moves
  <2>3. kind[w] = "delete" /\ i # 0
    BY <1>0, <2>1, <2>2 DEF Role, At, HavePage
  <2>4. i \in 1..last /\ i \in Ids
    BY <1>w, <2>1, <2>3 DEF Ids
  <2>5. /\ table'[i] = Empty /\ Empty.id = 0
        /\ \A j \in Ids : j # i => table'[j] = table[j]
    BY <1>0, <2>2, <2>4 DEF Empty
  <2>6. Alive' = Alive \ {i}
    BY <2>5 DEF Alive
  <2>7. RowsNew'
    BY <1>0, <2>2, <2>4, <2>5 DEF RowsNew
  <2>8. ViewsKept' /\ NeverRevived'
    BY <1>k, <2>2, <2>5, <2>6 DEF RowsKept, ViewsKept, NeverRevived, Alive
  <2>9. ~ Unmade("delete")
    BY <2>3 DEF Unmade
  <2>10. TitleKept
    <3>1. work[w] # work'[w] /\ kind[w] # "auto"
      BY <2>2, <2>3 DEF At
    <3>2. QED
      BY <3>1 DEF TitleKept
  <2>11. QED
    BY <1>k, <2>7, <2>8, <2>9, <2>10 DEF RowsKept, AllLive
<1>5. ASSUME NEW t \in Titles, UpdatePage(w, t)
      PROVE  RowsKept' /\ TitleKept
  <2>1. PICK p : p = [work[w].page EXCEPT !.title = t]
    OBVIOUS
  <2>2. p.id = work[w].page.id
    <3>1. t \in Title /\ work[w].page \in Know
      BY DEF Title
    <3>2. QED
      BY <2>1, <3>1, PageFields DEF Know
  <2>3. /\ table' = [table EXCEPT ![p.id] = p] /\ UNCHANGED <<last, counted, gone>>
        /\ work'[w].pc = "cacheSave" /\ At(w, "save")
    BY <1>5, <2>1 DEF UpdatePage, With
  <2>4. kind[w] = "edit" /\ p.id # 0 /\ p.id \in 1..last /\ p.id \in Ids
    BY <1>0, <1>w, <2>2, <2>3 DEF Role, At, HavePage, Ids
  <2>5. /\ table'[p.id] = p
        /\ \A j \in Ids : j # p.id => table'[j] = table[j]
    BY <1>0, <2>3, <2>4
  <2>6. RowsNew'
    BY <1>0, <2>3, <2>4, <2>5 DEF RowsNew
  <2>7. ~ Unmade("edit")
    BY <2>4 DEF Unmade
  <2>8. AllLive'
    BY <1>k, <2>3, <2>4, <2>5 DEF RowsKept, AllLive
  <2>9. TitleKept
    <3>1. work[w] # work'[w] /\ kind[w] # "auto"
      BY <2>3, <2>4 DEF At
    <3>2. QED
      BY <3>1 DEF TitleKept
  <2>10. \A j \in Ids : table[j].id # 0 => table'[j].id # 0
    BY <2>4, <2>5
  <2>11. QED
    BY <1>k, <2>6, <2>7, <2>8, <2>9, <2>10 DEF RowsKept, ViewsKept, NeverRevived
<1>6. QED
  BY <1>1, <1>2, <1>3, <1>4, <1>5 DEF Writes

-----------------------------------------------------------------------------
(* One row.                                                                *)

(* History is not undone.                                                  *)
LEMMA LateStays ==
    ASSUME PagesTypeOK, NEW w \in Workers, Step(w)
    PROVE  late' \in BOOLEAN /\ (late => late')
BY DEF PagesTypeOK, Step, Begin, FindPage, StoreFound, AfterFind, FindCreatePage, AfterFindIn,
       CacheNew, Uncache, Open, EditDel, CacheSave, FetchTitle, CreatePage, IncrementPagePV,
       SetTitle, DelPage, UpdatePage

(* Without a cache nothing is kept, and no lookup is going to keep it.     *)
LEMMA StaysUncached ==
    ASSUME PagesTypeOK, NotCached, NEW w \in Workers, Step(w)
    PROVE  NotCached'
<1>1. UNCHANGED cached
  BY DEF Step, Begin, FindPage, StoreFound, AfterFind, FindCreatePage, AfterFindIn,
         CacheNew, Uncache, Open, EditDel, CacheSave, FetchTitle, CreatePage, IncrementPagePV,
         SetTitle, DelPage, UpdatePage, store, fixed
<1> SUFFICES ASSUME ~ cached
             PROVE  byKey' = Miss /\ \A x \in Workers : work'[x].pc \notin Storing
  BY <1>1 DEF NotCached
<1>2. byKey = Miss /\ \A x \in Workers : work[x].pc \notin Storing
  BY DEF NotCached
<1>3. byKey' = Miss
  BY <1>2 DEF Step, Begin, FindPage, StoreFound, AfterFind, FindCreatePage, AfterFindIn,
         CacheNew, Uncache, Open, EditDel, CacheSave, FetchTitle, CreatePage, IncrementPagePV,
         SetTitle, DelPage, UpdatePage, cache, Saved, Dropped, Storing
<1>4. /\ work \in [Workers -> [pc : Pc, page : Page]]
      /\ \A pc, p, x : x \in Workers /\ pc \notin Storing /\ (Moves(w, pc) \/ With(w, pc, p)) =>
                          work'[x].pc \notin Storing
  BY <1>2 DEF PagesTypeOK, Moves, With
<1>5. ASSUME FindPage(w), NEW x \in Workers PROVE work'[x].pc \notin Storing
  <2>1. \E pc, p : pc \notin Storing /\ (Moves(w, pc) \/ With(w, pc, p))
    BY <1>5 DEF FindPage, Join, Share, Storing
  <2>2. QED
    BY <1>4, <2>1
<1>6. ASSUME StoreFound(w), NEW x \in Workers PROVE work'[x].pc \notin Storing
  BY <1>2, <1>6 DEF StoreFound, Found, Storing
<1>7. ASSUME AfterFindIn(w) \/ CacheNew(w), NEW x \in Workers PROVE work'[x].pc \notin Storing
  <2>1. CASE \E p : Shared(w, p)
    BY <1>2, <2>1 DEF Shared, Storing
  <2>2. CASE Moves(w, "insert")
    <3>1. \E pc, p : pc \notin Storing /\ (Moves(w, pc) \/ With(w, pc, p))
      BY <2>2 DEF Storing
    <3>2. QED
      BY <1>4, <3>1
  <2>3. QED
    BY <1>7, <2>1, <2>2 DEF AfterFindIn, CacheNew
<1>8. ASSUME Begin(w) \/ AfterFind(w) \/ FindCreatePage(w) \/ Uncache(w) \/ EditDel(w)
             \/ CacheSave(w) \/ Writes(w), NEW x \in Workers
      PROVE  work'[x].pc \notin Storing
  <2>1. \E pc, p : pc \notin Storing /\ (Moves(w, pc) \/ With(w, pc, p))
    BY <1>8 DEF Begin, AfterFind, FindCreatePage, Uncache, EditDel, CacheSave, Writes, End,
                CreatePage, IncrementPagePV, SetTitle, DelPage, UpdatePage, Storing
  <2>2. QED
    BY <1>4, <2>1
<1>9. ASSUME \/ \E i \in Ids : Open(w, i)
             \/ \E t \in Title : FetchTitle(w, t),
             NEW x \in Workers
      PROVE  work'[x].pc \notin Storing
  <2>1. \E pc, p : pc \notin Storing /\ (Moves(w, pc) \/ With(w, pc, p))
    <3>1. ASSUME NEW i \in Ids, Open(w, i)
          PROVE  \E pc, p : pc \notin Storing /\ (Moves(w, pc) \/ With(w, pc, p))
      <4>1. \E p : \E pc \in {"done", "editDel", "delete", "net"} : Moves(w, pc) \/ With(w, pc, p)
        BY <3>1, Zenon DEF Open
      <4>2. QED
        BY <4>1 DEF Storing
    <3>2. ASSUME NEW t \in Title, FetchTitle(w, t)
          PROVE  \E pc, p : pc \notin Storing /\ (Moves(w, pc) \/ With(w, pc, p))
      <4>1. \E p : \E pc \in {"done", "setTitle"} : With(w, pc, p)
        BY <3>2 DEF FetchTitle
      <4>2. QED
        BY <4>1 DEF Storing
    <3>3. QED
      BY <1>9, <3>1, <3>2
  <2>2. QED
    BY <1>4, <2>1
<1>10. QED
  BY <1>3, <1>5, <1>6, <1>7, <1>8, <1>9 DEF Step, Writes

(* A step that moves one request on and leaves row, cache and query alone. *)
LEMMA PlainSingle ==
    ASSUME PagesTypeOK, Leaders, Single, NEW w \in Workers, NEW pc, NEW p, Goes(w, pc, p),
           UNCHANGED <<last, byKey, query, cached>>,
           work[w].pc \notin Looking, work[w].pc # "cacheNew",
           pc \notin {"foundIn", "shareIn"}, pc \notin Storing, pc = "insert" => Missed(w),
           pc = "joinIn" => query # None /\ (last # 0 => work[query].page.id # 0)
    PROVE  Single'
<1>1. ASSUME NEW x \in Workers, Missed(x)' PROVE last' = 0 /\ (cached' => byKey' # Miss)
  <2>1. CASE x = w
    BY <1>1, <2>1 DEF Single, Missed, At, Goes
  <2>2. CASE x # w
    <3>1. Missed(x)
      BY <1>1, <2>2 DEF Missed, At, Goes
    <3>2. QED
      BY <3>1 DEF Single
  <2>3. QED
    BY <2>1, <2>2
<1>2. query # w
  BY DEF Leaders, Leads
<1>3. query # None => work'[query] = work[query]
  BY <1>2 DEF Goes, PagesTypeOK
<1>4. \A x \in Workers : At(x, "cacheNew") => At(x, "cacheNew")'
  BY DEF At, Goes
<1>5. ASSUME NEW x \in Workers, last # 0, query # None, work'[x].pc \in {"joinIn", "shareIn"}
      PROVE  work[query].page.id # 0
  <2>1. CASE x = w
    BY <1>5, <2>1 DEF Goes
  <2>2. CASE x # w
    BY <1>5, <2>2 DEF Goes, Single
  <2>3. QED
    BY <2>1, <2>2
<1>6. ASSUME NEW x \in Workers, At(x, "joinIn")' PROVE query # None
  BY <1>6 DEF Goes, Single, At
<1>7. QED
  BY <1>1, <1>3, <1>4, <1>5, <1>6 DEF Single

(* When the row is there, dropping the cached page or saving one does not  *)
(* matter.                                                                 *)
LEMMA DropSingle ==
    ASSUME PagesTypeOK, Leaders, Single, NEW w \in Workers, NEW pc, NEW p, Goes(w, pc, p),
           UNCHANGED <<last, query, cached>>, last # 0,
           work[w].pc \notin Looking, pc \notin {"foundIn", "insert", "joinIn", "shareIn"},
           byKey' # Miss => byKey'.id # 0
    PROVE  Single'
<1>1. ASSUME NEW x \in Workers, Missed(x)' PROVE FALSE
  <2>1. CASE x = w
    BY <1>1, <2>1 DEF Missed, At, Goes
  <2>2. CASE x # w
    <3>1. Missed(x)
      BY <1>1, <2>2 DEF Missed, At, Goes
    <3>2. QED
      BY <3>1 DEF Single
  <2>3. QED
    BY <2>1, <2>2
<1>2. query # w
  BY DEF Leaders, Leads
<1>3. query # None => work'[query] = work[query]
  BY <1>2 DEF Goes, PagesTypeOK
<1>4. \A x \in Workers : work'[x].pc \in {"joinIn", "shareIn"} => work'[x].pc = work[x].pc
  BY DEF Goes
<1>5. QED
  BY <1>1, <1>3, <1>4 DEF Single, At

(* The requests keep to one row.                                           *)
LEMMA StepSingle ==
    ASSUME PagesTypeOK, CopiesKnown, Roles, RowsKept, Leaders, NotCached, Single,
           Unmade("delete"), ~ late', NEW w \in Workers, Step(w)
    PROVE  Single'
<1> USE KnownFacts
<1>0. /\ \A x \in Workers : Leads(x) /\ Role(kind[x], work[x])
      /\ None \notin Workers
  BY PagesAssumption DEF Leaders, Roles, PagesAssumption
<1>i. work[w].page.id \in 0..last
  <2>1. work[w].page \in Know
    OBVIOUS
  <2>2. QED
    BY <2>1 DEF Know, Copy
<1>h. work[w].pc \in HavePage => last # 0
  BY <1>0, <1>i DEF Role
<1>f. last # 0 => First.id # 0 /\ Alive # {}
  <2>1. ASSUME last # 0 PROVE First.id # 0 /\ Alive # {}
    <3>1. 1 \in Ids /\ 1 <= last
      BY <2>1 DEF Ids
    <3>2. 1 \in Alive
      BY <3>1 DEF RowsKept, AllLive, Alive
    <3>3. \E i \in Alive : \A j \in Alive : i <= j
      <4>1. Alive \subseteq Nat
        BY DEF Alive, Ids
      <4>2. QED
        BY <3>2, <4>1, LeastOf
    <3>4. (CHOOSE i \in Alive : \A j \in Alive : i <= j) \in Alive
      BY <3>3
    <3>5. QED
      BY <3>2, <3>4 DEF First, Alive
  <2>2. QED
    BY <2>1
<1>1. ASSUME Begin(w) PROVE Single'
  <2>1. Goes(w, "find", work[w].page)
    BY <1>1, MovesGoes DEF Begin, Pc
  <2>2. UNCHANGED <<last, byKey, query, cached>> /\ work[w].pc = "start"
    BY <1>1 DEF Begin, store, cache, fixed, At
  <2>3. QED
    BY <2>1, <2>2, PlainSingle DEF Looking, Storing
<1>2. ASSUME FindPage(w) PROVE Single'
  <2>1. UNCHANGED <<cached, last, byKey>> /\ work[w].pc \in {"find", "findIn"}
    BY <1>2 DEF FindPage, store, fixed, cache
  <2>2. CASE query # None
    <3>1. PICK pc \in {"join", "joinIn"} :
             Goes(w, pc, work[w].page) /\ (pc = "joinIn" => work[w].pc = "findIn")
      <4>1. PICK pc \in {"join", "joinIn"} : Moves(w, pc) /\ pc = Join(work[w].pc)
        BY <1>2, <2>2 DEF FindPage, Join
      <4>2. pc \in Pc
        BY DEF Pc
      <4>3. QED
        BY <2>1, <4>1, <4>2, MovesGoes DEF Join
    <3>2. UNCHANGED query
      BY <1>2, <2>2 DEF FindPage
    <3>3. pc = "joinIn" /\ last # 0 => work[query].page.id # 0
      BY <1>2, <1>f, <2>2, <3>1 DEF FindPage, At
    <3>4. QED
      BY <2>1, <2>2, <3>1, <3>2, <3>3, PlainSingle DEF Looking, Storing
  <2>3. CASE query = None
    <3>1. PICK pc \in Looking, p \in Know :
             /\ Goes(w, pc, p) /\ query' = w
             /\ pc \in {"storeIn", "shareIn"} => work[w].pc = "findIn"
             /\ cached => (byKey = Miss <=> pc \in Storing)
             /\ p = IF cached /\ byKey # Miss THEN byKey ELSE First
      <4>1. CASE cached /\ byKey = Miss
        <5>1. PICK pc \in Storing : With(w, pc, First) /\ pc = Store(work[w].pc) /\ query' = w
          BY <1>2, <2>3, <4>1 DEF FindPage, Store, Storing
        <5>2. pc \in Pc /\ pc \in Looking /\ First \in Page
          BY DEF Storing, Pc, Looking
        <5>3. Goes(w, pc, First)
          BY <5>1, <5>2, WithGoes
        <5>4. QED
          BY <2>1, <4>1, <5>1, <5>2, <5>3 DEF Store
      <4>2. CASE ~ (cached /\ byKey = Miss)
        <5>1. PICK pc \in {"share", "shareIn"}, p \in Know :
                 /\ With(w, pc, p) /\ pc = Share(work[w].pc) /\ query' = w
                 /\ p = IF cached THEN byKey ELSE First
          BY <1>2, <2>3, <4>2 DEF FindPage, Share
        <5>2. pc \in Pc /\ pc \in Looking /\ p \in Page /\ pc \notin Storing
          BY DEF Storing, Pc, Looking
        <5>3. Goes(w, pc, p)
          BY <5>1, <5>2, WithGoes
        <5>4. pc \in {"storeIn", "shareIn"} => work[w].pc = "findIn"
          BY <2>1, <5>1 DEF Share
        <5>5. p = IF cached /\ byKey # Miss THEN byKey ELSE First
          BY <4>2, <5>1
        <5>6. QED
          BY <4>2, <5>1, <5>2, <5>3, <5>4, <5>5
      <4>3. QED
        BY <4>1, <4>2
    <3>2. ASSUME NEW x \in Workers, Missed(x)' PROVE last' = 0 /\ (cached' => byKey' # Miss)
      <4>1. x # w /\ Missed(x)
        BY <3>1, <3>2 DEF Missed, At, Goes, Looking
      <4>2. QED
        BY <2>1, <4>1 DEF Single
    <3>3. work'[query'].page = p /\ work'[query'].pc = pc /\ query' # None
      BY <1>0, <3>1 DEF Goes
    <3>4. ASSUME last # 0, work[w].pc = "findIn", cached, byKey # Miss PROVE byKey.id # 0
      <4>1. create = w
        BY <1>0, <3>4 DEF Leads, Creating
      <4>2. ~ \E x \in Workers : At(x, "cacheNew")
        BY <1>0, <3>4, <4>1 DEF At, Leads, Creating
      <4>3. QED
        BY <3>4, <4>2 DEF Single
    <3>5. ASSUME NEW x \in Workers, last # 0, work'[x].pc \in {"joinIn", "shareIn"}
          PROVE  p.id # 0
      <4>1. CASE x = w
        <5>1. work[w].pc = "findIn"
          BY <3>1, <3>5, <4>1 DEF Goes, Looking
        <5>2. QED
          BY <1>f, <3>1, <3>4, <3>5, <5>1
      <4>2. CASE x # w
        <5>1. work[x].pc \in {"joinIn", "shareIn"}
          BY <3>1, <3>5, <4>2 DEF Goes
        <5>2. work[x].pc # "joinIn"
          BY <2>3 DEF Single, At
        <5>3. work[x].pc # "shareIn"
          BY <1>0, <2>3 DEF Leads, Looking
        <5>4. QED
          BY <5>1, <5>2, <5>3
      <4>3. QED
        BY <4>1, <4>2
    <3>6. \A x \in Workers : At(x, "cacheNew") => At(x, "cacheNew")'
      BY <2>1, <3>1 DEF At, Goes
    <3>7. last # 0 /\ pc \in Storing => p.id # 0
      <4>1. pc \in Storing => cached
        BY <2>1, <1>2, <2>3, <3>1 DEF FindPage, With, Moves, Store, Share, Storing, Goes
      <4>2. QED
        BY <1>f, <3>1, <4>1
    <3>8. QED
      BY <2>1, <3>1, <3>2, <3>3, <3>5, <3>6, <3>7 DEF Single
  <2>4. QED
    BY <2>2, <2>3
<1>3. ASSUME AfterFind(w) PROVE Single'
  <2>1. PICK pc \in {"inc", "findCreate", "done"} : Goes(w, pc, work[w].page)
    BY <1>3, MovesGoes DEF AfterFind, End, Pc
  <2>2. UNCHANGED <<last, byKey, query, cached>> /\ work[w].pc = "found"
    BY <1>3 DEF AfterFind, store, cache, fixed, At
  <2>3. QED
    BY <2>1, <2>2, PlainSingle DEF Looking, Storing
<1>4. ASSUME FindCreatePage(w) PROVE Single'
  <2>1. PICK pc \in {"findIn", "joinCreate"} : Goes(w, pc, work[w].page)
    BY <1>4, MovesGoes DEF FindCreatePage, Pc
  <2>2. UNCHANGED <<last, byKey, query, cached>> /\ work[w].pc = "findCreate"
    BY <1>4 DEF FindCreatePage, store, cache, fixed, At
  <2>3. QED
    BY <2>1, <2>2, PlainSingle DEF Looking, Storing
<1>5. ASSUME Uncache(w) PROVE Single'
  <2>1. Goes(w, "done", work[w].page)
    BY <1>5, MovesGoes DEF Uncache, End, Pc
  <2>2. UNCHANGED <<last, query, cached>> /\ work[w].pc = "uncache" /\ byKey' = Miss
    BY <1>5 DEF Uncache, store, fixed, At, Dropped
  <2>3. last # 0
    BY <1>h, <2>2 DEF HavePage
  <2>4. QED
    BY <2>1, <2>2, <2>3, DropSingle DEF Looking
<1>6. ASSUME NEW i \in Ids, Open(w, i) PROVE Single'
  <2>1. FindPageByID(i) \in Know
    BY DEF FindPageByID
  <2>2. PICK pc \in {"done", "editDel", "delete", "net"}, p \in Know : Goes(w, pc, p)
    <3>1. CASE FindPageByID(i).id = 0 \/ (kind[w] = "auto" /\ FindPageByID(i).title # Blank)
      BY <1>6, <3>1, MovesGoes DEF Open, Pc
    <3>2. CASE ~ (FindPageByID(i).id = 0 \/ (kind[w] = "auto" /\ FindPageByID(i).title # Blank))
      BY <1>6, <2>1, <3>2, WithGoes DEF Open, Pc
    <3>3. QED
      BY <3>1, <3>2
  <2>3. UNCHANGED <<last, byKey, query, cached>> /\ work[w].pc = "start"
    BY <1>6 DEF Open, store, fixed, At
  <2>4. QED
    BY <2>2, <2>3, PlainSingle DEF Looking, Storing
<1>7. ASSUME EditDel(w) PROVE Single'
  <2>1. Goes(w, "save", work[w].page)
    BY <1>7, MovesGoes DEF EditDel, Pc
  <2>2. UNCHANGED <<last, query, cached>> /\ work[w].pc = "editDel" /\ byKey' = Miss
    BY <1>7 DEF EditDel, store, fixed, At, Dropped
  <2>3. last # 0
    BY <1>h, <2>2 DEF HavePage
  <2>4. QED
    BY <2>1, <2>2, <2>3, DropSingle DEF Looking
<1>8. ASSUME CacheSave(w) PROVE Single'
  <2>1. Goes(w, "done", work[w].page)
    BY <1>8, MovesGoes DEF CacheSave, End, Pc
  <2>2. UNCHANGED <<last, query, cached>> /\ work[w].pc = "cacheSave"
    BY <1>8 DEF CacheSave, store, fixed, At
  <2>3. last # 0 /\ work[w].page.id # 0
    BY <1>0, <1>h, <2>2 DEF HavePage, Role
  <2>4. byKey' # Miss => byKey'.id # 0
    BY <1>8, <2>3 DEF CacheSave, Saved, NotCached, cache
  <2>5. QED
    BY <2>1, <2>2, <2>3, <2>4, DropSingle DEF Looking
<1>9. ASSUME NEW t \in Title, FetchTitle(w, t) PROVE Single'
  <2>1. PICK p : p = [work[w].page EXCEPT !.title = t]
    OBVIOUS
  <2>2. p \in Know
    BY <2>1, PageFields DEF Know
  <2>3. PICK pc \in {"done", "setTitle"} : Goes(w, pc, p)
    BY <1>9, <2>1, <2>2, WithGoes DEF FetchTitle, Pc
  <2>4. UNCHANGED <<last, byKey, query, cached>> /\ work[w].pc = "net"
    BY <1>9 DEF FetchTitle, store, cache, fixed, At
  <2>5. QED
    BY <2>3, <2>4, PlainSingle DEF Looking, Storing
<1>10. ASSUME StoreFound(w) PROVE Single'
  <2>1. /\ query = w /\ query' = None /\ query # None /\ UNCHANGED <<last, cached>>
        /\ byKey' = IF work[w].pc \in Storing THEN work[w].page ELSE byKey
        /\ work[w].page \in Know /\ work[w].pc \in Looking
    BY <1>0, <1>10 DEF StoreFound, Leads, store, fixed, Looking, Storing
  <2>2. last = 0 /\ cached => byKey' # Miss
    BY <2>1 DEF Single
  <2>3. last # 0 /\ work[w].pc \in Storing => work[w].page.id # 0
    BY <1>0, <2>1 DEF Single
  <2>4. ASSUME NEW x \in Workers, Missed(x)' PROVE last = 0
    <3>1. CASE x = w \/ work[x].pc \in {"join", "joinIn"}
      <4>1. work'[x].page = work[w].page /\ work'[x].pc = Found(work[x].pc)
        BY <1>10, <3>1 DEF StoreFound
      <4>2. work'[x].pc = "foundIn" /\ work[w].page.id = 0
        BY <2>4, <4>1 DEF Missed, At, Found
      <4>3. work[x].pc \in {"storeIn", "shareIn", "joinIn"}
        BY <2>1, <3>1, <4>1, <4>2 DEF Found, Looking
      <4>4. work[x].pc = "storeIn" => x = w
        BY <3>1
      <4>5. work[x].pc \in {"shareIn", "joinIn"} /\ last # 0 => work[w].page.id # 0
        BY <2>1 DEF Single
      <4>6. QED
        BY <2>3, <4>2, <4>3, <4>4, <4>5 DEF Storing
    <3>2. CASE ~ (x = w \/ work[x].pc \in {"join", "joinIn"})
      <4>1. work'[x] = work[x]
        BY <1>10, <3>2 DEF StoreFound
      <4>2. Missed(x)
        BY <2>4, <4>1 DEF Missed, At
      <4>3. QED
        BY <2>1, <4>2 DEF Single
    <3>3. QED
      BY <3>1, <3>2
  <2>5. \A x \in Workers : ~ At(x, "joinIn")'
    BY <1>10 DEF StoreFound, At, Found
  <2>6. ASSUME last # 0, byKey' # Miss, byKey'.id = 0
        PROVE  \E x \in Workers : At(x, "cacheNew")'
    <3>1. work[w].pc \notin Storing /\ byKey' = byKey
      BY <2>1, <2>3, <2>6
    <3>2. PICK x \in Workers : At(x, "cacheNew")
      BY <2>6, <3>1 DEF Single
    <3>3. work'[x] = work[x]
      BY <1>10, <2>1, <3>2 DEF StoreFound, At, Looking
    <3>4. QED
      BY <3>2, <3>3 DEF At
  <2>7. QED
    BY <2>1, <2>2, <2>4, <2>5, <2>6 DEF Single
<1>11. ASSUME Shared(w, work[w].page), UNCHANGED <<last, cached, query>>,
              work[w].pc \in {"foundIn", "cacheNew"}
       PROVE  /\ \A x \in Workers : Missed(x)' => Missed(x)
              /\ query # None => work'[query] = work[query]
              /\ \A x \in Workers : At(x, "cacheNew") /\ x # w => At(x, "cacheNew")'
              /\ \A x \in Workers : work'[x].pc \in {"joinIn", "shareIn"} =>
                                       work'[x].pc = work[x].pc
  <2>1. ASSUME NEW x \in Workers, x = w \/ At(x, "joinCreate")
        PROVE  work'[x].pc \in {"inc", "done"} /\ query # x
    <3>1. work'[x].pc \in {"inc", "done"}
      BY <1>11, <2>1 DEF Shared
    <3>2. QED
      BY <1>0, <1>11, <2>1, <3>1 DEF Leads, At, Looking
  <2>2. ASSUME NEW x \in Workers, ~ (x = w \/ At(x, "joinCreate"))
        PROVE  work'[x] = work[x]
    BY <1>11, <2>2 DEF Shared
  <2>3. query \in Workers \cup {None}
    BY DEF PagesTypeOK
  <2>4. \A x \in Workers : Missed(x)' => Missed(x)
    BY <2>1, <2>2 DEF Missed, At
  <2>5. \A x \in Workers : At(x, "cacheNew") /\ x # w => At(x, "cacheNew")'
    BY <2>2 DEF At
  <2>6. query # None => work'[query] = work[query]
    BY <2>1, <2>2, <2>3
  <2>7. \A x \in Workers : work'[x].pc \in {"joinIn", "shareIn"} => work'[x].pc = work[x].pc
    BY <2>1, <2>2
  <2>8. QED
    BY <2>4, <2>5, <2>6, <2>7
<1>12. ASSUME AfterFindIn(w) PROVE Single'
  <2>1. UNCHANGED <<last, byKey, query, cached>> /\ work[w].pc = "foundIn"
    BY <1>12 DEF AfterFindIn, store, fixed, cache, At
  <2>2. CASE work[w].page.id # 0
    <3>1. Shared(w, work[w].page)
      BY <1>12, <2>2 DEF AfterFindIn
    <3>2. /\ \A x \in Workers : Missed(x)' => Missed(x)
          /\ query # None => work'[query] = work[query]
          /\ \A x \in Workers : At(x, "cacheNew") => At(x, "cacheNew")'
          /\ \A x \in Workers : work'[x].pc \in {"joinIn", "shareIn"} =>
                                   work'[x].pc = work[x].pc
      BY <1>11, <2>1, <3>1 DEF At
    <3>3. QED
      BY <2>1, <3>2 DEF Single, At
  <2>3. CASE work[w].page.id = 0
    <3>1. Goes(w, "insert", work[w].page)
      BY <1>12, <2>3, MovesGoes DEF AfterFindIn, Pc
    <3>2. Missed(w)
      BY <2>1, <2>3 DEF Missed, At
    <3>3. QED
      BY <2>1, <3>1, <3>2, PlainSingle DEF Looking, Storing
  <2>4. QED
    BY <2>2, <2>3
<1>13. ASSUME CacheNew(w) PROVE Single'
  <2>1. UNCHANGED <<last, query, cached>> /\ work[w].pc = "cacheNew" /\ Shared(w, work[w].page)
    BY <1>13 DEF CacheNew, store, fixed, At
  <2>2. last # 0 /\ work[w].page.id # 0
    BY <1>0, <1>h, <2>1 DEF HavePage, Role
  <2>3. byKey' # Miss => byKey'.id # 0
    BY <1>13, <2>2 DEF CacheNew, Saved, NotCached, cache
  <2>4. QED
    BY <1>11, <2>1, <2>2, <2>3 DEF Single, At
<1>14. ASSUME CreatePage(w) PROVE Single'
  <2>1. work'[w].pc = "cacheNew" /\ \A x \in Workers : x # w => work'[x] = work[x]
    BY <1>14 DEF CreatePage, With
  <2>2. UNCHANGED <<create, query, cached, byKey>> /\ work[w].pc = "insert" /\ last' = last + 1
    BY <1>14 DEF CreatePage, fixed, cache, At
  <2>3. last = 0 /\ (cached => byKey # Miss)
    BY <2>2 DEF Single, Missed, At
  <2>4. query # None => work[query].pc \notin Storing /\ work'[query] = work[query]
    <3>1. query # w /\ query \in Workers \cup {None}
      BY <1>0, <2>2 DEF Leads, Looking, PagesTypeOK
    <3>2. query # None => work[query].pc \notin Storing
      BY <2>3, <3>1 DEF Single, NotCached
    <3>3. QED
      BY <2>1, <3>1, <3>2
  <2>5. ASSUME NEW x \in Workers, Missed(x)' PROVE FALSE
    <3>1. x # w /\ Missed(x)
      BY <2>1, <2>5 DEF Missed, At
    <3>2. QED
      BY <1>0, <2>2, <3>1 DEF Missed, At, Leads, Creating
  <2>6. At(w, "cacheNew")'
    BY <2>1 DEF At
  <2>7. \A x \in Workers : work'[x].pc \notin {"joinIn", "shareIn"}
    BY <1>0, <2>1, <2>2 DEF Leads, Creating
  <2>8. QED
    BY <2>2, <2>3, <2>4, <2>5, <2>6, <2>7 DEF Single, At
<1>15. ASSUME IncrementPagePV(w) PROVE Single'
  <2>1. Goes(w, "uncache", work[w].page)
    BY <1>15, MovesGoes DEF IncrementPagePV, Pc
  <2>2. UNCHANGED <<last, byKey, query, cached>> /\ work[w].pc = "inc"
    BY <1>15 DEF IncrementPagePV, cache, fixed, At
  <2>3. QED
    BY <2>1, <2>2, PlainSingle DEF Looking, Storing
<1>16. ASSUME SetTitle(w) PROVE Single'
  <2>1. Goes(w, "uncache", work[w].page)
    BY <1>16, MovesGoes DEF SetTitle, Pc
  <2>2. UNCHANGED <<last, byKey, query, cached>> /\ work[w].pc = "setTitle"
    BY <1>16 DEF SetTitle, cache, fixed, At
  <2>3. QED
    BY <2>1, <2>2, PlainSingle DEF Looking, Storing
<1>17. ASSUME DelPage(w) PROVE Single'
  BY <1>0, <1>17 DEF DelPage, At, Role, Unmade
<1>18. ASSUME NEW t \in Titles, UpdatePage(w, t) PROVE Single'
  <2>1. PICK p : p = [work[w].page EXCEPT !.title = t]
    OBVIOUS
  <2>2. p \in Know
    <3>1. t \in Title
      BY DEF Title
    <3>2. QED
      BY <2>1, <3>1, PageFields DEF Know
  <2>3. Goes(w, "cacheSave", p)
    BY <1>18, <2>1, <2>2, WithGoes DEF UpdatePage, Pc
  <2>4. UNCHANGED <<last, byKey, query, cached>> /\ work[w].pc = "save"
    BY <1>18 DEF UpdatePage, cache, fixed, At
  <2>5. QED
    BY <2>3, <2>4, PlainSingle DEF Looking, Storing
<1>19. QED
  BY <1>1, <1>2, <1>3, <1>4, <1>5, <1>6, <1>7, <1>8, <1>9, <1>10, <1>12, <1>13, <1>14, <1>15,
     <1>16, <1>17, <1>18 DEF Step

-----------------------------------------------------------------------------
(* The invariant holds at the start ...                                    *)
LEMMA PagesStart == PagesInit => PagesIInv
<1> SUFFICES ASSUME PagesInit PROVE PagesIInv
  OBVIOUS
<1>1. MaxId \in Nat \ {0} /\ IsFiniteSet(Workers) /\ Cardinality(Workers) \in Nat
      /\ None \notin Workers
  BY PagesAssumption, FS_CardinalityType DEF PagesAssumption
<1>2. PICK n \in {0, 1} :
         /\ last = n
         /\ table = [i \in Ids |-> IF i <= n THEN [id |-> i, title |-> Blank, pv |-> 0]
                                             ELSE Empty]
  BY DEF PagesInit
<1>3. /\ \A w \in Workers : work[w] = [pc |-> "start", page |-> Empty]
      /\ work = [w \in Workers |-> [pc |-> "start", page |-> Empty]]
      /\ byKey = Miss /\ byId = [i \in Ids |-> Miss] /\ query = None /\ create = None
      /\ lock = None /\ counted = [i \in Ids |-> 0] /\ gone = {} /\ late = FALSE
  BY DEF PagesInit
<1>4. Past = {} /\ Cardinality(Past) = 0
  <2>1. Past = {}
    BY <1>3 DEF Past
  <2>2. QED
    BY <2>1, FS_EmptySet
<1>5. \A i \in Ids : i \in Nat /\ i >= 1 /\ i <= MaxId
  BY <1>1 DEF Ids
<1>6. \A i \in Ids : /\ i <= n => table[i] = [id |-> i, title |-> Blank, pv |-> 0]
                     /\ i > n => table[i] = Empty
  BY <1>2, <1>5
<1>7. Empty \in Copy(last, 0) /\ Empty.id = 0
  BY <1>2 DEF Empty, Copy, Title
<1>8. \A i \in Ids : table[i] \in Copy(last, 0) /\ table[i].id \in {0, i} /\ table[i].pv = 0
  <2> SUFFICES ASSUME NEW i \in Ids
               PROVE  table[i] \in Copy(last, 0) /\ table[i].id \in {0, i} /\ table[i].pv = 0
    OBVIOUS
  <2>1. CASE i <= n
    <3>1. table[i] = [id |-> i, title |-> Blank, pv |-> 0] /\ i \in 0..last
      BY <1>2, <1>5, <1>6, <2>1
    <3>2. QED
      BY <3>1 DEF Copy, Title
  <2>2. CASE i > n
    <3>1. table[i] = Empty
      BY <1>5, <1>6, <2>2
    <3>2. QED
      BY <1>7, <3>1 DEF Empty
  <2>3. i <= n \/ i > n
    BY <1>5
  <2>4. QED
    BY <2>1, <2>2, <2>3
<1>9. Copy(last, 0) \subseteq Page
  <2>1. Page = Copy(MaxId, Cardinality(Workers))
    BY DEF Page, Copy, Counts
  <2>2. QED
    BY <1>1, <1>2, <2>1, CopyGrows
<1>10. CopiesKnown
  <2>1. table \in [Ids -> Copy(last, 0)]
    BY <1>2, <1>8
  <2>2. QED
    BY <1>3, <1>4, <1>7, <2>1 DEF CopiesKnown
<1>11. PagesTypeOK
  <2>1. table \in [Ids -> Page] /\ work \in [Workers -> [pc : Pc, page : Page]]
    <3>1. "start" \in Pc /\ Empty \in Page
      BY <1>7, <1>9 DEF Pc
    <3>2. \A i \in Ids : table[i] \in Page
      BY <1>8, <1>9
    <3>3. table \in [Ids -> Page]
      BY <1>2, <3>2
    <3>4. QED
      BY <1>3, <3>1, <3>3
  <2>2. last \in 0..MaxId /\ counted \in [Ids -> Counts]
    BY <1>1, <1>2, <1>3 DEF Counts
  <2>3. kind \in Kinds /\ cached \in BOOLEAN /\ expires \in BOOLEAN
    BY DEF PagesInit
  <2>4. QED
    BY <1>3, <1>8, <2>1, <2>2, <2>3 DEF PagesTypeOK
<1>12. Roles
  BY <1>3 DEF Roles, Role, HavePage
<1>13. RowsKept
  <2>1. \A i \in Ids : counted[i] = 0
    BY <1>3
  <2>2. \A i \in Ids : i > last => table[i].id = 0
    BY <1>2, <1>6, <1>7
  <2>3. \A i \in Ids : i <= last => table[i].id # 0
    BY <1>2, <1>5, <1>6
  <2>4. RowsNew
    BY <1>3, <2>1, <2>2 DEF RowsNew
  <2>5. ViewsKept /\ NeverRevived
    BY <1>3, <1>8, <2>1 DEF ViewsKept, NeverRevived, Alive
  <2>6. QED
    BY <2>3, <2>4, <2>5 DEF RowsKept, AllLive
<1>14. Leaders /\ NotCached
  BY <1>1, <1>3 DEF Leaders, Leads, Creating, NotCached, Looking, Storing
<1>15. OneMade
  BY <1>2, <1>3 DEF OneMade, Single, Missed, At
<1>16. QED
  BY <1>10, <1>11, <1>12, <1>13, <1>14, <1>15 DEF PagesIInv

(* ... is kept by every request ...                                        *)
LEMMA StepKeeps ==
    ASSUME PagesIInv, NEW w \in Workers, Step(w)
    PROVE  PagesIInv' /\ TitleKept
<1>0. PagesTypeOK /\ CopiesKnown /\ Roles /\ RowsKept /\ Leaders /\ NotCached /\ OneMade
  BY DEF PagesIInv
<1>l. late' \in BOOLEAN /\ (late => late')
  BY <1>0, LateStays
<1>1. (PagesTypeOK /\ CopiesKnown /\ Roles)'
  BY <1>0, <1>l, QuietStepsKnown, StoreFoundKnown, CreatedKnown, WritesKnown DEF Step
<1>2. RowsKept' /\ TitleKept /\ UNCHANGED <<kind, expires>>
  <2>1. CASE Writes(w)
    <3>1. UNCHANGED <<kind, expires>>
      BY <2>1 DEF Writes, CreatePage, IncrementPagePV, SetTitle, DelPage, UpdatePage, fixed
    <3>2. QED
      BY <1>0, <2>1, <3>1, WritesRows
  <2>2. CASE UNCHANGED store
    <3>1. UNCHANGED <<kind, expires, table, last, counted, gone>>
      BY <2>2 DEF store, fixed
    <3>2. QED
      BY <1>0, <3>1 DEF RowsKept, RowsNew, ViewsKept, NeverRevived, AllLive, Unmade, Alive,
                        TitleKept
  <2>3. QED
    BY <2>1, <2>2, OthersWriteNot
<1>3. Leaders' /\ NotCached'
  BY <1>0, StepLeaders, StaysUncached
<1>4. OneMade'
  <2>1. Unmade("delete") /\ ~ expires /\ ~ late' => Single'
    BY <1>0, <1>l, StepSingle DEF OneMade
  <2>2. QED
    BY <1>2, <2>1 DEF OneMade, Unmade
<1>5. QED
  BY <1>1, <1>2, <1>3, <1>4 DEF PagesIInv

(* ... and by the end of a time to live.                                   *)
LEMMA ExpireKeeps ==
    ASSUME PagesIInv, Expire
    PROVE  PagesIInv' /\ TitleKept
<1>1. UNCHANGED <<kind, cached, expires, table, last, counted, gone, byId, query, late, create,
                  lock, work>>
      /\ byKey' = Miss /\ expires
  BY DEF Expire, store, fixed
<1>2. Past' = Past
  BY <1>1 DEF Past
<1>3. PagesTypeOK'
  BY <1>1 DEF PagesIInv, PagesTypeOK
<1>4. CopiesKnown' /\ Roles'
  BY <1>1, <1>2 DEF PagesIInv, CopiesKnown, Roles
<1>5. RowsKept' /\ TitleKept
  BY <1>1 DEF PagesIInv, RowsKept, RowsNew, ViewsKept, NeverRevived, AllLive, Unmade, Alive,
              TitleKept
<1>6. Leaders' /\ NotCached' /\ OneMade'
  BY <1>1 DEF PagesIInv, Leaders, Leads, NotCached, OneMade
<1>7. QED
  BY <1>3, <1>4, <1>5, <1>6 DEF PagesIInv

(* Doing nothing keeps it too.                                             *)
LEMMA PagesStutter ==
    ASSUME PagesIInv, UNCHANGED pagesVars
    PROVE  PagesIInv'
<1>1. UNCHANGED <<kind, cached, expires, table, last, counted, gone, byKey, byId, query, late,
                  create, lock, work>>
  BY DEF pagesVars
<1>2. Past' = Past
  BY <1>1 DEF Past
<1>3. PagesTypeOK'
  BY <1>1 DEF PagesIInv, PagesTypeOK
<1>4. CopiesKnown' /\ Roles'
  BY <1>1, <1>2 DEF PagesIInv, CopiesKnown, Roles
<1>5. RowsKept'
  BY <1>1 DEF PagesIInv, RowsKept, RowsNew, ViewsKept, NeverRevived, AllLive, Unmade, Alive
<1>6. Leaders' /\ NotCached' /\ OneMade'
  BY <1>1 DEF PagesIInv, Leaders, Leads, NotCached, OneMade, Single, Missed, At, Unmade
<1>7. QED
  BY <1>3, <1>4, <1>5, <1>6 DEF PagesIInv

(* The invariant gives the bound on the rows.                              *)
LEMMA OneRowOnly ==
    ASSUME PagesIInv
    PROVE  OnePageRow
<1> SUFFICES ASSUME Unmade("delete"), ~ expires, ~ late PROVE Cardinality(Alive) <= 1
  BY DEF OnePageRow
<1>1. last <= 1 /\ last \in Nat
  BY KnownFacts DEF PagesIInv, OneMade, Single
<1>2. Alive \subseteq {1}
  BY <1>1 DEF PagesIInv, RowsKept, RowsNew, Alive, Ids
<1>3. IsFiniteSet({1}) /\ Cardinality({1}) = 1
  BY FS_Singleton
<1>4. QED
  BY <1>2, <1>3, FS_Subset

(* However many requests find the page missing at once, one row is made:   *)
(* what FindCreateAction, the groups of QueryDBWithCache and the mutex of  *)
(* PagePV do together, unless somebody deletes the page, a cached answer   *)
(* expires, or the lookup of FindCreateAction joins one that began before  *)
(* the row was made.                                                       *)
THEOREM OneRowForAPage == PagesSpec => []PagesSound
<1>1. PagesInit => PagesIInv
  BY PagesStart
<1>2. PagesIInv /\ [PagesNext]_pagesVars => PagesIInv'
  BY StepKeeps, ExpireKeeps, PagesStutter DEF PagesNext
<1>3. PagesIInv => PagesSound
  BY OneRowOnly DEF PagesIInv, PagesSound
<1>4. QED
  BY <1>1, <1>2, <1>3, PTL DEF PagesSpec

(* Whatever requests work on copies of the page: without edits the column  *)
(* pv counts every increment and a deleted row does not come back, and the *)
(* automatic title discovery never replaces a title.                       *)
THEOREM TheRowIsKept == PagesSpec => RowKept
<1>1. PagesInit => PagesIInv
  BY PagesStart
<1>2. PagesIInv /\ [PagesNext]_pagesVars => PagesIInv'
  BY StepKeeps, ExpireKeeps, PagesStutter DEF PagesNext
<1>3. PagesIInv /\ [PagesNext]_pagesVars => [ViewsKept' /\ NeverRevived' /\ TitleKept]_pagesVars
  <2> SUFFICES ASSUME PagesIInv, PagesNext PROVE ViewsKept' /\ NeverRevived' /\ TitleKept
    OBVIOUS
  <2>1. PagesIInv' /\ TitleKept
    BY StepKeeps, ExpireKeeps DEF PagesNext
  <2>2. QED
    BY <2>1 DEF PagesIInv, RowsKept
<1>4. QED
  BY <1>1, <1>2, <1>3, PTL DEF PagesSpec, RowKept

-----------------------------------------------------------------------------
(* Sites: the invariant.                                                   *)

PlaceOf(w) == works[w].at
Changes == SitePlaces \ {"idle", "comment", "page"}
Unsettled == {"rows", "save", "delList", "delPages", "delCache"}
Nameless == {"idle", "delete", "delRow", "delList", "delPages", "delCache"}
Rowless == {"idle", "create", "insert", "comment"}

(* What a request has with it, wherever it has come.                       *)
Asks(r) ==
    /\ r.at \notin Nameless => r.name # NoName
    /\ r.at \notin Rowless => r.site.id # 0
    /\ r.at \notin {"rename", "delete"} => r.site \in Site

(* A name has one row, and rows that are not made are empty; a name that a *)
(* rename has given up has none.                                           *)
RowsUnique ==
    /\ \A i, j \in SiteIds : sites[i] = sites[j] /\ sites[i] # NoName => i = j
    /\ \A i \in SiteIds : i > lastSite => sites[i] = NoName
    /\ \A i \in SiteIds : sites[i] \notin renamed

(* Every page was created for a site, and rows that are not made are empty.*)
PagesMade == \A p \in PageIds : pages[p] # NoName => made[p] # 0 /\ p <= lastPage

(* Who changes a site is alone.                                            *)
Alone == \A v, w \in Admins : PlaceOf(w) \in Changes => v = w \/ PlaceOf(v) = "idle"

(* The page cached under a name is one of that name, unless a rename has   *)
(* given the name up, or is about to.                                      *)
PageKnown(m) == pageBy[m] # Uncached => pageBy[m] # 0 /\ pages[pageBy[m]] = m
Leaving(m) ==
    \E w \in Admins : PlaceOf(w) \in {"rows", "save"} /\ works[w].site.name = m /\ works[w].name # m
PagesKnown == \A m \in Names : m \in renamed \/ Leaving(m) \/ PageKnown(m)

(* The pages and the cached sites of all names but one and all rows but    *)
(* one are right.                                                          *)
PagesRightBut(n) ==
    \A p \in PageIds : pages[p] # NoName /\ pages[p] # n => RowNamed(pages[p]).id = made[p]
CachedRightBut(n, i) ==
    /\ \A m \in Names \ {n} : bySiteName[m] \in {Uncached, RowNamed(m)}
    /\ \A j \in SiteIds \ {i} : bySiteId[j] \in {Uncached, RowOf(j)}

Settled == PagesRightBut(NoName) /\ CachedRightBut(NoName, 0)

(* What holds where a request has come.                                    *)
FoundRow(s) == s.id # 0 /\ s = RowOf(s.id)
NewFor(s, n) == n # s.name /\ RowNamed(n) = EmptySite /\ n \notin renamed
Forgotten(s) == bySiteName[s.name] = Uncached /\ bySiteId[s.id] = Uncached
Renaming(s, n, todo) ==
    /\ FoundRow(s) /\ NewFor(s, n) /\ Forgotten(s)
    /\ PagesRightBut(n) /\ CachedRightBut(NoName, 0)
    /\ \A p \in PageIds : pages[p] = n => made[p] = s.id
    /\ PagesOf(s.name) = todo
Deleting(s) ==
    /\ s.name \in Names /\ RowOf(s.id) = EmptySite /\ RowNamed(s.name) = EmptySite
    /\ PagesRightBut(s.name) /\ CachedRightBut(s.name, s.id)

Place(r) ==
    LET s == r.site  n == r.name IN
    /\ r.at = "page" => s = RowNamed(n)
    /\ r.at \in {"create", "insert", "rename", "exists"} => n \notin renamed
    /\ r.at = "insert" => RowNamed(n) = EmptySite
    /\ r.at \in {"exists", "uncache", "list", "delRow"} => FoundRow(s)
    /\ r.at = "exists" => n # s.name
    /\ r.at = "uncache" => n = s.name \/ NewFor(s, n)
    /\ r.at = "list" => NewFor(s, n) /\ Forgotten(s)
    /\ r.at = "rows" => Renaming(s, n, r.todo)
    /\ r.at = "save" => IF n = s.name THEN FoundRow(s) /\ Settled /\ Forgotten(s)
                        ELSE Renaming(s, n, {})
    /\ r.at \in {"delList", "delPages", "delCache"} => Deleting(s)
    /\ r.at = "delPages" => PagesOf(s.name) = r.todo
    /\ r.at = "delCache" => PagesOf(s.name) = {}

Orderly ==
    /\ RowsUnique /\ PagesMade /\ Alone /\ PagesKnown
    /\ (\A w \in Admins : PlaceOf(w) \notin Unsettled) => Settled
    /\ \A w \in Admins : Place(works[w])

SitesIInv ==
    /\ SitesTypeOK /\ \A w \in Admins : Asks(works[w])
    /\ ~ muddled => Orderly

-----------------------------------------------------------------------------
(* Types, by what they are about.                                          *)

Work == [at : SitePlaces, site : Site \cup AskedSite, name : Names \cup {NoName},
         todo : SUBSET PageIds]
TablesOK ==
    /\ sites \in [SiteIds -> Names \cup {NoName}] /\ lastSite \in 0..MaxSites
    /\ pages \in [PageIds -> Names \cup {NoName}] /\ lastPage \in 0..MaxPageRows
    /\ made \in [PageIds -> 0..MaxSites]
CachesOK ==
    /\ bySiteName \in [Names -> Site \cup {Uncached}]
    /\ bySiteId \in [SiteIds -> Site \cup {Uncached}]
    /\ pageBy \in [Names -> 0..MaxPageRows \cup {Uncached}]
WorksOK == works \in [Admins -> Work]
HistoryOK == requests \in 0..MaxRequests /\ renamed \subseteq Names /\ muddled \in BOOLEAN

(* The types are those of the tables, caches, requests and history.        *)
LEMMA SitesTyped == SitesTypeOK <=> TablesOK /\ CachesOK /\ WorksOK /\ HistoryOK
<1> QED
  BY DEF SitesTypeOK, TablesOK, CachesOK, WorksOK, HistoryOK, Work

(* The same of the next state.                                             *)
LEMMA SitesTypedPrime ==
    SitesTypeOK' <=> TablesOK' /\ CachesOK' /\ WorksOK' /\ HistoryOK'
<1> QED
  BY SitesTyped, PTL

(* One request goes on, the others stay.                                   *)
LEMMA WorkGoes ==
    ASSUME WorksOK, NEW w \in Admins, NEW r \in Work, works' = [works EXCEPT ![w] = r]
    PROVE  /\ WorksOK' /\ works'[w] = r
           /\ \A v \in Admins \ {w} : works'[v] = works[v]
<1> QED
  BY DEF WorksOK

(* What a request has with it is typed.                                    *)
LEMMA RequestTyped ==
    ASSUME NEW q \in Work, Asks(q)
    PROVE  /\ q.at \notin Nameless => q.name \in Names /\ q.name # NoName
           /\ q.at \notin Rowless => q.site.id \in SiteIds /\ q.site.id # 0
           /\ q.at \notin {"rename", "delete"} => q.site \in Site
           /\ q.at \notin Rowless \cup {"rename", "delete"} =>
                 q.site \in Site /\ q.site.name \in Names /\ q.site.name # NoName
<1>1. q.at \notin Nameless => q.name \in Names /\ q.name # NoName
  BY DEF Asks, Work
<1>2. q.site \in Site \cup AskedSite
  BY DEF Work
<1>3. q.site.id # 0 => q.site \in [id : SiteIds, name : Names] \cup AskedSite
  BY <1>2 DEF Site, EmptySite
<1>4. q.at \notin Rowless => q.site.id \in SiteIds /\ q.site.id # 0
  BY <1>3 DEF Asks, AskedSite
<1>5. q.site \in Site /\ q.site.id # 0 => q.site.name \in Names /\ q.site.name # NoName
  BY SitesAssumption DEF Site, EmptySite
<1> QED
  BY <1>1, <1>4, <1>5 DEF Asks

(* What a lookup finds is a site, or the empty one.                        *)
LEMMA LookupTyped ==
    ASSUME TablesOK, CachesOK
    PROVE  /\ EmptySite \in Site /\ NoWork \in Work /\ Asks(NoWork)
           /\ \A n \in Names : RowNamed(n) \in Site /\ FindSite(n) \in Site
           /\ \A i \in SiteIds : RowOf(i) \in Site /\ FindSiteByID(i) \in Site
<1>1. EmptySite \in Site
  BY DEF Site
<1>2. NoWork \in Work
  BY <1>1 DEF NoWork, Work, SitePlaces
<1>3. Asks(NoWork)
  BY <1>1 DEF NoWork, Asks, Nameless, Rowless
<1>5. \A n \in Names : RowNamed(n) \in Site
  <2> SUFFICES ASSUME NEW n \in Names PROVE RowNamed(n) \in Site
    OBVIOUS
  <2>1. CASE \E i \in SiteIds : sites[i] = n
    <3>1. PICK k : k = CHOOSE i \in SiteIds : sites[i] = n
      OBVIOUS
    <3>2. k \in SiteIds
      BY <2>1, <3>1
    <3>3. RowNamed(n) = [id |-> k, name |-> n]
      BY <2>1, <3>1 DEF RowNamed
    <3> QED
      BY <3>2, <3>3 DEF Site
  <2>2. CASE ~ \E i \in SiteIds : sites[i] = n
    BY <1>1, <2>2 DEF RowNamed
  <2> QED
    BY <2>1, <2>2
<1>6. \A i \in SiteIds : RowOf(i) \in Site
  BY <1>1 DEF RowOf, TablesOK, Site
<1>7. \A n \in Names : FindSite(n) \in Site
  BY <1>5 DEF FindSite, CachesOK
<1>8. \A i \in SiteIds : FindSiteByID(i) \in Site
  BY <1>6 DEF FindSiteByID, CachesOK
<1> QED
  BY <1>1, <1>2, <1>3, <1>5, <1>6, <1>7, <1>8

-----------------------------------------------------------------------------
(* Rows and names.                                                         *)

(* The row of a name is the one that has it.                               *)
RowsSaid ==
    \A n \in Names :
       \/ RowNamed(n) = EmptySite /\ \A i \in SiteIds : sites[i] # n
       \/ \E i \in SiteIds : sites[i] = n /\ RowNamed(n) = [id |-> i, name |-> n]
(* What a lookup by name returns, without the choice.                      *)
LEMMA RowsSay == RowsSaid
<1> SUFFICES ASSUME NEW n \in Names
             PROVE  \/ RowNamed(n) = EmptySite /\ \A i \in SiteIds : sites[i] # n
                    \/ \E i \in SiteIds : sites[i] = n /\ RowNamed(n) = [id |-> i, name |-> n]
  BY DEF RowsSaid
<1>1. CASE \E i \in SiteIds : sites[i] = n
  <2>1. PICK k : k = CHOOSE i \in SiteIds : sites[i] = n
    OBVIOUS
  <2>2. k \in SiteIds /\ sites[k] = n
    BY <1>1, <2>1
  <2>3. RowNamed(n) = [id |-> k, name |-> n]
    BY <1>1, <2>1 DEF RowNamed
  <2> QED
    BY <2>2, <2>3
<1>2. CASE ~ \E i \in SiteIds : sites[i] = n
  BY <1>2 DEF RowNamed
<1> QED
  BY <1>1, <1>2
(* The same of the next state.                                             *)
LEMMA RowsSayPrime == RowsSaid'
<1> QED
  BY RowsSay, PTL

(* What lookups by id and by name return of rows that are unique.          *)
LEMMA RowFacts ==
    ASSUME TablesOK, RowsUnique
    PROVE  /\ NoName \notin Names /\ EmptySite.id = 0 /\ EmptySite.name = NoName
           /\ \A i \in SiteIds : i \in Nat /\ i # 0
           /\ \A n \in Names : RowNamed(n).id = 0 => RowNamed(n) = EmptySite
           /\ \A i \in SiteIds : sites[i] # NoName =>
                 /\ sites[i] \in Names /\ RowOf(i) = [id |-> i, name |-> sites[i]]
                 /\ RowNamed(sites[i]) = [id |-> i, name |-> sites[i]]
           /\ \A i \in SiteIds : sites[i] = NoName => RowOf(i) = EmptySite
<1>1. /\ NoName \notin Names /\ EmptySite.id = 0 /\ EmptySite.name = NoName
      /\ \A i \in SiteIds : i \in Nat /\ i # 0
  BY SitesAssumption DEF EmptySite, SiteIds
<1>2. RowsSaid
  BY RowsSay
<1> QED
  BY <1>1, <1>2 DEF RowsSaid, RowsUnique, TablesOK, RowOf

(* While no row changes, names keep their rows.                            *)
LEMMA SameTables ==
    ASSUME TablesOK, RowsUnique, UNCHANGED <<sites, lastSite, renamed>>
    PROVE  /\ RowsUnique'
           /\ \A n \in Names : RowNamed(n)' = RowNamed(n)
           /\ \A i \in SiteIds : RowOf(i)' = RowOf(i)
<1>1. RowsUnique'
  BY DEF RowsUnique
<1>2. RowsSaid /\ RowsSaid'
  BY RowsSay, RowsSayPrime
<1>3. \A n \in Names : RowNamed(n)' = RowNamed(n)
  <2>1. NoName \notin Names
    BY SitesAssumption
  <2> QED
    BY <1>2, <2>1 DEF RowsSaid, RowsUnique
<1>4. \A i \in SiteIds : RowOf(i)' = RowOf(i)
  BY DEF RowOf
<1> QED
  BY <1>1, <1>3, <1>4

(* One row changes: the name that it had has none, the name it has got has *)
(* this one, the other names keep theirs.                                  *)
LEMMA OneRowChanges ==
    ASSUME TablesOK, RowsUnique, RowsUnique', NEW i \in SiteIds, NEW x \in Names \cup {NoName},
           NEW o \in Names \cup {NoName}, sites[i] = o, sites' = [sites EXCEPT ![i] = x]
    PROVE  /\ \A m \in Names \ {o, x} : RowNamed(m)' = RowNamed(m)
           /\ \A j \in SiteIds \ {i} : RowOf(j)' = RowOf(j)
           /\ x # NoName => /\ RowNamed(x)' = [id |-> i, name |-> x]
                            /\ RowOf(i)' = [id |-> i, name |-> x]
           /\ x = NoName => RowOf(i)' = EmptySite
           /\ o \in Names \ {x} => RowNamed(o)' = EmptySite
<1>1. RowsSaid /\ RowsSaid' /\ NoName \notin Names
  BY RowsSay, RowsSayPrime, SitesAssumption
<1>2. /\ sites'[i] = x /\ \A j \in SiteIds \ {i} : sites'[j] = sites[j]
  BY DEF TablesOK
<1>3. \A m \in Names \ {o, x} : RowNamed(m)' = RowNamed(m)
  <2> SUFFICES ASSUME NEW m \in Names \ {o, x} PROVE RowNamed(m)' = RowNamed(m)
    OBVIOUS
  <2>1. \A j \in SiteIds : sites'[j] = m <=> sites[j] = m
    BY <1>2
  <2> QED
    BY <1>1, <2>1 DEF RowsSaid, RowsUnique
<1>4. \A j \in SiteIds \ {i} : RowOf(j)' = RowOf(j)
  BY <1>2 DEF RowOf
<1>5. x # NoName => RowNamed(x)' = [id |-> i, name |-> x] /\ RowOf(i)' = [id |-> i, name |-> x]
  BY <1>1, <1>2 DEF RowsSaid, RowsUnique, RowOf
<1>6. x = NoName => RowOf(i)' = EmptySite
  BY <1>2 DEF RowOf
<1>7. o \in Names \ {x} => RowNamed(o)' = EmptySite
  <2>1. o \in Names \ {x} => \A j \in SiteIds : sites'[j] # o
    BY <1>1, <1>2 DEF RowsUnique
  <2> QED
    BY <1>1, <2>1 DEF RowsSaid
<1> QED
  BY <1>3, <1>4, <1>5, <1>6, <1>7

(* A row that was found is the one of its name.                            *)
LEMMA FoundNamed ==
    ASSUME TablesOK, NEW s, s.id \in SiteIds, FoundRow(s)
    PROVE  /\ s.name \in Names /\ sites[s.id] = s.name /\ s.name # NoName
           /\ s = [id |-> s.id, name |-> s.name]
           /\ RowsUnique => RowNamed(s.name) = s
<1>1. s = RowOf(s.id) /\ s.id # 0
  BY DEF FoundRow
<1>2. CASE sites[s.id] = NoName
  BY <1>1, <1>2 DEF RowOf, EmptySite
<1>3. CASE sites[s.id] # NoName
  <2>1. s = [id |-> s.id, name |-> sites[s.id]]
    BY <1>1, <1>3 DEF RowOf
  <2>2. s.name = sites[s.id]
    BY <2>1
  <2>3. s.name \in Names
    BY <1>3, <2>2 DEF TablesOK
  <2> QED
    BY <1>3, <2>1, <2>2, <2>3, RowFacts
<1> QED
  BY <1>2, <1>3

-----------------------------------------------------------------------------
(* What a step has to show.                                                *)

(* What is known where a request is that may go on.                        *)
LEMMA SiteNow ==
    ASSUME SitesIInv, NEW w \in Admins
    PROVE  /\ TablesOK /\ CachesOK /\ WorksOK /\ HistoryOK
           /\ works[w] \in Work /\ Asks(works[w])
           /\ ~ muddled => /\ RowsUnique /\ PagesMade /\ Alone /\ PagesKnown /\ Place(works[w])
                           /\ PlaceOf(w) \notin Unsettled \cup {"idle"} => Settled
<1>1. /\ TablesOK /\ CachesOK /\ WorksOK /\ HistoryOK
      /\ works[w] \in Work /\ Asks(works[w])
  BY SitesTyped DEF SitesIInv, WorksOK
<1>2. ASSUME ~ muddled, PlaceOf(w) \notin Unsettled \cup {"idle"}
      PROVE  Settled
  <2>1. \A v \in Admins : PlaceOf(v) \notin Unsettled
    BY <1>2 DEF SitesIInv, Orderly, Alone, Unsettled, Changes, SitePlaces
  <2> QED
    BY <1>2, <2>1 DEF SitesIInv, Orderly
<1> QED
  BY <1>1, <1>2 DEF SitesIInv, Orderly

(* Who changes a site is alone: it has to show that its own next place and *)
(* the rows and caches are right.                                          *)
LEMMA ChangeDone ==
    ASSUME SitesIInv, NEW w \in Admins, NEW r \in Work, works' = [works EXCEPT ![w] = r],
           PlaceOf(w) \in Changes, Asks(r), TablesOK', CachesOK',
           UNCHANGED <<requests, muddled>>, renamed' \subseteq Names,
           ~ muddled => /\ RowsUnique' /\ PagesMade' /\ PagesKnown' /\ Place(r)'
                        /\ r.at \notin Unsettled => Settled'
    PROVE  SitesIInv'
<1>1. TablesOK /\ CachesOK /\ WorksOK /\ HistoryOK
  BY SiteNow
<1>2. /\ WorksOK' /\ works'[w] = r
      /\ \A v \in Admins \ {w} : works'[v] = works[v]
  BY <1>1, WorkGoes
<1>3. HistoryOK'
  BY <1>1 DEF HistoryOK
<1>4. \A v \in Admins : Asks(works'[v])
  BY <1>2 DEF SitesIInv
<1>5. ASSUME ~ muddled PROVE Orderly'
  <2>1. \A v \in Admins \ {w} : works'[v].at = "idle"
    BY <1>2, <1>5 DEF SitesIInv, Orderly, Alone, PlaceOf
  <2>2. Alone'
    BY <2>1 DEF Alone, PlaceOf, Changes
  <2>3. (\A v \in Admins : PlaceOf(v)' \notin Unsettled) => Settled'
    BY <1>2, <1>5 DEF PlaceOf
  <2>4. \A v \in Admins : Place(works[v])'
    <3> SUFFICES ASSUME NEW v \in Admins PROVE Place(works[v])'
      OBVIOUS
    <3>1. CASE v = w
      BY <1>2, <1>5, <3>1
    <3>2. CASE v # w
      BY <2>1, <3>2 DEF Place
    <3> QED
      BY <3>1, <3>2
  <2> QED
    BY <1>5, <2>2, <2>3, <2>4 DEF Orderly
<1> QED
  BY <1>1, <1>2, <1>3, <1>4, <1>5, SitesTypedPrime DEF SitesIInv

(* A comment changes no site.                                              *)
LEMMA CommentDone ==
    ASSUME SitesIInv, NEW w \in Admins, NEW r \in Work, works' = [works EXCEPT ![w] = r],
           PlaceOf(w) \in {"comment", "page"}, r.at \in {"page", "idle"}, Asks(r),
           TablesOK', CachesOK', UNCHANGED <<requests, muddled, renamed, sites, lastSite>>,
           ~ muddled => PagesMade' /\ PagesKnown' /\ Place(r)' /\ Settled'
    PROVE  SitesIInv'
<1>1. TablesOK /\ CachesOK /\ WorksOK /\ HistoryOK
  BY SiteNow
<1>2. /\ WorksOK' /\ works'[w] = r
      /\ \A v \in Admins \ {w} : works'[v] = works[v]
  BY <1>1, WorkGoes
<1>3. HistoryOK'
  BY <1>1 DEF HistoryOK
<1>4. \A v \in Admins : Asks(works'[v])
  BY <1>2 DEF SitesIInv
<1>5. ASSUME ~ muddled PROVE Orderly'
  <2>1. \A v \in Admins : works[v] \in Work /\ works[v].at \in {"idle", "comment", "page"}
    BY <1>1, <1>5 DEF SitesIInv, Orderly, Alone, PlaceOf, Changes, WorksOK, Work
  <2>2. Alone'
    BY <1>2, <2>1 DEF Alone, PlaceOf, Changes
  <2>3. RowsUnique' /\ \A n \in Names : RowNamed(n)' = RowNamed(n)
    BY <1>1, <1>5, SameTables DEF SitesIInv, Orderly
  <2>4. \A v \in Admins : Place(works[v])'
    <3> SUFFICES ASSUME NEW v \in Admins PROVE Place(works[v])'
      OBVIOUS
    <3>1. CASE v = w
      BY <1>2, <1>5, <3>1
    <3>2. CASE v # w
      <4>1. works'[v] = works[v] /\ Asks(works[v]) /\ Place(works[v])
        BY <1>2, <1>5, <3>2 DEF SitesIInv, Orderly
      <4>2. works[v].at = "page" => works[v].name \in Names
        BY <2>1, <4>1 DEF Asks, Nameless, Work
      <4> QED
        BY <2>1, <2>3, <4>1, <4>2 DEF Place
    <3> QED
      BY <3>1, <3>2
  <2> QED
    BY <1>5, <2>2, <2>3, <2>4 DEF Orderly
<1> QED
  BY <1>1, <1>2, <1>3, <1>4, <1>5, SitesTypedPrime DEF SitesIInv

(* A step that leaves the pages alone, of a request that gives no name up. *)
LEMMA KnownStays ==
    ASSUME WorksOK, PagesKnown, NEW w \in Admins, NEW r \in Work,
           works' = [works EXCEPT ![w] = r],
           PlaceOf(w) \notin {"rows", "save"}, UNCHANGED <<pages, pageBy, renamed>>
    PROVE  PagesKnown'
<1>1. \A v \in Admins \ {w} : works'[v] = works[v]
  BY WorkGoes
<1>2. \A m : Leaving(m) => Leaving(m)'
  BY <1>1 DEF Leaving, PlaceOf
<1> QED
  BY <1>2 DEF PagesKnown, PageKnown

(* A lookup caches what the table says.                                    *)
LEMMA FillsName ==
    ASSUME TablesOK, CachesOK, NEW n \in Names, FilledName(n), UNCHANGED tables
    PROVE  /\ TablesOK' /\ CachesOK' /\ UNCHANGED pageBy
           /\ RowsUnique /\ UNCHANGED renamed /\ Settled =>
                 RowsUnique' /\ FindSite(n) = RowNamed(n) /\ Settled'
<1>1. PICK f : f = FindSite(n)
  OBVIOUS
<1>2. /\ bySiteName' = [bySiteName EXCEPT ![n] = f] /\ UNCHANGED <<bySiteId, pageBy>>
      /\ UNCHANGED <<sites, lastSite, pages, lastPage, made>>
  BY <1>1 DEF FilledName, tables
<1>3. TablesOK' /\ CachesOK'
  <2>1. f \in Site
    BY <1>1, LookupTyped
  <2> QED
    BY <1>2, <2>1 DEF TablesOK, CachesOK
<1>4. ASSUME RowsUnique, UNCHANGED renamed, Settled
      PROVE  RowsUnique' /\ FindSite(n) = RowNamed(n) /\ Settled'
  <2>1. n # NoName
    BY SitesAssumption
  <2>2. FindSite(n) = RowNamed(n)
    BY <1>4, <2>1 DEF Settled, CachedRightBut, FindSite
  <2>3. /\ RowsUnique'
        /\ \A m \in Names : RowNamed(m)' = RowNamed(m)
        /\ \A i \in SiteIds : RowOf(i)' = RowOf(i)
    BY <1>2, <1>4, SameTables
  <2>4. CachedRightBut(NoName, 0)'
    BY <1>1, <1>2, <1>4, <2>2, <2>3 DEF Settled, CachedRightBut, CachesOK
  <2>5. PagesRightBut(NoName)'
    BY <1>2, <1>4, <2>3 DEF Settled, PagesRightBut, TablesOK
  <2> QED
    BY <2>2, <2>3, <2>4, <2>5 DEF Settled
<1> QED
  BY <1>2, <1>3, <1>4

-----------------------------------------------------------------------------
(* SiteCreate.                                                             *)

(* Only a name that no site has goes on.                                   *)
LEMMA CheckNewStep ==
    ASSUME SitesIInv, NEW w \in Admins, CheckNew(w)
    PROVE  SitesIInv'
<1>1. PICK n : n = works[w].name
  OBVIOUS
<1>2. PICK r : r = IF FindSite(n).id # 0 THEN NoWork ELSE [works[w] EXCEPT !.at = "insert"]
  OBVIOUS
<1>3. /\ works[w].at = "create" /\ FilledName(n) /\ works' = [works EXCEPT ![w] = r]
      /\ UNCHANGED <<tables, requests, renamed, muddled>>
  BY <1>1, <1>2 DEF CheckNew, SiteAt, Leaves, SiteGoes, History
<1>4. n \in Names /\ n # NoName /\ works[w] \in Work /\ works[w].site \in Site
  BY <1>1, <1>3, SiteNow, RequestTyped DEF Nameless
<1>5. TablesOK /\ CachesOK /\ WorksOK /\ PlaceOf(w) \in Changes
  BY <1>3, SiteNow DEF PlaceOf, Changes, SitePlaces
<1>6. /\ TablesOK' /\ CachesOK' /\ UNCHANGED pageBy
      /\ RowsUnique /\ Settled => RowsUnique' /\ FindSite(n) = RowNamed(n) /\ Settled'
  BY <1>3, <1>4, <1>5, FillsName
<1>7. r \in Work /\ Asks(r)
  <2>1. CASE r = NoWork
    BY <1>5, <2>1, LookupTyped
  <2>2. CASE r = [works[w] EXCEPT !.at = "insert"]
    <3>1. r \in Work /\ r.at = "insert" /\ r.name = n /\ r.site = works[w].site
      BY <1>1, <1>4, <2>2 DEF Work, SitePlaces
    <3> QED
      BY <1>4, <3>1 DEF Asks, Nameless, Rowless
  <2> QED
    BY <1>2, <2>1, <2>2
<1>8. ASSUME ~ muddled
      PROVE  RowsUnique' /\ PagesMade' /\ PagesKnown' /\ Place(r)' /\ Settled'
  <2>1. RowsUnique /\ PagesMade /\ PagesKnown /\ Settled /\ n \notin renamed
    BY <1>1, <1>3, <1>8, SiteNow DEF PlaceOf, Unsettled, Place
  <2>2. RowsUnique' /\ FindSite(n) = RowNamed(n) /\ Settled'
    BY <1>6, <2>1
  <2>3. PagesMade' /\ PagesKnown'
    BY <1>3, <1>5, <1>6, <1>7, <2>1, KnownStays DEF PagesMade, tables, PlaceOf
  <2>4. Place(r)'
    <3>1. CASE r = NoWork
      BY <3>1 DEF Place, NoWork
    <3>2. CASE r # NoWork
      <4>1. r.at = "insert" /\ r.name = n /\ RowNamed(n) = EmptySite
        BY <1>1, <1>2, <1>4, <1>5, <2>1, <2>2, <3>2, RowFacts DEF Work
      <4>2. RowNamed(n)' = EmptySite
        BY <1>3, <1>4, <1>5, <2>1, <4>1, SameTables DEF tables
      <4> QED
        BY <1>3, <2>1, <4>1, <4>2 DEF Place
    <3> QED
      BY <3>1, <3>2
  <2> QED
    BY <2>2, <2>3, <2>4
<1> QED
  BY <1>3, <1>5, <1>6, <1>7, <1>8, SiteNow, ChangeDone DEF HistoryOK

(* The new row is the only one of its name, and cached.                    *)
LEMMA CreateSiteStep ==
    ASSUME SitesIInv, NEW w \in Admins, CreateSite(w)
    PROVE  SitesIInv'
<1>1. PICK n : n = works[w].name
  OBVIOUS
<1>2. PICK r : r = NoWork
  OBVIOUS
<1>3. PICK i : i = lastSite + 1
  OBVIOUS
<1>4. PICK z : z = [id |-> i, name |-> n]
  OBVIOUS
<1>5. /\ works[w].at = "insert" /\ lastSite < MaxSites /\ works' = [works EXCEPT ![w] = r]
      /\ IF RowNamed(n).id # 0 THEN UNCHANGED <<sites, lastSite, caches>>
         ELSE lastSite' = i /\ sites' = [sites EXCEPT ![i] = n] /\ SiteCacheSave(z)
      /\ UNCHANGED <<pages, lastPage, made, requests, renamed, muddled>>
  BY <1>1, <1>2, <1>3, <1>4 DEF CreateSite, SiteAt, Leaves, History
<1>6. /\ TablesOK /\ CachesOK /\ WorksOK /\ PlaceOf(w) \in Changes
      /\ PlaceOf(w) \notin {"rows", "save"}
  BY <1>5, SiteNow DEF PlaceOf, Changes, SitePlaces
<1>7. n \in Names /\ i \in SiteIds /\ i \in 0..MaxSites /\ z \in Site /\ i # 0
  <2>1. n \in Names
    BY <1>1, <1>5, SiteNow, RequestTyped DEF Nameless
  <2>2. i \in SiteIds /\ i \in 0..MaxSites /\ i # 0
    BY <1>3, <1>5, <1>6, SitesAssumption DEF TablesOK, SiteIds
  <2> QED
    BY <1>4, <2>1, <2>2 DEF Site
<1>8. r \in Work /\ Asks(r) /\ r.at = "idle"
  BY <1>2, <1>6, LookupTyped DEF NoWork
<1>9. TablesOK' /\ CachesOK' /\ UNCHANGED pageBy
  <2>1. CASE RowNamed(n).id # 0
    BY <1>5, <1>6, <2>1 DEF TablesOK, CachesOK, caches
  <2>2. CASE RowNamed(n).id = 0
    BY <1>5, <1>6, <1>7, <2>2 DEF TablesOK, CachesOK, SiteCacheSave
  <2> QED
    BY <2>1, <2>2
<1>10. ASSUME ~ muddled
       PROVE  RowsUnique' /\ PagesMade' /\ PagesKnown' /\ Place(r)' /\ Settled'
  <2>1. /\ RowsUnique /\ PagesMade /\ PagesKnown /\ Settled /\ n \notin renamed
        /\ RowNamed(n) = EmptySite
    BY <1>1, <1>5, <1>10, SiteNow DEF PlaceOf, Unsettled, Place
  <2>2. /\ lastSite' = i /\ sites' = [sites EXCEPT ![i] = n]
        /\ bySiteId' = [bySiteId EXCEPT ![i] = z] /\ bySiteName' = [bySiteName EXCEPT ![n] = z]
    BY <1>4, <1>5, <1>6, <2>1, RowFacts DEF SiteCacheSave
  <2>3. sites[i] = NoName /\ NoName \notin Names /\ lastSite \in Nat
    BY <1>3, <1>6, <1>7, <2>1, RowFacts, SitesAssumption DEF RowsUnique, TablesOK
  <2>4. \A j \in SiteIds : sites[j] # n
    <3> SUFFICES ASSUME NEW j \in SiteIds, sites[j] = n PROVE FALSE
      OBVIOUS
    <3>1. RowNamed(n) = [id |-> j, name |-> n] /\ j # 0 /\ EmptySite.id = 0
      BY <1>6, <1>7, <2>1, <2>3, RowFacts
    <3> QED
      BY <2>1, <3>1
  <2>5. RowsUnique'
    BY <1>3, <1>5, <1>6, <1>7, <2>1, <2>2, <2>3, <2>4 DEF RowsUnique, TablesOK, SiteIds
  <2>6. /\ \A m \in Names \ {n} : RowNamed(m)' = RowNamed(m)
        /\ \A j \in SiteIds \ {i} : RowOf(j)' = RowOf(j)
        /\ RowNamed(n)' = z /\ RowOf(i)' = z
    <3>1. PICK o \in Names \cup {NoName} : sites[i] = o
      BY <2>3
    <3>2. n \in Names \cup {NoName} /\ n # NoName /\ o = NoName
      BY <1>7, <2>3, <3>1
    <3>3. /\ \A m \in Names \ {o, n} : RowNamed(m)' = RowNamed(m)
          /\ \A j \in SiteIds \ {i} : RowOf(j)' = RowOf(j)
          /\ n # NoName => /\ RowNamed(n)' = [id |-> i, name |-> n]
                           /\ RowOf(i)' = [id |-> i, name |-> n]
      <4>1. TablesOK /\ RowsUnique /\ RowsUnique' /\ i \in SiteIds
        BY <1>6, <1>7, <2>1, <2>5
      <4>2. sites' = [sites EXCEPT ![i] = n]
        BY <2>2
      <4> QED
        BY <4>1, <4>2, <3>1, <3>2, OneRowChanges
    <3> QED
      BY <1>4, <2>3, <3>2, <3>3
  <2>7. PagesMade' /\ PagesKnown'
    BY <1>5, <1>6, <1>8, <1>9, <2>1, KnownStays DEF PagesMade
  <2>8. CachedRightBut(NoName, 0)'
    BY <1>6, <1>7, <2>1, <2>2, <2>6 DEF Settled, CachedRightBut, CachesOK
  <2>9. PagesRightBut(NoName)'
    <3> SUFFICES ASSUME NEW p \in PageIds, pages[p] # NoName
                 PROVE  RowNamed(pages[p])'.id = made[p]
      BY <1>5 DEF PagesRightBut
    <3>1. pages[p] \in Names /\ RowNamed(pages[p]).id = made[p] /\ made[p] # 0
      BY <1>6, <2>1 DEF TablesOK, Settled, PagesRightBut, PagesMade
    <3>2. pages[p] # n
      BY <1>6, <2>1, <3>1, RowFacts
    <3>3. PICK m \in Names : m = pages[p]
      BY <3>1
    <3>4. RowNamed(m)' = RowNamed(m)
      BY <2>6, <3>2, <3>3
    <3>5. pages' = pages
      BY <1>5
    <3> QED
      BY <3>1, <3>3, <3>4, <3>5
  <2>10. Place(r)'
    BY <1>8 DEF Place
  <2> QED
    BY <2>5, <2>7, <2>8, <2>9, <2>10 DEF Settled
<1> QED
  BY <1>5, <1>6, <1>8, <1>9, <1>10, SiteNow, ChangeDone DEF HistoryOK

-----------------------------------------------------------------------------
(* SiteUpdate.                                                             *)

(* The site that is found is what its row says.                            *)
LEMMA FindOldStep ==
    ASSUME SitesIInv, NEW w \in Admins, FindOld(w)
    PROVE  SitesIInv'
<1>1. PICK i : i = works[w].site.id
  OBVIOUS
<1>2. PICK s : s = FindSiteByID(i)
  OBVIOUS
<1>3. PICK n : n = works[w].name
  OBVIOUS
<1>4. PICK a \in {"delRow", "exists", "uncache"} :
         a = IF works[w].at = "delete" THEN "delRow" ELSE IF n # s.name THEN "exists" ELSE "uncache"
  OBVIOUS
<1>5. PICK r : r = IF s.id = 0 THEN NoWork ELSE [works[w] EXCEPT !.site = s, !.at = a]
  OBVIOUS
<1>6. /\ works[w].at \in {"rename", "delete"} /\ works \in [Admins -> Work]
      /\ UNCHANGED <<sites, lastSite, pages, lastPage, made, requests, renamed, muddled>>
      /\ bySiteId' = [bySiteId EXCEPT ![i] = s] /\ UNCHANGED <<bySiteName, pageBy>>
  BY <1>1, <1>2, SiteNow DEF FindOld, SiteAt, FilledId, tables, History, WorksOK
<1>7. works' = [works EXCEPT ![w] = r]
  <2>1. CASE s.id = 0
    BY <1>1, <1>2, <1>5, <2>1 DEF FindOld, Leaves
  <2>2. CASE s.id # 0
    <3>1. works' = [works EXCEPT ![w].site = s,
              ![w].at = IF @ = "delete" THEN "delRow" ELSE IF n # s.name THEN "exists"
                        ELSE "uncache"]
      BY <1>1, <1>2, <1>3, <2>2 DEF FindOld
    <3> QED
      BY <1>4, <1>5, <1>6, <2>2, <3>1
  <2> QED
    BY <2>1, <2>2
<1>8. /\ TablesOK /\ CachesOK /\ WorksOK /\ PlaceOf(w) \in Changes
      /\ PlaceOf(w) \notin {"rows", "save"}
  BY <1>6, SiteNow DEF PlaceOf, Changes, SitePlaces
<1>9. i \in SiteIds /\ s \in Site /\ works[w] \in Work
  <2>1. works[w] \in Work /\ i \in SiteIds
    BY <1>1, <1>6, SiteNow, RequestTyped DEF Rowless
  <2> QED
    BY <1>2, <1>8, <2>1, LookupTyped
<1>10. r \in Work /\ Asks(r) /\ (s.id # 0 => r.at = a /\ r.site = s /\ r.name = n)
  <2>1. CASE s.id = 0
    BY <1>5, <1>8, <2>1, LookupTyped
  <2>2. CASE s.id # 0
    <3>1. r \in Work /\ r.at = a /\ r.site = s /\ r.name = n
      BY <1>3, <1>4, <1>5, <1>9, <2>2 DEF Work, SitePlaces
    <3>2. works[w].at # "delete" => n # NoName
      BY <1>3, <1>6, SiteNow DEF Asks, Nameless
    <3>3. r.at \notin Nameless => works[w].at # "delete"
      BY <1>4, <3>1 DEF Nameless
    <3> QED
      BY <1>9, <2>2, <3>1, <3>2, <3>3 DEF Asks
  <2> QED
    BY <2>1, <2>2
<1>11. TablesOK' /\ CachesOK'
  BY <1>6, <1>8, <1>9 DEF TablesOK, CachesOK
<1>12. ASSUME ~ muddled
       PROVE  RowsUnique' /\ PagesMade' /\ PagesKnown' /\ Place(r)' /\ Settled'
  <2>1. /\ RowsUnique /\ PagesMade /\ PagesKnown /\ Settled /\ Place(works[w])
    BY <1>6, <1>12, SiteNow DEF PlaceOf, Unsettled
  <2>2. s = RowOf(i)
    BY <1>2, <1>9, <2>1, RowFacts, <1>8 DEF Settled, CachedRightBut, FindSiteByID
  <2>3. /\ RowsUnique'
        /\ \A m \in Names : RowNamed(m)' = RowNamed(m)
        /\ \A j \in SiteIds : RowOf(j)' = RowOf(j)
    BY <1>6, <1>8, <2>1, SameTables
  <2>4. PagesMade' /\ PagesKnown'
    BY <1>6, <1>7, <1>8, <1>10, <2>1, KnownStays DEF PagesMade
  <2>5. CachedRightBut(NoName, 0)'
    BY <1>6, <1>8, <1>9, <2>1, <2>2, <2>3 DEF Settled, CachedRightBut, CachesOK
  <2>6. PagesRightBut(NoName)'
    BY <1>6, <1>8, <2>1, <2>3 DEF Settled, PagesRightBut, TablesOK
  <2>7. Place(r)'
    <3>1. CASE s.id = 0
      BY <1>5, <3>1 DEF Place, NoWork
    <3>2. CASE s.id # 0
      <4>1. s.id = i
        BY <2>2, <3>2 DEF RowOf, EmptySite
      <4>2. FoundRow(s)'
        BY <1>9, <2>2, <2>3, <3>2, <4>1 DEF FoundRow
      <4>3. works[w].at = "rename" => n \notin renamed
        BY <1>3, <2>1 DEF Place
      <4>4. a = "exists" => n # s.name /\ n \notin renamed
        BY <1>4, <1>6, <4>3
      <4>5. a = "uncache" => n = s.name
        BY <1>4
      <4> QED
        BY <1>4, <1>6, <1>10, <3>2, <4>2, <4>4, <4>5 DEF Place
    <3> QED
      BY <3>1, <3>2
  <2> QED
    BY <2>3, <2>4, <2>5, <2>6, <2>7 DEF Settled
<1> QED
  BY <1>6, <1>7, <1>8, <1>10, <1>11, <1>12, SiteNow, ChangeDone DEF HistoryOK

(* Only a name that no site has is taken.                                  *)
LEMMA CheckNameStep ==
    ASSUME SitesIInv, NEW w \in Admins, CheckName(w)
    PROVE  SitesIInv'
<1>1. PICK n : n = works[w].name
  OBVIOUS
<1>2. PICK r : r = IF FindSite(n).id # 0 THEN NoWork ELSE [works[w] EXCEPT !.at = "uncache"]
  OBVIOUS
<1>3. /\ works[w].at = "exists" /\ FilledName(n) /\ works' = [works EXCEPT ![w] = r]
      /\ UNCHANGED <<tables, requests, renamed, muddled>>
  BY <1>1, <1>2 DEF CheckName, SiteAt, Leaves, SiteGoes, History
<1>4. /\ n \in Names /\ n # NoName /\ works[w] \in Work
      /\ works[w].site \in Site /\ works[w].site.id \in SiteIds /\ works[w].site.id # 0
  BY <1>1, <1>3, SiteNow, RequestTyped DEF Nameless, Rowless
<1>5. TablesOK /\ CachesOK /\ WorksOK /\ PlaceOf(w) \in Changes
  BY <1>3, SiteNow DEF PlaceOf, Changes, SitePlaces
<1>6. /\ TablesOK' /\ CachesOK' /\ UNCHANGED pageBy
      /\ RowsUnique /\ Settled => RowsUnique' /\ FindSite(n) = RowNamed(n) /\ Settled'
  BY <1>3, <1>4, <1>5, FillsName
<1>7. r \in Work /\ Asks(r)
  <2>1. CASE r = NoWork
    BY <1>5, <2>1, LookupTyped
  <2>2. CASE r = [works[w] EXCEPT !.at = "uncache"]
    <3>1. r \in Work /\ r.at = "uncache" /\ r.name = n /\ r.site = works[w].site
      BY <1>1, <1>4, <2>2 DEF Work, SitePlaces
    <3> QED
      BY <1>4, <3>1 DEF Asks
  <2> QED
    BY <1>2, <2>1, <2>2
<1>8. ASSUME ~ muddled
      PROVE  RowsUnique' /\ PagesMade' /\ PagesKnown' /\ Place(r)' /\ Settled'
  <2>1. /\ RowsUnique /\ PagesMade /\ PagesKnown /\ Settled
        /\ FoundRow(works[w].site) /\ n # works[w].site.name /\ n \notin renamed
    BY <1>1, <1>3, <1>8, SiteNow DEF PlaceOf, Unsettled, Place
  <2>2. RowsUnique' /\ FindSite(n) = RowNamed(n) /\ Settled'
    BY <1>6, <2>1
  <2>3. PagesMade' /\ PagesKnown'
    BY <1>3, <1>5, <1>6, <1>7, <2>1, KnownStays DEF PagesMade, tables, PlaceOf
  <2>4. Place(r)'
    <3>1. CASE r = NoWork
      BY <3>1 DEF Place, NoWork
    <3>2. CASE r # NoWork
      <4>1. PICK s : s = works[w].site
        OBVIOUS
      <4>2. /\ r.at = "uncache" /\ r.name = n /\ r.site = s /\ RowNamed(n) = EmptySite
        BY <1>1, <1>2, <1>4, <1>5, <2>1, <2>2, <3>2, <4>1, RowFacts DEF Work
      <4>3. s.id \in SiteIds
        BY <1>4, <4>1
      <4>4. RowNamed(n)' = EmptySite /\ RowOf(s.id)' = RowOf(s.id)
        BY <1>3, <1>4, <1>5, <2>1, <4>2, <4>3, SameTables DEF tables
      <4> QED
        BY <1>3, <2>1, <4>1, <4>2, <4>4 DEF Place, FoundRow, NewFor
    <3> QED
      BY <3>1, <3>2
  <2> QED
    BY <2>2, <2>3, <2>4
<1> QED
  BY <1>3, <1>5, <1>6, <1>7, <1>8, SiteNow, ChangeDone DEF HistoryOK

(* The site is forgotten under its old name and its id.                    *)
LEMMA UncacheOldStep ==
    ASSUME SitesIInv, NEW w \in Admins, UncacheOld(w)
    PROVE  SitesIInv'
<1>1. PICK s : s = works[w].site
  OBVIOUS
<1>2. PICK n : n = works[w].name
  OBVIOUS
<1>3. PICK a \in {"save", "list"} : a = IF n = s.name THEN "save" ELSE "list"
  OBVIOUS
<1>4. PICK r : r = [works[w] EXCEPT !.at = a]
  OBVIOUS
<1>5. /\ works[w].at = "uncache" /\ works' = [works EXCEPT ![w] = r]
      /\ bySiteId' = [bySiteId EXCEPT ![s.id] = Uncached]
      /\ bySiteName' = [bySiteName EXCEPT ![s.name] = Uncached]
      /\ UNCHANGED <<pageBy, sites, lastSite, pages, lastPage, made, requests, renamed, muddled>>
  BY <1>1, <1>2, <1>3, <1>4
     DEF UncacheOld, SiteAt, SiteGoes, SiteCacheDel, tables, History
<1>6. /\ TablesOK /\ CachesOK /\ WorksOK /\ PlaceOf(w) \in Changes
      /\ PlaceOf(w) \notin {"rows", "save"} /\ works[w] \in Work /\ Asks(works[w])
  BY <1>5, SiteNow DEF PlaceOf, Changes, SitePlaces
<1>7. r \in Work /\ r.at = a /\ r.site = s /\ r.name = n
  BY <1>1, <1>2, <1>3, <1>4, <1>6 DEF Work, SitePlaces
<1>8. n \in Names /\ s.id \in SiteIds /\ Asks(r)
  <2>1. n \in Names /\ n # NoName /\ s.id \in SiteIds /\ s.id # 0 /\ s \in Site
    BY <1>1, <1>2, <1>5, <1>6, RequestTyped DEF Nameless, Rowless
  <2> QED
    BY <1>7, <2>1 DEF Asks
<1>9. TablesOK' /\ CachesOK'
  BY <1>5, <1>6 DEF TablesOK, CachesOK
<1>10. ASSUME ~ muddled
       PROVE  RowsUnique' /\ PagesMade' /\ PagesKnown' /\ Place(r)' /\ Settled'
  <2>1. /\ RowsUnique /\ PagesMade /\ PagesKnown /\ Settled
        /\ FoundRow(s) /\ (n = s.name \/ NewFor(s, n))
    BY <1>1, <1>2, <1>5, <1>10, SiteNow DEF PlaceOf, Unsettled, Place
  <2>2. /\ RowsUnique'
        /\ \A m \in Names : RowNamed(m)' = RowNamed(m)
        /\ \A j \in SiteIds : RowOf(j)' = RowOf(j)
    BY <1>5, <1>6, <2>1, SameTables
  <2>3. PagesMade' /\ PagesKnown'
    BY <1>5, <1>6, <1>7, <2>1, KnownStays DEF PagesMade
  <2>4. s.name \in Names
    BY <1>6, <1>8, <2>1, FoundNamed
  <2>5. CachedRightBut(NoName, 0)' /\ Forgotten(s)'
    BY <1>5, <1>6, <1>8, <2>1, <2>2, <2>4 DEF Settled, CachedRightBut, CachesOK, Forgotten
  <2>6. PagesRightBut(NoName)'
    BY <1>5, <1>6, <2>1, <2>2 DEF Settled, PagesRightBut, TablesOK
  <2>7. FoundRow(s)' /\ (NewFor(s, n) => NewFor(s, n)')
    BY <1>5, <1>8, <2>1, <2>2 DEF FoundRow, NewFor
  <2>8. Place(r)'
    BY <1>3, <1>7, <2>1, <2>5, <2>6, <2>7 DEF Place, Settled
  <2> QED
    BY <2>2, <2>3, <2>5, <2>6, <2>8 DEF Settled
<1> QED
  BY <1>5, <1>6, <1>7, <1>8, <1>9, <1>10, SiteNow, ChangeDone DEF HistoryOK

(* While tables and caches stay, what holds at a place goes on to hold.    *)
LEMMA NothingChanges ==
    ASSUME TablesOK, CachesOK, RowsUnique, PagesMade, NEW r \in Work, Asks(r), Place(r),
           UNCHANGED <<tables, caches, renamed>>
    PROVE  /\ TablesOK' /\ CachesOK' /\ RowsUnique' /\ PagesMade' /\ Place(r)'
           /\ Settled => Settled'
<1>1. PICK s : s = r.site
  OBVIOUS
<1>2. PICK n : n = r.name
  OBVIOUS
<1>3. UNCHANGED <<sites, lastSite, pages, lastPage, made, pageBy, bySiteName, bySiteId>>
  BY DEF tables, caches
<1>4. TablesOK' /\ CachesOK' /\ PagesMade'
  BY <1>3 DEF TablesOK, CachesOK, PagesMade
<1>5. /\ RowsUnique'
      /\ \A m \in Names : RowNamed(m)' = RowNamed(m)
      /\ \A j \in SiteIds : RowOf(j)' = RowOf(j)
  BY <1>3, SameTables
<1>6. /\ r.at \notin Rowless => s.id \in SiteIds
      /\ r.at \in {"delList", "delPages", "delCache"} => s \in Site
      /\ r.at \notin Nameless => n \in Names
  BY <1>1, <1>2, RequestTyped DEF Rowless
<1>7. \A m : PagesRightBut(m) => PagesRightBut(m)'
  BY <1>3, <1>5 DEF PagesRightBut, TablesOK
<1>8. \A m, i : CachedRightBut(m, i) => CachedRightBut(m, i)'
  BY <1>3, <1>5 DEF CachedRightBut
<1>9. \A m : PagesOf(m)' = PagesOf(m)
  BY <1>3 DEF PagesOf
<1>10. s.id \in SiteIds /\ FoundRow(s) => FoundRow(s)'
  BY <1>5 DEF FoundRow
<1>11. n \in Names /\ NewFor(s, n) => NewFor(s, n)'
  BY <1>5 DEF NewFor
<1>12. Forgotten(s) => Forgotten(s)'
  BY <1>3 DEF Forgotten
<1>13. n \in Names /\ s.id \in SiteIds => \A t : Renaming(s, n, t) => Renaming(s, n, t)'
  BY <1>3, <1>7, <1>8, <1>9, <1>10, <1>11, <1>12 DEF Renaming
<1>14. s.id \in SiteIds /\ Deleting(s) => Deleting(s)'
  BY <1>5, <1>7, <1>8 DEF Deleting
<1>15. Settled => Settled'
  BY <1>7, <1>8 DEF Settled
<1>16. Place(r)'
  <2>1. r.at = "page" => s = RowNamed(n)'
    BY <1>1, <1>2, <1>5, <1>6 DEF Place, Nameless
  <2>2. r.at = "insert" => RowNamed(n)' = EmptySite
    BY <1>2, <1>5, <1>6 DEF Place, Nameless
  <2>3. r.at \in {"exists", "uncache", "list", "delRow"} => FoundRow(s)'
    BY <1>1, <1>6, <1>10 DEF Place, Rowless
  <2>4. /\ r.at = "uncache" => n = s.name \/ NewFor(s, n)'
        /\ r.at = "list" => NewFor(s, n)' /\ Forgotten(s)'
    BY <1>1, <1>2, <1>6, <1>11, <1>12 DEF Place, Nameless
  <2>5. r.at = "rows" => Renaming(s, n, r.todo)'
    BY <1>1, <1>2, <1>6, <1>13 DEF Place, Nameless, Rowless
  <2>6. r.at = "save" => IF n = s.name THEN FoundRow(s)' /\ Settled' /\ Forgotten(s)'
                         ELSE Renaming(s, n, {})'
    BY <1>1, <1>2, <1>6, <1>10, <1>12, <1>13, <1>15 DEF Place, Nameless, Rowless
  <2>7. r.at \in {"delList", "delPages", "delCache"} => Deleting(s)'
    BY <1>1, <1>6, <1>14 DEF Place, Rowless
  <2> QED
    BY <1>1, <1>2, <1>9, <2>1, <2>2, <2>3, <2>4, <2>5, <2>6, <2>7 DEF Place
<1> QED
  BY <1>4, <1>5, <1>15, <1>16

(* Nothing changes but where the request is and which pages it has before  *)
(* it.                                                                     *)
LEMMA PlainTurn ==
    ASSUME SitesIInv, NEW w \in Admins, NEW r \in Work, works' = [works EXCEPT ![w] = r],
           PlaceOf(w) \in {"list", "rows", "delList", "delPages"}, r.name = works[w].name,
           r.site = works[w].site, r.at \in {"rows", "save", "delPages", "delCache"},
           r.at \in {"rows", "save"} <=> PlaceOf(w) \in {"list", "rows"},
           UNCHANGED <<tables, caches, requests, renamed, muddled>>,
           ~ muddled => Place(r)
    PROVE  SitesIInv'
<1>1. /\ TablesOK /\ CachesOK /\ WorksOK /\ HistoryOK /\ Asks(works[w])
      /\ PlaceOf(w) \in Changes /\ r.at \in Unsettled
  BY SiteNow DEF Changes, SitePlaces, Unsettled
<1>2. Asks(r)
  BY <1>1 DEF Asks, Nameless, Rowless, PlaceOf
<1>3. /\ TablesOK' /\ CachesOK' /\ renamed' \subseteq Names
      /\ UNCHANGED <<pages, pageBy>>
  BY <1>1 DEF TablesOK, CachesOK, tables, caches, HistoryOK
<1>4. ASSUME ~ muddled PROVE RowsUnique' /\ PagesMade' /\ PagesKnown' /\ Place(r)'
  <2>1. RowsUnique /\ PagesMade /\ PagesKnown
    BY <1>4, SiteNow
  <2>2. RowsUnique' /\ PagesMade' /\ Place(r)'
    BY <1>1, <1>2, <1>4, <2>1, NothingChanges
  <2>3. PagesKnown'
    <3>1. works'[w] = r /\ \A v \in Admins \ {w} : works'[v] = works[v]
      BY <1>1, WorkGoes
    <3>2. \A m : Leaving(m) => Leaving(m)'
      BY <3>1 DEF Leaving, PlaceOf
    <3> QED
      BY <1>3, <2>1, <3>2 DEF PagesKnown, PageKnown
  <2> QED
    BY <2>2, <2>3
<1> QED
  BY <1>1, <1>2, <1>3, <1>4, ChangeDone

(* All pages of the site are listed, and the new name has none.            *)
LEMMA ListRowsStep ==
    ASSUME SitesIInv, NEW w \in Admins, ListRows(w)
    PROVE  SitesIInv'
<1>1. PICK s : s = works[w].site
  OBVIOUS
<1>2. PICK n : n = works[w].name
  OBVIOUS
<1>3. PICK t : t = PagesOf(s.name)
  OBVIOUS
<1>4. PICK a \in {"rows", "delPages"} : a = IF works[w].at = "list" THEN "rows" ELSE "delPages"
  OBVIOUS
<1>5. PICK r : r = [works[w] EXCEPT !.todo = t, !.at = a]
  OBVIOUS
<1>6. /\ works[w].at \in {"list", "delList"}
      /\ UNCHANGED <<tables, caches, requests, renamed, muddled>>
      /\ works' = [works EXCEPT ![w].todo = t,
                                ![w].at = IF @ = "list" THEN "rows" ELSE "delPages"]
  BY <1>1, <1>3 DEF ListRows, SiteAt, History
<1>7. works[w] \in Work /\ Asks(works[w]) /\ TablesOK /\ works \in [Admins -> Work]
  BY SiteNow DEF WorksOK
<1>8. works' = [works EXCEPT ![w] = r]
  BY <1>4, <1>5, <1>6, <1>7
<1>9. r \in Work /\ r.at = a /\ r.site = s /\ r.name = n /\ r.todo = t
  <2>1. t \in SUBSET PageIds
    BY <1>3 DEF PagesOf
  <2> QED
    BY <1>1, <1>2, <1>4, <1>5, <1>7, <2>1 DEF Work, SitePlaces
<1>10. ASSUME ~ muddled PROVE Place(r)
  <2>1. RowsUnique /\ PagesMade /\ Place(works[w]) /\ TablesOK
    BY <1>10, SiteNow
  <2>2. CASE works[w].at = "list"
    <3>1. Settled /\ NewFor(s, n) /\ FoundRow(s) /\ Forgotten(s)
      BY <1>1, <1>2, <1>10, <2>1, <2>2, SiteNow DEF PlaceOf, Unsettled, Place
    <3>2. n \in Names
      BY <1>2, <1>7, <2>2 DEF Asks, Nameless, Work
    <3>3. \A p \in PageIds : pages[p] # n
      <4> SUFFICES ASSUME NEW p \in PageIds, pages[p] = n PROVE FALSE
        OBVIOUS
      <4>1. RowNamed(n).id = made[p] /\ made[p] # 0
        BY <2>1, <3>1, <3>2, SitesAssumption DEF Settled, PagesRightBut, PagesMade
      <4>2. RowNamed(n).id = 0
        BY <3>1 DEF NewFor, EmptySite
      <4> QED
        BY <4>1, <4>2
    <3>4. PagesRightBut(n) /\ CachedRightBut(NoName, 0)
      BY <3>1 DEF Settled, PagesRightBut
    <3>5. Renaming(s, n, t)
      BY <1>3, <3>1, <3>3, <3>4 DEF Renaming
    <3> QED
      BY <1>4, <1>9, <2>2, <3>5 DEF Place
  <2>3. CASE works[w].at = "delList"
    <3>1. Deleting(s)
      BY <1>1, <2>1, <2>3 DEF Place
    <3> QED
      BY <1>3, <1>4, <1>9, <2>3, <3>1 DEF Place
  <2> QED
    BY <1>6, <2>2, <2>3
<1> QED
  BY <1>1, <1>2, <1>4, <1>6, <1>8, <1>9, <1>10, PlainTurn DEF PlaceOf

(* A page goes over to the new name, with its place in the cache.          *)
LEMMA RenameRowStep ==
    ASSUME SitesIInv, NEW w \in Admins, RenameRow(w)
    PROVE  SitesIInv'
<1>1. PICK s : s = works[w].site
  OBVIOUS
<1>2. PICK n : n = works[w].name
  OBVIOUS
<1>3. PICK t : t = works[w].todo
  OBVIOUS
<1>4. /\ works[w].at = "rows"
      /\ UNCHANGED <<sites, lastSite, lastPage, made, bySiteName, bySiteId, requests, renamed,
                     muddled>>
  BY DEF RenameRow, SiteAt, History
<1>5. /\ TablesOK /\ CachesOK /\ WorksOK /\ PlaceOf(w) \in Changes
      /\ works[w] \in Work /\ Asks(works[w])
  BY <1>4, SiteNow DEF PlaceOf, Changes, SitePlaces
<1>6. /\ s \in Site /\ s.id \in SiteIds /\ s.id # 0 /\ n \in Names /\ n # NoName
      /\ t \subseteq PageIds
  <2>1. t \subseteq PageIds
    BY <1>3, <1>5 DEF Work
  <2> QED
    BY <1>1, <1>2, <1>4, <1>5, <2>1, RequestTyped DEF Nameless, Rowless
<1>7. ~ muddled => Renaming(s, n, t) /\ RowsUnique /\ PagesMade /\ PagesKnown /\ Alone
  BY <1>1, <1>2, <1>3, <1>4, SiteNow DEF Place
<1>8. CASE t = {}
  <2>1. PICK r : r = [works[w] EXCEPT !.at = "save"]
    OBVIOUS
  <2>2. works' = [works EXCEPT ![w] = r] /\ UNCHANGED <<pages, pageBy>>
    BY <1>3, <1>8, <2>1 DEF RenameRow, SiteGoes
  <2>3. r \in Work /\ r.at = "save" /\ r.site = s /\ r.name = n
    BY <1>1, <1>2, <1>5, <2>1 DEF Work, SitePlaces
  <2>4. ~ muddled => Place(r)
    BY <1>7, <1>8, <2>3 DEF Place, Renaming, NewFor
  <2>5. UNCHANGED <<tables, caches>>
    BY <1>4, <2>2 DEF tables, caches
  <2> QED
    BY <1>1, <1>2, <1>4, <2>2, <2>3, <2>4, <2>5, PlainTurn DEF PlaceOf
<1>9. CASE t # {}
  <2>1. PICK p \in t : /\ pages' = [pages EXCEPT ![p] = n] /\ pageBy' = [pageBy EXCEPT ![n] = p]
                       /\ works' = [works EXCEPT ![w].todo = @ \ {p}]
    BY <1>2, <1>3, <1>9 DEF RenameRow
  <2>2. PICK r : r = [works[w] EXCEPT !.todo = t \ {p}]
    OBVIOUS
  <2>3. works' = [works EXCEPT ![w] = r]
    BY <1>3, <1>5, <2>1, <2>2 DEF WorksOK
  <2>4. r \in Work /\ r.at = "rows" /\ r.site = s /\ r.name = n /\ r.todo = t \ {p}
    BY <1>1, <1>2, <1>4, <1>5, <1>6, <2>2 DEF Work
  <2>5. Asks(r)
    BY <1>6, <2>4 DEF Asks
  <2>6. p \in PageIds /\ p \in 0..MaxPageRows /\ p # 0
    BY <1>6, SitesAssumption DEF PageIds
  <2>7. TablesOK' /\ CachesOK' /\ renamed' \subseteq Names
    BY <1>4, <1>5, <1>6, <2>1, <2>6, SiteNow DEF TablesOK, CachesOK, HistoryOK
  <2>8. ASSUME ~ muddled
        PROVE  RowsUnique' /\ PagesMade' /\ PagesKnown' /\ Place(r)'
    <3>1. /\ FoundRow(s) /\ NewFor(s, n) /\ Forgotten(s)
          /\ PagesRightBut(n) /\ CachedRightBut(NoName, 0)
          /\ \A q \in PageIds : pages[q] = n => made[q] = s.id
          /\ PagesOf(s.name) = t
          /\ RowsUnique /\ PagesMade /\ PagesKnown /\ Alone
      BY <1>7, <2>8 DEF Renaming
    <3>2. /\ RowsUnique'
          /\ \A m \in Names : RowNamed(m)' = RowNamed(m)
          /\ \A j \in SiteIds : RowOf(j)' = RowOf(j)
      BY <1>4, <1>5, <3>1, SameTables
    <3>3. RowNamed(s.name) = s /\ s.name \in Names
      BY <1>5, <1>6, <3>1, FoundNamed
    <3>4. n # s.name /\ pages[p] = s.name /\ s.name # NoName
      BY <3>1, <3>3, SitesAssumption DEF PagesOf, NewFor
    <3>5. made[p] = s.id /\ p <= lastPage
      BY <2>6, <3>1, <3>3, <3>4 DEF PagesRightBut, PagesMade
    <3>6. pages'[p] = n /\ \A q \in PageIds \ {p} : pages'[q] = pages[q]
      BY <1>5, <2>1, <2>6 DEF TablesOK
    <3>7. PagesMade'
      BY <1>4, <1>6, <3>1, <3>5, <3>6 DEF PagesMade
    <3>8. PagesRightBut(n)' /\ \A q \in PageIds : pages'[q] = n => made'[q] = s.id
      <4>1. \A q \in PageIds : pages'[q] = n => made'[q] = s.id
        BY <1>4, <3>1, <3>5, <3>6
      <4>2. PagesRightBut(n)'
        <5> SUFFICES ASSUME NEW q \in PageIds, pages'[q] # NoName, pages'[q] # n
                     PROVE  RowNamed(pages[q])'.id = made[q]
          BY <1>4 DEF PagesRightBut
        <5>1. PICK m : m = pages[q]
          OBVIOUS
        <5>2. q # p /\ pages'[q] = m /\ m \in Names
          BY <1>5, <3>6, <5>1 DEF TablesOK
        <5>3. RowNamed(m).id = made[q]
          BY <3>1, <5>1, <5>2 DEF PagesRightBut
        <5> QED
          BY <3>2, <5>2, <5>3
      <4> QED
        BY <4>1, <4>2
    <3>9. CachedRightBut(NoName, 0)'
      BY <1>4, <3>1, <3>2 DEF CachedRightBut
    <3>10. PagesOf(s.name)' = t \ {p}
      BY <1>6, <3>1, <3>4, <3>6 DEF PagesOf
    <3>11. FoundRow(s)' /\ NewFor(s, n)' /\ Forgotten(s)'
      BY <1>4, <1>6, <3>1, <3>2 DEF FoundRow, NewFor, Forgotten
    <3>12. Place(r)'
      <4>1. Renaming(s, n, t \ {p})'
        BY <3>8, <3>9, <3>10, <3>11 DEF Renaming
      <4> QED
        BY <2>4, <4>1 DEF Place
    <3>13. PagesKnown'
      <4> SUFFICES ASSUME NEW m \in Names PROVE m \in renamed' \/ Leaving(m)' \/ PageKnown(m)'
        BY DEF PagesKnown
      <4>1. works'[w] = r /\ \A v \in Admins \ {w} : works'[v].at = "idle" /\ works[v].at = "idle"
        BY <1>5, <2>3, <2>4, <3>1, WorkGoes DEF Alone, PlaceOf
      <4>2. CASE m = s.name
        BY <2>4, <3>4, <4>1, <4>2 DEF Leaving, PlaceOf
      <4>3. CASE m = n
        <5>1. pageBy'[m] = p
          BY <1>5, <1>6, <2>1, <4>3 DEF CachesOK
        <5> QED
          BY <2>6, <3>6, <4>3, <5>1 DEF PageKnown
      <4>4. CASE m # s.name /\ m # n
        <5>1. m \in renamed \/ PageKnown(m)
          BY <1>1, <3>1, <4>1, <4>4 DEF PagesKnown, Leaving, PlaceOf
        <5>2. pageBy'[m] = pageBy[m] /\ pageBy[m] \in 0..MaxPageRows \cup {Uncached}
          BY <1>5, <2>1, <4>4 DEF CachesOK
        <5>3. CASE PageKnown(m) /\ pageBy[m] # Uncached
          <6>1. pageBy[m] \in PageIds /\ pages[pageBy[m]] = m /\ pageBy[m] # 0
            BY <5>2, <5>3, SitesAssumption DEF PageKnown, PageIds
          <6>2. pageBy[m] # p
            BY <3>4, <4>4, <6>1
          <6> QED
            BY <3>6, <5>2, <6>1, <6>2 DEF PageKnown
        <5>4. CASE pageBy[m] = Uncached
          BY <5>2, <5>4 DEF PageKnown
        <5> QED
          BY <1>4, <5>1, <5>3, <5>4
      <4> QED
        BY <4>2, <4>3, <4>4
    <3> QED
      BY <3>2, <3>7, <3>12, <3>13
  <2>9. r.at \in Unsettled
    BY <2>4 DEF Unsettled
  <2> QED
    BY <1>4, <1>5, <2>3, <2>4, <2>5, <2>7, <2>8, <2>9, ChangeDone
<1> QED
  BY <1>8, <1>9

(* The row follows when no page has the old name any more.                 *)
LEMMA UpdateSiteStep ==
    ASSUME SitesIInv, NEW w \in Admins, UpdateSite(w)
    PROVE  SitesIInv'
<1>1. PICK s : s = works[w].site
  OBVIOUS
<1>2. PICK n : n = works[w].name
  OBVIOUS
<1>3. PICK z : z = [s EXCEPT !.name = n]
  OBVIOUS
<1>4. PICK r : r = NoWork
  OBVIOUS
<1>5. works[w].at = "save" /\ works[w] \in Work /\ Asks(works[w])
  BY SiteNow DEF UpdateSite, SiteAt
<1>6. /\ s.id \in SiteIds /\ s.id # 0 /\ s.name \in Names /\ n \in Names
      /\ z \in Site /\ z.id = s.id /\ z.name = n /\ z = [id |-> s.id, name |-> n]
  <2>1. s \in Site /\ s.id \in SiteIds /\ s.id # 0 /\ s.name \in Names /\ n \in Names
    BY <1>1, <1>2, <1>5, RequestTyped DEF Nameless, Rowless
  <2>2. s \in [id : SiteIds, name : Names]
    BY <2>1 DEF Site, EmptySite
  <2> QED
    BY <1>3, <2>1, <2>2 DEF Site
<1>7. /\ works' = [works EXCEPT ![w] = r]
      /\ sites' = IF RowNamed(n).id \in {0, s.id} THEN [sites EXCEPT ![s.id] = n] ELSE sites
      /\ bySiteId' = [bySiteId EXCEPT ![s.id] = z] /\ bySiteName' = [bySiteName EXCEPT ![n] = z]
      /\ renamed' = renamed \cup ({s.name} \ {n})
      /\ UNCHANGED <<pageBy, lastSite, pages, lastPage, made, requests, muddled>>
  BY <1>1, <1>2, <1>3, <1>4, <1>6 DEF UpdateSite, Leaves, SiteCacheSave
<1>8. /\ TablesOK /\ CachesOK /\ WorksOK /\ HistoryOK /\ PlaceOf(w) \in Changes
  BY <1>5, SiteNow DEF PlaceOf, Changes, SitePlaces
<1>9. r \in Work /\ Asks(r) /\ r.at = "idle" /\ Place(r)'
  BY <1>4, <1>8, LookupTyped DEF NoWork, Place
<1>10. TablesOK' /\ CachesOK'
  BY <1>6, <1>7, <1>8 DEF TablesOK, CachesOK
<1>11. ASSUME ~ muddled
       PROVE  /\ RowsUnique' /\ PagesMade' /\ PagesKnown' /\ Settled'
              /\ s.name \in Names
  <2>1. /\ RowsUnique /\ PagesMade /\ PagesKnown /\ Alone
        /\ FoundRow(s) /\ Forgotten(s) /\ CachedRightBut(NoName, 0)
        /\ IF n = s.name THEN Settled ELSE Renaming(s, n, {})
    BY <1>1, <1>2, <1>5, <1>11, SiteNow DEF Place, Renaming, Settled
  <2>2. /\ s.name \in Names /\ sites[s.id] = s.name /\ s.name # NoName
        /\ s = [id |-> s.id, name |-> s.name] /\ RowNamed(s.name) = s
    BY <1>6, <1>8, <2>1, FoundNamed
  <2>3. PagesMade'
    BY <1>7, <2>1 DEF PagesMade
  <2>4. \A m \in Names : m \in renamed' \/ PageKnown(m)
    <3> SUFFICES ASSUME NEW m \in Names, m \notin renamed' PROVE PageKnown(m)
      OBVIOUS
    <3>1. \A v \in Admins \ {w} : works[v].at = "idle"
      BY <1>8, <2>1 DEF Alone, PlaceOf
    <3>2. Leaving(m) => s.name = m /\ n # m
      BY <1>1, <1>2, <3>1 DEF Leaving, PlaceOf
    <3>3. ~ Leaving(m) /\ m \notin renamed
      BY <1>7, <3>2
    <3> QED
      BY <2>1, <3>3 DEF PagesKnown
  <2>5. PagesKnown'
    BY <1>7, <2>4 DEF PagesKnown, PageKnown
  <2>6. CASE n = s.name
    <3>1. sites' = sites /\ z = s /\ renamed' = renamed
      BY <1>6, <1>7, <1>8, <2>2, <2>6 DEF TablesOK
    <3>2. /\ RowsUnique'
          /\ \A m \in Names : RowNamed(m)' = RowNamed(m)
          /\ \A j \in SiteIds : RowOf(j)' = RowOf(j)
      BY <1>7, <1>8, <2>1, <3>1, SameTables
    <3>3. CachedRightBut(NoName, 0)'
      BY <1>6, <1>7, <1>8, <2>1, <2>2, <2>6, <3>1, <3>2 DEF CachedRightBut, CachesOK, FoundRow
    <3>4. PagesRightBut(NoName)'
      BY <1>7, <1>8, <2>1, <2>6, <3>2 DEF Settled, PagesRightBut, TablesOK
    <3> QED
      BY <2>2, <2>3, <2>5, <3>2, <3>3, <3>4 DEF Settled
  <2>7. CASE n # s.name
    <3>1. /\ NewFor(s, n) /\ PagesRightBut(n) /\ PagesOf(s.name) = {}
          /\ \A q \in PageIds : pages[q] = n => made[q] = s.id
      BY <2>1, <2>7 DEF Renaming
    <3>2. sites' = [sites EXCEPT ![s.id] = n]
      BY <1>7, <3>1 DEF NewFor, EmptySite
    <3>3. \A j \in SiteIds : sites[j] # n
      <4> SUFFICES ASSUME NEW j \in SiteIds, sites[j] = n PROVE FALSE
        OBVIOUS
      <4>1. RowNamed(n) = [id |-> j, name |-> n] /\ j # 0 /\ EmptySite.id = 0
        BY <1>6, <1>8, <2>1, RowFacts
      <4> QED
        BY <3>1, <4>1 DEF NewFor
    <3>4. RowsUnique'
      <4>1. /\ sites'[s.id] = n /\ \A j \in SiteIds \ {s.id} : sites'[j] = sites[j]
        BY <1>6, <1>8, <3>2 DEF TablesOK
      <4>2. \A i, j \in SiteIds : sites'[i] = sites'[j] /\ sites'[i] # NoName => i = j
        BY <2>1, <3>3, <4>1 DEF RowsUnique
      <4>3. \A i \in SiteIds : i > lastSite => sites'[i] = NoName
        BY <2>1, <2>2, <1>6, <4>1 DEF RowsUnique
      <4>4. \A i \in SiteIds : sites'[i] \notin renamed'
        <5> SUFFICES ASSUME NEW i \in SiteIds PROVE sites'[i] \notin renamed'
          OBVIOUS
        <5>1. CASE i = s.id
          BY <1>7, <2>7, <3>1, <4>1, <5>1 DEF NewFor
        <5>2. CASE i # s.id
          BY <1>6, <1>7, <2>1, <2>2, <4>1, <5>2 DEF RowsUnique
        <5> QED
          BY <5>1, <5>2
      <4> QED
        BY <1>7, <4>2, <4>3, <4>4 DEF RowsUnique
    <3>5. PICK o \in Names \cup {NoName} : sites[s.id] = o
      BY <2>2
    <3>6. PICK i \in SiteIds : i = s.id
      BY <1>6
    <3>7. /\ \A m \in Names \ {o, n} : RowNamed(m)' = RowNamed(m)
          /\ \A j \in SiteIds \ {i} : RowOf(j)' = RowOf(j)
          /\ n # NoName => /\ RowNamed(n)' = [id |-> i, name |-> n]
                           /\ RowOf(i)' = [id |-> i, name |-> n]
          /\ o \in Names \ {n} => RowNamed(o)' = EmptySite
      <4>1. TablesOK /\ RowsUnique /\ RowsUnique' /\ n \in Names \cup {NoName} /\ sites[i] = o
        BY <1>6, <1>8, <2>1, <3>4, <3>5, <3>6
      <4>2. sites' = [sites EXCEPT ![i] = n]
        BY <3>2, <3>6
      <4> QED
        BY <4>1, <4>2, OneRowChanges
    <3>8. /\ \A m \in Names \ {s.name, n} : RowNamed(m)' = RowNamed(m)
          /\ \A j \in SiteIds \ {s.id} : RowOf(j)' = RowOf(j)
          /\ RowNamed(n)' = z /\ RowOf(s.id)' = z
      BY <1>6, <2>2, <3>5, <3>6, <3>7, SitesAssumption
    <3>9. CachedRightBut(NoName, 0)'
      <4>1. \A m \in Names \ {NoName} : bySiteName'[m] \in {Uncached, RowNamed(m)'}
        <5> SUFFICES ASSUME NEW m \in Names PROVE bySiteName'[m] \in {Uncached, RowNamed(m)'}
          OBVIOUS
        <5>1. CASE m = n
          BY <1>6, <1>7, <1>8, <3>8, <5>1 DEF CachesOK
        <5>2. CASE m = s.name
          BY <1>7, <1>8, <2>1, <2>7, <5>2 DEF CachesOK, Forgotten
        <5>3. CASE m # n /\ m # s.name
          BY <1>7, <1>8, <2>1, <3>8, <5>3, SitesAssumption DEF CachesOK, CachedRightBut
        <5> QED
          BY <5>1, <5>2, <5>3
      <4>2. \A j \in SiteIds \ {0} : bySiteId'[j] \in {Uncached, RowOf(j)'}
        BY <1>6, <1>7, <1>8, <2>1, <3>8 DEF CachesOK, CachedRightBut
      <4> QED
        BY <4>1, <4>2 DEF CachedRightBut
    <3>10. PagesRightBut(NoName)'
      <4> SUFFICES ASSUME NEW q \in PageIds, pages[q] # NoName
                   PROVE  RowNamed(pages[q])'.id = made[q]
        BY <1>7 DEF PagesRightBut
      <4>1. PICK m : m = pages[q]
        OBVIOUS
      <4>2. m \in Names /\ m # s.name /\ pages' = pages
        BY <1>7, <1>8, <3>1, <4>1 DEF TablesOK, PagesOf
      <4>3. CASE m = n
        BY <1>6, <3>1, <3>8, <4>1, <4>2, <4>3
      <4>4. CASE m # n
        <5>1. RowNamed(m).id = made[q] /\ RowNamed(m)' = RowNamed(m)
          BY <3>1, <3>8, <4>1, <4>2, <4>4 DEF PagesRightBut
        <5> QED
          BY <4>1, <4>2, <5>1
      <4> QED
        BY <4>3, <4>4
    <3> QED
      BY <2>2, <2>3, <2>5, <3>4, <3>9, <3>10 DEF Settled
  <2> QED
    BY <2>6, <2>7
<1>12. renamed' \subseteq Names
  BY <1>6, <1>7, <1>8 DEF HistoryOK
<1> QED
  BY <1>7, <1>8, <1>9, <1>10, <1>11, <1>12, ChangeDone

-----------------------------------------------------------------------------
(* SiteDelete.                                                             *)

(* Only the pages and caches of the deleted site are wrong now.            *)
LEMMA DelSiteRowStep ==
    ASSUME SitesIInv, NEW w \in Admins, DelSiteRow(w)
    PROVE  SitesIInv'
<1>1. PICK s : s = works[w].site
  OBVIOUS
<1>2. PICK r : r = [works[w] EXCEPT !.at = "delList"]
  OBVIOUS
<1>3. /\ works[w].at = "delRow" /\ works' = [works EXCEPT ![w] = r]
      /\ sites' = [sites EXCEPT ![s.id] = NoName]
      /\ UNCHANGED <<lastSite, pages, lastPage, made, bySiteName, bySiteId, pageBy,
                     requests, renamed, muddled>>
  BY <1>1, <1>2 DEF DelSiteRow, SiteAt, SiteGoes, caches, History
<1>4. /\ TablesOK /\ CachesOK /\ WorksOK /\ HistoryOK /\ PlaceOf(w) \in Changes
      /\ PlaceOf(w) \notin {"rows", "save"} /\ works[w] \in Work /\ Asks(works[w])
  BY <1>3, SiteNow DEF PlaceOf, Changes, SitePlaces
<1>5. /\ s \in Site /\ s.id \in SiteIds /\ s.id # 0 /\ s.name \in Names
  BY <1>1, <1>3, <1>4, RequestTyped DEF Rowless
<1>6. r \in Work /\ r.at = "delList" /\ r.site = s
  BY <1>1, <1>2, <1>4 DEF Work, SitePlaces
<1>7. Asks(r)
  BY <1>5, <1>6 DEF Asks, Nameless
<1>8. TablesOK' /\ CachesOK' /\ renamed' \subseteq Names
  BY <1>3, <1>4, <1>5 DEF TablesOK, CachesOK, HistoryOK
<1>9. ASSUME ~ muddled
      PROVE  RowsUnique' /\ PagesMade' /\ PagesKnown' /\ Place(r)'
  <2>1. RowsUnique /\ PagesMade /\ PagesKnown /\ FoundRow(s) /\ Settled
    BY <1>1, <1>3, <1>9, SiteNow DEF PlaceOf, Unsettled, Place
  <2>2. sites[s.id] = s.name /\ s.name # NoName
    BY <1>4, <1>5, <2>1, FoundNamed
  <2>3. /\ sites'[s.id] = NoName /\ \A j \in SiteIds \ {s.id} : sites'[j] = sites[j]
    BY <1>3, <1>4, <1>5 DEF TablesOK
  <2>4. NoName \notin renamed
    BY <1>4, SitesAssumption DEF HistoryOK
  <2>5. RowsUnique'
    BY <1>3, <1>5, <2>1, <2>3, <2>4 DEF RowsUnique
  <2>6. PICK o \in Names : o = s.name
    BY <1>5
  <2>7. PICK i \in SiteIds : i = s.id
    BY <1>5
  <2>8. /\ \A m \in Names \ {o, NoName} : RowNamed(m)' = RowNamed(m)
        /\ \A j \in SiteIds \ {i} : RowOf(j)' = RowOf(j)
        /\ RowOf(i)' = EmptySite /\ RowNamed(o)' = EmptySite
    <3>1. /\ TablesOK /\ RowsUnique /\ RowsUnique' /\ sites[i] = o
          /\ o \in Names \ {NoName} /\ NoName \in Names \cup {NoName} /\ o \in Names \cup {NoName}
      BY <1>4, <2>1, <2>2, <2>5, <2>6, <2>7
    <3>2. sites' = [sites EXCEPT ![i] = NoName]
      BY <1>3, <2>7
    <3> QED
      BY <3>1, <3>2, OneRowChanges
  <2>9. PagesMade' /\ PagesKnown'
    BY <1>3, <1>4, <1>6, <2>1, KnownStays DEF PagesMade
  <2>10. PagesRightBut(s.name)'
    <3> SUFFICES ASSUME NEW q \in PageIds, pages[q] # NoName, pages[q] # s.name
                 PROVE  RowNamed(pages[q])'.id = made[q]
      BY <1>3 DEF PagesRightBut
    <3>1. PICK m : m = pages[q]
      OBVIOUS
    <3>2. m \in Names \ {o, NoName} /\ pages' = pages
      BY <1>3, <1>4, <2>6, <3>1 DEF TablesOK
    <3>3. RowNamed(m).id = made[q]
      BY <2>1, <3>1 DEF Settled, PagesRightBut
    <3> QED
      BY <2>8, <3>1, <3>2, <3>3
  <2>11. CachedRightBut(s.name, s.id)'
    <3>1. NoName \notin Names /\ 0 \notin SiteIds
      BY SitesAssumption DEF SiteIds
    <3> QED
      BY <1>3, <2>1, <2>6, <2>7, <2>8, <3>1 DEF Settled, CachedRightBut
  <2>12. Deleting(s)'
    BY <1>5, <2>6, <2>7, <2>8, <2>10, <2>11 DEF Deleting
  <2>13. Place(r)'
    BY <1>6, <2>12 DEF Place
  <2> QED
    BY <2>5, <2>9, <2>13
<1>10. r.at \in Unsettled
  BY <1>6 DEF Unsettled
<1> QED
  BY <1>3, <1>4, <1>6, <1>7, <1>8, <1>9, <1>10, ChangeDone

(* A page goes, and what is cached of it.                                  *)
LEMMA DelOnePageStep ==
    ASSUME SitesIInv, NEW w \in Admins, DelOnePage(w)
    PROVE  SitesIInv'
<1>1. PICK s : s = works[w].site
  OBVIOUS
<1>2. PICK n : n = works[w].name
  OBVIOUS
<1>3. PICK t : t = works[w].todo
  OBVIOUS
<1>4. /\ works[w].at = "delPages"
      /\ UNCHANGED <<sites, lastSite, lastPage, made, bySiteName, bySiteId, requests, renamed,
                     muddled>>
  BY DEF DelOnePage, SiteAt, History
<1>5. /\ TablesOK /\ CachesOK /\ WorksOK /\ PlaceOf(w) \in Changes
      /\ works[w] \in Work /\ Asks(works[w])
  BY <1>4, SiteNow DEF PlaceOf, Changes, SitePlaces
<1>6. s \in Site /\ s.id \in SiteIds /\ s.id # 0 /\ s.name \in Names /\ t \subseteq PageIds
  <2>1. t \subseteq PageIds
    BY <1>3, <1>5 DEF Work
  <2> QED
    BY <1>1, <1>4, <1>5, <2>1, RequestTyped DEF Rowless
<1>7. ~ muddled => /\ Deleting(s) /\ PagesOf(s.name) = t
                   /\ RowsUnique /\ PagesMade /\ PagesKnown /\ Alone
  BY <1>1, <1>3, <1>4, SiteNow DEF Place
<1>8. CASE t = {}
  <2>1. PICK r : r = [works[w] EXCEPT !.at = "delCache"]
    OBVIOUS
  <2>2. works' = [works EXCEPT ![w] = r] /\ UNCHANGED <<pages, pageBy>>
    BY <1>3, <1>8, <2>1 DEF DelOnePage, SiteGoes
  <2>3. r \in Work /\ r.at = "delCache" /\ r.site = s /\ r.name = n
    BY <1>1, <1>2, <1>5, <2>1 DEF Work, SitePlaces
  <2>4. ~ muddled => Place(r)
    BY <1>7, <1>8, <2>3 DEF Place
  <2>5. UNCHANGED <<tables, caches>>
    BY <1>4, <2>2 DEF tables, caches
  <2> QED
    BY <1>1, <1>2, <1>4, <2>2, <2>3, <2>4, <2>5, PlainTurn DEF PlaceOf
<1>9. CASE t # {}
  <2>1. PICK p \in t : /\ pages' = [pages EXCEPT ![p] = NoName]
                       /\ pageBy' = [pageBy EXCEPT ![s.name] = Uncached]
                       /\ works' = [works EXCEPT ![w].todo = @ \ {p}]
    BY <1>1, <1>3, <1>9 DEF DelOnePage
  <2>2. PICK r : r = [works[w] EXCEPT !.todo = t \ {p}]
    OBVIOUS
  <2>3. works' = [works EXCEPT ![w] = r]
    BY <1>3, <1>5, <2>1, <2>2 DEF WorksOK
  <2>4. r \in Work /\ r.at = "delPages" /\ r.site = s /\ r.todo = t \ {p}
    BY <1>1, <1>4, <1>5, <1>6, <2>2 DEF Work
  <2>5. Asks(r)
    BY <1>6, <2>4 DEF Asks, Nameless
  <2>6. p \in PageIds
    BY <1>6
  <2>7. TablesOK' /\ CachesOK' /\ renamed' \subseteq Names
    BY <1>4, <1>5, <1>6, <2>1, <2>6, SiteNow DEF TablesOK, CachesOK, HistoryOK
  <2>8. ASSUME ~ muddled
        PROVE  RowsUnique' /\ PagesMade' /\ PagesKnown' /\ Place(r)'
    <3>1. /\ RowOf(s.id) = EmptySite /\ RowNamed(s.name) = EmptySite
          /\ PagesRightBut(s.name) /\ CachedRightBut(s.name, s.id) /\ PagesOf(s.name) = t
          /\ RowsUnique /\ PagesMade /\ PagesKnown /\ Alone
      BY <1>7, <2>8 DEF Deleting
    <3>2. /\ RowsUnique'
          /\ \A m \in Names : RowNamed(m)' = RowNamed(m)
          /\ \A j \in SiteIds : RowOf(j)' = RowOf(j)
      BY <1>4, <1>5, <3>1, SameTables
    <3>3. pages[p] = s.name /\ s.name # NoName
      BY <1>6, <3>1, SitesAssumption DEF PagesOf
    <3>4. pages'[p] = NoName /\ \A q \in PageIds \ {p} : pages'[q] = pages[q]
      BY <1>5, <2>1, <2>6 DEF TablesOK
    <3>5. PagesMade'
      BY <1>4, <3>1, <3>4 DEF PagesMade
    <3>6. PagesRightBut(s.name)'
      <4> SUFFICES ASSUME NEW q \in PageIds, pages'[q] # NoName, pages'[q] # s.name
                   PROVE  RowNamed(pages[q])'.id = made[q]
        BY <1>4 DEF PagesRightBut
      <4>1. PICK m : m = pages[q]
        OBVIOUS
      <4>2. q # p /\ pages'[q] = m /\ m \in Names
        BY <1>5, <3>4, <4>1 DEF TablesOK
      <4>3. RowNamed(m).id = made[q]
        BY <3>1, <4>1, <4>2 DEF PagesRightBut
      <4> QED
        BY <3>2, <4>2, <4>3
    <3>7. CachedRightBut(s.name, s.id)'
      BY <1>4, <3>1, <3>2 DEF CachedRightBut
    <3>8. PagesOf(s.name)' = t \ {p}
      BY <1>6, <3>1, <3>3, <3>4 DEF PagesOf
    <3>9. Deleting(s)'
      BY <1>6, <3>1, <3>2, <3>6, <3>7 DEF Deleting
    <3>10. Place(r)'
      BY <2>4, <3>8, <3>9 DEF Place
    <3>11. PagesKnown'
      <4> SUFFICES ASSUME NEW m \in Names PROVE m \in renamed' \/ PageKnown(m)'
        BY DEF PagesKnown
      <4>1. \A v \in Admins : works[v].at \notin {"rows", "save"}
        BY <1>4, <1>5, <3>1 DEF Alone, PlaceOf
      <4>2. CASE m = s.name
        BY <1>5, <2>1, <4>2 DEF PageKnown, CachesOK
      <4>3. CASE m # s.name
        <5>1. m \in renamed \/ PageKnown(m)
          BY <3>1, <4>1 DEF PagesKnown, Leaving, PlaceOf
        <5>2. pageBy'[m] = pageBy[m] /\ pageBy[m] \in 0..MaxPageRows \cup {Uncached}
          BY <1>5, <2>1, <4>3 DEF CachesOK
        <5>3. CASE PageKnown(m) /\ pageBy[m] # Uncached
          <6>1. pageBy[m] \in PageIds /\ pages[pageBy[m]] = m /\ pageBy[m] # 0
            BY <5>2, <5>3, SitesAssumption DEF PageKnown, PageIds
          <6>2. pageBy[m] # p
            BY <3>3, <4>3, <6>1
          <6> QED
            BY <3>4, <5>2, <6>1, <6>2 DEF PageKnown
        <5>4. CASE pageBy[m] = Uncached
          BY <5>2, <5>4 DEF PageKnown
        <5> QED
          BY <1>4, <5>1, <5>3, <5>4
      <4> QED
        BY <4>2, <4>3
    <3> QED
      BY <3>2, <3>5, <3>10, <3>11
  <2>9. r.at \in Unsettled
    BY <2>4 DEF Unsettled
  <2> QED
    BY <1>4, <1>5, <2>3, <2>4, <2>5, <2>7, <2>8, <2>9, ChangeDone
<1> QED
  BY <1>8, <1>9

(* When the caches have gone too, all is right again.                      *)
LEMMA DelSiteCacheStep ==
    ASSUME SitesIInv, NEW w \in Admins, DelSiteCache(w)
    PROVE  SitesIInv'
<1>1. PICK s : s = works[w].site
  OBVIOUS
<1>2. PICK r : r = NoWork
  OBVIOUS
<1>3. /\ works[w].at = "delCache" /\ works' = [works EXCEPT ![w] = r]
      /\ bySiteId' = [bySiteId EXCEPT ![s.id] = Uncached]
      /\ bySiteName' = [bySiteName EXCEPT ![s.name] = Uncached]
      /\ UNCHANGED <<sites, lastSite, pages, lastPage, made, pageBy, requests, renamed, muddled>>
  BY <1>1, <1>2 DEF DelSiteCache, SiteCacheDel, SiteAt, Leaves, tables, History
<1>4. /\ TablesOK /\ CachesOK /\ WorksOK /\ HistoryOK /\ PlaceOf(w) \in Changes
      /\ PlaceOf(w) \notin {"rows", "save"} /\ works[w] \in Work /\ Asks(works[w])
  BY <1>3, SiteNow DEF PlaceOf, Changes, SitePlaces
<1>5. s.id \in SiteIds /\ s.id # 0 /\ s.name \in Names
  BY <1>1, <1>3, <1>4, RequestTyped DEF Rowless
<1>6. r \in Work /\ Asks(r) /\ r.at = "idle"
  BY <1>2, <1>4, LookupTyped DEF NoWork
<1>7. TablesOK' /\ CachesOK' /\ renamed' \subseteq Names
  BY <1>3, <1>4, <1>5 DEF TablesOK, CachesOK, HistoryOK
<1>8. ASSUME ~ muddled
      PROVE  RowsUnique' /\ PagesMade' /\ PagesKnown' /\ Place(r)' /\ Settled'
  <2>1. /\ PagesRightBut(s.name) /\ CachedRightBut(s.name, s.id) /\ PagesOf(s.name) = {}
        /\ RowsUnique /\ PagesMade /\ PagesKnown
    BY <1>1, <1>3, <1>8, SiteNow DEF Place, Deleting
  <2>2. /\ RowsUnique'
        /\ \A m \in Names : RowNamed(m)' = RowNamed(m)
        /\ \A j \in SiteIds : RowOf(j)' = RowOf(j)
    BY <1>3, <1>4, <2>1, SameTables
  <2>3. PagesMade' /\ PagesKnown'
    BY <1>3, <1>4, <1>6, <2>1, KnownStays DEF PagesMade
  <2>4. CachedRightBut(NoName, 0)'
    BY <1>3, <1>4, <1>5, <2>1, <2>2 DEF CachesOK, CachedRightBut
  <2>5. PagesRightBut(NoName)'
    <3> SUFFICES ASSUME NEW q \in PageIds, pages[q] # NoName
                 PROVE  RowNamed(pages[q])'.id = made[q]
      BY <1>3 DEF PagesRightBut
    <3>1. PICK m : m = pages[q]
      OBVIOUS
    <3>2. m \in Names /\ m # s.name /\ pages' = pages
      BY <1>3, <1>4, <2>1, <3>1 DEF TablesOK, PagesOf
    <3>3. RowNamed(m).id = made[q]
      BY <2>1, <3>1, <3>2 DEF PagesRightBut
    <3> QED
      BY <2>2, <3>1, <3>2, <3>3
  <2>6. Place(r)'
    BY <1>6 DEF Place
  <2> QED
    BY <2>2, <2>3, <2>4, <2>5, <2>6 DEF Settled
<1> QED
  BY <1>3, <1>4, <1>6, <1>7, <1>8, ChangeDone

-----------------------------------------------------------------------------
(* A comment.                                                              *)

(* The site of a comment is the one that its name has now.                 *)
LEMMA CheckSiteExistStep ==
    ASSUME SitesIInv, NEW w \in Admins, CheckSiteExist(w)
    PROVE  SitesIInv'
<1>1. PICK n : n = works[w].name
  OBVIOUS
<1>2. PICK s : s = FindSite(n)
  OBVIOUS
<1>3. PICK r : r = IF s.id = 0 THEN NoWork ELSE [works[w] EXCEPT !.at = "page", !.site = s]
  OBVIOUS
<1>4. /\ works[w].at = "comment" /\ FilledName(n)
      /\ UNCHANGED <<tables, requests, renamed, muddled>>
  BY <1>1 DEF CheckSiteExist, SiteAt, History
<1>5. TablesOK /\ CachesOK /\ WorksOK /\ works[w] \in Work /\ PlaceOf(w) = "comment"
  BY <1>4, SiteNow DEF PlaceOf
<1>6. works' = [works EXCEPT ![w] = r]
  <2>1. CASE s.id = 0
    BY <1>1, <1>2, <1>3, <2>1 DEF CheckSiteExist, Leaves
  <2>2. CASE s.id # 0
    <3>1. works' = [works EXCEPT ![w].at = "page", ![w].site = s]
      BY <1>1, <1>2, <2>2 DEF CheckSiteExist
    <3> QED
      BY <1>3, <1>5, <2>2, <3>1 DEF WorksOK
  <2> QED
    BY <2>1, <2>2
<1>7. n \in Names /\ n # NoName
  BY <1>1, <1>4, SiteNow, RequestTyped DEF Nameless
<1>8. s \in Site
  BY <1>2, <1>5, <1>7, LookupTyped
<1>9. /\ r \in Work /\ Asks(r) /\ r.at \in {"page", "idle"}
      /\ r.at = "page" => r.site = s /\ r.name = n
  <2>1. CASE s.id = 0
    BY <1>3, <1>5, <2>1, LookupTyped DEF NoWork
  <2>2. CASE s.id # 0
    <3>1. r \in Work /\ r.at = "page" /\ r.name = n /\ r.site = s
      BY <1>1, <1>3, <1>5, <1>8, <2>2 DEF Work, SitePlaces
    <3> QED
      BY <1>7, <1>8, <2>2, <3>1 DEF Asks, Nameless, Rowless
  <2> QED
    BY <2>1, <2>2
<1>10. /\ TablesOK' /\ CachesOK' /\ UNCHANGED pageBy
       /\ RowsUnique /\ Settled => RowsUnique' /\ FindSite(n) = RowNamed(n) /\ Settled'
  BY <1>4, <1>5, <1>7, FillsName
<1>11. UNCHANGED <<sites, lastSite, pages, lastPage, made>>
  BY <1>4 DEF tables
<1>12. ASSUME ~ muddled PROVE PagesMade' /\ PagesKnown' /\ Place(r)' /\ Settled'
  <2>1. RowsUnique /\ PagesMade /\ PagesKnown /\ Settled
    BY <1>5, <1>12, SiteNow DEF Unsettled
  <2>2. s = RowNamed(n) /\ Settled'
    BY <1>2, <1>10, <2>1
  <2>3. PagesMade' /\ PagesKnown'
    BY <1>4, <1>5, <1>6, <1>9, <1>10, <1>11, <2>1, KnownStays DEF PagesMade
  <2>4. RowNamed(n)' = RowNamed(n)
    BY <1>4, <1>5, <1>7, <1>11, <2>1, SameTables
  <2>5. Place(r)'
    BY <1>9, <2>2, <2>4 DEF Place
  <2> QED
    BY <2>2, <2>3, <2>5
<1> QED
  BY <1>4, <1>5, <1>6, <1>9, <1>10, <1>11, <1>12, CommentDone

(* The page of a comment is one of the name, or a new one for its site.    *)
LEMMA CommentPageStep ==
    ASSUME SitesIInv, NEW w \in Admins, CommentPage(w)
    PROVE  SitesIInv'
<1>1. PICK n : n = works[w].name
  OBVIOUS
<1>2. PICK s : s = works[w].site
  OBVIOUS
<1>3. PICK r : r = NoWork
  OBVIOUS
<1>4. /\ works[w].at = "page" /\ lastPage < MaxPageRows /\ works' = [works EXCEPT ![w] = r]
      /\ UNCHANGED <<sites, lastSite, bySiteName, bySiteId, requests, renamed, muddled>>
  BY <1>3 DEF CommentPage, SiteAt, Leaves, History, tables
<1>5. /\ TablesOK /\ CachesOK /\ WorksOK /\ works[w] \in Work /\ PlaceOf(w) = "page"
  BY <1>4, SiteNow DEF PlaceOf
<1>6. n \in Names /\ n # NoName /\ s.id \in SiteIds /\ s.id # 0 /\ s.id \in 0..MaxSites
  <2>1. n \in Names /\ n # NoName /\ s.id \in SiteIds /\ s.id # 0
    BY <1>1, <1>2, <1>4, <1>5, SiteNow, RequestTyped DEF Nameless, Rowless
  <2> QED
    BY <2>1, SitesAssumption DEF SiteIds
<1>7. r \in Work /\ Asks(r) /\ r.at = "idle" /\ Place(r)'
  BY <1>3, <1>5, LookupTyped DEF NoWork, Place
<1>8. ~ muddled => /\ RowsUnique /\ PagesMade /\ PagesKnown /\ Settled /\ s = RowNamed(n)
                   /\ \A m \in Names : RowNamed(m)' = RowNamed(m)
  <2>1. ~ muddled => RowsUnique /\ PagesMade /\ PagesKnown /\ Settled /\ s = RowNamed(n)
    BY <1>1, <1>2, <1>4, <1>5, SiteNow DEF Unsettled, Place
  <2> QED
    BY <1>4, <1>5, <2>1, SameTables
<1>9. ~ muddled => \A m : Leaving(m) => Leaving(m)'
  BY <1>4, <1>5, <1>7, WorkGoes DEF Leaving, PlaceOf
<1>10. ~ muddled => CachedRightBut(NoName, 0)'
  <2>1. \A i \in SiteIds : RowOf(i)' = RowOf(i)
    BY <1>4 DEF RowOf
  <2> QED
    BY <1>4, <1>8, <2>1 DEF Settled, CachedRightBut
<1>11. CASE pageBy[n] \notin {0, Uncached}
  <2>1. UNCHANGED <<pages, lastPage, made, pageBy>>
    BY <1>1, <1>11 DEF CommentPage, tables
  <2>2. TablesOK' /\ CachesOK'
    BY <1>4, <1>5, <2>1 DEF TablesOK, CachesOK
  <2>3. ~ muddled => PagesMade' /\ PagesKnown' /\ Settled'
    BY <1>4, <1>5, <1>8, <1>9, <1>10, <2>1
    DEF PagesMade, PagesKnown, PageKnown, Settled, PagesRightBut, TablesOK
  <2> QED
    BY <1>4, <1>5, <1>7, <2>2, <2>3, CommentDone
<1>12. CASE pageBy[n] = Uncached /\ PagesOf(n) # {}
  <2>1. PICK p : p = CHOOSE g \in PagesOf(n) : TRUE
    OBVIOUS
  <2>2. p \in PageIds /\ pages[p] = n /\ p # 0 /\ p \in 0..MaxPageRows
    BY <1>12, <2>1, SitesAssumption DEF PagesOf, PageIds
  <2>3. pageBy' = [pageBy EXCEPT ![n] = p] /\ UNCHANGED <<pages, lastPage, made>>
    BY <1>1, <1>12, <2>1 DEF CommentPage, tables
  <2>4. TablesOK' /\ CachesOK'
    BY <1>4, <1>5, <1>6, <2>2, <2>3 DEF TablesOK, CachesOK
  <2>5. ~ muddled => PagesKnown'
    BY <1>4, <1>5, <1>8, <1>9, <2>2, <2>3 DEF PagesKnown, PageKnown, CachesOK
  <2>6. ~ muddled => PagesMade' /\ Settled'
    BY <1>4, <1>5, <1>8, <1>10, <2>3 DEF PagesMade, Settled, PagesRightBut, TablesOK
  <2> QED
    BY <1>4, <1>5, <1>7, <2>4, <2>5, <2>6, CommentDone
<1>13. CASE pageBy[n] \in {0, Uncached} /\ ~ (pageBy[n] = Uncached /\ PagesOf(n) # {})
  <2>1. PICK q : q = lastPage + 1
    OBVIOUS
  <2>2. q \in PageIds /\ q # 0 /\ q \in 0..MaxPageRows /\ lastPage < q /\ lastPage \in Nat
    BY <1>4, <1>5, <2>1, SitesAssumption DEF TablesOK, PageIds
  <2>3. /\ lastPage' = q /\ pages' = [pages EXCEPT ![q] = n]
        /\ made' = [made EXCEPT ![q] = s.id] /\ pageBy' = [pageBy EXCEPT ![n] = q]
    BY <1>1, <1>2, <1>13, <2>1 DEF CommentPage
  <2>4. TablesOK' /\ CachesOK'
    BY <1>4, <1>5, <1>6, <2>2, <2>3 DEF TablesOK, CachesOK
  <2>5. /\ pages'[q] = n /\ made'[q] = s.id
        /\ \A p \in PageIds \ {q} : pages'[p] = pages[p] /\ made'[p] = made[p]
    BY <1>5, <2>2, <2>3 DEF TablesOK
  <2>6. ASSUME ~ muddled PROVE PagesMade' /\ PagesKnown' /\ Settled'
    <3>1. pages[q] = NoName
      BY <1>8, <2>2, <2>6 DEF PagesMade
    <3>2. PagesMade'
      <4> SUFFICES ASSUME NEW p \in PageIds, pages'[p] # NoName
                   PROVE  made'[p] # 0 /\ p <= lastPage'
        BY DEF PagesMade
      <4>1. CASE p = q
        BY <1>6, <2>1, <2>2, <2>3, <2>5, <4>1
      <4>2. CASE p # q
        <5>1. made[p] # 0 /\ p <= lastPage /\ p \in Nat
          BY <1>8, <2>5, <2>6, <4>2 DEF PagesMade, PageIds
        <5> QED
          BY <2>1, <2>2, <2>3, <2>5, <4>2, <5>1
      <4> QED
        BY <4>1, <4>2
    <3>3. PagesKnown'
      <4> SUFFICES ASSUME NEW m \in Names, m \in renamed \/ PageKnown(m)
                   PROVE  m \in renamed' \/ PageKnown(m)'
        BY <1>8, <1>9, <2>6 DEF PagesKnown
      <4>1. CASE m = n
        BY <1>5, <2>2, <2>3, <2>5, <4>1 DEF PageKnown, CachesOK
      <4>2. CASE m # n
        <5>1. pageBy'[m] = pageBy[m] /\ pageBy[m] \in 0..MaxPageRows \cup {Uncached}
          BY <1>5, <2>3, <4>2 DEF CachesOK
        <5>2. CASE PageKnown(m) /\ pageBy[m] # Uncached
          <6>1. pageBy[m] \in PageIds /\ pages[pageBy[m]] = m /\ pageBy[m] # 0
            BY <5>1, <5>2, SitesAssumption DEF PageKnown, PageIds
          <6>2. pageBy[m] # q
            BY <3>1, <6>1, SitesAssumption
          <6> QED
            BY <2>5, <5>1, <6>1, <6>2 DEF PageKnown
        <5>3. CASE pageBy[m] = Uncached
          BY <5>1, <5>3 DEF PageKnown
        <5> QED
          BY <1>4, <5>2, <5>3
      <4> QED
        BY <4>1, <4>2
    <3>4. PagesRightBut(NoName)'
      <4> SUFFICES ASSUME NEW p \in PageIds, NEW m, pages'[p] = m, m # NoName
                   PROVE  RowNamed(m)'.id = made'[p]
        BY DEF PagesRightBut
      <4>1. CASE p = q
        BY <1>6, <1>8, <2>5, <2>6, <4>1
      <4>2. CASE p # q
        <5>1. m = pages[p] /\ m \in Names
          BY <1>5, <2>5, <4>2 DEF TablesOK
        <5>2. RowNamed(m).id = made[p]
          BY <1>8, <2>6, <5>1 DEF Settled, PagesRightBut
        <5> QED
          BY <1>8, <2>5, <2>6, <4>2, <5>1, <5>2
      <4> QED
        BY <4>1, <4>2
    <3> QED
      BY <1>10, <2>6, <3>2, <3>3, <3>4 DEF Settled
  <2> QED
    BY <1>4, <1>5, <1>7, <2>4, <2>6, CommentDone
<1> QED
  BY <1>11, <1>12, <1>13

-----------------------------------------------------------------------------
(* A request begins.                                                       *)

(* A request that begins finds everything settled, or muddles it.          *)
LEMMA BeginStep ==
    ASSUME SitesIInv, NEW w \in Admins, NEW a \in {"create", "comment", "rename", "delete"},
           NEW s \in Site \cup AskedSite, NEW n \in Names \cup {NoName},
           SiteBegins(w, a, s, n),
           n = NoName => a = "delete", a \in {"rename", "delete"} => s.id # 0,
           a \in {"create", "comment"} => s \in Site
    PROVE  SitesIInv'
<1>1. PICK r : r = [NoWork EXCEPT !.at = a, !.site = s, !.name = n]
  OBVIOUS
<1>2. /\ works[w].at = "idle" /\ requests < MaxRequests
      /\ works' = [works EXCEPT ![w] = r] /\ requests' = requests + 1
      /\ UNCHANGED <<tables, caches, renamed>>
  BY <1>1 DEF SiteBegins, SiteAt
<1>3. TablesOK /\ CachesOK /\ WorksOK /\ HistoryOK
  BY SiteNow
<1>4. r \in Work /\ r.at = a /\ r.site = s /\ r.name = n
  <2>1. a \in SitePlaces /\ {} \in SUBSET PageIds
    BY DEF SitePlaces
  <2> QED
    BY <1>1, <2>1 DEF NoWork, Work
<1>5. Asks(r)
  BY <1>4 DEF Asks, Nameless, Rowless
<1>6. /\ WorksOK' /\ works'[w] = r
      /\ \A v \in Admins \ {w} : works'[v] = works[v]
  BY <1>2, <1>3, <1>4, WorkGoes
<1>7. \A v \in Admins : Asks(works'[v])
  BY <1>5, <1>6 DEF SitesIInv
<1>8. HistoryOK'
  <2>1. requests' \in 0..MaxRequests
    BY <1>2, <1>3, SitesAssumption DEF HistoryOK
  <2>2. muddled' \in BOOLEAN
    BY DEF SiteBegins
  <2> QED
    BY <1>2, <1>3, <2>1, <2>2 DEF HistoryOK
<1>9. /\ TablesOK' /\ CachesOK'
      /\ UNCHANGED <<sites, lastSite, pages, lastPage, made, pageBy>>
  BY <1>2, <1>3 DEF TablesOK, CachesOK, tables, caches
<1>10. ASSUME ~ muddled' PROVE Orderly'
  <2>1. /\ ~ muddled /\ (n \notin renamed \/ a = "comment")
        /\ \A v \in Admins : works[v].at = "idle" \/ {a, works[v].at} \subseteq {"comment", "page"}
    BY <1>10 DEF SiteBegins, SiteAt
  <2>2. RowsUnique /\ PagesMade /\ PagesKnown /\ Alone
    BY <2>1 DEF SitesIInv, Orderly
  <2>3. Alone'
    <3> SUFFICES ASSUME NEW v \in Admins, NEW u \in Admins, works'[u].at \in Changes, v # u
                 PROVE  works'[v].at = "idle"
      BY DEF Alone, PlaceOf
    <3>1. CASE u = w
      BY <1>4, <1>6, <2>1, <3>1 DEF Changes
    <3>2. CASE u # w
      <4>1. works'[u].at = works[u].at /\ works[u].at # "idle"
        BY <1>6, <3>2 DEF Changes
      <4>2. a \in {"comment", "page"} /\ works[u].at \in {"comment", "page"}
        BY <2>1, <4>1
      <4> QED
        BY <4>1, <4>2 DEF Changes
    <3> QED
      BY <3>1, <3>2
  <2>4. PagesKnown'
    <3>1. \A m : Leaving(m) => Leaving(m)'
      BY <1>2, <1>6 DEF Leaving, PlaceOf
    <3> QED
      BY <1>2, <1>9, <2>2, <3>1 DEF PagesKnown, PageKnown
  <2>5. Place(r)
    BY <1>4, <2>1 DEF Place
  <2>6. /\ RowsUnique' /\ PagesMade' /\ Place(r)'
        /\ Settled => Settled'
    BY <1>2, <1>3, <1>4, <1>5, <2>2, <2>5, NothingChanges
  <2>7. \A v \in Admins : Place(works[v])'
    <3> SUFFICES ASSUME NEW v \in Admins PROVE Place(works[v])'
      OBVIOUS
    <3>1. CASE v = w
      BY <1>6, <2>6, <3>1
    <3>2. CASE v # w
      <4>1. PICK q : q = works[v]
        OBVIOUS
      <4>2. q \in Work /\ Asks(q) /\ Place(q)
        BY <2>1, <4>1, SiteNow
      <4>3. Place(q)'
        BY <1>2, <1>3, <2>2, <4>2, NothingChanges
      <4> QED
        BY <1>6, <3>2, <4>1, <4>3
    <3> QED
      BY <3>1, <3>2
  <2>8. (\A v \in Admins : PlaceOf(v)' \notin Unsettled) => Settled'
    <3> SUFFICES ASSUME \A v \in Admins : works'[v].at \notin Unsettled PROVE Settled'
      BY DEF PlaceOf
    <3>1. \A v \in Admins : works[v].at \notin Unsettled
      BY <1>2, <1>6 DEF Unsettled
    <3> QED
      BY <2>1, <2>6, <3>1 DEF SitesIInv, Orderly, PlaceOf
  <2> QED
    BY <2>3, <2>4, <2>6, <2>7, <2>8 DEF Orderly
<1> QED
  BY <1>6, <1>7, <1>8, <1>9, <1>10, SitesTypedPrime DEF SitesIInv

(* So does each of the four.                                               *)
LEMMA SiteRequestStep ==
    ASSUME SitesIInv, NEW w \in Admins, SiteRequest(w)
    PROVE  SitesIInv'
<1>1. EmptySite \in Site /\ NoName \notin Names
  BY SitesAssumption DEF Site
<1>2. \A i \in SiteIds : [id |-> i, name |-> NoName] \in AskedSite /\ i # 0
  BY SitesAssumption DEF AskedSite, SiteIds
<1>3. CASE \E n \in Names : SiteBegins(w, "create", EmptySite, n)
  BY <1>1, <1>3, BeginStep
<1>4. CASE \E n \in Names : SiteBegins(w, "comment", EmptySite, n)
  BY <1>1, <1>4, BeginStep
<1>5. CASE \E i \in SiteIds, n \in Names : SiteBegins(w, "rename", [id |-> i, name |-> NoName], n)
  <2>1. PICK i \in SiteIds, n \in Names :
           SiteBegins(w, "rename", [id |-> i, name |-> NoName], n)
    BY <1>5
  <2>2. PICK s \in AskedSite : s = [id |-> i, name |-> NoName]
    BY <1>2
  <2>3. s.id # 0 /\ SiteBegins(w, "rename", s, n)
    BY <1>2, <2>1, <2>2
  <2> QED
    BY <1>1, <2>3, BeginStep
<1>6. CASE \E i \in SiteIds : SiteBegins(w, "delete", [id |-> i, name |-> NoName], NoName)
  <2>1. PICK i \in SiteIds : SiteBegins(w, "delete", [id |-> i, name |-> NoName], NoName)
    BY <1>6
  <2>2. PICK s \in AskedSite : s = [id |-> i, name |-> NoName]
    BY <1>2
  <2>3. s.id # 0 /\ SiteBegins(w, "delete", s, NoName)
    BY <1>2, <2>1, <2>2
  <2> QED
    BY <2>3, BeginStep
<1> QED
  BY <1>3, <1>4, <1>5, <1>6 DEF SiteRequest

-----------------------------------------------------------------------------
(* Sites: the theorem.                                                     *)

(* The invariant holds at first, after every step and while none is taken. *)
LEMMA SitesStart == SitesInit => SitesIInv
<1> SUFFICES ASSUME SitesInit PROVE SitesIInv
  OBVIOUS
<1>1. PICK n \in Names : sites = [i \in SiteIds |-> IF i = 1 THEN n ELSE NoName]
  BY DEF SitesInit
<1>2. /\ lastSite = 1 /\ lastPage = 0 /\ requests = 0
      /\ pages = [p \in PageIds |-> NoName] /\ made = [p \in PageIds |-> 0]
      /\ bySiteName = [m \in Names |-> Uncached] /\ bySiteId = [i \in SiteIds |-> Uncached]
      /\ pageBy = [m \in Names |-> Uncached]
      /\ works = [w \in Admins |-> NoWork]
      /\ renamed = {} /\ muddled = FALSE
  BY DEF SitesInit
<1>3. NoWork \in Work /\ Asks(NoWork) /\ NoWork.at = "idle"
  BY DEF NoWork, Work, SitePlaces, Site, Asks, Nameless, Rowless
<1>4. TablesOK
  <2>1. 1 \in 0..MaxSites /\ 0 \in 0..MaxSites /\ 0 \in 0..MaxPageRows
    BY SitesAssumption
  <2> QED
    BY <1>1, <1>2, <2>1 DEF TablesOK
<1>5. CachesOK /\ WorksOK /\ HistoryOK
  <2>1. CachesOK /\ WorksOK
    BY <1>2, <1>3 DEF CachesOK, WorksOK
  <2>2. requests \in 0..MaxRequests
    BY <1>2, SitesAssumption
  <2> QED
    BY <1>2, <2>1, <2>2 DEF HistoryOK
<1>6. RowsUnique
  BY <1>1, <1>2 DEF RowsUnique, SiteIds
<1>7. PagesMade /\ PagesKnown /\ Settled
  BY <1>2, SitesAssumption
  DEF PagesMade, PagesKnown, PageKnown, Settled, PagesRightBut, CachedRightBut
<1>8. Alone
  BY <1>2, <1>3 DEF Alone, PlaceOf, Changes
<1>9. \A w \in Admins : Place(works[w]) /\ Asks(works[w])
  BY <1>2, <1>3 DEF Place
<1> QED
  BY <1>4, <1>5, <1>6, <1>7, <1>8, <1>9, SitesTyped DEF SitesIInv, Orderly

(* No step.                                                                *)
LEMMA SitesStutter ==
    ASSUME SitesIInv, UNCHANGED sitesVars
    PROVE  SitesIInv'
<1>1. UNCHANGED <<tables, caches, works, requests, renamed, muddled>>
  BY DEF sitesVars
<1>2. UNCHANGED <<sites, lastSite, pages, lastPage, made, pageBy, bySiteName, bySiteId>>
  BY <1>1 DEF tables, caches
<1>3. TablesOK /\ CachesOK /\ WorksOK /\ HistoryOK
  BY SitesTyped DEF SitesIInv
<1>4. TablesOK' /\ CachesOK' /\ WorksOK' /\ HistoryOK'
  BY <1>1, <1>2, <1>3 DEF TablesOK, CachesOK, WorksOK, HistoryOK
<1>5. \A w \in Admins : Asks(works'[w])
  BY <1>1 DEF SitesIInv
<1>6. ASSUME ~ muddled PROVE Orderly'
  <2>1. RowsUnique /\ PagesMade /\ PagesKnown /\ Alone
    BY <1>6 DEF SitesIInv, Orderly
  <2>2. Alone' /\ PagesKnown'
    BY <1>1, <1>2, <2>1 DEF Alone, PagesKnown, PageKnown, Leaving, PlaceOf
  <2>3. NoWork \in Work /\ Asks(NoWork) /\ Place(NoWork)
    BY <1>3, LookupTyped DEF Place, NoWork
  <2>4. /\ RowsUnique' /\ PagesMade'
        /\ Settled => Settled'
    BY <1>1, <1>3, <2>1, <2>3, NothingChanges
  <2>5. \A w \in Admins : Place(works[w])'
    <3> SUFFICES ASSUME NEW w \in Admins PROVE Place(works[w])'
      OBVIOUS
    <3>1. PICK q : q = works[w]
      OBVIOUS
    <3>2. q \in Work /\ Asks(q) /\ Place(q)
      BY <1>6, <3>1, SiteNow
    <3>3. Place(q)'
      BY <1>1, <1>3, <2>1, <3>2, NothingChanges
    <3> QED
      BY <1>1, <3>1, <3>3
  <2>6. (\A w \in Admins : PlaceOf(w)' \notin Unsettled) => Settled'
    BY <1>1, <1>6, <2>4 DEF SitesIInv, Orderly, PlaceOf
  <2> QED
    BY <2>2, <2>4, <2>5, <2>6 DEF Orderly
<1> QED
  BY <1>1, <1>4, <1>5, <1>6, SitesTypedPrime DEF SitesIInv

(* Any step.                                                               *)
LEMMA SitesGoOn == SitesIInv /\ [SitesNext]_sitesVars => SitesIInv'
<1> SUFFICES ASSUME SitesIInv, [SitesNext]_sitesVars PROVE SitesIInv'
  OBVIOUS
<1>1. CASE UNCHANGED sitesVars
  BY <1>1, SitesStutter
<1>2. ASSUME NEW w \in Admins, SiteRequest(w) PROVE SitesIInv'
  BY <1>2, SiteRequestStep
<1>3. ASSUME NEW w \in Admins, SiteStep(w) PROVE SitesIInv'
  BY <1>3, CheckNewStep, CreateSiteStep, FindOldStep, CheckNameStep, UncacheOldStep,
     ListRowsStep, RenameRowStep, UpdateSiteStep, DelSiteRowStep, DelOnePageStep,
     DelSiteCacheStep, CheckSiteExistStep, CommentPageStep DEF SiteStep
<1> QED
  BY <1>1, <1>2, <1>3 DEF SitesNext

(* The invariant says what is promised.                                    *)
LEMMA SitesRight == SitesIInv => SitesSound
<1> SUFFICES ASSUME SitesIInv PROVE SitesSound
  OBVIOUS
<1>1. SitesTypeOK
  BY DEF SitesIInv
<1>2. ASSUME ~ muddled, \A w \in Admins : SiteAt(w, "idle")
      PROVE  PagesRight /\ CachedRight
  <2>1. TablesOK /\ CachesOK
    BY SitesTyped DEF SitesIInv
  <2>2. RowsUnique /\ PagesKnown /\ Settled
    BY <1>2 DEF SitesIInv, Orderly, PlaceOf, SiteAt, Unsettled
  <2>3. PagesRight
    BY <2>2 DEF PagesRight, Settled, PagesRightBut
  <2>4. \A n \in Names : bySiteName[n] \in {Uncached, RowNamed(n)}
    BY <2>2, SitesAssumption DEF Settled, CachedRightBut
  <2>5. \A i \in SiteIds : bySiteId[i] \in {Uncached, RowOf(i)}
    BY <2>2, SitesAssumption DEF Settled, CachedRightBut, SiteIds
  <2>6. ASSUME NEW n \in Names, pageBy[n] # Uncached, RowNamed(n).id # 0
        PROVE  pageBy[n] # 0 /\ pages[pageBy[n]] = n
    <3>1. n \notin renamed
      <4>1. RowsSaid /\ EmptySite.id = 0
        BY RowsSay DEF EmptySite
      <4>2. PICK i \in SiteIds : sites[i] = n
        BY <2>6, <4>1 DEF RowsSaid
      <4> QED
        BY <2>2, <4>2 DEF RowsUnique
    <3>2. ~ Leaving(n)
      BY <1>2 DEF Leaving, SiteAt, PlaceOf
    <3> QED
      BY <2>2, <2>6, <3>1, <3>2 DEF PagesKnown, PageKnown
  <2> QED
    BY <2>3, <2>4, <2>5, <2>6 DEF CachedRight
<1> QED
  BY <1>1, <1>2 DEF SitesSound

(* Names hold the data of sites together, for any number of requests,      *)
(* names, sites and pages: when nothing is under way, after any renames,   *)
(* deletions and new sites, every page is a page of the site for which it  *)
(* was created, and what the caches say of a name, an id and a page is     *)
(* what the tables say; unless changes of sites overlapped or a name was   *)
(* used again that a rename had given up.                                  *)
THEOREM SitesStayRight == SitesSpec => []SitesSound
<1>1. SitesInit => SitesIInv
  BY SitesStart
<1>2. SitesIInv /\ [SitesNext]_sitesVars => SitesIInv'
  BY SitesGoOn
<1>3. SitesIInv => SitesSound
  BY SitesRight
<1> QED
  BY <1>1, <1>2, <1>3, PTL DEF SitesSpec
=============================================================================
