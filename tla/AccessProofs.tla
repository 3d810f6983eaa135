---------------------------- MODULE AccessProofs ----------------------------
(***************************************************************************)
(* What every visitor meets: the two limiters and the lists.               *)
(*                                                                         *)
(* The rate limiter: for every set of keys, limits, window and run of the  *)
(* clock, counters stay within their limits, the map stays small, windows  *)
(* stay apart.                                                             *)
(*                                                                         *)
(* The captcha limiter keeps its limit for clients whose requests follow   *)
(* one another, its time-out for all, and passes only the latest image.    *)
(* The stores hold the credit of a client: what the count leaves of the    *)
(* limit, or whether it is verified.  A request in progress has paid for   *)
(* its action and not logged it yet, or logged it and not taken the        *)
(* verification back yet; the next one of the client begins when it has.   *)
(*                                                                         *)
(* The lists: in an order without ties a row has a rank, the number of     *)
(* rows before it.  A page begins where the reader stands, so that a list  *)
(* which nobody disturbs holds at its position i the row of rank i - 1;    *)
(* new comments raise ranks and never lower them, so that what has a rank  *)
(* below the length of the list has been seen.                             *)
(***************************************************************************)
EXTENDS RateLimiter, ActionLimiter, Listing, FiniteSetTheorems, SequenceTheorems,
        WellFoundedInduction, TLAPS

-----------------------------------------------------------------------------
(* The rate limiter.                                                       *)


(* The inductive invariant: every retained key has used up one admission   *)
(* of the total, and the end of the window fixes when it began.            *)
IInv ==
    /\ TypeOK
    /\ IsFiniteSet(DOMAIN counts) /\ Cardinality(DOMAIN counts) <= total
    /\ expires = opened.cur + Window
    /\ WindowsApart

(* The map made by Allow at the start of a window is a finite map without  *)
(* keys.                                                                   *)
LEMMA EmptyMap ==
    /\ NoCounts \in CountMap
    /\ DOMAIN NoCounts = {}
<1>1. NoCounts \in [{} -> 1..PerKeyLimit] /\ DOMAIN NoCounts = {}
  BY DEF NoCounts
<1>2. QED
  BY <1>1 DEF CountMap

(* What Allow works on after its reset satisfies the invariant's part too. *)
LEMMA AfterReset ==
    ASSUME IInv
    PROVE  /\ Counts0 \in CountMap
           /\ Total0 \in 0..TotalLimit
           /\ IsFiniteSet(DOMAIN Counts0) /\ Cardinality(DOMAIN Counts0) <= Total0
<1>1. CASE Over
  BY <1>1, EmptyMap, FS_EmptySet, LimitAssumption DEF Counts0, Total0
<1>2. CASE ~ Over
  BY <1>2 DEF Counts0, Total0, IInv, TypeOK
<1>3. QED
  BY <1>1, <1>2

(* The reset at the start of Allow keeps the invariant.                    *)
LEMMA ResetKeeps ==
    ASSUME IInv, Reset, UNCHANGED now
    PROVE  /\ expires' \in Nat /\ opened' \in [cur : Int, prev : Int]
           /\ expires' = opened'.cur + Window
           /\ WindowsApart'
<1> USE LimitAssumption DEF IInv, TypeOK, Reset, WindowsApart
<1>1. CASE Over
  <2>1. now \in Nat /\ expires \in Nat /\ now >= opened.cur + Window
    BY <1>1 DEF Over
  <2>2. opened' = [cur |-> now, prev |-> opened.cur] /\ expires' = now + Window
    BY <1>1
  <2>3. QED
    BY <2>1, <2>2
<1>2. CASE ~ Over
  BY <1>2
<1>3. QED
  BY <1>1, <1>2

(* NewRateLimiter establishes the invariant.                               *)
LEMMA InitIInv == Init => IInv
<1> SUFFICES ASSUME Init PROVE IInv
  OBVIOUS
<1>1. TypeOK
  <2>1. counts \in CountMap
    BY EmptyMap DEF Init
  <2>2. -Window \in Int /\ -Window - Window \in Int
    BY LimitAssumption
  <2>3. QED
    BY <2>1, <2>2, LimitAssumption DEF Init, TypeOK
<1>2. expires = opened.cur + Window /\ WindowsApart
  BY LimitAssumption DEF Init, WindowsApart
<1>3. IsFiniteSet(DOMAIN counts) /\ Cardinality(DOMAIN counts) <= total
  BY EmptyMap, FS_EmptySet DEF Init
<1>4. QED
  BY <1>1, <1>2, <1>3 DEF IInv

(* An admitted call keeps the invariant: it adds at most one key, and one  *)
(* to the total.                                                           *)
LEMMA AdmitKeeps ==
    ASSUME IInv, NEW k \in Keys, Admit(k)
    PROVE  IInv'
<1>1. PICK K \in SUBSET Keys : Counts0 \in [K -> 1..PerKeyLimit]
  BY AfterReset DEF CountMap
<1>2. DOMAIN Counts0 = K
  BY <1>1
<1>3. Total0 < TotalLimit /\ Count(Counts0, k) < PerKeyLimit
  <2>1. Count(Counts0, k) \in Nat
    BY <1>1, <1>2 DEF Count
  <2>2. QED
    BY <2>1, AfterReset, LimitAssumption DEF Admit, Denied
<1>4. Count(Counts0, k) + 1 \in 1..PerKeyLimit
  BY <1>1, <1>2, <1>3, LimitAssumption DEF Count
<1>5. counts' \in [K \cup {k} -> 1..PerKeyLimit]
  <2>1. counts' = [x \in K \cup {k} |->
                     IF x = k THEN Count(Counts0, k) + 1 ELSE Counts0[x]]
    BY <1>2 DEF Admit
  <2>2. \A x \in K \cup {k} :
          (IF x = k THEN Count(Counts0, k) + 1 ELSE Counts0[x]) \in 1..PerKeyLimit
    BY <1>1, <1>4
  <2>3. QED
    BY <2>1, <2>2
<1>6. total' = Total0 + 1 /\ total' \in 0..TotalLimit
  BY <1>3, AfterReset, LimitAssumption DEF Admit
<1>7. IsFiniteSet(DOMAIN counts') /\ Cardinality(DOMAIN counts') <= total'
  <2>1. IsFiniteSet(K) /\ Cardinality(K) <= Total0
    BY <1>2, AfterReset
  <2>2. Cardinality(K) \in Nat
    BY <2>1, FS_CardinalityType
  <2>3. IsFiniteSet(K \cup {k}) /\ Cardinality(K \cup {k}) <= Cardinality(K) + 1
    <3>1. /\ IsFiniteSet(K \cup {k})
          /\ Cardinality(K \cup {k}) = IF k \in K THEN Cardinality(K) ELSE Cardinality(K) + 1
      BY <2>1, FS_AddElement, Zenon
    <3>2. QED
      BY <2>2, <3>1
  <2>4. DOMAIN counts' = K \cup {k}
    BY <1>5
  <2>5. Cardinality(K \cup {k}) \in Nat
    BY <2>3, FS_CardinalityType
  <2>6. QED
    BY <2>1, <2>2, <2>3, <2>4, <2>5, <1>6, AfterReset
<1>8. TypeOK'
  <2>1. K \cup {k} \in SUBSET Keys
    BY <1>1
  <2>2. counts' \in CountMap
    BY <1>5, <2>1 DEF CountMap
  <2>3. QED
    BY <2>2, <1>6, ResetKeeps DEF Admit, TypeOK, IInv
<1>9. QED
  BY <1>7, <1>8, ResetKeeps DEF Admit, IInv

(* Every call of Allow, admitted or denied, keeps the invariant.           *)
LEMMA NextIInv == IInv /\ [Next]_vars => IInv'
<1> SUFFICES ASSUME IInv, [Next]_vars PROVE IInv'
  OBVIOUS
<1>1. CASE Tick
  BY <1>1, LimitAssumption DEF Tick, IInv, TypeOK, WindowsApart
<1>2. ASSUME NEW k \in Keys, Deny(k)
      PROVE IInv'
  <2>1. counts' = Counts0 /\ total' = Total0
    BY <1>2 DEF Deny
  <2>2. QED
    BY <1>2, <2>1, AfterReset, ResetKeeps DEF Deny, IInv, TypeOK
<1>3. ASSUME NEW k \in Keys, Admit(k)
      PROVE IInv'
  BY <1>3, AdmitKeeps
<1>4. CASE UNCHANGED vars
  BY <1>4 DEF vars, IInv, TypeOK, WindowsApart
<1>5. QED
  BY <1>1, <1>2, <1>3, <1>4 DEF Next

(* The invariant of the limiter holds in every state that calls of Allow   *)
(* (limiter/rate.go) reach.                                                *)
THEOREM RateInvariant == Spec => []IInv
  BY InitIInv, NextIInv, PTL DEF Spec

(* No counter of the limiter ever exceeds its limit (TypeOK).              *)
THEOREM RateTypeCorrect == Spec => []TypeOK
<1>1. IInv => TypeOK
  BY DEF IInv
<1>2. QED
  BY <1>1, RateInvariant, PTL

(* The map never retains more than TotalLimit keys.                        *)
THEOREM MemoryBounded == Spec => []KeysBounded
<1>1. IInv => KeysBounded
  <2> SUFFICES ASSUME IInv PROVE KeysBounded
    OBVIOUS
  <2>1. Cardinality(DOMAIN counts) \in Nat
    BY FS_CardinalityType DEF IInv
  <2>2. QED
    BY <2>1, LimitAssumption DEF IInv, TypeOK, KeysBounded
<1>2. QED
  BY <1>1, RateInvariant, PTL

(* A window begins only when the one before it has lasted its full length. *)
THEOREM WindowsDisjoint == Spec => []WindowsApart
<1>1. IInv => WindowsApart
  BY DEF IInv
<1>2. QED
  BY <1>1, RateInvariant, PTL

(* The three together: counters, map and windows of the limiter.           *)
THEOREM RateCorrect == Spec => []RateSound
<1>1. TypeOK /\ KeysBounded /\ WindowsApart => RateSound
  BY DEF RateSound
<1>2. QED
  BY <1>1, RateTypeCorrect, MemoryBounded, WindowsDisjoint, PTL

-----------------------------------------------------------------------------
(* The captcha limiter.                                                    *)

(* Requests are records, and steps set fields of them.                     *)

WorkSet == [pc : Pcs, op : {"", "act", "verify", "get", "status"}, ip : IPs, code : Codes,
            read : Int, mute : BOOLEAN]

(* A step that makes request w the record c and leaves the others alone.   *)
Turns(w, c) ==
    /\ work' \in [Requests -> WorkSet]
    /\ \A o \in Requests : o # w => work'[o] = work[o]
    /\ work'[w] = c

Becomes(w, c) == work' = [work EXCEPT ![w] = c]

SetPc(c, x) == [c EXCEPT !.pc = x]
SetRead(c, x) == [c EXCEPT !.read = x]
SetMute(c, x) == [c EXCEPT !.mute = x]

(* A request that becomes a record has turned into it.                     *)
LEMMA BecomesTurns ==
    ASSUME work \in [Requests -> WorkSet], NEW w \in Requests, NEW c \in WorkSet, Becomes(w, c)
    PROVE  Turns(w, c)
BY DEF Turns, Becomes

(* A place is set, and the rest stays.                                     *)
LEMMA SetPcFields ==
    ASSUME NEW c \in WorkSet, NEW x \in Pcs, NEW d, d = SetPc(c, x)
    PROVE  /\ d \in WorkSet /\ d.pc = x /\ d.op = c.op /\ d.ip = c.ip /\ d.code = c.code
           /\ d.read = c.read /\ d.mute = c.mute
BY DEF SetPc, WorkSet

(* What was read is set, and the rest stays.                               *)
LEMMA SetReadFields ==
    ASSUME NEW c \in WorkSet, NEW x \in Int, NEW d, d = SetRead(c, x)
    PROVE  /\ d \in WorkSet /\ d.pc = c.pc /\ d.op = c.op /\ d.ip = c.ip /\ d.code = c.code
           /\ d.read = x /\ d.mute = c.mute
BY DEF SetRead, WorkSet

(* Whether a service failed is set, and the rest stays.                    *)
LEMMA SetMuteFields ==
    ASSUME NEW c \in WorkSet, NEW x \in BOOLEAN, NEW d, d = SetMute(c, x)
    PROVE  /\ d \in WorkSet /\ d.pc = c.pc /\ d.op = c.op /\ d.ip = c.ip /\ d.code = c.code
           /\ d.read = c.read
BY DEF SetMute, WorkSet

(* A request that is not in progress.                                      *)
LEMMA IdleFields ==
    /\ Idle \in WorkSet /\ Idle.pc = "idle" /\ Idle.op = "" 
<1>1. (CHOOSE i \in IPs : TRUE) \in IPs /\ (CHOOSE k \in Codes : TRUE) \in Codes
    BY LimiterAssumption
<1>2. Idle.pc = "idle" /\ Idle.op = ""
    BY DEF Idle
<1> QED BY <1>1, <1>2 DEF Idle, WorkSet, Pcs

(* A request goes on to a place (Goto).                                    *)
LEMMA GotoForm ==
    ASSUME work \in [Requests -> WorkSet], NEW w \in Requests, NEW x \in Pcs, Goto(w, x),
           NEW c, c = work[w]
    PROVE  \E d \in WorkSet :
              /\ Turns(w, d) /\ d.pc = x /\ d.op = c.op /\ d.ip = c.ip /\ d.code = c.code
              /\ d.read = c.read /\ d.mute = c.mute
<1>1. Becomes(w, SetPc(c, x)) /\ c \in WorkSet
    BY DEF Goto, Becomes, SetPc
<1> QED BY <1>1, SetPcFields, BecomesTurns

(* A request ends (Return).                                                *)
LEMMA ReturnForm ==
    ASSUME work \in [Requests -> WorkSet], NEW w \in Requests, Return(w)
    PROVE  Turns(w, Idle)
BY IdleFields, BecomesTurns DEF Return, Becomes

Reads(w, n) == work' = [work EXCEPT ![w].pc = "logCount", ![w].read = n]
Mutes(w, m) == work' = [work EXCEPT ![w].pc = "logRead", ![w].mute = m]
Begins(w, op, i, k, x) ==
    work' = [work EXCEPT ![w] = [Idle EXCEPT !.op = op, !.ip = i, !.code = k, !.pc = x]]

(* A request reads the count (LogRead).                                    *)
LEMMA ReadForm ==
    ASSUME work \in [Requests -> WorkSet], NEW w \in Requests, NEW n \in Int,
           NEW c, c = work[w], Reads(w, n)
    PROVE  \E d \in WorkSet :
              /\ Turns(w, d) /\ d.pc = "logCount" /\ d.op = c.op /\ d.ip = c.ip
              /\ d.read = n
<1> PICK x \in Pcs : x = "logCount"
    BY DEF Pcs
<1>1. c \in WorkSet
    OBVIOUS
<1>2. Becomes(w, SetRead(SetPc(c, x), n))
    BY DEF Becomes, SetRead, SetPc, Reads
<1> PICK d : d = SetPc(c, x)
    OBVIOUS
<1>3. d \in WorkSet /\ d.pc = x /\ d.op = c.op /\ d.ip = c.ip
    BY <1>1, SetPcFields
<1> PICK e : e = SetRead(d, n)
    OBVIOUS
<1>4. e \in WorkSet /\ e.pc = x /\ e.op = c.op /\ e.ip = c.ip /\ e.read = n
    BY <1>3, SetReadFields
<1>5. Turns(w, e)
    BY <1>2, <1>4, BecomesTurns
<1> QED BY <1>4, <1>5

(* A service answers with a failure (CheckByService).                      *)
LEMMA MuteForm ==
    ASSUME work \in [Requests -> WorkSet], NEW w \in Requests, NEW m \in BOOLEAN,
           NEW c, c = work[w], Mutes(w, m)
    PROVE  \E d \in WorkSet :
              Turns(w, d) /\ d.pc = "logRead" /\ d.op = c.op /\ d.ip = c.ip
<1> PICK x \in Pcs : x = "logRead"
    BY DEF Pcs
<1>1. c \in WorkSet
    OBVIOUS
<1>2. Becomes(w, SetMute(SetPc(c, x), m))
    BY DEF Becomes, SetMute, SetPc, Mutes
<1> PICK d : d = SetPc(c, x)
    OBVIOUS
<1>3. d \in WorkSet /\ d.pc = x /\ d.op = c.op /\ d.ip = c.ip
    BY <1>1, SetPcFields
<1> PICK e : e = SetMute(d, m)
    OBVIOUS
<1>4. e \in WorkSet /\ e.pc = x /\ e.op = c.op /\ e.ip = c.ip
    BY <1>3, SetMuteFields
<1>5. Turns(w, e)
    BY <1>2, <1>4, BecomesTurns
<1> QED BY <1>4, <1>5

(* Where a request begins.                                                 *)
BeginPc(op) == CASE op = "verify" -> "check" [] op = "get" -> "image" [] OTHER -> "isPass"

(* A request begins (Begin).                                               *)
LEMMA BeginForm ==
    ASSUME work \in [Requests -> WorkSet], NEW w \in Requests,
           NEW op \in {"act", "verify", "get", "status"}, NEW i \in IPs, NEW k \in Codes,
           NEW x, x = BeginPc(op), Begins(w, op, i, k, x)
    PROVE  \E d \in WorkSet :
              Turns(w, d) /\ d.pc = x /\ d.op = op /\ d.ip = i /\ d.code = k
<1> PICK d : d = [Idle EXCEPT !.op = op, !.ip = i, !.code = k, !.pc = x]
    OBVIOUS
<1>1. x \in Pcs
    BY DEF BeginPc, Pcs
<1>2. d.pc = x /\ d.op = op /\ d.ip = i /\ d.code = k
    BY DEF Idle
<1>3. d \in WorkSet
    BY <1>1, IdleFields DEF WorkSet
<1>4. Turns(w, d)
    BY <1>3, BecomesTurns DEF Becomes, Begins
<1> QED BY <1>2, <1>3, <1>4

-----------------------------------------------------------------------------
(* The invariant.                                                          *)

Alway(m) == m.always \/ m.max <= 0

(* What a request does, and with which settings.                           *)
WorkOK(m, c) ==
    /\ c.pc = "idle" => c.op = ""
    /\ c.pc \in {"isPass", "timeout", "resetTime", "resetCount"} => c.op \in {"act", "status"}
    /\ c.pc = "handle" => c.op = "act"
    /\ c.pc \in {"logRead", "logCount"} => c.op \in {"act", "verify"}
    /\ c.pc \in {"check", "drop"} => c.op = "verify"
    /\ Alway(m) => c.pc \notin {"timeout", "resetTime", "resetCount"}

(* What the stores hold of a client: the time of its last action is that   *)
(* of its last log, and its image the one generated last.                  *)
ClientOK(ct, la, ve, im, cr, ex, lt) ==
    /\ ct \in Int \cup {Nil} /\ la \in Nat \cup {Nil} /\ ve \in BOOLEAN \cup {Nil}
    /\ im = Nil \/ im \in [code : Codes, until : Nat]
    /\ cr \in Int /\ ex \in Nat
    /\ lt = Nil \/ lt \in [code : Codes, at : Nat]
    /\ la # Nil => la = ex \div TicksPerSecond
    /\ im # Nil => lt # Nil /\ im.code = lt.code /\ im.until = lt.at + Expiration

(* The credit of a client without a request, by its count and its          *)
(* verification.                                                           *)
Standing(i) == IF verified[i] = TRUE THEN "verified" ELSE "unverified"
Left(m, n) == IF m.max >= n THEN m.max - n ELSE 0
Resting(m, n, s, r) ==
    IF Alway(m) THEN r = IF s = "verified" THEN 1 ELSE 0 ELSE r = Left(m, n)

(* The same while request c of the client goes on: an action that has been *)
(* done is paid and not counted before it is logged.                       *)
Fit(m, c, n, s, r) ==
    /\ r \in Nat
    /\ CASE c.pc \in {"logRead", "logCount"} /\ c.op = "act" ->
              r = IF Alway(m) THEN 0 ELSE m.max - n - 1
         [] c.pc \in {"logTime", "logVerified"} -> r = IF Alway(m) THEN 0 ELSE Left(m, n)
         [] c.pc = "passVerified" -> ~ Alway(m) => n = m.max - 1
         [] OTHER -> Resting(m, n, s, r)
    /\ c.pc = "timeout" => n >= m.max
    /\ c.pc = "handle" => r >= 1
    /\ c.pc = "logCount" => c.read = n

Quiet(i) == \A w \in Requests : work[w].pc = "idle" \/ work[w].ip # i

Shapes ==
    /\ count = [i \in IPs |-> count[i]] /\ last = [i \in IPs |-> last[i]]
    /\ verified = [i \in IPs |-> verified[i]] /\ image = [i \in IPs |-> image[i]]
    /\ credit = [i \in IPs |-> credit[i]] /\ exact = [i \in IPs |-> exact[i]]
    /\ latest = [i \in IPs |-> latest[i]]

Apart ==
    \A w, o \in Requests :
       w # o /\ work[w].pc # "idle" /\ work[o].pc # "idle" /\ work[w].ip = work[o].ip =>
          work[w].ip \in raced

Bounded ==
    /\ mode \in Mode /\ clock \in 0..MaxTicks /\ acts \in 0..MaxActs
    /\ gc \in IPs \cup {Nil} /\ raced \subseteq IPs

Clients ==
    \A i \in IPs : ClientOK(count[i], last[i], verified[i], image[i], credit[i], exact[i],
                            latest[i])

Works == \A w \in Requests : WorkOK(mode, work[w])

FitsIn(i, c) == Fit(mode, c, getCount(i), Standing(i), credit[i])
RestsIn(i) == Resting(mode, getCount(i), Standing(i), credit[i])

Accounted ==
    /\ \A w \in Requests :
          work[w].pc # "idle" /\ work[w].ip \notin raced => FitsIn(work[w].ip, work[w])
    /\ \A i \in IPs \ raced : Quiet(i) => RestsIn(i)

CaptchaInv ==
    /\ Bounded /\ work \in [Requests -> WorkSet] /\ Works /\ Shapes /\ Clients
    /\ Apart /\ Accounted

-----------------------------------------------------------------------------
(* Facts about the parts of the invariant.                                 *)

(* The stores of the clients other than i stay.                            *)
Others(i) ==
    \A j \in IPs \ {i} :
       /\ count'[j] = count[j] /\ last'[j] = last[j] /\ verified'[j] = verified[j]
       /\ image'[j] = image[j] /\ credit'[j] = credit[j] /\ exact'[j] = exact[j]
       /\ latest'[j] = latest[j]

(* Counts, limits and credits are numbers.                                 *)
LEMMA NumberFacts ==
    ASSUME CaptchaInv, NEW i \in IPs
    PROVE  getCount(i) \in Int /\ mode.max \in Int /\ mode.reset \in Nat /\ credit[i] \in Int
<1>1. ClientOK(count[i], last[i], verified[i], image[i], credit[i], exact[i], latest[i])
    BY DEF CaptchaInv, Clients
<1>2. getCount(i) \in Int
    BY <1>1 DEF ClientOK, getCount
<1>3. mode.max \in Int /\ mode.reset \in Nat
    BY DEF CaptchaInv, Bounded, Mode
<1> QED BY <1>1, <1>2, <1>3 DEF ClientOK

(* What a request in progress knows.                                       *)
LEMMA Own ==
    ASSUME CaptchaInv, NEW w \in Requests, NEW c, c = work[w], c.pc # "idle", NEW i, i = c.ip
    PROVE  /\ i \in IPs /\ c \in WorkSet /\ WorkOK(mode, c)
           /\ ClientOK(count[i], last[i], verified[i], image[i], credit[i], exact[i], latest[i])
           /\ i \notin raced => FitsIn(i, c)
           /\ \A o \in Requests : o # w /\ work[o].pc # "idle" /\ work[o].ip = i => i \in raced
<1>1. c \in WorkSet /\ i \in IPs
    BY DEF CaptchaInv, WorkSet
<1> QED BY <1>1 DEF CaptchaInv, Works, Clients, Apart, Accounted

(* One request steps, and touches the stores of one client.                *)
LEMMA TurnStep ==
    ASSUME CaptchaInv, NEW w \in Requests, NEW c, Turns(w, c), WorkOK(mode, c),
           NEW i \in IPs, work[w].pc # "idle" => work[w].ip = i, c.pc # "idle" => c.ip = i,
           Bounded', mode' = mode, raced \subseteq raced',
           \A o \in Requests : o # w /\ work[o].pc # "idle" /\ work[o].ip = i => i \in raced',
           Shapes', Others(i),
           ClientOK(count'[i], last'[i], verified'[i], image'[i], credit'[i], exact'[i],
                    latest'[i]),
           i \notin raced' => IF c.pc = "idle" THEN RestsIn(i)'
                              ELSE Fit(mode, c, getCount(i)', Standing(i)', credit'[i])
    PROVE  CaptchaInv'
<1>1. work' \in [Requests -> WorkSet] /\ work'[w] = c
      /\ \A o \in Requests : o # w => work'[o] = work[o]
    BY DEF Turns
<1>2. Works'
    BY <1>1 DEF CaptchaInv, Works
<1>3. Clients'
    BY DEF CaptchaInv, Clients, Others
<1>4. ASSUME NEW j \in IPs, j # i
      PROVE  /\ getCount(j)' = getCount(j) /\ Standing(j)' = Standing(j)
             /\ credit'[j] = credit[j]
    BY <1>4 DEF Others, getCount, Standing
<1>5. Apart'
    <2> SUFFICES ASSUME NEW v \in Requests, NEW o \in Requests, v # o,
                        work'[v].pc # "idle", work'[o].pc # "idle", work'[v].ip = work'[o].ip
                 PROVE  work'[v].ip \in raced'
        BY DEF Apart
    <2>1. CASE v # w /\ o # w
        BY <1>1, <2>1 DEF CaptchaInv, Apart
    <2>2. CASE v = w
        BY <1>1, <2>2
    <2>3. CASE o = w
        BY <1>1, <2>3
    <2> QED BY <2>1, <2>2, <2>3
<1>6. ASSUME NEW o \in Requests, work'[o].pc # "idle", work'[o].ip \notin raced'
      PROVE  FitsIn(work[o].ip, work[o])'
    <2>1. CASE o = w
        BY <1>1, <1>6, <2>1 DEF FitsIn
    <2>2. CASE o # w
        <3> PICK j, d : j = work[o].ip /\ d = work[o]
            OBVIOUS
        <3>1. work'[o] = d /\ d.pc # "idle" /\ j \notin raced /\ d \in WorkSet /\ j = d.ip
              /\ j \notin raced'
            BY <1>1, <1>6, <2>2 DEF CaptchaInv
        <3>2. j # i
            BY <2>2, <3>1
        <3>3. j \in IPs
            BY <3>1 DEF WorkSet
        <3>4. FitsIn(j, d)
            BY <3>1 DEF CaptchaInv, Accounted
        <3>5. Fit(mode, d, getCount(j)', Standing(j)', credit'[j])
            BY <1>4, <3>2, <3>3, <3>4 DEF FitsIn
        <3> QED BY <3>1, <3>5 DEF FitsIn
    <2> QED BY <2>1, <2>2
<1>7. ASSUME NEW j \in IPs \ raced', Quiet(j)' PROVE RestsIn(j)'
    <2>1. CASE j = i
        <3>1. c.pc = "idle"
            BY <1>1, <1>7, <2>1 DEF Quiet
        <3> QED BY <1>7, <2>1, <3>1
    <2>2. CASE j # i
        <3>1. Quiet(j)
            <4> SUFFICES ASSUME NEW o \in Requests
                         PROVE  work[o].pc = "idle" \/ work[o].ip # j
                BY DEF Quiet
            <4>1. CASE o = w
                BY <2>2, <4>1
            <4>2. CASE o # w
                BY <1>1, <1>7, <4>2 DEF Quiet
            <4> QED BY <4>1, <4>2
        <3>2. RestsIn(j)
            BY <1>7, <3>1 DEF CaptchaInv, Accounted
        <3> QED BY <1>4, <2>2, <3>2 DEF RestsIn
    <2> QED BY <2>1, <2>2
<1>8. Accounted'
    BY <1>6, <1>7 DEF Accounted
<1> QED BY <1>1, <1>2, <1>3, <1>5, <1>8 DEF CaptchaInv

(* A request that changes nothing but itself.                              *)
LEMMA PlainStep ==
    ASSUME CaptchaInv, NEW w \in Requests, work[w].pc # "idle", NEW i, i = work[w].ip,
           NEW c, Turns(w, c), WorkOK(mode, c), c.pc # "idle" => c.ip = i,
           UNCHANGED <<mode, clock, store, image, gc, acts, history>>,
           i \notin raced => IF c.pc = "idle" THEN RestsIn(i) ELSE FitsIn(i, c)
    PROVE  CaptchaInv'
<1>1. UNCHANGED <<count, last, verified, credit, exact, latest, raced>>
    BY DEF store, history
<1>2. /\ i \in IPs
      /\ ClientOK(count[i], last[i], verified[i], image[i], credit[i], exact[i], latest[i])
      /\ \A o \in Requests : o # w /\ work[o].pc # "idle" /\ work[o].ip = i => i \in raced
    BY Own
<1>3. Bounded' /\ Shapes'
    BY <1>1 DEF CaptchaInv, Bounded, Shapes
<1>4. Others(i)
    BY <1>1 DEF Others
<1>5. /\ getCount(i)' = getCount(i) /\ Standing(i)' = Standing(i)
      /\ credit'[i] = credit[i]
    BY <1>1 DEF getCount, Standing
<1>6. i \notin raced' => IF c.pc = "idle" THEN RestsIn(i)'
                         ELSE Fit(mode, c, getCount(i)', Standing(i)', credit'[i])
    BY <1>1, <1>5 DEF RestsIn, FitsIn
<1>7. ClientOK(count'[i], last'[i], verified'[i], image'[i], credit'[i], exact'[i], latest'[i])
    BY <1>1, <1>2
<1> QED BY <1>1, <1>2, <1>3, <1>4, <1>6, <1>7, TurnStep

(* Places where the credit is that of a client at rest.                    *)
Asking == {"isPass", "timeout", "resetTime", "resetCount", "handle", "check", "drop",
           "passCount", "image", "panic"}

(* At these places the credit is that of a client at rest ...              *)
LEMMA FitResting ==
    ASSUME NEW m, NEW c, NEW n, NEW s, NEW r, Fit(m, c, n, s, r),
           \/ c.pc \in Asking
           \/ c.pc = "logRead" /\ c.op = "verify"
           \/ c.pc = "logCount" /\ c.op = "verify"
    PROVE  r \in Nat /\ Resting(m, n, s, r)
BY DEF Fit, Asking

(* ... and a client at rest has the credit of these places.                *)
LEMMA RestingFit ==
    ASSUME NEW m, m.max \in Int, NEW c, NEW n \in Int, NEW s, NEW r, Resting(m, n, s, r),
           \/ c.pc \in Asking \ {"timeout", "handle"}
           \/ c.pc = "timeout" /\ n >= m.max
           \/ c.pc = "handle" /\ r >= 1
           \/ c.pc = "logRead" /\ c.op = "verify"
    PROVE  Fit(m, c, n, s, r)
<1>1. r \in Nat
    BY DEF Resting, Left
<1> QED BY <1>1 DEF Fit, Asking

(* The invariant says of the settings what the code asks.                  *)
LEMMA AlwaysSame == Always <=> Alway(mode)
BY DEF Always, Alway

(* A request goes on, or ends, at rest.                                    *)
LEMMA GoesStep ==
    ASSUME CaptchaInv, NEW w \in Requests, NEW c, c = work[w], c.pc \in Asking,
           NEW i, i = c.ip,
           NEW x \in Pcs \ {"idle"}, Goto(w, x),
           \/ x \in {"image", "panic", "passCount"}
           \/ x \in {"logRead", "drop"} /\ c.op = "verify"
           \/ x = "resetTime" /\ c.pc = "timeout"
           \/ x = "resetCount" /\ c.pc = "resetTime"
           \/ x = "timeout" /\ c.pc = "isPass" /\ ~ Always /\ getCount(i) >= mode.max
           \/ x = "handle" /\ c.op = "act" /\ (i \notin raced => credit[i] >= 1),
           UNCHANGED <<mode, clock, store, image, gc, acts, history>>
    PROVE  CaptchaInv'
<1>1. c.pc # "idle" /\ work \in [Requests -> WorkSet]
    BY DEF Asking, CaptchaInv
<1>2. i \in IPs /\ WorkOK(mode, c) /\ (i \notin raced => FitsIn(i, c))
    BY <1>1, Own
<1>3. PICK d \in WorkSet : Turns(w, d) /\ d.pc = x /\ d.op = c.op /\ d.ip = c.ip
    BY <1>1, GotoForm
<1>4. getCount(i) \in Int /\ mode.max \in Int /\ credit[i] \in Int
    BY <1>2, NumberFacts
<1>5. WorkOK(mode, d)
    BY <1>2, <1>3, AlwaysSame DEF WorkOK, Pcs
<1>6. i \notin raced => FitsIn(i, d)
    <2> SUFFICES ASSUME i \notin raced PROVE FitsIn(i, d)
        OBVIOUS
    <2>1. Resting(mode, getCount(i), Standing(i), credit[i])
        BY <1>2, FitResting DEF FitsIn
    <2>2. \/ d.pc \in Asking \ {"timeout", "handle"}
          \/ d.pc = "timeout" /\ getCount(i) >= mode.max
          \/ d.pc = "handle" /\ credit[i] >= 1
          \/ d.pc = "logRead" /\ d.op = "verify"
        BY <1>3 DEF Asking, Pcs
    <2> QED BY <1>4, <2>1, <2>2, RestingFit DEF FitsIn
<1> QED BY <1>1, <1>3, <1>5, <1>6, PlainStep

(* A request ends where nothing is owed.                                   *)
LEMMA ReturnStep ==
    ASSUME CaptchaInv, NEW w \in Requests, NEW c, c = work[w], c.pc \in Asking, Return(w),
           UNCHANGED <<mode, clock, store, image, gc, acts, history>>
    PROVE  CaptchaInv'
<1>1. c.pc # "idle" /\ work \in [Requests -> WorkSet]
    BY DEF Asking, CaptchaInv
<1> PICK i : i = c.ip
    OBVIOUS
<1>2. i \in IPs /\ (i \notin raced => FitsIn(i, c))
    BY <1>1, Own
<1> PICK d : d = Idle
    OBVIOUS
<1>3. Turns(w, d) /\ d.pc = "idle" /\ d.op = ""
    BY <1>1, ReturnForm, IdleFields
<1>4. WorkOK(mode, d)
    BY <1>3 DEF WorkOK
<1>5. i \notin raced => RestsIn(i)
    BY <1>2, FitResting DEF FitsIn, RestsIn
<1> QED BY <1>1, <1>3, <1>4, <1>5, PlainStep

(* The client may act if its count is below the limit, or it is verified.  *)
LEMMA AnswerStep ==
    ASSUME CaptchaInv, NEW w \in Requests, NEW c, c = work[w], c.pc \in {"isPass", "timeout"},
           NEW pass, pass \in BOOLEAN, Answer(w, pass),
           pass => c.pc = "isPass" /\ (IF Always THEN verified[c.ip] = TRUE
                                       ELSE getCount(c.ip) < mode.max),
           UNCHANGED <<mode, clock, store, image, gc, acts, history>>
    PROVE  CaptchaInv'
<1> PICK i : i = c.ip
    OBVIOUS
<1>1. c.pc # "idle" /\ c.pc \in Asking
    BY DEF Asking
<1>2. i \in IPs /\ WorkOK(mode, c) /\ (i \notin raced => FitsIn(i, c))
    BY <1>1, Own
<1>3. CASE c.op = "status"
    <2>1. Return(w)
        BY <1>3 DEF Answer
    <2> QED BY <1>1, <2>1, ReturnStep
<1>4. CASE c.op # "status" /\ ~ pass
    <2>1. Goto(w, "image") /\ "image" \in Pcs \ {"idle"}
        BY <1>4 DEF Answer, Pcs
    <2> QED BY <1>1, <2>1, GoesStep
<1>5. CASE c.op # "status" /\ pass
    <2>1. Goto(w, "handle") /\ "handle" \in Pcs \ {"idle"}
        BY <1>5 DEF Answer, Pcs
    <2>2. c.op = "act"
        BY <1>2, <1>5 DEF WorkOK
    <2>3. ASSUME i \notin raced PROVE credit[i] >= 1
        <3>1. Resting(mode, getCount(i), Standing(i), credit[i])
            BY <1>1, <1>2, <2>3, FitResting DEF FitsIn
        <3>2. getCount(i) \in Int /\ mode.max \in Int /\ credit[i] \in Int
            BY <1>2, NumberFacts
        <3>3. CASE Always
            <4>1. Standing(i) = "verified"
                BY <1>5, <3>3 DEF Standing
            <4>2. credit[i] = 1
                BY <3>1, <3>3, <4>1, AlwaysSame DEF Resting
            <4> QED BY <4>2
        <3>4. CASE ~ Always
            <4>1. getCount(i) < mode.max
                BY <1>5, <3>4
            <4>2. credit[i] = mode.max - getCount(i)
                BY <3>1, <3>2, <3>4, <4>1, AlwaysSame DEF Resting, Left
            <4> QED BY <3>2, <4>1, <4>2
        <3> QED BY <3>3, <3>4
    <2> QED BY <1>1, <2>1, <2>2, <2>3, GoesStep
<1> QED BY <1>3, <1>4, <1>5

(* IsPass reads the count and the verification.                            *)
LEMMA IsPassStep ==
    ASSUME CaptchaInv, NEW w \in Requests, IsPass(w)
    PROVE  CaptchaInv'
<1> PICK c : c = work[w]
    OBVIOUS
<1> PICK i : i = c.ip
    OBVIOUS
<1>1. /\ c.pc = "isPass" /\ UNCHANGED <<mode, clock, store, image, gc, acts, history>>
      /\ c.pc \in Asking
    BY DEF IsPass, Asking
<1>2. i \in IPs
    BY <1>1, Own
<1>3. getCount(i) \in Int /\ mode.max \in Int
    BY <1>2, NumberFacts
<1>4. CASE ~ Always /\ getCount(i) >= mode.max
    <2>1. Goto(w, "timeout") /\ "timeout" \in Pcs \ {"idle"}
        BY <1>4 DEF IsPass, Ip, Pcs
    <2> QED BY <1>1, <1>4, <2>1, GoesStep
<1>5. CASE ~ (~ Always /\ getCount(i) >= mode.max)
    <2> PICK pass \in BOOLEAN : pass = (~ Always \/ verified[i] = TRUE)
        BY Zenon
    <2>1. Answer(w, pass)
        BY <1>5 DEF IsPass, Ip
    <2>2. pass => (IF Always THEN verified[i] = TRUE ELSE getCount(i) < mode.max)
        <3>1. CASE Always
            BY <3>1
        <3>2. CASE ~ Always
            BY <1>3, <1>5, <3>2
        <3> QED BY <3>1, <3>2
    <2> QED BY <1>1, <2>1, <2>2, AnswerStep
<1> QED BY <1>4, <1>5

(* isTimeout is asked once the limit is reached.                           *)
LEMMA TimeoutStep ==
    ASSUME CaptchaInv, NEW w \in Requests, Timeout(w)
    PROVE  CaptchaInv'
<1> PICK c : c = work[w]
    OBVIOUS
<1>1. /\ c.pc = "timeout" /\ UNCHANGED <<mode, clock, store, image, gc, acts, history>>
      /\ c.pc \in Asking
    BY DEF Timeout, Asking
<1>2. CASE isTimeout(c.ip)
    <2>1. Goto(w, "resetTime") /\ "resetTime" \in Pcs \ {"idle"}
        BY <1>2 DEF Timeout, Ip, Pcs
    <2> QED BY <1>1, <2>1, GoesStep
<1>3. CASE ~ isTimeout(c.ip)
    <2>1. Answer(w, FALSE)
        BY <1>3 DEF Timeout, Ip
    <2> PICK pass \in BOOLEAN : pass = FALSE
        OBVIOUS
    <2>2. Answer(w, pass) /\ ~ pass
        BY <2>1
    <2> QED BY <1>1, <2>2, AnswerStep
<1> QED BY <1>2, <1>3

-----------------------------------------------------------------------------
(* Steps that write a store.                                               *)

(* A request writes what is stored of its client.                          *)
LEMMA WriteStep ==
    ASSUME CaptchaInv, NEW w \in Requests, work[w].pc # "idle", NEW i, i = work[w].ip,
           NEW c, Turns(w, c), WorkOK(mode, c), c.pc # "idle" => c.ip = i,
           UNCHANGED <<mode, clock, gc, acts, raced>>, Shapes', Others(i),
           ClientOK(count'[i], last'[i], verified'[i], image'[i], credit'[i], exact'[i],
                    latest'[i]),
           i \notin raced => IF c.pc = "idle" THEN RestsIn(i)'
                             ELSE Fit(mode, c, getCount(i)', Standing(i)', credit'[i])
    PROVE  CaptchaInv'
<1>1. /\ i \in IPs
      /\ \A o \in Requests : o # w /\ work[o].pc # "idle" /\ work[o].ip = i => i \in raced
    BY Own
<1>2. Bounded'
    BY DEF CaptchaInv, Bounded
<1> QED BY <1>1, <1>2, TurnStep

(* ResetLog deletes the time ...                                           *)
LEMMA ResetTimeStep ==
    ASSUME CaptchaInv, NEW w \in Requests, ResetTime(w)
    PROVE  CaptchaInv'
<1> PICK c : c = work[w]
    OBVIOUS
<1> PICK i : i = c.ip
    OBVIOUS
<1>1. /\ c.pc = "resetTime" /\ last' = [last EXCEPT ![i] = Nil] /\ Goto(w, "resetCount")
      /\ UNCHANGED <<mode, clock, count, verified, image, gc, acts, credit, exact, latest, raced>>
    BY DEF ResetTime, Ip, history
<1>2. /\ i \in IPs /\ WorkOK(mode, c) /\ (i \notin raced => FitsIn(i, c))
      /\ ClientOK(count[i], last[i], verified[i], image[i], credit[i], exact[i], latest[i])
    BY <1>1, Own
<1>3. work \in [Requests -> WorkSet] /\ "resetCount" \in Pcs
    BY DEF CaptchaInv, Pcs
<1>4. PICK d \in WorkSet : Turns(w, d) /\ d.pc = "resetCount" /\ d.op = c.op /\ d.ip = c.ip
    BY <1>1, <1>3, GotoForm
<1>5. WorkOK(mode, d)
    BY <1>1, <1>2, <1>4 DEF WorkOK
<1>6. Shapes' /\ Others(i) /\ last'[i] = Nil
    BY <1>1, <1>2 DEF CaptchaInv, Shapes, Others
<1>7. ClientOK(count'[i], last'[i], verified'[i], image'[i], credit'[i], exact'[i], latest'[i])
    BY <1>1, <1>2, <1>6 DEF ClientOK
<1>8. ASSUME i \notin raced PROVE Fit(mode, d, getCount(i)', Standing(i)', credit'[i])
    <2>1. Resting(mode, getCount(i), Standing(i), credit[i])
        BY <1>1, <1>2, <1>8, FitResting DEF FitsIn, Asking
    <2>2. getCount(i)' = getCount(i) /\ Standing(i)' = Standing(i) /\ credit'[i] = credit[i]
        BY <1>1 DEF getCount, Standing
    <2>3. getCount(i) \in Int /\ mode.max \in Int
        BY <1>2, NumberFacts
    <2>4. Fit(mode, d, getCount(i), Standing(i), credit[i])
        BY <1>4, <2>1, <2>3, RestingFit DEF Asking
    <2> QED BY <2>2, <2>4
<1> QED BY <1>1, <1>4, <1>5, <1>6, <1>7, <1>8, WriteStep

(* ... and the count, and the client has its limit again.                  *)
LEMMA ResetCountStep ==
    ASSUME CaptchaInv, NEW w \in Requests, ResetCount(w)
    PROVE  CaptchaInv'
<1> PICK c : c = work[w]
    OBVIOUS
<1> PICK i : i = c.ip
    OBVIOUS
<1>1. /\ c.pc = "resetCount" /\ count' = [count EXCEPT ![i] = Nil]
      /\ credit' = [credit EXCEPT ![i] = mode.max] /\ Answer(w, TRUE)
      /\ UNCHANGED <<mode, clock, last, verified, image, gc, acts, exact, latest, raced>>
    BY DEF ResetCount, Ip
<1>2. /\ i \in IPs /\ WorkOK(mode, c)
      /\ ClientOK(count[i], last[i], verified[i], image[i], credit[i], exact[i], latest[i])
    BY <1>1, Own
<1>3. work \in [Requests -> WorkSet] /\ "handle" \in Pcs /\ mode.max \in Int
    BY DEF CaptchaInv, Pcs, Bounded, Mode
<1>4. mode.max > 0 /\ ~ Alway(mode)
    BY <1>1, <1>2, <1>3 DEF WorkOK, Alway
<1>5. Shapes' /\ Others(i) /\ count'[i] = Nil /\ credit'[i] = mode.max
    BY <1>1, <1>2 DEF CaptchaInv, Shapes, Others
<1>6. ClientOK(count'[i], last'[i], verified'[i], image'[i], credit'[i], exact'[i], latest'[i])
    BY <1>1, <1>2, <1>3, <1>5 DEF ClientOK
<1>7. getCount(i)' = 0
    BY <1>5 DEF getCount
<1>8. Resting(mode, getCount(i)', Standing(i)', credit'[i])
    BY <1>3, <1>4, <1>5, <1>7 DEF Resting, Left
<1>9. CASE c.op = "status"
    <2> PICK d : d = Idle
        OBVIOUS
    <2>1. Turns(w, d) /\ d.pc = "idle" /\ d.op = ""
        BY <1>1, <1>3, <1>9, ReturnForm, IdleFields DEF Answer
    <2>2. WorkOK(mode, d)
        BY <2>1 DEF WorkOK
    <2>3. RestsIn(i)'
        BY <1>1, <1>8 DEF RestsIn
    <2> QED BY <1>1, <1>5, <1>6, <2>1, <2>2, <2>3, WriteStep
<1>10. CASE c.op # "status"
    <2>1. Goto(w, "handle") /\ c.op = "act"
        BY <1>1, <1>2, <1>10 DEF Answer, WorkOK
    <2>2. PICK d \in WorkSet : Turns(w, d) /\ d.pc = "handle" /\ d.op = c.op /\ d.ip = c.ip
        BY <1>3, <2>1, GotoForm
    <2>3. WorkOK(mode, d)
        BY <2>1, <2>2 DEF WorkOK
    <2>4. credit'[i] >= 1 /\ getCount(i)' \in Int
        BY <1>3, <1>4, <1>5, <1>7
    <2>5. Fit(mode, d, getCount(i)', Standing(i)', credit'[i])
        BY <1>3, <1>8, <2>2, <2>4, RestingFit
    <2> QED BY <1>1, <1>5, <1>6, <2>2, <2>3, <2>5, WriteStep
<1> QED BY <1>9, <1>10

(* The action is paid.                                                     *)
LEMMA HandleStep ==
    ASSUME CaptchaInv, NEW w \in Requests, Handle(w)
    PROVE  CaptchaInv'
<1> PICK c : c = work[w]
    OBVIOUS
<1> PICK i : i = c.ip
    OBVIOUS
<1>1. /\ c.pc = "handle" /\ credit' = [credit EXCEPT ![i] = credit[i] - 1] /\ Goto(w, "logRead")
      /\ UNCHANGED <<mode, clock, count, last, verified, image, gc, acts, exact, latest, raced>>
    BY DEF Handle, Ip, store
<1>2. /\ i \in IPs /\ WorkOK(mode, c) /\ (i \notin raced => FitsIn(i, c))
      /\ ClientOK(count[i], last[i], verified[i], image[i], credit[i], exact[i], latest[i])
    BY <1>1, Own
<1>3. work \in [Requests -> WorkSet] /\ "logRead" \in Pcs
    BY DEF CaptchaInv, Pcs
<1>4. PICK d \in WorkSet : Turns(w, d) /\ d.pc = "logRead" /\ d.op = c.op /\ d.ip = c.ip
    BY <1>1, <1>3, GotoForm
<1>5. WorkOK(mode, d) /\ d.op = "act"
    BY <1>1, <1>2, <1>4 DEF WorkOK
<1>6. Shapes' /\ Others(i) /\ credit'[i] = credit[i] - 1
    BY <1>1, <1>2 DEF CaptchaInv, Shapes, Others
<1>7. ClientOK(count'[i], last'[i], verified'[i], image'[i], credit'[i], exact'[i], latest'[i])
    BY <1>1, <1>2, <1>6 DEF ClientOK
<1>8. ASSUME i \notin raced PROVE Fit(mode, d, getCount(i)', Standing(i)', credit'[i])
    <2> PICK n, s, r : n = getCount(i) /\ s = Standing(i) /\ r = credit[i]
        OBVIOUS
    <2>1. Resting(mode, n, s, r) /\ r \in Nat /\ r >= 1
        BY <1>1, <1>2, <1>8, FitResting DEF FitsIn, Asking, Fit
    <2>2. getCount(i)' = n /\ Standing(i)' = s /\ credit'[i] = r - 1
        BY <1>1, <1>6 DEF getCount, Standing
    <2>3. n \in Int /\ mode.max \in Int
        BY <1>2, NumberFacts
    <2>4. r - 1 = IF Alway(mode) THEN 0 ELSE mode.max - n - 1
        BY <2>1, <2>3 DEF Resting, Left
    <2>5. Fit(mode, d, n, s, r - 1)
        BY <1>4, <1>5, <2>1, <2>3, <2>4 DEF Fit
    <2> QED BY <2>2, <2>5
<1> QED BY <1>1, <1>4, <1>5, <1>6, <1>7, <1>8, WriteStep

(* increaseCount reads the count.                                          *)
LEMMA LogReadStep ==
    ASSUME CaptchaInv, NEW w \in Requests, LogRead(w)
    PROVE  CaptchaInv'
<1> PICK c : c = work[w]
    OBVIOUS
<1> PICK i : i = c.ip
    OBVIOUS
<1> PICK n : n = getCount(i)
    OBVIOUS
<1>1. /\ c.pc = "logRead" /\ Reads(w, n)
      /\ UNCHANGED <<mode, clock, store, image, gc, acts, history>>
    BY DEF LogRead, Ip, Reads
<1>2. /\ i \in IPs /\ WorkOK(mode, c) /\ (i \notin raced => FitsIn(i, c))
    BY <1>1, Own
<1>3. work \in [Requests -> WorkSet] /\ n \in Int /\ mode.max \in Int
    BY <1>2, NumberFacts DEF CaptchaInv
<1>4. PICK d \in WorkSet : Turns(w, d) /\ d.pc = "logCount" /\ d.op = c.op /\ d.ip = c.ip
                           /\ d.read = n
    BY <1>1, <1>3, ReadForm
<1>5. WorkOK(mode, d)
    BY <1>1, <1>2, <1>4 DEF WorkOK
<1>6. i \notin raced => FitsIn(i, d)
    BY <1>1, <1>2, <1>4 DEF FitsIn, Fit
<1> QED BY <1>1, <1>4, <1>5, <1>6, PlainStep

(* An action that is paid is counted, and a wrong answer costs one.        *)
LEMMA LogCountStep ==
    ASSUME CaptchaInv, NEW w \in Requests, LogCount(w)
    PROVE  CaptchaInv'
<1> PICK c : c = work[w]
    OBVIOUS
<1> PICK i : i = c.ip
    OBVIOUS
<1> PICK r2 : r2 = IF c.op = "verify" THEN Spent(w) ELSE credit[i]
    OBVIOUS
<1>1. /\ c.pc = "logCount" /\ count' = [count EXCEPT ![i] = c.read + 1] /\ Goto(w, "logTime")
      /\ credit' = IF c.op = "verify" THEN [credit EXCEPT ![i] = Spent(w)] ELSE credit
      /\ UNCHANGED <<mode, clock, last, verified, image, gc, acts, exact, latest, raced>>
    BY DEF LogCount, Ip
<1>2. /\ i \in IPs /\ c \in WorkSet /\ WorkOK(mode, c) /\ (i \notin raced => FitsIn(i, c))
      /\ ClientOK(count[i], last[i], verified[i], image[i], credit[i], exact[i], latest[i])
    BY <1>1, Own
<1>3. work \in [Requests -> WorkSet] /\ "logTime" \in Pcs /\ c.read \in Int
    BY <1>2 DEF CaptchaInv, Pcs, WorkSet
<1>4. PICK d \in WorkSet : Turns(w, d) /\ d.pc = "logTime" /\ d.op = c.op /\ d.ip = c.ip
    BY <1>1, <1>3, GotoForm
<1>5. WorkOK(mode, d)
    BY <1>4 DEF WorkOK
<1>6. /\ getCount(i) \in Int /\ mode.max \in Int /\ credit[i] \in Int
    BY <1>2, NumberFacts
<1>7. r2 \in Int /\ c.op \in {"act", "verify"}
    BY <1>1, <1>2, <1>6 DEF Spent, Ip, WorkOK
<1>8. Shapes' /\ Others(i) /\ credit'[i] = r2 /\ count'[i] = c.read + 1
    BY <1>1, <1>2 DEF CaptchaInv, Shapes, Others
<1>9. ClientOK(count'[i], last'[i], verified'[i], image'[i], credit'[i], exact'[i], latest'[i])
    BY <1>1, <1>2, <1>3, <1>7, <1>8 DEF ClientOK
<1>10. getCount(i)' = c.read + 1
    BY <1>3, <1>8, LimiterAssumption DEF getCount
<1>11. ASSUME i \notin raced PROVE Fit(mode, d, getCount(i)', Standing(i)', credit'[i])
    <2> PICK n, s, r : n = getCount(i) /\ s = Standing(i) /\ r = credit[i]
        OBVIOUS
    <2>1. c.read = n /\ r \in Nat /\ n \in Int /\ Fit(mode, c, n, s, r)
        BY <1>1, <1>2, <1>6, <1>11 DEF FitsIn, Fit
    <2>2. r2 = IF Alway(mode) THEN 0 ELSE Left(mode, n + 1)
        <3>1. CASE c.op = "act"
            <4>1. r2 = r /\ r = IF Alway(mode) THEN 0 ELSE mode.max - n - 1
                BY <1>1, <2>1, <3>1 DEF Fit
            <4> QED BY <1>6, <2>1, <4>1 DEF Left
        <3>2. CASE c.op = "verify"
            <4>1. Resting(mode, n, s, r)
                BY <1>1, <2>1, <3>2, FitResting
            <4>2. r2 = IF Alway(mode) \/ r <= 0 THEN 0 ELSE r - 1
                BY <3>2, AlwaysSame DEF Spent, Ip
            <4> QED BY <1>6, <2>1, <4>1, <4>2 DEF Resting, Left
        <3> QED BY <1>7, <3>1, <3>2
    <2>3. r2 \in Nat
        BY <1>6, <2>1, <2>2 DEF Left
    <2>4. Fit(mode, d, n + 1, Standing(i)', r2)
        BY <1>4, <2>2, <2>3 DEF Fit
    <2> QED BY <1>8, <1>10, <2>1, <2>4
<1> QED BY <1>1, <1>4, <1>5, <1>8, <1>9, <1>11, WriteStep

(* logTime writes the time of the action.                                  *)
LEMMA LogTimeStep ==
    ASSUME CaptchaInv, NEW w \in Requests, LogTime(w)
    PROVE  CaptchaInv'
<1> PICK c : c = work[w]
    OBVIOUS
<1> PICK i : i = c.ip
    OBVIOUS
<1> PICK t : t = clock \div TicksPerSecond
    OBVIOUS
<1>1. /\ c.pc = "logTime" /\ last' = [last EXCEPT ![i] = t] /\ exact' = [exact EXCEPT ![i] = clock]
      /\ Goto(w, "logVerified")
      /\ UNCHANGED <<mode, clock, count, verified, image, gc, acts, credit, latest, raced>>
    BY DEF LogTime, Ip
<1>2. /\ i \in IPs /\ (i \notin raced => FitsIn(i, c))
      /\ ClientOK(count[i], last[i], verified[i], image[i], credit[i], exact[i], latest[i])
    BY <1>1, Own
<1>3. work \in [Requests -> WorkSet] /\ "logVerified" \in Pcs /\ clock \in Nat
    BY DEF CaptchaInv, Pcs, Bounded
<1>4. PICK d \in WorkSet : Turns(w, d) /\ d.pc = "logVerified" /\ d.op = c.op /\ d.ip = c.ip
    BY <1>1, <1>3, GotoForm
<1>5. WorkOK(mode, d)
    BY <1>4 DEF WorkOK
<1>6. t \in Nat
    <2>1. TicksPerSecond \in Nat \ {0}
        BY LimiterAssumption
    <2> QED BY ONLY <1>3, <2>1, t = clock \div TicksPerSecond
<1>7. Shapes' /\ Others(i) /\ last'[i] = t /\ exact'[i] = clock
    BY <1>1, <1>2 DEF CaptchaInv, Shapes, Others
<1>8. ClientOK(count'[i], last'[i], verified'[i], image'[i], credit'[i], exact'[i], latest'[i])
    BY <1>1, <1>2, <1>3, <1>6, <1>7 DEF ClientOK
<1>9. ASSUME i \notin raced PROVE Fit(mode, d, getCount(i)', Standing(i)', credit'[i])
    <2>1. getCount(i)' = getCount(i) /\ Standing(i)' = Standing(i) /\ credit'[i] = credit[i]
        BY <1>1 DEF getCount, Standing
    <2>2. Fit(mode, d, getCount(i), Standing(i), credit[i])
        BY <1>1, <1>2, <1>4, <1>9 DEF FitsIn, Fit
    <2> QED BY <2>1, <2>2
<1> QED BY <1>1, <1>4, <1>5, <1>7, <1>8, <1>9, WriteStep

(* The verification is taken back, and the client is at rest.              *)
LEMMA LogVerifiedStep ==
    ASSUME CaptchaInv, NEW w \in Requests, LogVerified(w)
    PROVE  CaptchaInv'
<1> PICK c : c = work[w]
    OBVIOUS
<1> PICK i : i = c.ip
    OBVIOUS
<1>1. /\ c.pc = "logVerified" /\ verified' = [verified EXCEPT ![i] = FALSE]
      /\ UNCHANGED <<mode, clock, count, last, image, gc, acts, credit, exact, latest, raced>>
    BY DEF LogVerified, Ip, history
<1>2. /\ i \in IPs /\ (i \notin raced => FitsIn(i, c))
      /\ ClientOK(count[i], last[i], verified[i], image[i], credit[i], exact[i], latest[i])
    BY <1>1, Own
<1>3. work \in [Requests -> WorkSet] /\ "panic" \in Pcs /\ "image" \in Pcs
    BY DEF CaptchaInv, Pcs
<1>4. Shapes' /\ Others(i) /\ (verified'[i] = FALSE)
    BY <1>1, <1>2 DEF CaptchaInv, Shapes, Others
<1>5. ClientOK(count'[i], last'[i], verified'[i], image'[i], credit'[i], exact'[i], latest'[i])
    BY <1>1, <1>2, <1>4 DEF ClientOK
<1>6. /\ getCount(i)' = getCount(i) /\ Standing(i)' = "unverified" /\ credit'[i] = credit[i]
    BY <1>1, <1>4 DEF getCount, Standing
<1>7. getCount(i) \in Int /\ mode.max \in Int
    BY <1>2, NumberFacts
<1>8. i \notin raced => Resting(mode, getCount(i), "unverified", credit[i])
    BY <1>1, <1>2 DEF FitsIn, Fit, Resting
<1>9. CASE Return(w)
    <2> PICK d : d = Idle
        OBVIOUS
    <2>1. Turns(w, d) /\ d.pc = "idle" /\ d.op = ""
        BY <1>3, <1>9, ReturnForm, IdleFields
    <2>2. WorkOK(mode, d)
        BY <2>1 DEF WorkOK
    <2>3. i \notin raced => RestsIn(i)'
        BY <1>1, <1>6, <1>8 DEF RestsIn
    <2> QED BY <1>1, <1>4, <1>5, <2>1, <2>2, <2>3, WriteStep
<1>10. ASSUME NEW x \in {"panic", "image"}, Goto(w, x) PROVE CaptchaInv'
    <2>1. PICK d \in WorkSet : Turns(w, d) /\ d.pc = x /\ d.op = c.op /\ d.ip = c.ip
        BY <1>3, <1>10, GotoForm
    <2>2. WorkOK(mode, d)
        BY <2>1 DEF WorkOK
    <2>3. ASSUME i \notin raced PROVE Fit(mode, d, getCount(i)', Standing(i)', credit'[i])
        <3>1. Fit(mode, d, getCount(i), "unverified", credit[i])
            BY <1>7, <1>8, <2>1, <2>3, RestingFit DEF Asking
        <3> QED BY <1>6, <3>1
    <2> QED BY <1>1, <1>4, <1>5, <2>1, <2>2, <2>3, WriteStep
<1>11. Return(w) \/ Goto(w, "panic") \/ Goto(w, "image")
    BY DEF LogVerified
<1> QED BY <1>9, <1>10, <1>11

(* An answer is checked against the image or by a service.                 *)
LEMMA CheckStep ==
    ASSUME CaptchaInv, NEW w \in Requests, Check(w) \/ CheckByService(w)
    PROVE  CaptchaInv'
<1> PICK c : c = work[w]
    OBVIOUS
<1> PICK i : i = c.ip
    OBVIOUS
<1>1. /\ c.pc = "check" /\ c.pc \in Asking
      /\ UNCHANGED <<mode, clock, store, image, gc, acts, history>>
    BY DEF Check, CheckByService, Asking
<1>2. /\ i \in IPs /\ WorkOK(mode, c) /\ (i \notin raced => FitsIn(i, c))
    BY <1>1, Own
<1>3. c.op = "verify" /\ work \in [Requests -> WorkSet]
    BY <1>1, <1>2 DEF WorkOK, CaptchaInv
<1>4. ASSUME NEW x \in {"drop", "passCount", "logRead"}, Goto(w, x) PROVE CaptchaInv'
    <2>1. x \in Pcs \ {"idle"}
        BY DEF Pcs
    <2> QED BY <1>1, <1>3, <1>4, <2>1, GoesStep
<1>5. ASSUME NEW m \in BOOLEAN, Mutes(w, m) PROVE CaptchaInv'
    <2>1. PICK d \in WorkSet : Turns(w, d) /\ d.pc = "logRead" /\ d.op = c.op /\ d.ip = c.ip
        BY <1>3, <1>5, MuteForm
    <2>2. WorkOK(mode, d)
        BY <1>3, <2>1 DEF WorkOK
    <2>3. ASSUME i \notin raced PROVE FitsIn(i, d)
        <3>1. Resting(mode, getCount(i), Standing(i), credit[i])
            BY <1>1, <1>2, <2>3, FitResting DEF FitsIn
        <3>2. getCount(i) \in Int /\ mode.max \in Int
            BY <1>2, NumberFacts
        <3> QED BY <1>3, <2>1, <3>1, <3>2, RestingFit DEF FitsIn
    <2> QED BY <1>1, <2>1, <2>2, <2>3, PlainStep
<1>6. CASE Check(w)
    <2>1. Goto(w, "drop") \/ Goto(w, "passCount") \/ Goto(w, "logRead")
        BY <1>6 DEF Check
    <2> QED BY <1>4, <2>1
<1>7. CASE CheckByService(w)
    <2>1. Goto(w, "passCount") \/ \E m \in BOOLEAN : Mutes(w, m)
        BY <1>7 DEF CheckByService, Mutes
    <2> QED BY <1>4, <1>5, <2>1
<1> QED BY <1>6, <1>7

(* The expired image goes.                                                 *)
LEMMA DropStep ==
    ASSUME CaptchaInv, NEW w \in Requests, Drop(w)
    PROVE  CaptchaInv'
<1> PICK c : c = work[w]
    OBVIOUS
<1> PICK i : i = c.ip
    OBVIOUS
<1>1. /\ c.pc = "drop" /\ image' = [image EXCEPT ![i] = Nil] /\ Goto(w, "logRead")
      /\ UNCHANGED <<mode, clock, count, last, verified, gc, acts, credit, exact, latest, raced>>
    BY DEF Drop, Ip, store, history
<1>2. /\ i \in IPs /\ WorkOK(mode, c) /\ (i \notin raced => FitsIn(i, c))
      /\ ClientOK(count[i], last[i], verified[i], image[i], credit[i], exact[i], latest[i])
    BY <1>1, Own
<1>3. work \in [Requests -> WorkSet] /\ "logRead" \in Pcs
    BY DEF CaptchaInv, Pcs
<1>4. PICK d \in WorkSet : Turns(w, d) /\ d.pc = "logRead" /\ d.op = c.op /\ d.ip = c.ip
    BY <1>1, <1>3, GotoForm
<1>5. WorkOK(mode, d) /\ d.op = "verify"
    BY <1>1, <1>2, <1>4 DEF WorkOK
<1>6. Shapes' /\ Others(i) /\ image'[i] = Nil
    BY <1>1, <1>2 DEF CaptchaInv, Shapes, Others
<1>7. ClientOK(count'[i], last'[i], verified'[i], image'[i], credit'[i], exact'[i], latest'[i])
    BY <1>1, <1>2, <1>6 DEF ClientOK
<1>8. ASSUME i \notin raced PROVE Fit(mode, d, getCount(i)', Standing(i)', credit'[i])
    <2>1. Resting(mode, getCount(i), Standing(i), credit[i])
        BY <1>1, <1>2, <1>8, FitResting DEF FitsIn, Asking
    <2>2. getCount(i)' = getCount(i) /\ Standing(i)' = Standing(i) /\ credit'[i] = credit[i]
        BY <1>1 DEF getCount, Standing
    <2>3. getCount(i) \in Int /\ mode.max \in Int
        BY <1>2, NumberFacts
    <2>4. Fit(mode, d, getCount(i), Standing(i), credit[i])
        BY <1>4, <1>5, <2>1, <2>3, RestingFit
    <2> QED BY <2>2, <2>4
<1> QED BY <1>1, <1>4, <1>5, <1>6, <1>7, <1>8, WriteStep

(* A solved captcha is worth one action.                                   *)
LEMMA PassCountStep ==
    ASSUME CaptchaInv, NEW w \in Requests, PassCount(w)
    PROVE  CaptchaInv'
<1> PICK c : c = work[w]
    OBVIOUS
<1> PICK i : i = c.ip
    OBVIOUS
<1>1. /\ c.pc = "passCount" /\ count' = [count EXCEPT ![i] = mode.max - 1]
      /\ Goto(w, "passVerified")
      /\ UNCHANGED <<mode, clock, last, verified, image, gc, acts, credit, exact, latest, raced>>
    BY DEF PassCount, Ip, history
<1>2. /\ i \in IPs /\ (i \notin raced => FitsIn(i, c))
      /\ ClientOK(count[i], last[i], verified[i], image[i], credit[i], exact[i], latest[i])
    BY <1>1, Own
<1>3. work \in [Requests -> WorkSet] /\ "passVerified" \in Pcs /\ mode.max \in Int
    BY <1>2, NumberFacts DEF CaptchaInv, Pcs
<1>4. PICK d \in WorkSet : Turns(w, d) /\ d.pc = "passVerified" /\ d.op = c.op /\ d.ip = c.ip
    BY <1>1, <1>3, GotoForm
<1>5. WorkOK(mode, d)
    BY <1>4 DEF WorkOK
<1>6. Shapes' /\ Others(i) /\ count'[i] = mode.max - 1
    BY <1>1, <1>2 DEF CaptchaInv, Shapes, Others
<1>7. ClientOK(count'[i], last'[i], verified'[i], image'[i], credit'[i], exact'[i], latest'[i])
    BY <1>1, <1>2, <1>3, <1>6 DEF ClientOK
<1>8. getCount(i)' = mode.max - 1
    BY <1>3, <1>6, LimiterAssumption DEF getCount
<1>9. ASSUME i \notin raced PROVE Fit(mode, d, getCount(i)', Standing(i)', credit'[i])
    <2>1. credit[i] \in Nat
        BY <1>1, <1>2, <1>9 DEF FitsIn, Fit
    <2>2. credit'[i] = credit[i]
        BY <1>1
    <2>3. Fit(mode, d, mode.max - 1, Standing(i)', credit[i])
        BY <1>4, <2>1 DEF Fit
    <2> QED BY <1>8, <2>2, <2>3
<1> QED BY <1>1, <1>4, <1>5, <1>6, <1>7, <1>9, WriteStep

(* MarkVerifyPassed verifies the client, which has one action then.        *)
LEMMA PassVerifiedStep ==
    ASSUME CaptchaInv, NEW w \in Requests, PassVerified(w)
    PROVE  CaptchaInv'
<1> PICK c : c = work[w]
    OBVIOUS
<1> PICK i : i = c.ip
    OBVIOUS
<1>1. /\ c.pc = "passVerified" /\ verified' = [verified EXCEPT ![i] = TRUE]
      /\ credit' = [credit EXCEPT ![i] = 1] /\ Return(w)
      /\ UNCHANGED <<mode, clock, count, last, image, gc, acts, exact, latest, raced>>
    BY DEF PassVerified, Ip
<1>2. /\ i \in IPs /\ (i \notin raced => FitsIn(i, c))
      /\ ClientOK(count[i], last[i], verified[i], image[i], credit[i], exact[i], latest[i])
    BY <1>1, Own
<1>3. work \in [Requests -> WorkSet] /\ getCount(i) \in Int /\ mode.max \in Int
    BY <1>2, NumberFacts DEF CaptchaInv
<1> PICK d : d = Idle
    OBVIOUS
<1>4. Turns(w, d) /\ d.pc = "idle" /\ d.op = ""
    BY <1>1, <1>3, ReturnForm, IdleFields
<1>5. WorkOK(mode, d)
    BY <1>4 DEF WorkOK
<1>6. Shapes' /\ Others(i) /\ (verified'[i] = TRUE) /\ credit'[i] = 1
    BY <1>1, <1>2 DEF CaptchaInv, Shapes, Others
<1>7. ClientOK(count'[i], last'[i], verified'[i], image'[i], credit'[i], exact'[i], latest'[i])
    BY <1>1, <1>2, <1>6 DEF ClientOK
<1>8. ASSUME i \notin raced PROVE RestsIn(i)'
    <2>1. Standing(i)' = "verified" /\ getCount(i)' = getCount(i)
        BY <1>1, <1>6 DEF Standing, getCount
    <2>2. ~ Alway(mode) => getCount(i) = mode.max - 1
        BY <1>1, <1>2, <1>8 DEF FitsIn, Fit
    <2>3. Resting(mode, getCount(i), "verified", 1)
        BY <1>3, <2>2 DEF Resting, Left
    <2> QED BY <1>1, <1>6, <2>1, <2>3 DEF RestsIn
<1> QED BY <1>1, <1>4, <1>5, <1>6, <1>7, <1>8, WriteStep

(* A new image is the one generated last.                                  *)
LEMMA ImageStep ==
    ASSUME CaptchaInv, NEW w \in Requests, NEW k \in Codes, Image(w, k)
    PROVE  CaptchaInv'
<1> PICK c : c = work[w]
    OBVIOUS
<1> PICK i : i = c.ip
    OBVIOUS
<1> PICK e, t : /\ e = [code |-> k, until |-> clock + Expiration]
                /\ t = [code |-> k, at |-> clock]
    OBVIOUS
<1>1. /\ c.pc = "image" /\ image' = [image EXCEPT ![i] = e]
      /\ latest' = [latest EXCEPT ![i] = t] /\ Return(w)
      /\ UNCHANGED <<mode, clock, count, last, verified, gc, acts, credit, exact, raced>>
    BY DEF Image, Ip, store
<1>2. /\ i \in IPs /\ (i \notin raced => FitsIn(i, c))
      /\ ClientOK(count[i], last[i], verified[i], image[i], credit[i], exact[i], latest[i])
    BY <1>1, Own
<1>3. work \in [Requests -> WorkSet] /\ clock \in Nat /\ Expiration \in Nat
    BY LimiterAssumption DEF CaptchaInv, Bounded
<1> PICK d : d = Idle
    OBVIOUS
<1>4. Turns(w, d) /\ d.pc = "idle" /\ d.op = ""
    BY <1>1, <1>3, ReturnForm, IdleFields
<1>5. WorkOK(mode, d)
    BY <1>4 DEF WorkOK
<1>6. Shapes' /\ Others(i) /\ image'[i] = e /\ latest'[i] = t
    BY <1>1, <1>2 DEF CaptchaInv, Shapes, Others
<1>7. /\ e \in [code : Codes, until : Nat] /\ t \in [code : Codes, at : Nat]
      /\ e.code = t.code /\ e.until = t.at + Expiration
    BY <1>3
<1>8. t # Nil
    BY <1>7, LimiterAssumption
<1>9. ClientOK(count'[i], last'[i], verified'[i], image'[i], credit'[i], exact'[i], latest'[i])
    BY <1>1, <1>2, <1>6, <1>7, <1>8 DEF ClientOK
<1>10. ASSUME i \notin raced PROVE RestsIn(i)'
    <2>1. Standing(i)' = Standing(i) /\ getCount(i)' = getCount(i) /\ credit'[i] = credit[i]
        BY <1>1 DEF Standing, getCount
    <2>2. Resting(mode, getCount(i), Standing(i), credit[i])
        BY <1>1, <1>2, <1>10, FitResting DEF FitsIn, Asking
    <2> QED BY <1>1, <2>1, <2>2 DEF RestsIn
<1> QED BY <1>1, <1>4, <1>5, <1>6, <1>9, <1>10, WriteStep

(* No image is sent.                                                       *)
LEMMA NoImageStep ==
    ASSUME CaptchaInv, NEW w \in Requests, NoImage(w)
    PROVE  CaptchaInv'
BY ReturnStep DEF NoImage, Asking

-----------------------------------------------------------------------------
(* The other steps.                                                        *)

(* A request begins: if it is the only one of its client, that one was at  *)
(* rest.                                                                   *)
LEMMA BeginStep ==
    ASSUME CaptchaInv, NEW w \in Requests, NEW op \in {"act", "verify", "get", "status"},
           NEW i \in IPs, NEW k \in Codes, Begin(w, op, i, k)
    PROVE  CaptchaInv'
<1> PICK x : x = BeginPc(op)
    OBVIOUS
<1>1. /\ work[w].pc = "idle" /\ acts < MaxActs /\ acts' = acts + 1 /\ Begins(w, op, i, k, x)
      /\ raced' = IF \E o \in Requests : work[o].pc # "idle" /\ work[o].ip = i
                  THEN raced \cup {i} ELSE raced
      /\ UNCHANGED <<mode, clock, store, image, gc, credit, exact, latest>>
    BY DEF Begin, Begins, BeginPc, Ip
<1>2. work \in [Requests -> WorkSet]
    BY DEF CaptchaInv
<1>3. PICK d \in WorkSet : Turns(w, d) /\ d.pc = x /\ d.op = op /\ d.ip = i
    BY <1>1, <1>2, BeginForm
<1>4. x \in {"check", "image", "isPass"} /\ (x = "check" => op = "verify")
      /\ (x = "isPass" => op \in {"act", "status"})
    BY DEF BeginPc
<1>5. WorkOK(mode, d)
    BY <1>3, <1>4 DEF WorkOK
<1>6. UNCHANGED <<count, last, verified>>
    BY <1>1 DEF store
<1>7. acts' \in 0..MaxActs
    BY <1>1, LimiterAssumption DEF CaptchaInv, Bounded
<1>8. Bounded' /\ Shapes' /\ Others(i) /\ raced \subseteq raced'
    BY <1>1, <1>6, <1>7 DEF CaptchaInv, Bounded, Shapes, Others
<1>9. \A o \in Requests : o # w /\ work[o].pc # "idle" /\ work[o].ip = i => i \in raced'
    BY <1>1
<1>10. ClientOK(count'[i], last'[i], verified'[i], image'[i], credit'[i], exact'[i], latest'[i])
    BY <1>1, <1>6 DEF CaptchaInv, Clients
<1>11. ASSUME i \notin raced' PROVE Fit(mode, d, getCount(i)', Standing(i)', credit'[i])
    <2>1. Quiet(i) /\ i \notin raced
        BY <1>1, <1>11 DEF Quiet
    <2>2. Resting(mode, getCount(i), Standing(i), credit[i])
        BY <2>1 DEF CaptchaInv, Accounted, RestsIn
    <2>3. getCount(i)' = getCount(i) /\ Standing(i)' = Standing(i) /\ credit'[i] = credit[i]
        BY <1>1, <1>6 DEF getCount, Standing
    <2>4. getCount(i) \in Int /\ mode.max \in Int
        BY NumberFacts
    <2>5. Fit(mode, d, getCount(i), Standing(i), credit[i])
        BY <1>3, <1>4, <2>2, <2>4, RestingFit DEF Asking
    <2> QED BY <2>3, <2>5
<1>12. d.pc # "idle"
    BY <1>3, <1>4
<1> QED BY <1>1, <1>3, <1>5, <1>8, <1>9, <1>10, <1>11, <1>12, TurnStep

(* The clock, and the deletion of expired images, touch no request.        *)
LEMMA OutsideStep ==
    ASSUME CaptchaInv, UNCHANGED <<mode, work, count, verified, credit, raced>>,
           Bounded', Shapes', Clients'
    PROVE  CaptchaInv'
<1>1. work' \in [Requests -> WorkSet] /\ Works' /\ Apart'
    BY DEF CaptchaInv, Works, Apart
<1>2. \A i : getCount(i)' = getCount(i) /\ Standing(i)' = Standing(i)
    BY DEF getCount, Standing
<1>3. ASSUME NEW w \in Requests, work[w].pc # "idle", work[w].ip \notin raced
      PROVE  FitsIn(work[w].ip, work[w])'
    <2>1. FitsIn(work[w].ip, work[w])
        BY <1>3 DEF CaptchaInv, Accounted
    <2> QED BY <1>2, <2>1 DEF FitsIn
<1>4. ASSUME NEW i \in IPs \ raced, Quiet(i)' PROVE RestsIn(i)'
    <2>1. Quiet(i)
        BY <1>4 DEF Quiet
    <2>2. RestsIn(i)
        BY <1>4, <2>1 DEF CaptchaInv, Accounted
    <2> QED BY <1>2, <2>2 DEF RestsIn
<1>5. Accounted'
    BY <1>3, <1>4 DEF Accounted
<1> QED BY <1>1, <1>5 DEF CaptchaInv

(* Time passes.                                                            *)
LEMMA TickStep ==
    ASSUME CaptchaInv, CaptchaTick
    PROVE  CaptchaInv'
<1>1. /\ clock' = clock + 1 /\ clock < MaxTicks
      /\ UNCHANGED <<mode, count, last, verified, image, gc, work, acts, credit, exact, latest,
                     raced>>
    BY DEF CaptchaTick, store, history
<1>2. clock' \in 0..MaxTicks
    BY <1>1, LimiterAssumption DEF CaptchaInv, Bounded
<1>3. Bounded' /\ Shapes' /\ Clients'
    BY <1>1, <1>2 DEF CaptchaInv, Bounded, Shapes, Clients
<1> QED BY <1>1, <1>3, OutsideStep

(* Expired images are found and deleted.                                   *)
LEMMA GcStep ==
    ASSUME CaptchaInv, GcDelete \/ \E i \in IPs : GcFind(i)
    PROVE  CaptchaInv'
<1>1. UNCHANGED <<mode, clock, count, last, verified, work, acts, credit, exact, latest, raced>>
    BY DEF GcFind, GcDelete, store, history
<1>2. CASE \E i \in IPs : GcFind(i)
    <2>1. gc' \in IPs /\ image' = image
        BY <1>2 DEF GcFind
    <2>2. Bounded' /\ Shapes' /\ Clients'
        BY <1>1, <2>1 DEF CaptchaInv, Bounded, Shapes, Clients
    <2> QED BY <1>1, <2>2, OutsideStep
<1>3. CASE GcDelete
    <2>1. gc \in IPs /\ gc' = Nil /\ image' = [image EXCEPT ![gc] = Nil]
        BY <1>3 DEF GcDelete, CaptchaInv, Bounded
    <2>2. Bounded' /\ Shapes' /\ image'[gc] = Nil
          /\ \A j \in IPs : j # gc => image'[j] = image[j]
        BY <1>1, <2>1 DEF CaptchaInv, Bounded, Shapes
    <2>3. ASSUME NEW j \in IPs
          PROVE  ClientOK(count[j], last[j], verified[j], image'[j], credit[j], exact[j],
                          latest[j])
        <3>1. ClientOK(count[j], last[j], verified[j], image[j], credit[j], exact[j], latest[j])
            BY DEF CaptchaInv, Clients
        <3>2. image'[j] = Nil \/ image'[j] = image[j]
            BY <2>2
        <3> QED BY <3>1, <3>2 DEF ClientOK
    <2>4. Clients'
        BY <1>1, <2>3 DEF Clients
    <2> QED BY <1>1, <2>2, <2>4, OutsideStep
<1> QED BY <1>2, <1>3

(* The server begins, or begins anew.                                      *)
Fresh ==
    /\ Bounded /\ raced = {} /\ count = [i \in IPs |-> Nil] /\ last = [i \in IPs |-> Nil]
    /\ verified = [i \in IPs |-> Nil] /\ image = [i \in IPs |-> Nil]
    /\ work = [w \in Requests |-> Idle]
    /\ credit = [i \in IPs |-> IF Always THEN 0 ELSE mode.max]
    /\ exact = [i \in IPs |-> 0] /\ latest = [i \in IPs |-> Nil]

(* A server that has just started meets the invariant.                     *)
LEMMA FreshInv == Fresh => CaptchaInv
<1> SUFFICES ASSUME Fresh PROVE CaptchaInv
    OBVIOUS
<1> USE DEF Fresh
<1>1. mode.max \in Int
    BY DEF Bounded, Mode
<1>2. work \in [Requests -> WorkSet] /\ \A w \in Requests : work[w].pc = "idle" /\ work[w].op = ""
    BY IdleFields
<1>3. Works /\ Apart /\ Shapes
    BY <1>2 DEF Works, WorkOK, Apart, Shapes
<1>4. ASSUME NEW i \in IPs
      PROVE  ClientOK(count[i], last[i], verified[i], image[i], credit[i], exact[i], latest[i])
    BY <1>1 DEF ClientOK
<1>5. ASSUME NEW i \in IPs PROVE RestsIn(i)
    <2>1. verified[i] # TRUE
        <3>1. verified[i] = Nil /\ TRUE \in BOOLEAN
            OBVIOUS
        <3>2. Nil \notin BOOLEAN
            BY LimiterAssumption
        <3> QED BY ONLY <3>1, <3>2, Zenon
    <2>2. getCount(i) = 0 /\ Standing(i) = "unverified"
        BY <2>1 DEF getCount, Standing
    <2>3. credit[i] = IF Alway(mode) THEN 0 ELSE mode.max
        BY AlwaysSame
    <2>4. Resting(mode, 0, "unverified", credit[i])
        BY <1>1, <2>3 DEF Resting, Left, Alway
    <2> QED BY <2>2, <2>4 DEF RestsIn
<1>6. Clients /\ Accounted
    BY <1>2, <1>4, <1>5 DEF Clients, Accounted
<1> QED BY <1>2, <1>3, <1>6 DEF CaptchaInv

(* The same of the next state.                                             *)
LEMMA FreshNext == Fresh' => CaptchaInv'
BY FreshInv, PTL

(* The server ends and starts again.                                       *)
LEMMA PanicStep ==
    ASSUME CaptchaInv, NEW w \in Requests, Panic(w)
    PROVE  CaptchaInv'
<1>1. Bounded'
    BY DEF Panic, CaptchaInv, Bounded
<1>2. Fresh'
    BY <1>1 DEF Panic, Fresh, Always
<1> QED BY <1>2, FreshNext

(* The server starts.                                                      *)
LEMMA CaptchaInitInv == CaptchaInit => CaptchaInv
<1> SUFFICES ASSUME CaptchaInit PROVE CaptchaInv
    OBVIOUS
<1>1. Bounded
    BY LimiterAssumption DEF CaptchaInit, Bounded
<1> QED BY <1>1, FreshInv DEF CaptchaInit, Fresh

(* Every step keeps the invariant.                                         *)
LEMMA CaptchaNextInv ==
    ASSUME CaptchaInv, [CaptchaNext]_captchaVars
    PROVE  CaptchaInv'
<1>1. CASE UNCHANGED captchaVars
    <2>1. UNCHANGED <<mode, clock, count, last, verified, image, gc, work, acts, credit, exact,
                      latest, raced>>
        BY <1>1 DEF captchaVars, store, history
    <2>2. Bounded' /\ Shapes' /\ Clients'
        BY <2>1 DEF CaptchaInv, Bounded, Shapes, Clients
    <2> QED BY <2>1, <2>2, OutsideStep
<1>2. ASSUME NEW w \in Requests, Step(w) PROVE CaptchaInv'
    <2>1. CASE IsPass(w) \/ Timeout(w) \/ ResetTime(w) \/ ResetCount(w)
        BY <2>1, IsPassStep, TimeoutStep, ResetTimeStep, ResetCountStep
    <2>2. CASE Handle(w) \/ LogRead(w) \/ LogCount(w) \/ LogTime(w) \/ LogVerified(w)
        BY <2>2, HandleStep, LogReadStep, LogCountStep, LogTimeStep, LogVerifiedStep
    <2>3. CASE Check(w) \/ CheckByService(w) \/ Drop(w) \/ PassCount(w) \/ PassVerified(w)
        BY <2>3, CheckStep, DropStep, PassCountStep, PassVerifiedStep
    <2>4. CASE (\E k \in Codes : Image(w, k)) \/ NoImage(w) \/ Panic(w)
        BY <2>4, ImageStep, NoImageStep, PanicStep
    <2> QED BY <1>2, <2>1, <2>2, <2>3, <2>4 DEF Step
<1>3. ASSUME NEW w \in Requests, NEW i \in IPs,
             \/ \E k \in IF mode.iframe THEN {Idle.code} ELSE Codes : Begin(w, "verify", i, k)
             \/ \E op \in {"act", "get", "status"} : Begin(w, op, i, Idle.code)
      PROVE  CaptchaInv'
    <2>1. Idle.code \in Codes
        BY IdleFields DEF WorkSet
    <2>2. \E op \in {"act", "verify", "get", "status"}, k \in Codes : Begin(w, op, i, k)
        BY <1>3, <2>1
    <2> QED BY <2>2, BeginStep
<1>4. CASE GcDelete \/ \E i \in IPs : GcFind(i)
    BY <1>4, GcStep
<1>5. CASE CaptchaTick
    BY <1>5, TickStep
<1> QED BY <1>1, <1>2, <1>3, <1>4, <1>5 DEF CaptchaNext

-----------------------------------------------------------------------------
(* The properties.                                                         *)

(* The invariant says what the run checks.                                 *)
LEMMA InvSound == CaptchaInv => WithinCredit
<1> SUFFICES ASSUME CaptchaInv PROVE WithinCredit
    OBVIOUS
<1>1. ASSUME NEW i \in IPs
      PROVE  /\ count[i] \in Int \cup {Nil} /\ last[i] \in Nat \cup {Nil}
             /\ verified[i] \in BOOLEAN \cup {Nil}
             /\ image[i] = Nil \/ image[i] \in [code : Codes, until : Nat]
             /\ credit[i] \in Int /\ exact[i] \in Int
             /\ latest[i] = Nil \/ latest[i] \in [code : Codes, at : Nat]
    BY DEF CaptchaInv, Clients, ClientOK
<1>2. credit \in [IPs -> Int] /\ exact \in [IPs -> Int]
    BY <1>1 DEF CaptchaInv, Shapes
<1>3. CaptchaTypeOK
    BY <1>1, <1>2 DEF CaptchaInv, CaptchaTypeOK, Bounded, WorkSet
<1>4. ASSUME NEW i \in IPs \ raced PROVE credit[i] >= 0
    <2>1. getCount(i) \in Int /\ mode.max \in Int
        BY NumberFacts
    <2>2. CASE Quiet(i)
        <3>1. Resting(mode, getCount(i), Standing(i), credit[i])
            BY <2>2 DEF CaptchaInv, Accounted, RestsIn
        <3> QED BY <2>1, <3>1 DEF Resting, Left
    <2>3. CASE ~ Quiet(i)
        <3>1. PICK w \in Requests : work[w].pc # "idle" /\ work[w].ip = i
            BY <2>3 DEF Quiet
        <3>2. FitsIn(i, work[w])
            BY <3>1 DEF CaptchaInv, Accounted
        <3> QED BY <3>2 DEF FitsIn, Fit
    <2> QED BY <2>2, <2>3
<1> QED BY <1>3, <1>4 DEF WithinCredit

(* The captcha limiter keeps its limit (LimiterGuard, IsPass, Log): no     *)
(* client whose requests follow one another ever acts more often than its  *)
(* limit, its time-out and its solved captchas allow.                      *)
THEOREM CreditKept == CaptchaSpec => []WithinCredit
<1>1. CaptchaInv /\ [CaptchaNext]_captchaVars => CaptchaInv'
    BY CaptchaNextInv
<1> QED BY <1>1, CaptchaInitInv, InvSound, PTL DEF CaptchaSpec

(* Requests move by their own steps, begin, or end with the server.        *)
LEMMA Goes ==
    ASSUME work \in [Requests -> WorkSet], NEW w \in Requests, NEW x, Goto(w, x)
    PROVE  work'[w].pc = x /\ \A o \in Requests : o # w => work'[o] = work[o]
BY DEF Goto, WorkSet

(* A request that ends leaves the others alone.                            *)
LEMMA Ends ==
    ASSUME work \in [Requests -> WorkSet], NEW w \in Requests, Return(w)
    PROVE  work'[w].pc = "idle" /\ \A o \in Requests : o # w => work'[o] = work[o]
BY IdleFields DEF Return

(* A step of one request leaves the others, unless the server ends.        *)
LEMMA StepApart ==
    ASSUME work \in [Requests -> WorkSet], NEW o \in Requests, Step(o), ~ Panic(o),
           NEW w \in Requests, w # o
    PROVE  work'[w] = work[w]
<1>1. Return(o) \/ (\E x : Goto(o, x)) => work'[w] = work[w]
    BY Goes, Ends
<1>2. CASE IsPass(o) \/ Timeout(o) \/ ResetCount(o)
    BY <1>1, <1>2 DEF IsPass, Timeout, ResetCount, Answer
<1>3. CASE ResetTime(o) \/ Handle(o) \/ LogCount(o) \/ LogTime(o) \/ Drop(o) \/ PassCount(o)
    BY <1>1, <1>3 DEF ResetTime, Handle, LogCount, LogTime, Drop, PassCount
<1>4. CASE LogVerified(o)
    BY <1>1, <1>4 DEF LogVerified
<1>5. CASE Check(o)
    BY <1>1, <1>5 DEF Check
<1>6. CASE LogRead(o)
    BY <1>6 DEF LogRead
<1>7. CASE CheckByService(o)
    BY <1>1, <1>7 DEF CheckByService
<1>8. CASE (\E k \in Codes : Image(o, k)) \/ NoImage(o) \/ PassVerified(o)
    BY <1>1, <1>8 DEF Image, NoImage, PassVerified
<1> QED BY <1>2, <1>3, <1>4, <1>5, <1>6, <1>7, <1>8 DEF Step

(* A request in progress moves by its own steps.                           *)
LEMMA Moves ==
    ASSUME CaptchaInv, [CaptchaNext]_captchaVars, NEW w \in Requests,
           work[w].pc # "idle", work'[w].pc # "idle", work'[w].pc # work[w].pc
    PROVE  Step(w)
<1>1. work \in [Requests -> WorkSet]
    BY DEF CaptchaInv
<1>2. ASSUME NEW o \in Requests, Step(o) PROVE o = w
    <2>1. CASE Panic(o)
        <3>1. work'[w].pc = "idle"
            BY <2>1, IdleFields DEF Panic
        <3> QED BY <3>1
    <2>2. CASE ~ Panic(o)
        BY <1>1, <1>2, <2>2, StepApart
    <2> QED BY <2>1, <2>2
<1>3. ASSUME NEW o \in Requests, NEW i, NEW op, NEW k, Begin(o, op, i, k) PROVE FALSE
    <2>1. o # w
        BY <1>3 DEF Begin
    <2>2. work'[w] = work[w]
        BY <1>1, <1>3, <2>1 DEF Begin
    <2> QED BY <2>2
<1>4. (GcDelete \/ \E i \in IPs : GcFind(i)) => work' = work
    BY DEF GcFind, GcDelete
<1>5. CaptchaTick => work' = work
    BY DEF CaptchaTick
<1>6. UNCHANGED captchaVars => work' = work
    BY DEF captchaVars
<1> QED BY <1>2, <1>3, <1>4, <1>5, <1>6 DEF CaptchaNext

(* An image passes an answer: it is the latest.                            *)
LEMMA PassesLatest ==
    ASSUME CaptchaInv, [CaptchaNext]_captchaVars, NEW w \in Requests, ~ mode.iframe,
           work[w].pc = "check", work'[w].pc = "passCount"
    PROVE  /\ latest[Ip(w)] # Nil /\ latest[Ip(w)].code = work[w].code
           /\ clock <= latest[Ip(w)].at + Expiration
<1> PICK c, i : c = work[w] /\ i = c.ip
    OBVIOUS
<1>1. Step(w)
    BY Moves
<1>2. Check(w)
    BY <1>1 DEF Step, IsPass, Timeout, ResetTime, ResetCount, Handle, LogRead, LogCount, LogTime,
          LogVerified, CheckByService, Drop, PassCount, PassVerified, Image, NoImage, Panic
<1>3. Ip(w) = i /\ i \in IPs
    BY Own DEF Ip
<1>4. image[i] # Nil /\ image[i].code = c.code /\ ~ Expired(i)
    <2>1. work \in [Requests -> WorkSet]
        BY DEF CaptchaInv
    <2> QED BY <1>2, <1>3, <2>1, Goes DEF Check
<1>5. ClientOK(count[i], last[i], verified[i], image[i], credit[i], exact[i], latest[i])
    BY <1>3 DEF CaptchaInv, Clients
<1>6. latest[i] # Nil /\ image[i].code = latest[i].code
      /\ image[i].until = latest[i].at + Expiration
    BY <1>4, <1>5 DEF ClientOK
<1>7. image[i].until \in Nat /\ clock \in Nat
    BY <1>4, <1>5, LimiterAssumption DEF ClientOK, CaptchaInv, Bounded
<1> QED BY <1>3, <1>4, <1>6, <1>7 DEF Expired

(* Only the text of the latest image passes, within its lifetime           *)
(* (VerifyCaptcha, simple_cache), under any interleaving with new images.  *)
THEOREM LatestImageOnly == CaptchaSpec => OnlyLatestImage
<1>1. CaptchaInv /\ [CaptchaNext]_captchaVars => CaptchaInv'
    BY CaptchaNextInv
<1>2. CaptchaInv /\ [CaptchaNext]_captchaVars =>
        \A w \in Requests :
          ~ mode.iframe /\ work[w].pc = "check" /\ work'[w].pc = "passCount" =>
            /\ latest[Ip(w)] # Nil
            /\ latest[Ip(w)].code = work[w].code
            /\ clock <= latest[Ip(w)].at + Expiration
    BY PassesLatest
<1> QED BY <1>1, <1>2, CaptchaInitInv, PTL DEF CaptchaSpec, OnlyLatestImage

(* Whole seconds.                                                          *)
LEMMA Floor ==
    ASSUME NEW e \in Nat, NEW t \in Nat \ {0}, NEW q, q = e \div t
    PROVE  q \in Nat /\ q * t <= e /\ e < q * t + t
OBVIOUS

(* Products of seconds and ticks.                                          *)
LEMMA Distributes ==
    ASSUME NEW q \in Nat, NEW r \in Nat, NEW t \in Nat
    PROVE  /\ (q + r) * t = q * t + r * t /\ (r - 1) * t = r * t - t
           /\ q * t \in Nat /\ r * t \in Nat
OBVIOUS

(* What the answer of isTimeout says of the time of the last action.       *)
LEMMA TimeoutTells ==
    ASSUME CaptchaInv, NEW i \in IPs
    PROVE  /\ ~ isTimeout(i) /\ mode.reset > 0 => clock - exact[i] <= mode.reset * TicksPerSecond
           /\ isTimeout(i) /\ last[i] # Nil =>
                clock - exact[i] > (mode.reset - 1) * TicksPerSecond
<1> PICK l, e, r, t : l = last[i] /\ e = exact[i] /\ r = mode.reset /\ t = TicksPerSecond
    OBVIOUS
<1>1. ClientOK(count[i], last[i], verified[i], image[i], credit[i], exact[i], latest[i])
    BY DEF CaptchaInv, Clients
<1>2. e \in Nat /\ r \in Nat /\ t \in Nat \ {0} /\ (l # Nil => l = e \div t)
    BY <1>1, LimiterAssumption DEF ClientOK, CaptchaInv, Bounded, Mode
<1>3. clock \in Nat
    BY LimiterAssumption DEF CaptchaInv, Bounded
<1>4. ASSUME l # Nil
      PROVE  /\ clock <= (l + r) * t => clock - e <= r * t
             /\ clock > (l + r) * t => clock - e > (r - 1) * t
    <2>1. l \in Nat /\ l * t <= e /\ e < l * t + t
        BY <1>2, <1>4, Floor
    <2>2. /\ (l + r) * t = l * t + r * t /\ (r - 1) * t = r * t - t
          /\ l * t \in Nat /\ r * t \in Nat
        BY <1>2, <2>1, Distributes
    <2> PICK a, b : a = l * t /\ b = r * t
        OBVIOUS
    <2>3. /\ clock <= a + b => clock - e <= b
          /\ clock > a + b => clock - e > b - t
        BY <1>2, <1>3, <2>1, <2>2
    <2> QED BY <2>2, <2>3
<1>5. isTimeout(i) <=> r > 0 /\ (l = Nil \/ clock > (l + r) * t)
    BY DEF isTimeout
<1>6. l # Nil => (l + r) * t \in Nat
    <2> SUFFICES ASSUME l # Nil PROVE (l + r) * t \in Nat
        OBVIOUS
    <2>1. l \in Nat
        BY <1>2, Floor
    <2>2. l + r \in Nat
        BY <1>2, <2>1
    <2> QED BY <1>2, <2>2
<1>7. ~ isTimeout(i) /\ r > 0 => clock - e <= r * t
    BY <1>3, <1>4, <1>5, <1>6
<1>8. isTimeout(i) /\ l # Nil => clock - e > (r - 1) * t
    BY <1>4, <1>5
<1> QED BY <1>7, <1>8

(* A guarded action is refused by one of two answers.                      *)
LEMMA Refusals ==
    ASSUME CaptchaInv, NEW w \in Requests, Step(w), NEW c, c = work[w], c.op = "act",
           c.pc # "image", work'[w].pc = "image", NEW i, i = c.ip
    PROVE  \/ c.pc = "isPass" /\ Alway(mode) /\ Standing(i) = "unverified"
           \/ c.pc = "timeout" /\ ~ isTimeout(i)
<1>1. work \in [Requests -> WorkSet]
    BY DEF CaptchaInv
<1>2. \A x : Goto(w, x) => x = "image"
    BY <1>1, Goes
<1>3. ~ Return(w)
    BY <1>1, Ends
<1>4. IsPass(w) \/ Timeout(w)
    <2>1. ~ (\/ ResetTime(w) \/ Handle(w) \/ LogCount(w) \/ LogTime(w) \/ Drop(w)
             \/ PassCount(w))
        BY <1>2 DEF ResetTime, Handle, LogCount, LogTime, Drop, PassCount
    <2>2. ~ (PassVerified(w) \/ NoImage(w) \/ \E k \in Codes : Image(w, k))
        BY <1>3 DEF PassVerified, NoImage, Image
    <2>3. ~ LogVerified(w)
        <3>1. ~ Goto(w, "panic")
            BY <1>2
        <3> QED BY <1>3, <3>1 DEF LogVerified
    <2>4. ~ ResetCount(w)
        BY <1>2, <1>3 DEF ResetCount, Answer
    <2>5. ~ LogRead(w)
        BY <1>1 DEF LogRead, WorkSet
    <2>6. ~ Check(w) /\ ~ CheckByService(w)
        <3>1. c.pc # "check"
            <4>1. WorkOK(mode, c)
                BY DEF CaptchaInv, Works
            <4> QED BY <4>1 DEF WorkOK
        <3> QED BY <3>1 DEF Check, CheckByService
    <2>7. ~ Panic(w)
        BY IdleFields DEF Panic
    <2> QED BY <2>1, <2>2, <2>3, <2>4, <2>5, <2>6, <2>7 DEF Step
<1>5. CASE IsPass(w)
    BY <1>2, <1>5, AlwaysSame DEF IsPass, Answer, Ip, Standing
<1>6. CASE Timeout(w)
    BY <1>2, <1>6 DEF Timeout, Ip
<1> QED BY <1>4, <1>5, <1>6

(* A refused client has no credit, and its time-out has not passed.        *)
LEMMA RefusedSpent ==
    ASSUME CaptchaInv, [CaptchaNext]_captchaVars, NEW w \in Requests
    PROVE  RefusedWhenSpent(w)
<1> SUFFICES ASSUME work[w].op = "act", work[w].pc # "image", work'[w].pc = "image"
             PROVE  /\ Ip(w) \notin raced => credit[Ip(w)] = 0
                    /\ ~ Always /\ mode.reset > 0 =>
                          clock - exact[Ip(w)] <= mode.reset * TicksPerSecond
    BY DEF RefusedWhenSpent
<1> PICK c, i : c = work[w] /\ i = c.ip
    OBVIOUS
<1>1. c.pc # "idle"
    BY DEF CaptchaInv, Works, WorkOK
<1>2. Step(w)
    BY <1>1, Moves
<1>3. i = Ip(w) /\ i \in IPs /\ WorkOK(mode, c) /\ (i \notin raced => FitsIn(i, c))
    BY <1>1, Own DEF Ip
<1>4. \/ c.pc = "isPass" /\ Alway(mode) /\ Standing(i) = "unverified"
      \/ c.pc = "timeout" /\ ~ isTimeout(i)
    BY <1>2, Refusals
<1>5. getCount(i) \in Int /\ mode.max \in Int
    BY <1>3, NumberFacts
<1>6. ASSUME i \notin raced PROVE credit[i] = 0
    <2> PICK n, s, r : n = getCount(i) /\ s = Standing(i) /\ r = credit[i]
        OBVIOUS
    <2>1. Fit(mode, c, n, s, r)
        BY <1>3, <1>6 DEF FitsIn
    <2>2. Resting(mode, n, s, r)
        BY <1>4, <2>1, FitResting DEF Asking
    <2>3. CASE c.pc = "isPass"
        BY <1>4, <2>2, <2>3 DEF Resting
    <2>4. CASE c.pc = "timeout"
        <3>1. n >= mode.max /\ ~ Alway(mode)
            BY <1>3, <2>1, <2>4 DEF Fit, WorkOK
        <3> QED BY <1>5, <2>2, <3>1 DEF Resting, Left
    <2> QED BY <1>4, <2>3, <2>4
<1>7. ~ Alway(mode) /\ mode.reset > 0 => clock - exact[i] <= mode.reset * TicksPerSecond
    BY <1>3, <1>4, TimeoutTells
<1> QED BY <1>3, <1>6, <1>7, AlwaysSame

(* The count is reset by the answer of isTimeout.                          *)
LEMMA ResetsLate ==
    ASSUME CaptchaInv, [CaptchaNext]_captchaVars, NEW w \in Requests
    PROVE  NoEarlyReset(w)
<1> SUFFICES ASSUME work[w].pc = "timeout", work'[w].pc = "resetTime", last[Ip(w)] # Nil
             PROVE  clock - exact[Ip(w)] > (mode.reset - 1) * TicksPerSecond
    BY DEF NoEarlyReset
<1>1. Step(w)
    BY Moves
<1>2. Timeout(w)
    BY <1>1 DEF Step, IsPass, ResetTime, ResetCount, Handle, LogRead, LogCount, LogTime,
          LogVerified, Check, CheckByService, Drop, PassCount, PassVerified, Image, NoImage, Panic
<1>3. Ip(w) \in IPs
    BY Own DEF Ip
<1>4. isTimeout(Ip(w))
    <2>1. work \in [Requests -> WorkSet]
        BY DEF CaptchaInv
    <2>2. ~ Return(w) /\ \A x : Goto(w, x) => x = "resetTime"
        BY <2>1, Goes, Ends
    <2> QED BY <1>2, <2>2 DEF Timeout, Answer
<1> QED BY <1>3, <1>4, TimeoutTells

(* The reset time-out is kept (isTimeout, ResetLog): no refusal of a       *)
(* client with credit, none after the time-out, and no reset before it.    *)
THEOREM TimeoutKept == CaptchaSpec => ResetInTime
<1>1. CaptchaInv /\ [CaptchaNext]_captchaVars => CaptchaInv'
    BY CaptchaNextInv
<1>2. CaptchaInv /\ [CaptchaNext]_captchaVars =>
        \A w \in Requests : RefusedWhenSpent(w) /\ NoEarlyReset(w)
    BY RefusedSpent, ResetsLate
<1> QED BY <1>1, <1>2, CaptchaInitInv, PTL DEF CaptchaSpec, ResetInTime

-----------------------------------------------------------------------------
(* The lists.                                                              *)

(* A set of numbers that is not empty has a least element.                 *)
LEMMA LeastNumber ==
    ASSUME NEW S, S \subseteq Nat, S # {}
    PROVE  \E i \in S : \A j \in S : i <= j
<1> DEFINE less == {ss \in Nat \X Nat : ss[1] < ss[2]}
<1>1. \A x, y \in Nat : <<x, y>> \in less <=> x < y
  OBVIOUS
<1>2. IsWellFoundedOn(less, Nat)
  BY NatLessThanWellFounded DEF OpToRel
<1> HIDE DEF less
<1>3. PICK i \in S : \A j \in S : <<j, i>> \notin less
  BY <1>2, WFMin
<1>4. \A j \in S : i <= j
  <2> SUFFICES ASSUME NEW j \in S PROVE i <= j
    OBVIOUS
  <2>1. i \in Nat /\ j \in Nat
    OBVIOUS
  <2>2. ~ (j < i)
    BY <1>1, <1>3, <2>1
  <2> QED
    BY <2>1, <2>2
<1> QED
  BY <1>4

(* A set with 0 and the successors of its numbers has all numbers.         *)
LEMMA AllNumbers ==
    ASSUME NEW S, 0 \in S, \A n \in Nat : n \in S => n + 1 \in S
    PROVE  Nat \subseteq S
<1> SUFFICES ASSUME Nat \ S # {} PROVE FALSE
  OBVIOUS
<1>1. PICK i \in Nat \ S : \A j \in Nat \ S : i <= j
  <2>1. Nat \ S \subseteq Nat
    OBVIOUS
  <2> QED
    BY <2>1, LeastNumber
<1>2. i # 0 /\ i - 1 \in Nat /\ (i - 1) + 1 = i
  OBVIOUS
<1>3. i - 1 \in S
  BY <1>1, <1>2
<1> QED
  BY <1>1, <1>2, <1>3

(* The state of a reader.                                                  *)
ReaderFits ==
    /\ reader = [pc |-> reader.pc, v |-> reader.v, o |-> reader.o, list |-> reader.list,
                 linked |-> reader.linked, last |-> reader.last, count |-> reader.count,
                 roots |-> reader.roots]
    /\ reader.v \in Viewers \cup {Stranger} /\ reader.o \in Queries \cup {NoRequest}
    /\ reader.pc = "idle" => reader = NoReader
    /\ reader.pc = "given" => reader.o = NoRequest
    /\ reader.pc \notin {"idle", "given"} => reader.o \in Queries
    /\ reader.last <= Len(reader.list)
    /\ reader.pc = "first" /\ reader.o.limit < 0 => reader.list = <<>>

ListingShape ==
    /\ ListingTypeOK /\ ReaderFits
    /\ IsFiniteSet(comments) /\ lastId \in Nat
    /\ \A c \in comments : c.id \in 1..MaxRows
    /\ \A n \in notices : n = [user |-> n.user, comment |-> n.comment, read |-> n.read]
    /\ before \subseteq 0..lastId

(* The copies of a comment answer the same comment, and have its author as *)
(* long as nobody gave it another and it is there.                         *)
CopiesFit ==
    /\ comments \subseteq copies
    /\ \A c \in copies : c.id \in 1..MaxRows /\ {c.id, c.rid} \subseteq 0..lastId
    /\ \A c, d \in copies : c.id = d.id => c.rid = d.rid
    /\ \A c \in copies : c.id \notin moved =>
          \E d \in comments : d.id = c.id /\ d.user = c.user

(* A notification is for an author of the comment that is answered, or for *)
(* an administrator.                                                       *)
AnswersOwner(n) == \A c \in copies : c.id = n.comment =>
    n.user \in Admins \/ \E d \in copies : d.id = c.rid /\ d.user = n.user
NoticesAnswer == CopiesFit /\ \A n \in notices : n.comment <= lastId /\ AnswersOwner(n)

(* The comments that a reader pages through, and the number of those       *)
(* before one of them.                                                     *)
Selected == IF reader.o.nested THEN OnlyRoot(Matching(reader.v, reader.o))
            ELSE Matching(reader.v, reader.o)
Ahead(x) == {y \in Selected : GetSortSQL(reader.o, y, x)}
Rank(x) == Cardinality(Ahead(x))
Seen(id) == \E i \in DOMAIN reader.list : reader.list[i].id = id

(* Nothing has been changed under a reader, or nothing happened at all.    *)
Walking == reader.pc \in {"first", "second", "count", "roots", "page"} /\ since # "changed"
Undisturbed == Walking /\ since = "nothing"
AtEnd == /\ reader.pc \in {"second", "count", "roots", "page"} /\ reader.o.limit # 0
         /\ reader.o.limit < 0 \/ reader.last < reader.o.limit

(* What was to be listed is still there.                                   *)
StillDue == Walking => \A id \in before : \E c \in Matching(reader.v, reader.o) : c.id = id

(* Of what was to be listed, that with less before it than the reader has  *)
(* got has been seen; at the end, all of it.                               *)
SeenSoFar == Walking /\ Untied => \A x \in Selected : x.id \in before =>
    /\ Rank(x) < Len(reader.list) => Seen(x.id)
    /\ AtEnd => Seen(x.id)

(* A list to which comments are added at the end, or not at all, is a      *)
(* beginning of the order.                                                 *)
Beginning == Walking /\ Untied /\ (reader.o.sort = "date_asc" \/ since = "nothing") =>
    \A i \in DOMAIN reader.list : reader.list[i] \in Selected /\ Rank(reader.list[i]) = i - 1

(* A list to which comments are only added never outgrows what it lists.   *)
NotBeyond == Walking => Len(reader.list) <= Cardinality(Selected)

IdsOf(s) == {r.id : r \in ToSet(s)}
LinkedTo == IF reader.pc = "second"
            THEN SubSeq(reader.list, 1, Len(reader.list) - reader.last) ELSE reader.list
CountsTrue == Undisturbed /\ Untied =>
    /\ AtEnd => Len(reader.list) = Cardinality(Selected)
    /\ reader.pc \in {"roots", "page"} =>
          reader.count = Cardinality(Matching(reader.v, reader.o))
    /\ reader.pc = "page" =>
          reader.roots = Cardinality(OnlyRoot(Matching(reader.v, reader.o)))
    /\ reader.o.nested =>
          reader.linked = {c \in Matching(reader.v, reader.o) :
                              c.rid # 0 /\ c.root \in IdsOf(LinkedTo)}

(* What is known of a list that a reader pages through.                    *)
ListTrue == StillDue /\ SeenSoFar /\ Beginning /\ NotBeyond /\ CountsTrue

ListingInv == ListingShape /\ OnlyReadable /\ NoticesAnswer /\ ListTrue

(* A finite set of numbers that is not empty has a greatest element.       *)
LEMMA GreatestThere ==
    ASSUME NEW S, S \subseteq Nat, IsFiniteSet(S), S # {}
    PROVE  Max(S) \in S /\ \A y \in S : Max(S) >= y
<1> DEFINE Sizes == {n \in Nat : \A T \in SUBSET Nat :
                IsFiniteSet(T) /\ Cardinality(T) = n /\ T # {} =>
                    \E x \in T : \A y \in T : x >= y}
<1>1. 0 \in Sizes
  BY FS_EmptySet
<1>2. ASSUME NEW n \in Nat, n \in Sizes PROVE n + 1 \in Sizes
  <2> SUFFICES ASSUME NEW T \in SUBSET Nat, IsFiniteSet(T), Cardinality(T) = n + 1, T # {}
               PROVE  \E x \in T : \A y \in T : x >= y
    OBVIOUS
  <2>1. PICK a \in T : TRUE
    OBVIOUS
  <2>2. IsFiniteSet(T \ {a}) /\ Cardinality(T \ {a}) = n
    <3>1. IsFiniteSet(T \ {a}) /\ Cardinality(T \ {a}) = Cardinality(T) - 1
      BY <2>1, FS_RemoveElement
    <3> QED
      BY <3>1
  <2>3. CASE T \ {a} = {}
    <3>1. \A y \in T : a >= y
      BY <2>3
    <3> QED
      BY <2>1, <3>1
  <2>4. CASE T \ {a} # {}
    <3>1. T \ {a} \in SUBSET Nat
      OBVIOUS
    <3>2. PICK x \in T \ {a} : \A y \in T \ {a} : x >= y
      BY <1>2, <2>2, <2>4, <3>1
    <3>3. CASE x >= a
      <4>1. \A y \in T : x >= y
        BY <3>2, <3>3
      <4> QED
        BY <3>2, <4>1
    <3>4. CASE ~ (x >= a)
      <4>1. \A y \in T : a >= y
        <5> TAKE y \in T
        <5>1. CASE y = a
          BY <5>1, <2>1
        <5>2. CASE y # a
          <6>1. x >= y /\ x \in Nat /\ y \in Nat /\ a \in Nat
            BY <5>2, <3>2, <2>1
          <6> QED
            BY <6>1, <3>4
        <5> QED
          BY <5>1, <5>2
      <4> QED
        BY <2>1, <4>1
    <3> QED
      BY <3>3, <3>4
  <2> QED
    BY <2>3, <2>4
<1>3. Nat \subseteq Sizes
  <2> HIDE DEF Sizes
  <2> QED
    BY <1>1, <1>2, AllNumbers
<1>4. Cardinality(S) \in Sizes
  BY <1>3, FS_CardinalityType
<1>5. \E x \in S : \A y \in S : x >= y
  BY <1>4
<1> QED
  BY <1>5 DEF Max

(* The numbers that a finite table holds are finitely many.                *)
LEMMA FieldFinite ==
    ASSUME NEW T, IsFiniteSet(T), NEW f, f = [c \in T |-> f[c]]
    PROVE  IsFiniteSet({f[c] : c \in T})
<1>1. f \in Surjection(T, {f[c] : c \in T})
  BY DEF Surjection
<1> QED
  BY <1>1, FS_Surjection

(* A set with as many elements as a part of it is that part.               *)
LEMMA OntoAll ==
    ASSUME NEW S, IsFiniteSet(S), NEW s \in SetToSeqs(S)
    PROVE  /\ s \in Seq(S) /\ Len(s) = Cardinality(S) /\ Len(s) \in Nat
           /\ \A i, j \in 1..Len(s) : i # j => s[i] # s[j]
           /\ \A x \in S : \E i \in 1..Len(s) : s[i] = x
<1>1. Cardinality(S) \in Nat
  BY FS_CardinalityType
<1>2. PICK n \in Nat : n = Cardinality(S)
  BY <1>1
<1>3. s \in [1..n -> S] /\ \A i, j \in 1..n : i # j => s[i] # s[j]
  BY <1>2 DEF SetToSeqs
<1>4. s \in Seq(S) /\ Len(s) = n
  BY <1>3
<1>5. s \in Injection(1..n, S)
  BY <1>3 DEF Injection, IsInjective
<1>6. IsFiniteSet(1..n) /\ Cardinality(1..n) = n
  <2>1. 1 \in Int /\ n \in Int /\ (1 > n => n = 0)
    OBVIOUS
  <2>2. Cardinality(1..n) = IF 1 > n THEN 0 ELSE n - 1 + 1
    BY <2>1, FS_Interval
  <2>3. IsFiniteSet(1..n)
    BY <2>1, FS_Interval
  <2> QED
    BY <2>1, <2>2, <2>3
<1>7. s \in Surjection(1..n, S)
  BY <1>2, <1>5, <1>6, FS_Injection
<1>8. \A x \in S : \E i \in 1..n : s[i] = x
  BY <1>7 DEF Surjection
<1> QED
  BY <1>2, <1>3, <1>4, <1>8

(* The order of two rows, sort by sort.                                    *)
LEMMA SortOrders ==
    ASSUME NEW o, NEW a, NEW b
    PROVE  /\ o.sort = "date_asc" => (GetSortSQL(o, a, b) <=> a.date < b.date)
           /\ o.sort = "vote" => (GetSortSQL(o, a, b) <=>
                a.votes > b.votes \/ (a.votes = b.votes /\ a.date > b.date))
           /\ (o.sort = "" /\ o.scope = "page") => (GetSortSQL(o, a, b) <=>
                (a.pinned /\ ~b.pinned) \/ (a.pinned = b.pinned /\ a.date > b.date))
           /\ (o.sort \notin {"date_asc", "vote"} /\ ~ (o.sort = "" /\ o.scope = "page")) =>
                (GetSortSQL(o, a, b) <=> a.date > b.date)
<1>1. o.sort = "date_asc" => (GetSortSQL(o, a, b) <=> a.date < b.date)
  BY DEF GetSortSQL
<1>2. o.sort = "vote" => (GetSortSQL(o, a, b) <=>
         a.votes > b.votes \/ (a.votes = b.votes /\ a.date > b.date))
  BY DEF GetSortSQL
<1>3. ASSUME o.sort = "", o.scope = "page"
      PROVE  GetSortSQL(o, a, b) <=>
                (a.pinned /\ ~b.pinned) \/ (a.pinned = b.pinned /\ a.date > b.date)
  BY <1>3 DEF GetSortSQL
<1>4. ASSUME o.sort \notin {"date_asc", "vote"}, ~ (o.sort = "" /\ o.scope = "page")
      PROVE  GetSortSQL(o, a, b) <=> a.date > b.date
  BY <1>4 DEF GetSortSQL
<1> QED
  BY <1>1, <1>2, <1>3, <1>4

(* Rows of different dates are in one order or the other.                  *)
LEMMA OneOrder ==
    ASSUME NEW o, NEW a, NEW b, a \in Row, b \in Row, a.date # b.date
    PROVE  GetSortSQL(o, a, b) \/ GetSortSQL(o, b, a)
<1>1. /\ a.date \in Nat /\ b.date \in Nat /\ a.votes \in Int /\ b.votes \in Int
      /\ a.pinned \in BOOLEAN /\ b.pinned \in BOOLEAN
  BY DEF Row
<1>2. CASE o.sort = "date_asc"
  <2>1. \A x, y : GetSortSQL(o, x, y) <=> x.date < y.date
    BY <1>2, SortOrders, Zenon
  <2> QED
    BY <1>1, <2>1
<1>3. CASE o.sort = "vote"
  <2>1. \A x, y : GetSortSQL(o, x, y) <=>
           x.votes > y.votes \/ (x.votes = y.votes /\ x.date > y.date)
    BY <1>3, SortOrders, Zenon
  <2> QED
    BY <1>1, <2>1
<1>4. CASE o.sort = "" /\ o.scope = "page"
  <2>1. \A x, y : GetSortSQL(o, x, y) <=>
           (x.pinned /\ ~y.pinned) \/ (x.pinned = y.pinned /\ x.date > y.date)
    BY <1>4, SortOrders, Zenon
  <2> QED
    BY <1>1, <2>1
<1>5. CASE o.sort \notin {"date_asc", "vote"} /\ ~ (o.sort = "" /\ o.scope = "page")
  <2>1. \A x, y : GetSortSQL(o, x, y) <=> x.date > y.date
    BY <1>5, SortOrders, Zenon
  <2> QED
    BY <1>1, <2>1
<1> QED
  BY <1>2, <1>3, <1>4, <1>5

(* No row comes before itself.                                             *)
LEMMA NotItself ==
    ASSUME NEW o, NEW a, a \in Row
    PROVE  ~ GetSortSQL(o, a, a)
<1>1. a.date \in Nat /\ a.votes \in Int /\ a.pinned \in BOOLEAN
  BY DEF Row
<1>2. CASE o.sort = "date_asc"
  <2>1. \A x, y : GetSortSQL(o, x, y) <=> x.date < y.date
    BY <1>2, SortOrders, Zenon
  <2> QED
    BY <1>1, <2>1
<1>3. CASE o.sort = "vote"
  <2>1. \A x, y : GetSortSQL(o, x, y) <=>
           x.votes > y.votes \/ (x.votes = y.votes /\ x.date > y.date)
    BY <1>3, SortOrders, Zenon
  <2> QED
    BY <1>1, <2>1
<1>4. CASE o.sort = "" /\ o.scope = "page"
  <2>1. \A x, y : GetSortSQL(o, x, y) <=>
           (x.pinned /\ ~y.pinned) \/ (x.pinned = y.pinned /\ x.date > y.date)
    BY <1>4, SortOrders, Zenon
  <2> QED
    BY <1>1, <2>1
<1>5. CASE o.sort \notin {"date_asc", "vote"} /\ ~ (o.sort = "" /\ o.scope = "page")
  <2>1. \A x, y : GetSortSQL(o, x, y) <=> x.date > y.date
    BY <1>5, SortOrders, Zenon
  <2> QED
    BY <1>1, <2>1
<1> QED
  BY <1>2, <1>3, <1>4, <1>5

(* A row of a sorted sequence has as many rows before it as its position   *)
(* says.                                                                   *)
LEMMA RankIsPlace ==
    ASSUME NEW o, NEW S, IsFiniteSet(S), S \subseteq Row,
           \A a, b \in S : a.date = b.date => a = b,
           NEW s \in Sorted(o, S), NEW p \in 1..Len(s)
    PROVE  s[p] \in S /\ Cardinality({y \in S : GetSortSQL(o, y, s[p])}) = p - 1
<1>1. /\ s \in SetToSeqs(S)
      /\ \A i, j \in DOMAIN s : i < j => ~ GetSortSQL(o, s[j], s[i])
  BY DEF Sorted
<1>2. /\ s \in Seq(S) /\ Len(s) \in Nat /\ DOMAIN s = 1..Len(s)
      /\ \A i, j \in 1..Len(s) : i # j => s[i] # s[j]
      /\ \A x \in S : \E i \in 1..Len(s) : s[i] = x
  BY <1>1, OntoAll
<1>3. p \in Nat /\ \A i \in 1..Len(s) : s[i] \in S /\ s[i] \in Row
  BY <1>2
<1> DEFINE B == {y \in S : GetSortSQL(o, y, s[p])}
           f == [i \in 1..(p - 1) |-> s[i]]
<1>4. \A i \in 1..(p - 1) : i \in 1..Len(s) /\ i < p
  BY <1>2, <1>3
<1>5. \A i \in 1..(p - 1) : s[i] \in B
  <2> TAKE i \in 1..(p - 1)
  <2>1. s[i] # s[p] /\ ~ GetSortSQL(o, s[p], s[i])
    BY <1>1, <1>2, <1>4
  <2>2. s[i] \in S /\ s[p] \in S
    BY <1>3, <1>4
  <2>3. s[i].date # s[p].date
    BY <2>1, <2>2
  <2>4. GetSortSQL(o, s[i], s[p])
    BY <2>1, <2>3, <1>3, <1>4, OneOrder
  <2> QED
    BY <2>2, <2>4
<1>6. \A y \in B : \E i \in 1..(p - 1) : s[i] = y
  <2> TAKE y \in B
  <2>1. PICK i \in 1..Len(s) : s[i] = y
    BY <1>2
  <2>2. i # p
    BY <2>1, <1>3, NotItself
  <2>3. ~ (p < i)
    BY <2>1, <1>1, <1>2
  <2>4. i \in 1..(p - 1)
    BY <2>2, <2>3, <1>2, <1>3
  <2> QED
    BY <2>1, <2>4
<1>7. f \in Bijection(1..(p - 1), B)
  <2> HIDE DEF B
  <2>1. f \in [1..(p - 1) -> B]
    BY <1>5
  <2>2. \A i, j \in 1..(p - 1) : f[i] = f[j] => i = j
    BY <1>2, <1>4
  <2>3. \A y \in B : \E i \in 1..(p - 1) : f[i] = y
    BY <1>6
  <2> HIDE DEF f
  <2> QED
    BY <2>1, <2>2, <2>3 DEF Bijection, Injection, Surjection, IsInjective
<1>8. IsFiniteSet(1..(p - 1)) /\ Cardinality(1..(p - 1)) = p - 1
  <2>1. 1 \in Int /\ p - 1 \in Int /\ p >= 1
    BY <1>3
  <2>2. Cardinality(1..(p - 1)) = IF 1 > p - 1 THEN 0 ELSE (p - 1) - 1 + 1
    BY <2>1, FS_Interval
  <2>3. IsFiniteSet(1..(p - 1))
    BY <2>1, FS_Interval
  <2>4. 1 > p - 1 => p - 1 = 0
    BY <2>1
  <2>5. (p - 1) - 1 + 1 = p - 1
    BY <2>1
  <2> QED
    BY <2>2, <2>3, <2>4, <2>5
<1>9. Cardinality(B) = p - 1
  <2>1. ExistsBijection(1..(p - 1), B)
    BY <1>7 DEF ExistsBijection
  <2> HIDE DEF B
  <2> QED
    BY <2>1, <1>8, FS_Bijection
<1> QED
  BY <1>3, <1>9

(* The rows of a page are those at the positions after the offset, up to   *)
(* the limit or the end.                                                   *)
LEMMA PageRows ==
    ASSUME NEW S, NEW s \in Seq(S), NEW off \in Nat, NEW limit \in Int, off <= Len(s)
    PROVE  LET rows == SetLimit(s, off, limit)
               end == IF limit < 0 \/ off + limit >= Len(s) THEN Len(s) ELSE off + limit
           IN /\ rows \in Seq(S) /\ Len(rows) = end - off /\ end \in Nat /\ end >= off
              /\ end <= Len(s)
              /\ \A i \in 1..Len(rows) : rows[i] = s[off + i] /\ off + i \in 1..Len(s)
<1> DEFINE rows == SetLimit(s, off, limit)
           end == IF limit < 0 \/ off + limit >= Len(s) THEN Len(s) ELSE off + limit
<1>1. Len(s) \in Nat
  OBVIOUS
<1>2. end \in Nat /\ end >= off /\ end <= Len(s)
  BY <1>1
<1>3. rows = SubSeq(s, off + 1, end)
  <2>1. CASE limit < 0
    BY <2>1 DEF SetLimit
  <2>2. CASE ~ (limit < 0)
    <3>1. Min({Len(s), off + limit}) = end
      <4>1. \A x \in {Len(s), off + limit} : end =< x
        BY <2>2, <1>1
      <4>2. end \in {Len(s), off + limit}
        BY <2>2
      <4>3. \A z \in {Len(s), off + limit} :
               (\A x \in {Len(s), off + limit} : z =< x) => z = end
        <5> TAKE z \in {Len(s), off + limit}
        <5>1. z \in Int /\ end \in Int
          BY <1>1, <1>2
        <5> QED
          BY <4>1, <4>2, <5>1
      <4> HIDE DEF end
      <4> QED
        BY <4>1, <4>2, <4>3 DEF Min
    <3> QED
      BY <3>1, <2>2 DEF SetLimit
  <2> QED
    BY <2>1, <2>2
<1> HIDE DEF end, rows
<1>4. rows = [i \in 1..(end - off) |-> s[off + i]]
  BY <1>1, <1>2, <1>3
<1>5. \A i \in 1..(end - off) : off + i \in 1..Len(s) /\ s[off + i] \in S
  BY <1>1, <1>2
<1>6. end - off \in Nat
  BY <1>2
<1>7. rows \in Seq(S) /\ Len(rows) = end - off
  BY <1>4, <1>5, <1>6
<1>8. \A i \in 1..Len(rows) : rows[i] = s[off + i] /\ off + i \in 1..Len(s)
  BY <1>4, <1>5, <1>7
<1> USE DEF end, rows
<1> QED
  BY <1>2, <1>7, <1>8

(* What a list is taken from, its reader may read, and a list of a page is *)
(* of that page.                                                           *)
LEMMA ScopesRead ==
    ASSUME NEW v, NEW o, NEW c, GetQueryScopes(v, o, c)
    PROVE  MayRead(v, c) /\ (o.scope = "page" => PageScopeQuery(o, c))
<1>1. CommonScope(v, c)
  BY DEF GetQueryScopes
<1>2. MayRead(v, c)
  BY <1>1 DEF CommonScope, NoPending, MayRead
<1>3. o.scope = "page" => PageScopeQuery(o, c)
  BY DEF GetQueryScopes
<1> QED
  BY <1>2, <1>3

(* A new comment changes nothing for those that do not answer it.          *)
LEMMA OldScopes ==
    ASSUME NEW v, NEW o, NEW c, NEW new, comments' = comments \cup {new}, c.rid # new.id
    PROVE  GetQueryScopes(v, o, c)' <=> GetQueryScopes(v, o, c)
<1>1. c.rid \in GetUserAllCommentIDs(v.user)' <=> c.rid \in GetUserAllCommentIDs(v.user)
  BY DEF GetUserAllCommentIDs
<1>2. c.rid \in GetGuestComments(v.guest)' <=> c.rid \in GetGuestComments(v.guest)
  BY DEF GetGuestComments
<1>3. UserScopeQuery(v, o, c)' <=> UserScopeQuery(v, o, c)
  BY <1>1, <1>2 DEF UserScopeQuery
<1> QED
  BY <1>3 DEF GetQueryScopes, CommonScope, NoPending, SearchScope, PageScopeQuery, SiteScopeQuery,
              Admins

(* A table that stays as it is gives the same lists.                       *)
LEMMA SameMatching ==
    ASSUME NEW v, NEW o, comments' = comments
    PROVE  /\ Matching(v, o)' = Matching(v, o)
           /\ \A c : GetQueryScopes(v, o, c)' <=> GetQueryScopes(v, o, c)
<1>1. \A c : GetQueryScopes(v, o, c)' <=> GetQueryScopes(v, o, c)
  BY DEF GetQueryScopes, CommonScope, NoPending, SearchScope, PageScopeQuery, UserScopeQuery,
         SiteScopeQuery, Admins, GetUserAllCommentIDs, GetGuestComments
<1> QED
  BY <1>1 DEF Matching

(* The same selection for the same request and the same table.             *)
LEMMA SameSelection ==
    ASSUME comments' = comments, reader'.v = reader.v, reader'.o = reader.o
    PROVE  /\ Selected' = Selected /\ \A x : Rank(x)' = Rank(x)
           /\ Matching(reader.v, reader.o)' = Matching(reader.v, reader.o)
           /\ Untied' = Untied
<1>1. PICK v, o : v = reader.v /\ o = reader.o
  OBVIOUS
<1>2. v = reader'.v /\ o = reader'.o
  BY <1>1
<1>3. Matching(v, o)' = Matching(v, o)
  BY SameMatching
<1>4. /\ Matching(reader.v, reader.o)' = Matching(v, o)'
      /\ Matching(reader.v, reader.o) = Matching(v, o)
  BY <1>1, <1>2 DEF Matching, GetQueryScopes, CommonScope, NoPending, SearchScope, PageScopeQuery,
        UserScopeQuery, SiteScopeQuery, Admins, GetUserAllCommentIDs, GetGuestComments
<1>5. Selected' = Selected
  BY <1>1, <1>2, <1>3, <1>4 DEF Selected, OnlyRoot
<1>6. \A x : Rank(x)' = Rank(x)
  BY <1>1, <1>2, <1>5 DEF Rank, Ahead, GetSortSQL
<1>7. Untied' = Untied
  BY DEF Untied
<1> QED
  BY <1>3, <1>4, <1>5, <1>6, <1>7

(* The comments listed are rows of the table, finitely many.               *)
LEMMA SelectedRows == ListingShape =>
    /\ Matching(reader.v, reader.o) \subseteq comments
    /\ IsFiniteSet(Matching(reader.v, reader.o))
    /\ Selected \subseteq Matching(reader.v, reader.o)
    /\ Selected \subseteq comments /\ IsFiniteSet(Selected) /\ Selected \subseteq Row
    /\ Cardinality(Selected) \in Nat
    /\ \A x : Rank(x) \in Nat
<1> SUFFICES ASSUME ListingShape
             PROVE  /\ Matching(reader.v, reader.o) \subseteq comments
                    /\ IsFiniteSet(Matching(reader.v, reader.o))
                    /\ Selected \subseteq Matching(reader.v, reader.o)
                    /\ Selected \subseteq comments /\ IsFiniteSet(Selected)
                    /\ Selected \subseteq Row /\ Cardinality(Selected) \in Nat
                    /\ \A x : Rank(x) \in Nat
  OBVIOUS
<1>1. comments \subseteq Row /\ IsFiniteSet(comments)
  BY DEF ListingShape, ListingTypeOK
<1>2. Matching(reader.v, reader.o) \subseteq comments
  BY DEF Matching
<1>3. IsFiniteSet(Matching(reader.v, reader.o))
  BY <1>1, <1>2, FS_Subset
<1>4. Selected \subseteq Matching(reader.v, reader.o)
  BY DEF Selected, OnlyRoot
<1>5. IsFiniteSet(Selected) /\ Cardinality(Selected) \in Nat
  BY <1>3, <1>4, FS_Subset, FS_CardinalityType
<1>6. \A x : Ahead(x) \subseteq Selected
  BY DEF Ahead
<1>7. \A x : Rank(x) \in Nat
  BY <1>5, <1>6, FS_Subset, FS_CardinalityType DEF Rank
<1> QED
  BY <1>1, <1>2, <1>3, <1>4, <1>5, <1>7

(* So they are after a step.                                               *)
LEMMA SelectedNext ==
    ASSUME ListingShape'
    PROVE  (/\ Matching(reader.v, reader.o) \subseteq comments
            /\ IsFiniteSet(Matching(reader.v, reader.o))
            /\ Selected \subseteq Matching(reader.v, reader.o)
            /\ Selected \subseteq comments /\ IsFiniteSet(Selected) /\ Selected \subseteq Row
            /\ Cardinality(Selected) \in Nat
            /\ \A x : Rank(x) \in Nat)'
<1> QED
  BY SelectedRows, PTL

(* Nothing is asked of a list that nobody pages through, or under which    *)
(* comments were changed.                                                  *)
LEMMA NobodyWalks ==
    ASSUME ~ Walking'
    PROVE  ListTrue'
<1> QED
  BY DEF ListTrue, StillDue, SeenSoFar, Beginning, NotBeyond, CountsTrue, Undisturbed

(* A comment that may be read is shown to whom it may be shown.            *)
LEMMA CanReadMay ==
    ASSUME NEW v, NEW c, canRead(v, c)
    PROVE  MayRead(v, c)
<1> QED
  BY DEF canRead, MayRead

(* A reader who begins a list knows what is to be listed.                  *)
LEMMA CommentListKeeps ==
    ASSUME ListingInv, NEW v \in Viewers, NEW o \in Queries, CommentList(v, o)
    PROVE  ListingInv'
<1>1. /\ reader' = [pc |-> "first", v |-> v, o |-> o, list |-> <<>>, linked |-> {},
                    last |-> 0, count |-> 0, roots |-> 0]
      /\ before' = {c.id : c \in Matching(v, o)} /\ since' = "nothing"
      /\ comments' = comments /\ lastId' = lastId /\ notices' = notices /\ writes' = writes
      /\ copies' = copies /\ doomed' = doomed /\ moved' = moved
  BY DEF CommentList, others, NoReader
<1>2. ListingShape
  BY DEF ListingInv
<1>3. Matching(v, o) \subseteq comments /\ Matching(v, o)' = Matching(v, o)
  BY <1>1, SameMatching DEF Matching
<1>4. \A c \in comments : c.id \in 1..MaxRows /\ c.id \in 0..lastId
  BY <1>2 DEF ListingShape, ListingTypeOK
<1>5. before' \subseteq 1..MaxRows /\ before' \subseteq 0..lastId
  BY <1>1, <1>3, <1>4
<1>6. ListingShape'
  <2>1. ListingTypeOK'
    BY <1>1, <1>2, <1>5 DEF ListingShape, ListingTypeOK
  <2>2. ReaderFits'
    <3>1. reader'.list = <<>> /\ reader'.last = 0 /\ reader'.pc = "first" /\ reader'.v = v
          /\ reader'.o = o
      BY <1>1
    <3>2. reader' = [pc |-> reader'.pc, v |-> reader'.v, o |-> reader'.o, list |-> reader'.list,
                     linked |-> reader'.linked, last |-> reader'.last, count |-> reader'.count,
                     roots |-> reader'.roots]
      BY <1>1
    <3> QED
      BY <3>1, <3>2 DEF ReaderFits
  <2> QED
    BY <1>1, <1>2, <1>5, <2>1, <2>2 DEF ListingShape
<1>7. OnlyReadable'
  BY <1>1 DEF OnlyReadable, Shown, ToSet
<1>8. NoticesAnswer'
  <2>1. /\ comments' = comments /\ lastId' = lastId /\ notices' = notices
        /\ copies' = copies /\ moved' = moved
    BY <1>1
  <2> QED
    BY <2>1 DEF ListingInv, NoticesAnswer, CopiesFit, AnswersOwner, Admins
<1>9. Matching(reader.v, reader.o)' = Matching(v, o)'
  <2>1. reader'.v = v /\ reader'.o = o
    BY <1>1
  <2> QED
    BY <2>1 DEF Matching, GetQueryScopes, CommonScope, NoPending, SearchScope, PageScopeQuery,
        UserScopeQuery, SiteScopeQuery, Admins, GetUserAllCommentIDs, GetGuestComments
<1>10. /\ reader'.pc = "first" /\ reader'.list = <<>> /\ reader'.linked = {}
       /\ Len(reader'.list) = 0 /\ DOMAIN reader'.list = {} /\ ToSet(reader'.list) = {}
  BY <1>1 DEF ToSet
<1>11. StillDue'
  <2>1. \A id \in before' : \E c \in Matching(v, o) : c.id = id
    BY <1>1
  <2>2. Matching(reader.v, reader.o)' = Matching(v, o)
    BY <1>3, <1>9
  <2>3. \A id \in before' : \E c \in Matching(reader.v, reader.o)' : c.id = id
    BY <2>1, <2>2
  <2> QED
    BY <2>3, Zenon DEF StillDue
<1>12. Cardinality(Selected') \in Nat /\ \A x : Rank(x)' \in Nat
  BY <1>6, SelectedNext
<1>13. SeenSoFar' /\ NotBeyond'
  BY <1>10, <1>12 DEF SeenSoFar, NotBeyond, AtEnd
<1>14. Beginning'
  BY <1>10 DEF Beginning
<1>15. CountsTrue'
  BY <1>10 DEF CountsTrue, AtEnd, LinkedTo, IdsOf
<1> QED
  BY <1>6, <1>7, <1>8, <1>11, <1>13, <1>14, <1>15 DEF ListingInv, ListTrue

(* Comments are read one by one only by whom they may be read, whichever   *)
(* copies of them are found.                                               *)
LEMMA CommentGetKeeps ==
    ASSUME ListingInv, NEW v \in Viewers, NEW id, CommentGet(v, id)
    PROVE  ListingInv'
<1>0. PICK c \in FindComment(id) :
         /\ canRead(v, c)
         /\ \E linked \in {{}} \cup {{d} : d \in {e \in FindComment(c.rid) : canRead(v, e)}} :
               reader' = [NoReader EXCEPT !.pc = "given", !.v = v, !.list = <<c>>,
                                          !.linked = linked]
  BY DEF CommentGet
<1>00. PICK answered \in {{}} \cup {{d} : d \in {e \in FindComment(c.rid) : canRead(v, e)}} :
         reader' = [NoReader EXCEPT !.pc = "given", !.v = v, !.list = <<c>>,
                                    !.linked = answered]
  BY <1>0
<1>1. /\ reader' = [pc |-> "given", v |-> v, o |-> NoRequest, list |-> <<c>>,
                    linked |-> answered, last |-> 0, count |-> 0, roots |-> 0]
      /\ before' = before /\ since' = since
      /\ comments' = comments /\ lastId' = lastId /\ notices' = notices /\ writes' = writes
      /\ copies' = copies /\ doomed' = doomed /\ moved' = moved
      /\ canRead(v, c)
  BY <1>0, <1>00 DEF CommentGet, NoReader, others
<1>2. ListingShape
  BY DEF ListingInv
<1>3. c \in Row /\ answered \subseteq Row
  BY <1>2, <1>0, <1>00 DEF ListingShape, ListingTypeOK, FindComment
<1>4. \A d \in answered : canRead(v, d)
  BY <1>00
<1>5. <<c>> \in Seq(Row) /\ Len(<<c>>) = 1 /\ ToSet(<<c>>) = {c}
  BY <1>3 DEF ToSet
<1>6. ListingShape'
  <2>1. ListingTypeOK'
    BY <1>1, <1>2, <1>3, <1>5 DEF ListingShape, ListingTypeOK
  <2>2. ReaderFits'
    <3>1. Len(reader'.list) = 1 /\ reader'.last = 0 /\ reader'.pc = "given" /\ reader'.v = v
          /\ reader'.o = NoRequest
      BY <1>1, <1>5
    <3>2. reader' = [pc |-> reader'.pc, v |-> reader'.v, o |-> reader'.o, list |-> reader'.list,
                     linked |-> reader'.linked, last |-> reader'.last, count |-> reader'.count,
                     roots |-> reader'.roots]
      BY <1>1
    <3> QED
      BY <3>1, <3>2 DEF ReaderFits
  <2> QED
    BY <1>1, <1>2, <2>1, <2>2 DEF ListingShape
<1>7. OnlyReadable'
  <2>1. Shown' = {c} \cup answered /\ reader'.v = v /\ reader'.o.scope = ""
    BY <1>1, <1>5 DEF Shown, NoRequest
  <2>2. \A d \in {c} \cup answered : MayRead(v, d)
    BY <1>1, <1>4, CanReadMay
  <2>3. \A d \in {c} \cup answered : MayRead(reader', d) \/ TRUE
    OBVIOUS
  <2> QED
    BY <2>1, <2>2 DEF OnlyReadable, MayRead
<1>8. NoticesAnswer'
  BY <1>1 DEF ListingInv, NoticesAnswer, CopiesFit, AnswersOwner, Admins
<1>9. ~ Walking'
  BY <1>1 DEF Walking
<1> QED
  BY <1>6, <1>7, <1>8, <1>9, NobodyWalks DEF ListingInv

(* The newest comments, or any, are approved ones.                         *)
LEMMA StatKeeps ==
    ASSUME ListingInv, NEW v \in Viewers, NEW site, NEW order, NEW limit \in {-1, 2},
           Stat(v, site, order, limit)
    PROVE  ListingInv'
<1>1. PICK n : n = IF limit <= 0 THEN 5 ELSE Min({limit, 100})
  OBVIOUS
<1>2. n \in Nat
  <2>1. CASE limit = -1
    BY <1>1, <2>1
  <2>2. CASE limit = 2
    <3>1. Min({2, 100}) = 2
      <4>1. \A z \in {2, 100} : (\A x \in {2, 100} : z =< x) => z = 2
        OBVIOUS
      <4>2. 2 \in {2, 100} /\ \A x \in {2, 100} : 2 =< x
        OBVIOUS
      <4> QED
        BY <4>1, <4>2 DEF Min
    <3>2. ~ (limit <= 0)
      BY <2>2
    <3>3. n = Min({limit, 100})
      BY <1>1, <3>2
    <3> QED
      BY <2>2, <3>1, <3>3
  <2> QED
    BY <2>1, <2>2
<1>3. PICK s \in SetToSeqs(QueryComments(site)) :
         reader' = [NoReader EXCEPT !.pc = "given", !.v = v, !.list = SetLimit(s, 0, n)]
  BY <1>1 DEF Stat, others
<1>4. PICK rows : rows = SetLimit(s, 0, n)
  OBVIOUS
<1>5. /\ reader' = [pc |-> "given", v |-> v, o |-> NoRequest, list |-> rows, linked |-> {},
                    last |-> 0, count |-> 0, roots |-> 0]
      /\ before' = before /\ since' = since
      /\ comments' = comments /\ lastId' = lastId /\ notices' = notices /\ writes' = writes
      /\ copies' = copies /\ doomed' = doomed /\ moved' = moved
  BY <1>3, <1>4 DEF Stat, others, NoReader
<1>6. ListingShape
  BY DEF ListingInv
<1>7. QueryComments(site) \subseteq comments /\ QueryComments(site) \subseteq Row
      /\ IsFiniteSet(QueryComments(site))
  <2>1. QueryComments(site) \subseteq comments
    BY DEF QueryComments
  <2> QED
    BY <1>6, <2>1, FS_Subset DEF ListingShape, ListingTypeOK
<1>8. s \in Seq(QueryComments(site)) /\ Len(s) \in Nat
  BY <1>7, OntoAll
<1>9. rows \in Seq(QueryComments(site))
  BY <1>2, <1>4, <1>8, PageRows
<1>10. rows \in Seq(Row) /\ Len(rows) \in Nat /\ ToSet(rows) \subseteq QueryComments(site)
  BY <1>7, <1>9 DEF ToSet
<1>11. ListingShape'
  <2>1. ListingTypeOK'
    BY <1>5, <1>6, <1>10 DEF ListingShape, ListingTypeOK
  <2>2. ReaderFits'
    <3>1. Len(reader'.list) \in Nat /\ reader'.last = 0 /\ reader'.pc = "given"
          /\ reader'.v = v /\ reader'.o = NoRequest
      BY <1>5, <1>10
    <3>2. reader' = [pc |-> reader'.pc, v |-> reader'.v, o |-> reader'.o, list |-> reader'.list,
                     linked |-> reader'.linked, last |-> reader'.last, count |-> reader'.count,
                     roots |-> reader'.roots]
      BY <1>5
    <3> QED
      BY <3>1, <3>2 DEF ReaderFits
  <2> QED
    BY <1>5, <1>6, <2>1, <2>2 DEF ListingShape
<1>12. OnlyReadable'
  <2>1. Shown' \subseteq QueryComments(site) /\ reader'.o.scope = ""
    BY <1>5, <1>10 DEF Shown, NoRequest
  <2>2. \A d \in QueryComments(site) : ~ d.pending
    BY DEF QueryComments
  <2> QED
    BY <2>1, <2>2 DEF OnlyReadable, MayRead
<1>13. NoticesAnswer'
  BY <1>5 DEF ListingInv, NoticesAnswer, CopiesFit, AnswersOwner, Admins
<1>14. ~ Walking'
  BY <1>5 DEF Walking
<1> QED
  BY <1>11, <1>12, <1>13, <1>14, NobodyWalks DEF ListingInv

(* Who leaves has nothing left.                                            *)
LEMMA LeaveKeeps ==
    ASSUME ListingInv, Leave
    PROVE  ListingInv'
<1>1. /\ reader' = NoReader /\ before' = {} /\ since' = "nothing"
      /\ comments' = comments /\ lastId' = lastId /\ notices' = notices /\ writes' = writes
      /\ copies' = copies /\ doomed' = doomed /\ moved' = moved
  BY DEF Leave, others
<1>2. ListingShape
  BY DEF ListingInv
<1>3. reader'.list = <<>> /\ reader'.linked = {} /\ reader'.pc = "idle" /\ reader'.last = 0
      /\ reader'.count = 0 /\ reader'.roots = 0 /\ reader'.v = Stranger /\ reader'.o = NoRequest
  BY <1>1 DEF NoReader
<1>4. <<>> \in Seq(Row) /\ Len(<<>>) = 0 /\ ToSet(<<>>) = {}
  BY DEF ToSet
<1>5. ListingShape'
  <2>1. ListingTypeOK'
    BY <1>1, <1>2, <1>3, <1>4 DEF ListingShape, ListingTypeOK
  <2>2. ReaderFits'
    BY <1>1, <1>3, <1>4 DEF ReaderFits, NoReader
  <2> QED
    BY <1>1, <1>2, <2>1, <2>2 DEF ListingShape
<1>6. OnlyReadable'
  BY <1>3, <1>4 DEF OnlyReadable, Shown
<1>7. NoticesAnswer'
  BY <1>1 DEF ListingInv, NoticesAnswer, CopiesFit, AnswersOwner, Admins
<1>8. ~ Walking'
  BY <1>3 DEF Walking
<1> QED
  BY <1>5, <1>6, <1>7, <1>8, NobodyWalks DEF ListingInv

(* The rows of a page are rows of what is paged through.                   *)
LEMMA PageTyped ==
    ASSUME NEW S, NEW s \in Seq(S), NEW off \in Nat, NEW limit \in Int
    PROVE  SetLimit(s, off, limit) \in Seq(S) /\ Len(SetLimit(s, off, limit)) \in Nat
<1>1. Len(s) \in Nat
  OBVIOUS
<1>2. CASE off <= Len(s)
  BY <1>2, PageRows
<1>3. CASE ~ (off <= Len(s))
  <2>1. PICK end : end = IF limit < 0 THEN Len(s) ELSE Min({Len(s), off + limit})
    OBVIOUS
  <2>2. end = Len(s)
    <3>1. CASE limit < 0
      BY <2>1, <3>1
    <3>2. CASE ~ (limit < 0)
      <4>1. Len(s) \in {Len(s), off + limit} /\ \A x \in {Len(s), off + limit} : Len(s) =< x
        BY <1>1, <1>3, <3>2
      <4>2. \A z \in {Len(s), off + limit} :
               (\A x \in {Len(s), off + limit} : z =< x) => z = Len(s)
        <5> TAKE z \in {Len(s), off + limit}
        <5>1. z \in Int /\ Len(s) <= z
          BY <1>1, <4>1
        <5> QED
          BY <1>1, <5>1
      <4>3. Min({Len(s), off + limit}) = Len(s)
        BY <4>1, <4>2 DEF Min
      <4> QED
        BY <2>1, <3>2, <4>3
    <3> QED
      BY <3>1, <3>2
  <2>3. SetLimit(s, off, limit) = SubSeq(s, off + 1, end)
    BY <2>1 DEF SetLimit
  <2>4. SubSeq(s, off + 1, Len(s)) = <<>>
    BY <1>1, <1>3
  <2> QED
    BY <2>2, <2>3, <2>4
<1> QED
  BY <1>2, <1>3

(* A list consists of its last page and what was before.                   *)
LEMMA TwoParts ==
    ASSUME NEW S, NEW s \in Seq(S), NEW k \in 0..Len(s)
    PROVE  /\ ToSet(SubSeq(s, 1, Len(s) - k)) \cup ToSet(SubSeq(s, Len(s) - k + 1, Len(s)))
                = ToSet(s)
           /\ ToSet(SubSeq(s, Len(s) - k + 1, Len(s))) \subseteq S
<1>1. PICK n \in Nat : n = Len(s)
  OBVIOUS
<1>2. PICK m \in Nat : m = n - k /\ m <= n
  <2>1. n - k \in Nat /\ n - k <= n
    BY <1>1
  <2> QED
    BY <2>1
<1>3. SubSeq(s, 1, m) = [i \in 1..m |-> s[i]]
  BY <1>1, <1>2
<1>4. SubSeq(s, m + 1, n) = [i \in 1..(n - m) |-> s[m + i]]
  BY <1>1, <1>2
<1>5. ToSet(SubSeq(s, 1, m)) = {s[i] : i \in 1..m}
  BY <1>3 DEF ToSet
<1>6. ToSet(SubSeq(s, m + 1, n)) = {s[m + i] : i \in 1..(n - m)}
  BY <1>4 DEF ToSet
<1>7. ToSet(s) = {s[i] : i \in 1..n}
  BY <1>1 DEF ToSet
<1>8. {s[m + i] : i \in 1..(n - m)} = {s[i] : i \in (m + 1)..n}
  <2>1. \A i \in 1..(n - m) : m + i \in (m + 1)..n
    BY <1>1, <1>2
  <2>2. \A i \in (m + 1)..n : i - m \in 1..(n - m) /\ m + (i - m) = i
    BY <1>1, <1>2
  <2> QED
    BY <2>1, <2>2
<1>9. 1..n = 1..m \cup (m + 1)..n
  BY <1>1, <1>2
<1>10. \A i \in 1..n : s[i] \in S
  BY <1>1
<1>11. ToSet(SubSeq(s, 1, m)) \cup ToSet(SubSeq(s, m + 1, n)) = ToSet(s)
  BY <1>5, <1>6, <1>7, <1>8, <1>9
<1>12. ToSet(SubSeq(s, m + 1, n)) \subseteq S
  <2>1. \A i \in (m + 1)..n : i \in 1..n
    BY <1>2
  <2> QED
    BY <1>6, <1>8, <1>10, <2>1
<1>13. Len(s) - k = m /\ Len(s) = n
  BY <1>1, <1>2
<1> QED
  BY <1>11, <1>12, <1>13

(* What a list of comments holds after another is appended to it.          *)
LEMMA Appended ==
    ASSUME NEW a \in Seq(Row), NEW b \in Seq(Row)
    PROVE  /\ a \o b \in Seq(Row) /\ Len(a \o b) = Len(a) + Len(b)
           /\ \A i \in 1..Len(a) : (a \o b)[i] = a[i]
           /\ \A i \in 1..Len(b) : (a \o b)[Len(a) + i] = b[i]
<1>1. a \o b \in Seq(Row) /\ Len(a \o b) = Len(a) + Len(b)
  OBVIOUS
<1>2. \A i \in 1..Len(a) : (a \o b)[i] = a[i]
  OBVIOUS
<1>3. ASSUME NEW i \in 1..Len(b)
      PROVE  (a \o b)[Len(a) + i] = b[i]
  OBVIOUS
<1> QED
  BY <1>1, <1>2, <1>3

(* Every page follows the one before in the order of the list.             *)
LEMMA FindCommentsKeeps ==
    ASSUME ListingInv, FindComments
    PROVE  ListingInv'
<1>1. PICK v, o : v = reader.v /\ o = reader.o
  OBVIOUS
<1>2. PICK S : S = Selected
  OBVIOUS
<1>3. PICK off, limit : off = Len(reader.list) /\ limit = o.limit
  OBVIOUS
<1>4. reader.pc = "first" /\ ListingShape
  BY DEF FindComments, others, ListingInv
<1>5. PICK s \in Sorted(o, S) :
         reader' = [reader EXCEPT !.pc = "second", !.list = @ \o SetLimit(s, off, limit),
                                  !.last = Len(SetLimit(s, off, limit))]
  BY <1>1, <1>2, <1>3 DEF FindComments, others, Selected
<1>6. PICK rows : rows = SetLimit(s, off, limit)
  OBVIOUS
<1>7. reader = [pc |-> reader.pc, v |-> reader.v, o |-> reader.o, list |-> reader.list,
                linked |-> reader.linked, last |-> reader.last, count |-> reader.count,
                roots |-> reader.roots]
  BY <1>4 DEF ListingShape, ReaderFits
<1>8. reader' = [pc |-> "second", v |-> v, o |-> o, list |-> reader.list \o rows,
                 linked |-> reader.linked, last |-> Len(rows), count |-> reader.count,
                 roots |-> reader.roots]
  BY <1>1, <1>5, <1>6, <1>7
<1>9. /\ comments' = comments /\ lastId' = lastId /\ notices' = notices /\ writes' = writes
      /\ copies' = copies /\ doomed' = doomed /\ moved' = moved
      /\ before' = before /\ since' = since
  BY DEF FindComments, others
<1>10. /\ S \subseteq Row /\ S \subseteq comments /\ IsFiniteSet(S)
       /\ \A x : Rank(x) \in Nat
  BY <1>2, <1>4, SelectedRows
<1>11. s \in SetToSeqs(S)
  BY DEF Sorted
<1>12. /\ s \in Seq(S) /\ Len(s) = Cardinality(S) /\ Len(s) \in Nat
       /\ \A x \in S : \E i \in 1..Len(s) : s[i] = x
  BY <1>10, <1>11, OntoAll
<1>13. /\ reader.list \in Seq(Row) /\ off \in Nat /\ limit \in Int
       /\ o \in Queries
  <2>1. o \in Queries
    BY <1>1, <1>4 DEF ListingShape, ReaderFits
  <2>2. reader.list \in Seq(Row)
    BY <1>4 DEF ListingShape, ListingTypeOK
  <2>3. \A r \in Queries : r.limit \in Int
    BY ListingAssumption
  <2>4. Len(reader.list) \in Nat
    BY <2>2
  <2> QED
    BY <1>3, <2>1, <2>2, <2>3, <2>4
<1>14. rows \in Seq(S) /\ Len(rows) \in Nat
  BY <1>6, <1>12, <1>13, PageTyped
<1>15. PICK list : list = reader.list \o rows
  OBVIOUS
<1>16. /\ rows \in Seq(Row) /\ list \in Seq(Row) /\ Len(list) = off + Len(rows)
       /\ \A i \in 1..off : list[i] = reader.list[i]
       /\ \A i \in 1..Len(rows) : list[off + i] = rows[i]
  <2>1. rows \in Seq(Row)
    BY <1>10, <1>14
  <2>2. reader.list \in Seq(Row) /\ Len(reader.list) = off
    BY <1>3, <1>13
  <2>3. PICK old : old = reader.list
    OBVIOUS
  <2>4. old \in Seq(Row) /\ Len(old) = off
    BY <2>2, <2>3, Zenon
  <2>5. /\ old \o rows \in Seq(Row) /\ Len(old \o rows) = Len(old) + Len(rows)
        /\ \A i \in 1..Len(old) : (old \o rows)[i] = old[i]
        /\ \A i \in 1..Len(rows) : (old \o rows)[Len(old) + i] = rows[i]
    BY <2>1, <2>4, Appended
  <2>6. list = old \o rows
    BY <1>15, <2>3, Zenon
  <2>7. Len(list) = off + Len(rows)
    BY <2>4, <2>5, <2>6, Zenon
  <2> QED
    BY <2>1, <2>3, <2>4, <2>5, <2>6, <2>7, Zenon
<1>17. /\ reader'.pc = "second" /\ reader'.v = v /\ reader'.o = o /\ reader'.list = list
       /\ reader'.linked = reader.linked /\ reader'.last = Len(rows)
       /\ reader'.count = reader.count /\ reader'.roots = reader.roots
  BY <1>8, <1>15
<1>18. ListingShape'
  <2>1. ListingTypeOK'
    BY <1>4, <1>9, <1>14, <1>16, <1>17 DEF ListingShape, ListingTypeOK
  <2>2. ReaderFits'
    <3>1. reader' = [pc |-> reader'.pc, v |-> reader'.v, o |-> reader'.o, list |-> reader'.list,
                     linked |-> reader'.linked, last |-> reader'.last, count |-> reader'.count,
                     roots |-> reader'.roots]
      BY <1>8, <1>15, <1>17
    <3>2. v \in Viewers \cup {Stranger} /\ Len(rows) <= Len(list)
      BY <1>1, <1>4, <1>13, <1>14, <1>16 DEF ListingShape, ReaderFits
    <3> QED
      BY <1>13, <1>17, <3>1, <3>2 DEF ReaderFits
  <2> QED
    BY <1>4, <1>9, <2>1, <2>2 DEF ListingShape
<1>19. Selected' = S /\ (\A x : Rank(x)' = Rank(x)) /\ Untied' = Untied
       /\ Matching(reader.v, reader.o)' = Matching(reader.v, reader.o)
  BY <1>1, <1>2, <1>9, <1>17, SameSelection
<1>20. OnlyReadable'
  <2>1. ToSet(list) \subseteq ToSet(reader.list) \cup S
    <3> SUFFICES ASSUME NEW i \in 1..Len(list) PROVE list[i] \in ToSet(reader.list) \cup S
      BY <1>16 DEF ToSet
    <3>1. CASE i <= off
      BY <1>3, <1>13, <1>16, <3>1 DEF ToSet
    <3>2. CASE ~ (i <= off)
      <4>1. i - off \in 1..Len(rows) /\ off + (i - off) = i
        BY <1>13, <1>14, <1>16, <3>2
      <4>2. list[i] = rows[i - off]
        BY <1>16, <4>1
      <4> QED
        BY <1>14, <4>1, <4>2
    <3> QED
      BY <3>1, <3>2
  <2>2. \A c \in S : GetQueryScopes(v, o, c)
    BY <1>1, <1>2 DEF Selected, Matching, OnlyRoot
  <2>3. \A c \in S : MayRead(v, c) /\ (o.scope = "page" => PageScopeQuery(o, c))
    BY <2>2, ScopesRead
  <2>4. \A c \in ToSet(reader.list) \cup reader.linked :
           MayRead(v, c) /\ (o.scope = "page" => PageScopeQuery(o, c))
    BY <1>1 DEF ListingInv, OnlyReadable, Shown
  <2>5. Shown' \subseteq (ToSet(reader.list) \cup reader.linked) \cup S
    BY <1>17, <2>1 DEF Shown
  <2>6. \A c \in Shown' : MayRead(v, c) /\ (o.scope = "page" => PageScopeQuery(o, c))
    BY <2>3, <2>4, <2>5
  <2> QED
    BY <1>9, <1>17, <2>6 DEF OnlyReadable, MayRead, PageScopeQuery
<1>21. NoticesAnswer'
  <2>1. /\ comments' = comments /\ lastId' = lastId /\ notices' = notices
        /\ copies' = copies /\ moved' = moved
    BY <1>9
  <2> QED
    BY <2>1 DEF ListingInv, NoticesAnswer, CopiesFit, AnswersOwner, Admins
<1>22. (Walking' <=> Walking) /\ (Undisturbed' <=> Undisturbed)
  BY <1>4, <1>9, <1>17 DEF Walking, Undisturbed
<1>23. ASSUME Walking PROVE off <= Len(s)
  BY <1>2, <1>3, <1>12, <1>23 DEF ListingInv, ListTrue, NotBeyond
<1> DEFINE end == IF limit < 0 \/ off + limit >= Len(s) THEN Len(s) ELSE off + limit
<1>24. ASSUME Walking
       PROVE  /\ Len(rows) = end - off /\ end \in Nat /\ end >= off /\ end <= Len(s)
              /\ \A i \in 1..Len(rows) : rows[i] = s[off + i] /\ off + i \in 1..Len(s)
  <2>1. s \in Seq(S) /\ off \in Nat /\ limit \in Int /\ off <= Len(s)
    BY <1>12, <1>13, <1>23, <1>24
  <2> QED
    BY <1>6, <2>1, PageRows, SMTT(60)
<1>25. Walking => Len(list) = end
  BY <1>13, <1>14, <1>16, <1>24
<1>26. ASSUME Walking, AtEnd' PROVE end = Len(s)
  <2>1. limit < 0 \/ Len(rows) < limit
    BY <1>1, <1>3, <1>17, <1>26 DEF AtEnd
  <2> QED
    BY <1>12, <1>13, <1>14, <1>24, <1>26, <2>1
<1>27. ASSUME Walking, NEW p \in 1..Len(s), off < p, p <= end
       PROVE  list[p] = s[p] /\ p \in 1..Len(list)
  <2>1. p - off \in 1..Len(rows) /\ off + (p - off) = p
    BY <1>12, <1>13, <1>24, <1>27
  <2>2. list[p] = rows[p - off] /\ rows[p - off] = s[p]
    BY <1>16, <1>24, <1>27, <2>1
  <2> QED
    BY <1>12, <1>24, <1>25, <1>27, <2>2
<1>28. ASSUME Untied, NEW p \in 1..Len(s)
       PROVE  s[p] \in S /\ Rank(s[p]) = p - 1
  <2>1. \A a, b \in S : a.date = b.date => a = b
    BY <1>10, <1>28 DEF Untied
  <2>2. s[p] \in S /\ Cardinality({y \in S : GetSortSQL(o, y, s[p])}) = p - 1
    <3>1. IsFiniteSet(S) /\ S \subseteq Row /\ p \in 1..Len(s) /\ s \in Sorted(o, S)
      BY <1>10, <1>28
    <3> QED
      BY <2>1, <3>1, RankIsPlace
  <2> QED
    BY <1>1, <1>2, <2>2 DEF Rank, Ahead
<1> HIDE DEF end
<1>29. StillDue'
  <2>1. Walking => \A id \in before : \E c \in Matching(reader.v, reader.o) : c.id = id
    BY DEF ListingInv, ListTrue, StillDue
  <2>2. Walking' => \A id \in before' : \E c \in Matching(reader.v, reader.o)' : c.id = id
    BY <1>9, <1>19, <1>22, <2>1
  <2> QED
    BY <2>2, Zenon DEF StillDue
<1>30. SeenSoFar'
  <2>1. SUFFICES ASSUME Walking, Untied, NEW x \in S, x.id \in before
                 PROVE  /\ Rank(x) < Len(list) => \E i \in 1..Len(list) : list[i].id = x.id
                        /\ AtEnd' => \E i \in 1..Len(list) : list[i].id = x.id
    <3>1. DOMAIN reader'.list = 1..Len(list) /\ reader'.list = list
      BY <1>16, <1>17
    <3> QED
      BY <1>9, <1>19, <1>22, <3>1 DEF SeenSoFar, Seen
  <2>2. PICK p \in 1..Len(s) : s[p] = x
    BY <1>12
  <2>3. Rank(x) = p - 1
    BY <1>28, <2>1, <2>2
  <2>4. CASE p <= off
    <3>1. Rank(x) < Len(reader.list)
      BY <1>3, <1>12, <1>13, <2>3, <2>4
    <3>2. Seen(x.id)
      BY <1>2, <2>1, <3>1 DEF ListingInv, ListTrue, SeenSoFar
    <3>3. PICK i \in 1..off : reader.list[i].id = x.id
      BY <1>3, <1>13, <3>2 DEF Seen
    <3>4. i \in 1..Len(list) /\ list[i].id = x.id
      BY <1>13, <1>14, <1>16, <3>3
    <3> QED
      BY <3>4
  <2>5. CASE off < p /\ p <= end
    <3>1. list[p] = x /\ p \in 1..Len(list)
      BY <1>27, <2>1, <2>2, <2>5
    <3> QED
      BY <3>1
  <2>6. CASE end < p
    <3>1. end \in Nat /\ end <= Len(s) /\ Len(list) = end
      BY <1>24, <1>25, <2>1
    <3>2. ~ (Rank(x) < Len(list))
      BY <1>12, <2>3, <2>6, <3>1
    <3>3. ~ AtEnd'
      BY <1>12, <1>26, <2>1, <2>6, <3>1
    <3> QED
      BY <3>2, <3>3
  <2> QED
    BY <1>12, <1>13, <1>24, <2>1, <2>4, <2>5, <2>6
<1>31. Beginning'
  <2>1. SUFFICES ASSUME Walking, Untied, o.sort = "date_asc" \/ since = "nothing",
                        NEW i \in 1..Len(list)
                 PROVE  list[i] \in S /\ Rank(list[i]) = i - 1
    <3>1. DOMAIN reader'.list = 1..Len(list) /\ reader'.list = list
      BY <1>16, <1>17
    <3> QED
      BY <1>9, <1>17, <1>19, <1>22, <3>1 DEF Beginning
  <2>2. CASE i <= off
    <3>1. i \in DOMAIN reader.list /\ list[i] = reader.list[i]
      BY <1>3, <1>13, <1>16, <2>2
    <3>2. reader.list[i] \in Selected /\ Rank(reader.list[i]) = i - 1
      BY <1>1, <2>1, <3>1 DEF ListingInv, ListTrue, Beginning
    <3> QED
      BY <1>2, <3>1, <3>2
  <2>3. CASE ~ (i <= off)
    <3>1. i \in 1..Len(s) /\ off < i /\ i <= end
      BY <1>12, <1>13, <1>24, <1>25, <2>1, <2>3
    <3>2. list[i] = s[i]
      BY <1>27, <2>1, <3>1
    <3> QED
      BY <1>28, <2>1, <3>1, <3>2
  <2> QED
    BY <2>2, <2>3
<1>32. NotBeyond'
  <2>1. Walking => Len(list) <= Cardinality(S)
    BY <1>12, <1>24, <1>25
  <2> QED
    BY <1>17, <1>19, <1>22, <2>1 DEF NotBeyond
<1>33. CountsTrue'
  <2>1. SUFFICES ASSUME Undisturbed, Untied
                 PROVE  /\ AtEnd' => Len(list) = Cardinality(S)
                        /\ o.nested =>
                             reader.linked = {c \in Matching(reader.v, reader.o) :
                                                c.rid # 0 /\ c.root \in IdsOf(LinkedTo)'}
    BY <1>17, <1>19, <1>22 DEF CountsTrue
  <2>2. Walking
    BY <2>1 DEF Undisturbed
  <2>3. AtEnd' => Len(list) = Cardinality(S)
    BY <1>12, <1>25, <1>26, <2>2
  <2>4. LinkedTo' = reader.list
    <3>1. LinkedTo' = SubSeq(list, 1, off)
      BY <1>13, <1>14, <1>16, <1>17 DEF LinkedTo
    <3>2. SubSeq(list, 1, off) = [i \in 1..off |-> list[i]]
      BY <1>13, <1>14, <1>16
    <3>3. reader.list = [i \in 1..off |-> reader.list[i]]
      BY <1>3, <1>13
    <3> QED
      BY <1>16, <3>1, <3>2, <3>3
  <2>5. LinkedTo = reader.list
    BY <1>4 DEF LinkedTo
  <2>6. IdsOf(LinkedTo)' = IdsOf(LinkedTo)
    BY <2>4, <2>5 DEF IdsOf
  <2>7. o.nested => reader.linked = {c \in Matching(reader.v, reader.o) :
                                        c.rid # 0 /\ c.root \in IdsOf(LinkedTo)}
    BY <1>1, <2>1 DEF ListingInv, ListTrue, CountsTrue
  <2> QED
    BY <2>3, <2>6, <2>7
<1> QED
  BY <1>18, <1>20, <1>21, <1>29, <1>30, <1>31, <1>32, <1>33 DEF ListingInv, ListTrue

(* A step of the reader that leaves the list as it is and adds at most     *)
(* comments of the selection to those that are linked to it.               *)
LEMMA ListStays ==
    ASSUME ListingInv, NEW p \in {"first", "count", "roots", "page"}, NEW linked,
           NEW number \in Nat, NEW roots \in Nat,
           reader' = [pc |-> p, v |-> reader.v, o |-> reader.o, list |-> reader.list,
                      linked |-> linked, last |-> reader.last, count |-> number,
                      roots |-> roots],
           reader.pc \in {"second", "count", "roots", "page"},
           p = "first" => reader.o.limit > 0,
           linked \subseteq reader.linked \cup Matching(reader.v, reader.o),
           comments' = comments, lastId' = lastId, notices' = notices, writes' = writes,
           copies' = copies, doomed' = doomed, moved' = moved,
           before' = before, since' = since
    PROVE  /\ ListingShape' /\ OnlyReadable' /\ NoticesAnswer' /\ StillDue' /\ SeenSoFar'
           /\ Beginning' /\ NotBeyond'
           /\ (Undisturbed' <=> Undisturbed) /\ (Untied' <=> Untied) /\ (AtEnd' => AtEnd)
           /\ Selected' = Selected
           /\ Matching(reader.v, reader.o)' = Matching(reader.v, reader.o)
<1>1. PICK v, o : v = reader.v /\ o = reader.o
  OBVIOUS
<1>2. ListingShape
  BY DEF ListingInv
<1>3. /\ reader'.pc = p /\ reader'.v = v /\ reader'.o = o /\ reader'.list = reader.list
      /\ reader'.linked = linked /\ reader'.last = reader.last /\ reader'.count = number
      /\ reader'.roots = roots
  BY <1>1
<1>4. /\ Selected' = Selected /\ (\A x : Rank(x)' = Rank(x)) /\ Untied' = Untied
      /\ Matching(reader.v, reader.o)' = Matching(reader.v, reader.o)
  <2>1. reader'.v = reader.v /\ reader'.o = reader.o
    BY <1>1, <1>3
  <2> QED
    BY <2>1, SameSelection
<1>5. Matching(reader.v, reader.o) \subseteq comments /\ comments \subseteq Row
  BY <1>2, SelectedRows DEF ListingShape, ListingTypeOK
<1>6. linked \subseteq Row
  BY <1>2, <1>5 DEF ListingShape, ListingTypeOK
<1>7. ListingShape'
  <2>1. ListingTypeOK'
    BY <1>2, <1>3, <1>6 DEF ListingShape, ListingTypeOK
  <2>2. ReaderFits'
    <3>1. reader' = [pc |-> reader'.pc, v |-> reader'.v, o |-> reader'.o, list |-> reader'.list,
                     linked |-> reader'.linked, last |-> reader'.last, count |-> reader'.count,
                     roots |-> reader'.roots]
      BY <1>1, <1>3
    <3>2. v \in Viewers \cup {Stranger} /\ o \in Queries \cup {NoRequest} /\ o \in Queries
          /\ reader.last <= Len(reader.list)
      BY <1>1, <1>2 DEF ListingShape, ReaderFits
    <3>3. p = "first" => ~ (o.limit < 0)
      <4>1. o.limit \in Int
        BY <3>2, ListingAssumption
      <4> QED
        BY <1>1, <4>1
    <3> QED
      BY <1>3, <3>1, <3>2, <3>3 DEF ReaderFits
  <2> QED
    BY <1>2, <2>1, <2>2 DEF ListingShape
<1>8. OnlyReadable'
  <2>1. \A c \in Matching(reader.v, reader.o) : GetQueryScopes(v, o, c)
    BY <1>1 DEF Matching
  <2>2. \A c \in Matching(reader.v, reader.o) :
           MayRead(v, c) /\ (o.scope = "page" => PageScopeQuery(o, c))
    BY <2>1, ScopesRead
  <2>3. \A c \in ToSet(reader.list) \cup reader.linked :
           MayRead(v, c) /\ (o.scope = "page" => PageScopeQuery(o, c))
    BY <1>1 DEF ListingInv, OnlyReadable, Shown
  <2>4. Shown' = ToSet(reader.list) \cup linked
    BY <1>3 DEF Shown
  <2>5. \A c \in Shown' : MayRead(v, c) /\ (o.scope = "page" => PageScopeQuery(o, c))
    BY <2>2, <2>3, <2>4
  <2> QED
    BY <1>3, <2>5 DEF OnlyReadable, MayRead, PageScopeQuery
<1>9. NoticesAnswer'
  BY DEF ListingInv, NoticesAnswer, CopiesFit, AnswersOwner, Admins
<1>10. (Walking' <=> Walking) /\ (Undisturbed' <=> Undisturbed)
  BY <1>3 DEF Walking, Undisturbed
<1>11. AtEnd' => AtEnd
  BY <1>1, <1>3 DEF AtEnd
<1>12. StillDue'
  <2>1. Walking => \A id \in before : \E c \in Matching(reader.v, reader.o) : c.id = id
    BY DEF ListingInv, ListTrue, StillDue
  <2>2. Walking' => \A id \in before' : \E c \in Matching(reader.v, reader.o)' : c.id = id
    BY <1>4, <1>10, <2>1
  <2> QED
    BY <2>2, Zenon DEF StillDue
<1>13. \A id : Seen(id)' <=> Seen(id)
  BY <1>3 DEF Seen
<1>14. SeenSoFar'
  BY <1>3, <1>4, <1>10, <1>11, <1>13 DEF ListingInv, ListTrue, SeenSoFar
<1>15. Beginning'
  BY <1>1, <1>3, <1>4, <1>10 DEF ListingInv, ListTrue, Beginning
<1>16. NotBeyond'
  BY <1>3, <1>4, <1>10 DEF ListingInv, ListTrue, NotBeyond
<1> QED
  BY <1>4, <1>7, <1>8, <1>9, <1>10, <1>11, <1>12, <1>14, <1>15, <1>16

(* The fields of a reader are those of a reader.                           *)
LEMMA ReaderFields ==
    ASSUME ListingInv
    PROVE  /\ reader = [pc |-> reader.pc, v |-> reader.v, o |-> reader.o, list |-> reader.list,
                        linked |-> reader.linked, last |-> reader.last, count |-> reader.count,
                        roots |-> reader.roots]
           /\ reader.count \in Nat /\ reader.roots \in Nat /\ reader.last \in Nat
           /\ reader.list \in Seq(Row) /\ reader.last \in 0..Len(reader.list)
<1>1. ListingTypeOK /\ ReaderFits
  BY DEF ListingInv, ListingShape
<1>2. reader.list \in Seq(Row) /\ reader.last \in Nat /\ reader.last <= Len(reader.list)
  BY <1>1 DEF ListingTypeOK, ReaderFits
<1>3. reader.last \in 0..Len(reader.list)
  <2>1. Len(reader.list) \in Nat
    BY <1>2
  <2> QED
    BY <1>2, <2>1
<1> QED
  BY <1>1, <1>2, <1>3 DEF ListingTypeOK, ReaderFits

(* The replies below the roots of a page join those of the pages before.   *)
LEMMA NestedKeeps ==
    ASSUME ListingInv, findNestedChildren
    PROVE  ListingInv'
<1>1. PICK M : M = Matching(reader.v, reader.o)
  OBVIOUS
<1>2. PICK joined : joined = {c \in M : c.rid # 0 /\ c.root \in {r.id : r \in LastPage}}
  OBVIOUS
<1>3. /\ reader = [pc |-> reader.pc, v |-> reader.v, o |-> reader.o, list |-> reader.list,
                   linked |-> reader.linked, last |-> reader.last, count |-> reader.count,
                   roots |-> reader.roots]
      /\ reader.count \in Nat /\ reader.roots \in Nat /\ reader.last \in Nat
      /\ reader.list \in Seq(Row) /\ reader.last \in 0..Len(reader.list)
  BY ReaderFields
<1>4. /\ reader.pc = "second" /\ reader.o.nested
      /\ reader' = [reader EXCEPT !.pc = "count", !.linked = @ \cup joined]
      /\ comments' = comments /\ lastId' = lastId /\ notices' = notices /\ writes' = writes
      /\ copies' = copies /\ doomed' = doomed /\ moved' = moved
      /\ before' = before /\ since' = since
  BY <1>1, <1>2 DEF findNestedChildren, others
<1>5. reader' = [pc |-> "count", v |-> reader.v, o |-> reader.o, list |-> reader.list,
                 linked |-> reader.linked \cup joined, last |-> reader.last,
                 count |-> reader.count, roots |-> reader.roots]
  BY <1>3, <1>4
<1>6. reader.linked \cup joined \subseteq reader.linked \cup Matching(reader.v, reader.o)
  BY <1>1, <1>2
<1>7. /\ ListingShape' /\ OnlyReadable' /\ NoticesAnswer' /\ StillDue' /\ SeenSoFar'
      /\ Beginning' /\ NotBeyond'
      /\ (Undisturbed' <=> Undisturbed) /\ (Untied' <=> Untied) /\ (AtEnd' => AtEnd)
      /\ Selected' = Selected
      /\ Matching(reader.v, reader.o)' = Matching(reader.v, reader.o)
  <2>1. /\ "count" \in {"first", "count", "roots", "page"} /\ "count" # "first"
        /\ reader.pc \in {"second", "count", "roots", "page"}
        /\ reader.linked \cup joined \subseteq reader.linked \cup Matching(reader.v, reader.o)
        /\ reader.count \in Nat /\ reader.roots \in Nat
    BY <1>3, <1>4, <1>6
  <2> QED
    BY <2>1, <1>5, <1>4, ListStays, ZenonT(60)
<1>8. CountsTrue'
  <2>1. reader'.pc = "count" /\ reader'.list = reader.list /\ reader'.o = reader.o
        /\ reader'.linked = reader.linked \cup joined
    BY <1>5
  <2>2. IdsOf(LinkedTo)' = {r.id : r \in ToSet(reader.list)}
    BY <2>1 DEF IdsOf, LinkedTo
  <2>3. IdsOf(LinkedTo) =
           {r.id : r \in ToSet(SubSeq(reader.list, 1, Len(reader.list) - reader.last))}
    BY <1>4 DEF IdsOf, LinkedTo
  <2>4. ToSet(SubSeq(reader.list, 1, Len(reader.list) - reader.last)) \cup LastPage
           = ToSet(reader.list)
    BY <1>3, TwoParts DEF LastPage
  <2>5. IdsOf(LinkedTo)' = IdsOf(LinkedTo) \cup {r.id : r \in LastPage}
    BY <2>2, <2>3, <2>4
  <2>6. (Undisturbed /\ Untied) =>
           /\ AtEnd => Len(reader.list) = Cardinality(Selected)
           /\ reader.linked = {c \in M : c.rid # 0 /\ c.root \in IdsOf(LinkedTo)}
    BY <1>1, <1>4 DEF ListingInv, ListTrue, CountsTrue
  <2>7. (Undisturbed /\ Untied) =>
           /\ AtEnd' => Len(reader.list) = Cardinality(Selected)
           /\ reader.linked \cup joined = {c \in M : c.rid # 0 /\ c.root \in IdsOf(LinkedTo)'}
    BY <1>2, <1>7, <2>5, <2>6
  <2>8. M = Matching(reader.v, reader.o)'
    BY <1>1, <1>7
  <2> QED
    BY <1>7, <2>1, <2>7, <2>8 DEF CountsTrue
<1> QED
  BY <1>7, <1>8 DEF ListingInv, ListTrue

(* The comments that are answered in a page join the list.                 *)
LEMMA FlatKeeps ==
    ASSUME ListingInv, findFlatLinkedComments
    PROVE  ListingInv'
<1>1. PICK joined : joined = {c \in Matching(reader.v, reader.o) :
                        /\ c.id \notin {x.id : x \in LastPage}
                        /\ \E x \in LastPage : x.rid # 0 /\ x.rid = c.id}
  OBVIOUS
<1>2. /\ reader = [pc |-> reader.pc, v |-> reader.v, o |-> reader.o, list |-> reader.list,
                   linked |-> reader.linked, last |-> reader.last, count |-> reader.count,
                   roots |-> reader.roots]
      /\ reader.count \in Nat /\ reader.roots \in Nat
  BY ReaderFields
<1>3. /\ reader.pc = "second" /\ ~ reader.o.nested
      /\ reader' = [reader EXCEPT !.pc = "count", !.linked = @ \cup joined]
      /\ comments' = comments /\ lastId' = lastId /\ notices' = notices /\ writes' = writes
      /\ copies' = copies /\ doomed' = doomed /\ moved' = moved
      /\ before' = before /\ since' = since
  BY <1>1 DEF findFlatLinkedComments, others
<1>4. reader' = [pc |-> "count", v |-> reader.v, o |-> reader.o, list |-> reader.list,
                 linked |-> reader.linked \cup joined, last |-> reader.last,
                 count |-> reader.count, roots |-> reader.roots]
  BY <1>2, <1>3
<1>5. reader.linked \cup joined \subseteq reader.linked \cup Matching(reader.v, reader.o)
  BY <1>1
<1>6. /\ ListingShape' /\ OnlyReadable' /\ NoticesAnswer' /\ StillDue' /\ SeenSoFar'
      /\ Beginning' /\ NotBeyond'
      /\ (Undisturbed' <=> Undisturbed) /\ (Untied' <=> Untied) /\ (AtEnd' => AtEnd)
      /\ Selected' = Selected
      /\ Matching(reader.v, reader.o)' = Matching(reader.v, reader.o)
  <2>1. /\ "count" \in {"first", "count", "roots", "page"} /\ "count" # "first"
        /\ reader.pc \in {"second", "count", "roots", "page"}
        /\ reader.linked \cup joined \subseteq reader.linked \cup Matching(reader.v, reader.o)
        /\ reader.count \in Nat /\ reader.roots \in Nat
    BY <1>2, <1>3, <1>5
  <2> QED
    BY <2>1, <1>4, <1>3, ListStays, ZenonT(60)
<1>7. CountsTrue'
  <2>1. reader'.pc = "count" /\ reader'.list = reader.list /\ ~ reader'.o.nested
    BY <1>3, <1>4
  <2>2. (Undisturbed /\ Untied) => (AtEnd => Len(reader.list) = Cardinality(Selected))
    BY DEF ListingInv, ListTrue, CountsTrue
  <2> QED
    BY <1>6, <2>1, <2>2 DEF CountsTrue
<1> QED
  BY <1>6, <1>7 DEF ListingInv, ListTrue

(* The reader counts what there is.                                        *)
LEMMA CountAllKeeps ==
    ASSUME ListingInv, CountAll
    PROVE  ListingInv'
<1>1. PICK n : n = Cardinality(Matching(reader.v, reader.o))
  OBVIOUS
<1>2. /\ reader = [pc |-> reader.pc, v |-> reader.v, o |-> reader.o, list |-> reader.list,
                   linked |-> reader.linked, last |-> reader.last, count |-> reader.count,
                   roots |-> reader.roots]
      /\ reader.count \in Nat /\ reader.roots \in Nat
  BY ReaderFields
<1>3. /\ reader.pc = "count"
      /\ reader' = [reader EXCEPT !.pc = "roots", !.count = n]
      /\ comments' = comments /\ lastId' = lastId /\ notices' = notices /\ writes' = writes
      /\ copies' = copies /\ doomed' = doomed /\ moved' = moved
      /\ before' = before /\ since' = since
  BY <1>1 DEF CountAll, others
<1>4. reader' = [pc |-> "roots", v |-> reader.v, o |-> reader.o, list |-> reader.list,
                 linked |-> reader.linked, last |-> reader.last,
                 count |-> n, roots |-> reader.roots]
  BY <1>2, <1>3
<1>5. n \in Nat
  <2>1. ListingShape
    BY DEF ListingInv
  <2> QED
    BY <1>1, <2>1, SelectedRows, FS_CardinalityType
<1>6. /\ ListingShape' /\ OnlyReadable' /\ NoticesAnswer' /\ StillDue' /\ SeenSoFar'
      /\ Beginning' /\ NotBeyond'
      /\ (Undisturbed' <=> Undisturbed) /\ (Untied' <=> Untied) /\ (AtEnd' => AtEnd)
      /\ Selected' = Selected
      /\ Matching(reader.v, reader.o)' = Matching(reader.v, reader.o)
  <2>1. /\ "roots" \in {"first", "count", "roots", "page"} /\ "roots" # "first"
        /\ reader.pc \in {"second", "count", "roots", "page"}
        /\ reader.linked \subseteq reader.linked \cup Matching(reader.v, reader.o)
        /\ n \in Nat /\ reader.roots \in Nat
    BY <1>2, <1>3, <1>5
  <2> QED
    BY <2>1, <1>4, <1>3, ListStays, ZenonT(60)
<1>7. CountsTrue'
  <2>1. reader'.pc = "roots" /\ reader'.list = reader.list /\ reader'.o = reader.o
        /\ reader'.linked = reader.linked /\ reader'.count = n
    BY <1>4
  <2>2. IdsOf(LinkedTo)' = IdsOf(LinkedTo)
    BY <1>3, <2>1 DEF IdsOf, LinkedTo
  <2>3. (Undisturbed /\ Untied) =>
           /\ AtEnd => Len(reader.list) = Cardinality(Selected)
           /\ reader.o.nested =>
                reader.linked = {c \in Matching(reader.v, reader.o) :
                                    c.rid # 0 /\ c.root \in IdsOf(LinkedTo)}
    BY DEF ListingInv, ListTrue, CountsTrue
  <2> QED
    BY <1>1, <1>6, <2>1, <2>2, <2>3 DEF CountsTrue
<1> QED
  BY <1>6, <1>7 DEF ListingInv, ListTrue

(* And the roots among them.                                               *)
LEMMA CountRootsKeeps ==
    ASSUME ListingInv, CountRoots
    PROVE  ListingInv'
<1>1. PICK n : n = Cardinality(OnlyRoot(Matching(reader.v, reader.o)))
  OBVIOUS
<1>2. /\ reader = [pc |-> reader.pc, v |-> reader.v, o |-> reader.o, list |-> reader.list,
                   linked |-> reader.linked, last |-> reader.last, count |-> reader.count,
                   roots |-> reader.roots]
      /\ reader.count \in Nat /\ reader.roots \in Nat
  BY ReaderFields
<1>3. /\ reader.pc = "roots"
      /\ reader' = [reader EXCEPT !.pc = "page", !.roots = n]
      /\ comments' = comments /\ lastId' = lastId /\ notices' = notices /\ writes' = writes
      /\ copies' = copies /\ doomed' = doomed /\ moved' = moved
      /\ before' = before /\ since' = since
  BY <1>1 DEF CountRoots, others
<1>4. reader' = [pc |-> "page", v |-> reader.v, o |-> reader.o, list |-> reader.list,
                 linked |-> reader.linked, last |-> reader.last,
                 count |-> reader.count, roots |-> n]
  BY <1>2, <1>3
<1>5. n \in Nat
  <2>1. ListingShape
    BY DEF ListingInv
  <2>2. OnlyRoot(Matching(reader.v, reader.o)) \subseteq Matching(reader.v, reader.o)
    BY DEF OnlyRoot
  <2> QED
    BY <1>1, <2>1, <2>2, SelectedRows, FS_Subset, FS_CardinalityType
<1>6. /\ ListingShape' /\ OnlyReadable' /\ NoticesAnswer' /\ StillDue' /\ SeenSoFar'
      /\ Beginning' /\ NotBeyond'
      /\ (Undisturbed' <=> Undisturbed) /\ (Untied' <=> Untied) /\ (AtEnd' => AtEnd)
      /\ Selected' = Selected
      /\ Matching(reader.v, reader.o)' = Matching(reader.v, reader.o)
  <2>1. /\ "page" \in {"first", "count", "roots", "page"} /\ "page" # "first"
        /\ reader.pc \in {"second", "count", "roots", "page"}
        /\ reader.linked \subseteq reader.linked \cup Matching(reader.v, reader.o)
        /\ reader.count \in Nat /\ n \in Nat
    BY <1>2, <1>3, <1>5
  <2> QED
    BY <2>1, <1>4, <1>3, ListStays, ZenonT(60)
<1>7. CountsTrue'
  <2>1. reader'.pc = "page" /\ reader'.list = reader.list /\ reader'.o = reader.o
        /\ reader'.linked = reader.linked /\ reader'.count = reader.count /\ reader'.roots = n
    BY <1>4
  <2>2. IdsOf(LinkedTo)' = IdsOf(LinkedTo)
    BY <1>3, <2>1 DEF IdsOf, LinkedTo
  <2>3. (Undisturbed /\ Untied) =>
           /\ AtEnd => Len(reader.list) = Cardinality(Selected)
           /\ reader.count = Cardinality(Matching(reader.v, reader.o))
           /\ reader.o.nested =>
                reader.linked = {c \in Matching(reader.v, reader.o) :
                                    c.rid # 0 /\ c.root \in IdsOf(LinkedTo)}
    BY <1>3 DEF ListingInv, ListTrue, CountsTrue
  <2>4. OnlyRoot(Matching(reader.v, reader.o))' = OnlyRoot(Matching(reader.v, reader.o))
    BY <1>6 DEF OnlyRoot
  <2> QED
    BY <1>1, <1>6, <2>1, <2>2, <2>3, <2>4 DEF CountsTrue
<1> QED
  BY <1>6, <1>7 DEF ListingInv, ListTrue

(* After a full page the reader goes on.                                   *)
LEMMA NextPageKeeps ==
    ASSUME ListingInv, NextPage
    PROVE  ListingInv'
<1>1. /\ reader = [pc |-> reader.pc, v |-> reader.v, o |-> reader.o, list |-> reader.list,
                   linked |-> reader.linked, last |-> reader.last, count |-> reader.count,
                   roots |-> reader.roots]
      /\ reader.count \in Nat /\ reader.roots \in Nat
  BY ReaderFields
<1>2. /\ reader.pc = "page" /\ reader.o.limit > 0
      /\ reader' = [reader EXCEPT !.pc = "first"]
      /\ comments' = comments /\ lastId' = lastId /\ notices' = notices /\ writes' = writes
      /\ copies' = copies /\ doomed' = doomed /\ moved' = moved
      /\ before' = before /\ since' = since
  BY DEF NextPage, others
<1>3. reader' = [pc |-> "first", v |-> reader.v, o |-> reader.o, list |-> reader.list,
                 linked |-> reader.linked, last |-> reader.last,
                 count |-> reader.count, roots |-> reader.roots]
  BY <1>1, <1>2
<1>4. /\ ListingShape' /\ OnlyReadable' /\ NoticesAnswer' /\ StillDue' /\ SeenSoFar'
      /\ Beginning' /\ NotBeyond'
      /\ (Undisturbed' <=> Undisturbed) /\ (Untied' <=> Untied) /\ (AtEnd' => AtEnd)
      /\ Selected' = Selected
      /\ Matching(reader.v, reader.o)' = Matching(reader.v, reader.o)
  BY <1>1, <1>2, <1>3, ListStays
<1>5. CountsTrue'
  <2>1. reader'.pc = "first" /\ reader'.list = reader.list /\ reader'.o = reader.o
        /\ reader'.linked = reader.linked
    BY <1>3
  <2>2. IdsOf(LinkedTo)' = IdsOf(LinkedTo)
    BY <1>2, <2>1 DEF IdsOf, LinkedTo
  <2>3. (Undisturbed /\ Untied) =>
           (reader.o.nested =>
                reader.linked = {c \in Matching(reader.v, reader.o) :
                                    c.rid # 0 /\ c.root \in IdsOf(LinkedTo)})
    BY DEF ListingInv, ListTrue, CountsTrue
  <2> QED
    BY <1>4, <2>1, <2>2, <2>3 DEF CountsTrue, AtEnd
<1> QED
  BY <1>4, <1>5 DEF ListingInv, ListTrue

(* All dates of a table are below that of a new comment.                   *)
LEMMA NewestLast ==
    ASSUME ListingShape
    PROVE  NewestDate \in Nat /\ \A c \in comments : c.date < NewestDate
<1>1. comments \subseteq Row /\ IsFiniteSet(comments)
  BY DEF ListingShape, ListingTypeOK
<1> DEFINE f == [c \in comments |-> c.date]
           D == {c.date : c \in comments} \cup {0}
<1>2. IsFiniteSet({f[c] : c \in comments})
  BY <1>1, FieldFinite
<1>3. {f[c] : c \in comments} = {c.date : c \in comments}
  OBVIOUS
<1>4. IsFiniteSet(D)
  BY <1>2, <1>3, FS_AddElement
<1>5. D \subseteq Nat /\ D # {}
  BY <1>1 DEF Row
<1>6. \A c \in comments : c.date \in D
  OBVIOUS
<1>7. NewestDate = Max(D) + 1
  BY DEF NewestDate
<1> HIDE DEF D
<1>8. Max(D) \in D /\ \A y \in D : Max(D) >= y
  BY <1>4, <1>5, GreatestThere
<1>9. Max(D) \in Nat
  BY <1>5, <1>8
<1>10. \A c \in comments : c.date < Max(D) + 1
  <2> TAKE c \in comments
  <2>1. c.date \in Nat /\ Max(D) >= c.date
    BY <1>5, <1>6, <1>8
  <2> QED
    BY <1>9, <2>1
<1> QED
  BY <1>7, <1>9, <1>10

(* A comment that is written stays behind every offset: what is due, what  *)
(* is seen, and its place in the order stay so.                            *)
LEMMA CreateKeeps ==
    ASSUME ListingInv, NEW w \in Viewers, NEW parent \in copies, NEW top \in BOOLEAN,
           NEW pending \in BOOLEAN, CommentCreate(w, parent, top, pending)
    PROVE  ListingInv'
<1>1. PICK id : id = lastId + 1
  OBVIOUS
<1>2. PICK new :
         new = [parent EXCEPT !.id = id, !.rid = IF top THEN 0 ELSE parent.id, !.user = w.user,
                  !.root = IF top THEN 0 ELSE IF parent.rid = 0 THEN parent.id ELSE parent.root,
                  !.guest = w.guest, !.pending = pending, !.pinned = FALSE, !.votes = 0,
                  !.date = NewestDate]
  OBVIOUS
<1>3. PICK users \in SUBSET ((IF top THEN {} ELSE {parent.user}) \cup Admins) :
         notices' = notices \cup Announce(users, id)
  BY <1>1 DEF CommentCreate
<1>4. /\ id <= MaxRows /\ lastId' = id /\ comments' = comments \cup {new}
      /\ copies' = copies \cup {new} /\ doomed' = doomed /\ moved' = moved
      /\ reader' = reader /\ before' = before
      /\ writes' = writes + 1
      /\ since' = IF since # "changed" THEN "added" ELSE "changed"
  BY <1>1, <1>2 DEF CommentCreate, Request
<1>5. ListingShape
  BY DEF ListingInv
<1>6. /\ comments \subseteq Row /\ IsFiniteSet(comments) /\ parent \in Row /\ copies \subseteq Row
      /\ id \in Nat /\ id = lastId + 1 /\ id \in 1..MaxRows
      /\ \A c \in copies : c.id <= lastId /\ c.rid <= lastId /\ c.id \in Nat /\ c.rid \in Nat
      /\ comments \subseteq copies
  <2>1. comments \subseteq Row /\ IsFiniteSet(comments) /\ copies \subseteq Row /\ lastId \in Nat
    BY <1>5 DEF ListingShape, ListingTypeOK
  <2>2. comments \subseteq copies /\ \A c \in copies : {c.id, c.rid} \subseteq 0..lastId
    BY DEF ListingInv, NoticesAnswer, CopiesFit
  <2>3. id \in Nat /\ id = lastId + 1 /\ id \in 1..MaxRows
    <3>1. MaxRows \in Nat
      BY ListingAssumption
    <3> QED
      BY <1>1, <1>4, <2>1, <3>1
  <2> QED
    BY <2>1, <2>2, <2>3
<1>7. NewestDate \in Nat /\ \A c \in comments : c.date < NewestDate
  BY <1>5, NewestLast
<1>8. w.user \in Nat /\ w.guest \in STRING
  BY ListingAssumption
<1>9. parent = [id |-> parent.id, rid |-> parent.rid, root |-> parent.root,
                page |-> parent.page, site |-> parent.site, user |-> parent.user,
                guest |-> parent.guest, pending |-> parent.pending, pinned |-> parent.pinned,
                votes |-> parent.votes, date |-> parent.date, hit |-> parent.hit]
      /\ parent.id \in Nat /\ parent.root \in Nat /\ parent.page \in STRING
      /\ parent.site \in STRING /\ parent.votes \in Int /\ parent.hit \in BOOLEAN
      /\ parent.user \in Nat
  BY <1>6 DEF Row
<1>10. PICK rid, root :
          /\ rid = IF top THEN 0 ELSE parent.id
          /\ root = IF top THEN 0 ELSE IF parent.rid = 0 THEN parent.id ELSE parent.root
  OBVIOUS
<1>11. new = [id |-> id, rid |-> rid, root |-> root, page |-> parent.page,
              site |-> parent.site, user |-> w.user, guest |-> w.guest, pending |-> pending,
              pinned |-> FALSE, votes |-> 0, date |-> NewestDate,
              hit |-> parent.hit]
  BY <1>2, <1>9, <1>10
<1>12. root \in Nat /\ rid \in Nat /\ rid <= lastId
  <2>1. parent.id <= lastId /\ lastId \in Nat
    BY <1>5, <1>6 DEF ListingShape
  <2>2. root \in Nat
    BY <1>9, <1>10
  <2>3. rid \in Nat /\ rid <= lastId
    BY <1>9, <1>10, <2>1
  <2> QED
    BY <2>2, <2>3
<1>13. new \in Row /\ new.id = id /\ new.rid = rid /\ new.date = NewestDate
       /\ new.user = w.user
  BY <1>6, <1>7, <1>8, <1>9, <1>11, <1>12 DEF Row
<1>14. \A c \in copies : c.id # new.id /\ c.rid # new.id /\ c # new
  <2>1. lastId \in Nat
    BY <1>5 DEF ListingShape
  <2> QED
    BY <1>6, <1>13, <2>1
<1>15. ListingShape'
  <2>1. lastId \in Nat
    BY <1>5 DEF ListingShape
  <2>2. ListingTypeOK'
    <3>1. comments' \subseteq Row
      BY <1>4, <1>6, <1>13
    <3>2. \A a, b \in comments' : a.id = b.id => a = b
      <4>1. \A a, b \in comments : a.id = b.id => a = b
        BY <1>5 DEF ListingShape, ListingTypeOK
      <4> QED
        BY <1>4, <1>6, <1>14, <4>1
    <3>3. \A c \in comments' : {c.id, c.rid} \subseteq 0..lastId'
      <4>1. \A c \in comments : {c.id, c.rid} \subseteq 0..id
        BY <1>6, <2>1
      <4>2. {new.id, new.rid} \subseteq 0..id
        BY <1>6, <1>12, <1>13, <2>1
      <4> QED
        BY <1>4, <4>1, <4>2
    <3>4. \A n \in notices' : n.read \in BOOLEAN /\ n.user \in Nat /\ n.comment \in 1..MaxRows
      <4>1. \A n \in notices : n.read \in BOOLEAN /\ n.user \in Nat /\ n.comment \in 1..MaxRows
        BY <1>5 DEF ListingShape, ListingTypeOK
      <4>2. users \subseteq Nat
        <5>1. Admins \subseteq Nat
          <6>1. \A v \in Viewers : v.user \in Nat
            BY ListingAssumption
          <6> QED
            BY <6>1 DEF Admins
        <5>2. parent.user \in Nat
          BY <1>9
        <5>3. (IF top THEN {} ELSE {parent.user}) \subseteq Nat
          BY <5>2
        <5>4. (IF top THEN {} ELSE {parent.user}) \cup Admins \subseteq Nat
          BY <5>1, <5>3
        <5> QED
          BY <1>3, <5>4
      <4>3. ASSUME NEW n \in Announce(users, id)
            PROVE  n.read \in BOOLEAN /\ n.user \in Nat /\ n.comment \in 1..MaxRows
        <5>1. PICK u \in users : n = [user |-> u, comment |-> id, read |-> FALSE]
          BY DEF Announce
        <5>2. n.user = u /\ n.comment = id /\ n.read = FALSE
          BY <5>1
        <5> QED
          BY <1>6, <4>2, <5>2
      <4> QED
        BY <1>3, <4>1, <4>3
    <3>5. since' \in {"nothing", "added", "changed"} /\ writes' \in Nat
      BY <1>4, <1>5 DEF ListingShape, ListingTypeOK
    <3>6. /\ reader.pc \in {"idle", "first", "second", "count", "roots", "page", "given"}
          /\ reader.list \in Seq(Row) /\ reader.linked \subseteq Row
          /\ {reader.count, reader.roots, reader.last, writes} \subseteq Nat
          /\ before \subseteq 1..MaxRows
      BY <1>5 DEF ListingShape, ListingTypeOK
    <3>7. copies' \subseteq Row /\ moved' \subseteq 1..MaxRows
          /\ \A d \in doomed' : d.now \in 1..MaxRows /\ d.rest \subseteq 1..MaxRows
      BY <1>4, <1>5, <1>6, <1>13 DEF ListingShape, ListingTypeOK
    <3> QED
      BY <1>4, <3>1, <3>2, <3>3, <3>4, <3>5, <3>6, <3>7 DEF ListingTypeOK
  <2>3. ReaderFits'
    BY <1>4, <1>5 DEF ListingShape, ReaderFits
  <2>4. IsFiniteSet(comments')
    BY <1>4, <1>6, FS_AddElement
  <2>5. \A n \in notices' : n = [user |-> n.user, comment |-> n.comment, read |-> n.read]
    <3>1. \A n \in notices : n = [user |-> n.user, comment |-> n.comment, read |-> n.read]
      BY <1>5 DEF ListingShape
    <3>2. \A n \in Announce(users, id) :
             n = [user |-> n.user, comment |-> n.comment, read |-> n.read]
      BY DEF Announce
    <3> QED
      BY <1>3, <3>1, <3>2
  <2>6. \A c \in comments' : c.id \in 1..MaxRows
    BY <1>4, <1>5, <1>6, <1>13 DEF ListingShape
  <2>7. before' \subseteq 0..lastId'
    BY <1>4, <1>5, <1>6, <2>1 DEF ListingShape
  <2>8. lastId' \in Nat
    BY <1>4, <1>6
  <2> QED
    BY <2>2, <2>3, <2>4, <2>5, <2>6, <2>7, <2>8 DEF ListingShape
<1>16. OnlyReadable'
  BY <1>4 DEF ListingInv, OnlyReadable, Shown, MayRead, PageScopeQuery, Admins
<1>17. NoticesAnswer'
  <2>1. lastId \in Nat
    BY <1>5 DEF ListingShape
  <2>2. CopiesFit'
    <3>1. /\ comments \subseteq copies
          /\ \A c \in copies : c.id \in 1..MaxRows /\ {c.id, c.rid} \subseteq 0..lastId
          /\ \A c, d \in copies : c.id = d.id => c.rid = d.rid
          /\ \A c \in copies : c.id \notin moved =>
                \E d \in comments : d.id = c.id /\ d.user = c.user
      BY DEF ListingInv, NoticesAnswer, CopiesFit
    <3>2. comments' \subseteq copies'
      BY <1>4, <3>1
    <3>3. \A c \in copies' : c.id \in 1..MaxRows /\ {c.id, c.rid} \subseteq 0..lastId'
      <4>1. \A c \in copies : {c.id, c.rid} \subseteq 0..id
        BY <1>6, <2>1
      <4>2. {new.id, new.rid} \subseteq 0..id
        BY <1>6, <1>12, <1>13, <2>1
      <4> QED
        BY <1>4, <1>6, <1>13, <3>1, <4>1, <4>2
    <3>4. \A c, d \in copies' : c.id = d.id => c.rid = d.rid
      BY <1>4, <1>14, <3>1
    <3>5. \A c \in copies' : c.id \notin moved' =>
             \E d \in comments' : d.id = c.id /\ d.user = c.user
      BY <1>4, <3>1
    <3> QED
      BY <3>2, <3>3, <3>4, <3>5 DEF CopiesFit
  <2> SUFFICES ASSUME NEW n \in notices \cup Announce(users, id)
               PROVE  n.comment <= id /\ AnswersOwner(n)'
    BY <1>3, <1>4, <2>2 DEF NoticesAnswer
  <2>3. CASE n \in notices
    <3>1. n.comment <= lastId /\ AnswersOwner(n)
      BY <2>3 DEF ListingInv, NoticesAnswer
    <3>2. n.comment \in Nat
      BY <2>3, <1>5 DEF ListingShape, ListingTypeOK
    <3>3. n.comment <= id /\ new.id # n.comment
      BY <1>6, <1>13, <2>1, <3>1, <3>2
    <3>4. AnswersOwner(n)'
      BY <1>4, <3>1, <3>3 DEF AnswersOwner, Admins
    <3> QED
      BY <3>3, <3>4
  <2>4. CASE n \in Announce(users, id)
    <3>1. n.comment = id /\ n.user \in users
      BY <2>4 DEF Announce
    <3>2. \A c \in copies \cup {new} : c.id = id => c = new
      BY <1>13, <1>14
    <3>3. n.user \in Admins \/ (n.user = parent.user /\ new.rid = parent.id)
      BY <1>3, <1>10, <1>13, <3>1
    <3>4. AnswersOwner(n)'
      BY <1>4, <3>1, <3>2, <3>3 DEF AnswersOwner, Admins
    <3> QED
      BY <1>6, <3>1, <3>4
  <2> QED
    BY <2>3, <2>4
<1>18. PICK v, o : v = reader.v /\ o = reader.o
  OBVIOUS
<1>19. PICK M, N : M = Matching(reader.v, reader.o) /\ N = Matching(reader.v, reader.o)'
  OBVIOUS
<1>20. M \subseteq N /\ N \subseteq M \cup {new} /\ M \subseteq comments
  <2>1. \A c \in comments : GetQueryScopes(v, o, c)' <=> GetQueryScopes(v, o, c)
    BY <1>4, <1>6, <1>14, OldScopes
  <2>2. M = {c \in comments : GetQueryScopes(v, o, c)}
    BY <1>18, <1>19 DEF Matching
  <2>3. N = {c \in comments' : GetQueryScopes(v, o, c)'}
    <3>1. reader' = reader
      BY <1>4
    <3>2. reader'.v = v /\ reader'.o = o
      BY <1>18, <3>1
    <3>3. N = Matching(v, o)'
      BY <1>19, <3>2 DEF Matching, GetQueryScopes, CommonScope, NoPending, SearchScope,
        PageScopeQuery, UserScopeQuery, SiteScopeQuery, Admins, GetUserAllCommentIDs,
        GetGuestComments
    <3> QED
      BY <3>3 DEF Matching
  <2> QED
    BY <1>4, <2>1, <2>2, <2>3
<1>21. PICK S, T : S = Selected /\ T = Selected'
  OBVIOUS
<1>22. S \subseteq T /\ T \subseteq S \cup {new} /\ S \subseteq comments /\ new \notin S
  <2>1. S = IF o.nested THEN {c \in M : c.rid = 0} ELSE M
    BY <1>18, <1>19, <1>21 DEF Selected, OnlyRoot
  <2>2. T = IF o.nested THEN {c \in N : c.rid = 0} ELSE N
    BY <1>4, <1>18, <1>19, <1>21 DEF Selected, OnlyRoot
  <2>3. S \subseteq comments
    BY <1>20, <2>1
  <2>4. new \notin S
    BY <1>6, <1>14, <2>3
  <2> QED
    BY <1>20, <2>1, <2>2, <2>3, <2>4
<1>23. IsFiniteSet(T) /\ Cardinality(S) \in Nat /\ Cardinality(T) \in Nat
       /\ (\A x : Rank(x) \in Nat) /\ (\A x : Rank(x)' \in Nat)
  BY <1>5, <1>15, <1>21, SelectedRows, SelectedNext
<1>24. Cardinality(S) <= Cardinality(T)
  BY <1>22, <1>23, FS_Subset
<1>25. /\ \A x : Ahead(x) = {y \in S : GetSortSQL(o, y, x)}
       /\ \A x : Ahead(x)' = {y \in T : GetSortSQL(o, y, x)}
  BY <1>4, <1>18, <1>21 DEF Ahead, GetSortSQL
<1>26. \A x : Rank(x) <= Rank(x)'
  <2> TAKE x
  <2>1. Ahead(x) \subseteq Ahead(x)' /\ Ahead(x)' \subseteq T
    BY <1>22, <1>25
  <2>2. IsFiniteSet(Ahead(x)')
    BY <1>23, <2>1, FS_Subset
  <2>3. PICK A, B : A = Ahead(x) /\ B = Ahead(x)'
    OBVIOUS
  <2>4. Cardinality(A) <= Cardinality(B)
    BY <2>1, <2>2, <2>3, FS_Subset
  <2> QED
    BY <2>3, <2>4 DEF Rank
<1>27. o.sort = "date_asc" => \A x \in S : Rank(x)' = Rank(x)
  <2> SUFFICES ASSUME o.sort = "date_asc", NEW x \in S PROVE Rank(x)' = Rank(x)
    OBVIOUS
  <2>1. x \in comments /\ x.date < new.date /\ x.date \in Nat /\ new.date \in Nat
    BY <1>6, <1>7, <1>13, <1>22 DEF Row
  <2>2. ~ GetSortSQL(o, new, x)
    <3>1. GetSortSQL(o, new, x) <=> new.date < x.date
      BY SortOrders, Zenon
    <3> QED
      BY <2>1, <3>1
  <2>3. Ahead(x)' = Ahead(x)
    BY <1>22, <1>25, <2>2
  <2> QED
    BY <2>3 DEF Rank
<1>28. (Walking' => Walking) /\ ~ Undisturbed' /\ (AtEnd' => AtEnd)
  BY <1>4 DEF Walking, Undisturbed, AtEnd
<1>29. Untied' => Untied
  BY <1>4 DEF Untied
<1>30. StillDue'
  <2>1. Walking => \A id1 \in before : \E c \in M : c.id = id1
    BY <1>19 DEF ListingInv, ListTrue, StillDue
  <2>2. Walking' => \A id1 \in before' : \E c \in N : c.id = id1
    BY <1>4, <1>20, <1>28, <2>1
  <2> QED
    BY <1>19, <2>2, Zenon DEF StillDue
<1>31. \A id1 : Seen(id1)' <=> Seen(id1)
  BY <1>4 DEF Seen
<1>32. SeenSoFar'
  <2> SUFFICES ASSUME Walking, Untied, NEW x \in T, x.id \in before
               PROVE  /\ Rank(x)' < Len(reader.list) => Seen(x.id)
                      /\ AtEnd => Seen(x.id)
    BY <1>4, <1>21, <1>28, <1>29, <1>31 DEF SeenSoFar
  <2>1. x # new
    <3>1. before \subseteq 0..lastId /\ lastId \in Nat
      BY <1>5 DEF ListingShape
    <3> QED
      BY <1>6, <1>13, <3>1
  <2>2. x \in Selected
    BY <1>21, <1>22, <2>1
  <2>3. (Rank(x) < Len(reader.list) => Seen(x.id)) /\ (AtEnd => Seen(x.id))
    BY <2>2 DEF ListingInv, ListTrue, SeenSoFar
  <2>4. Rank(x)' < Len(reader.list) => Rank(x) < Len(reader.list)
    <3>1. reader.list \in Seq(Row)
      BY <1>5 DEF ListingShape, ListingTypeOK
    <3>2. Len(reader.list) \in Nat /\ Rank(x) \in Nat /\ Rank(x)' \in Nat /\ Rank(x) <= Rank(x)'
      BY <1>23, <1>26, <3>1
    <3> QED
      BY <3>2
  <2> QED
    BY <2>3, <2>4
<1>33. Beginning'
  <2> SUFFICES ASSUME Walking, Untied, o.sort = "date_asc", NEW i \in DOMAIN reader.list
               PROVE  (reader.list[i] \in Selected /\ Rank(reader.list[i]) = i - 1)'
    BY <1>4, <1>18, <1>28, <1>29 DEF Beginning
  <2>1. PICK x : x = reader.list[i]
    OBVIOUS
  <2>2. x \in S /\ Rank(x) = i - 1
    BY <1>18, <1>21, <2>1 DEF ListingInv, ListTrue, Beginning
  <2>3. x \in T /\ Rank(x)' = i - 1
    BY <1>22, <1>27, <2>2
  <2>4. reader'.list[i] = x
    BY <1>4, <2>1
  <2>5. Rank(reader.list[i])' = Rank(x)'
    BY <2>4 DEF Rank, Ahead, GetSortSQL
  <2> QED
    BY <1>21, <2>3, <2>4, <2>5
<1>34. NotBeyond'
  <2>1. Walking => Len(reader.list) <= Cardinality(S)
    BY <1>21 DEF ListingInv, ListTrue, NotBeyond
  <2>2. Len(reader.list) \in Nat
    <3>1. reader.list \in Seq(Row)
      BY <1>5 DEF ListingShape, ListingTypeOK
    <3> QED
      BY <3>1
  <2>3. Walking => Len(reader.list) <= Cardinality(T)
    BY <1>23, <1>24, <2>1, <2>2
  <2> QED
    BY <1>4, <1>21, <1>28, <2>3 DEF NotBeyond
<1>35. CountsTrue'
  BY <1>28 DEF CountsTrue
<1> QED
  BY <1>15, <1>16, <1>17, <1>30, <1>32, <1>33, <1>34, <1>35 DEF ListingInv, ListTrue

(* A list is true as long as nothing about it changes.                     *)
LEMMA SameListTrue ==
    ASSUME ListTrue, comments' = comments, reader' = reader, before' = before, since' = since
    PROVE  ListTrue'
<1>1. reader'.v = reader.v /\ reader'.o = reader.o
  OBVIOUS
<1>2. /\ Selected' = Selected /\ \A x : Rank(x)' = Rank(x)
      /\ Matching(reader.v, reader.o)' = Matching(reader.v, reader.o)
      /\ Untied' = Untied
  BY <1>1, SameSelection
<1>3. (Walking' <=> Walking) /\ (Undisturbed' <=> Undisturbed) /\ (AtEnd' <=> AtEnd)
      /\ LinkedTo' = LinkedTo
  BY DEF Walking, Undisturbed, AtEnd, LinkedTo
<1>4. (\A id : Seen(id)' <=> Seen(id)) /\ IdsOf(LinkedTo)' = IdsOf(LinkedTo)
  BY <1>3 DEF Seen, IdsOf
<1>5. StillDue'
  <2>1. Walking => \A id \in before : \E c \in Matching(reader.v, reader.o) : c.id = id
    BY DEF ListTrue, StillDue
  <2>2. Walking' => \A id \in before' : \E c \in Matching(reader.v, reader.o)' : c.id = id
    BY <1>2, <1>3, <2>1
  <2> QED
    BY <2>2, Zenon DEF StillDue
<1>6. SeenSoFar'
  BY <1>2, <1>3, <1>4 DEF ListTrue, SeenSoFar
<1>7. Beginning'
  BY <1>2, <1>3 DEF ListTrue, Beginning
<1>8. NotBeyond'
  BY <1>2, <1>3 DEF ListTrue, NotBeyond
<1>9. CountsTrue'
  <2>1. (Undisturbed /\ Untied) =>
          /\ AtEnd => Len(reader.list) = Cardinality(Selected)
          /\ reader.pc \in {"roots", "page"} =>
                reader.count = Cardinality(Matching(reader.v, reader.o))
          /\ reader.pc = "page" =>
                reader.roots = Cardinality(OnlyRoot(Matching(reader.v, reader.o)))
          /\ reader.o.nested =>
                reader.linked = {c \in Matching(reader.v, reader.o) :
                                    c.rid # 0 /\ c.root \in IdsOf(LinkedTo)}
    BY DEF ListTrue, CountsTrue
  <2>2. OnlyRoot(Matching(reader.v, reader.o))' = OnlyRoot(Matching(reader.v, reader.o))
    BY <1>2 DEF OnlyRoot
  <2> QED
    BY <1>2, <1>3, <1>4, <2>1, <2>2 DEF CountsTrue
<1> QED
  BY <1>5, <1>6, <1>7, <1>8, <1>9 DEF ListTrue

(* A step of others keeps it all if the notifications are answers still,   *)
(* and whoever pages through a list is told that comments were changed.    *)
LEMMA OthersKeep ==
    ASSUME ListingInv, reader' = reader, before' = before, lastId' = lastId, writes' \in Nat,
           copies' \subseteq Row, IsFiniteSet(comments'),
           \A a, b \in comments' : a.id = b.id => a = b,
           moved' \subseteq 1..MaxRows,
           \A d \in doomed' : d.now \in 1..MaxRows /\ d.rest \subseteq 1..MaxRows,
           \A n \in notices' : /\ n.read \in BOOLEAN /\ n.user \in Nat
                               /\ n.comment \in 1..MaxRows
                               /\ n = [user |-> n.user, comment |-> n.comment, read |-> n.read],
           since' = "changed" \/ (comments' = comments /\ since' = since),
           NoticesAnswer'
    PROVE  ListingInv'
<1>1. ListingShape
  BY DEF ListingInv
<1>2. /\ comments' \subseteq copies'
      /\ \A c \in copies' : c.id \in 1..MaxRows /\ {c.id, c.rid} \subseteq 0..lastId
  BY DEF NoticesAnswer, CopiesFit
<1>3. ListingShape'
  <2>1. ListingTypeOK'
    <3>1. comments' \subseteq Row
      BY <1>2
    <3>2. \A c \in comments' : {c.id, c.rid} \subseteq 0..lastId'
      BY <1>2
    <3>3. since' \in {"nothing", "added", "changed"}
      BY <1>1 DEF ListingShape, ListingTypeOK
    <3>4. /\ reader.pc \in {"idle", "first", "second", "count", "roots", "page", "given"}
          /\ reader.list \in Seq(Row) /\ reader.linked \subseteq Row
          /\ {reader.count, reader.roots, reader.last} \subseteq Nat
          /\ before \subseteq 1..MaxRows
      BY <1>1 DEF ListingShape, ListingTypeOK
    <3> QED
      BY <3>1, <3>2, <3>3, <3>4 DEF ListingTypeOK
  <2>2. ReaderFits'
    BY <1>1 DEF ListingShape, ReaderFits
  <2>3. \A c \in comments' : c.id \in 1..MaxRows
    BY <1>2
  <2> QED
    BY <1>1, <2>1, <2>2, <2>3 DEF ListingShape
<1>4. OnlyReadable'
  BY DEF ListingInv, OnlyReadable, Shown, MayRead, PageScopeQuery, Admins
<1>5. ListTrue'
  <2>1. CASE since' = "changed"
    <3>1. ~ Walking'
      BY <2>1 DEF Walking
    <3> QED
      BY <3>1, NobodyWalks
  <2>2. CASE comments' = comments /\ since' = since
    BY <2>2, SameListTrue DEF ListingInv
  <2> QED
    BY <2>1, <2>2
<1> QED
  BY <1>3, <1>4, <1>5 DEF ListingInv

(* What is known of the copies and notifications of a table.               *)
LEMMA TableFits ==
    ASSUME ListingInv
    PROVE  /\ comments \subseteq Row /\ IsFiniteSet(comments) /\ copies \subseteq Row
           /\ \A a, b \in comments : a.id = b.id => a = b
           /\ writes \in Nat /\ writes + 1 \in Nat /\ moved \subseteq 1..MaxRows
           /\ \A d \in doomed : d.now \in 1..MaxRows /\ d.rest \subseteq 1..MaxRows
           /\ \A n \in notices : /\ n.read \in BOOLEAN /\ n.user \in Nat
                                /\ n.comment \in 1..MaxRows
                                /\ n = [user |-> n.user, comment |-> n.comment, read |-> n.read]
           /\ comments \subseteq copies
           /\ \A c \in copies : c.id \in 1..MaxRows /\ {c.id, c.rid} \subseteq 0..lastId
           /\ \A c, d \in copies : c.id = d.id => c.rid = d.rid
           /\ \A c \in copies : c.id \notin moved =>
                 \E d \in comments : d.id = c.id /\ d.user = c.user
           /\ \A n \in notices : n.comment <= lastId /\ AnswersOwner(n)
<1>1. ListingShape /\ NoticesAnswer
  BY DEF ListingInv
<1>2. writes \in Nat /\ writes + 1 \in Nat
  BY <1>1 DEF ListingShape, ListingTypeOK
<1> QED
  BY <1>1, <1>2 DEF ListingShape, ListingTypeOK, NoticesAnswer, CopiesFit

(* A comment that is edited, or whose edit fails, answers what it did.     *)
LEMMA UpdateKeeps ==
    ASSUME ListingInv, NEW c \in copies, NEW pending \in BOOLEAN, NEW pinned \in BOOLEAN,
           NEW user \in Authors \cup {c.user}, NEW page \in {d.page : d \in copies},
           CommentUpdate(c, user, page, pending, pinned)
    PROVE  ListingInv'
<1>1. PICK new :
         new = [c EXCEPT !.user = user, !.page = page, !.pending = pending, !.pinned = pinned]
  OBVIOUS
<1>2. PICK told : told = {d \in FindComment(c.rid) : d.user # user /\ d.user \notin Admins}
  OBVIOUS
<1>3. /\ reader' = reader /\ before' = before /\ lastId' = lastId /\ doomed' = doomed
      /\ writes' = writes + 1 /\ copies' = copies \cup {new}
      /\ \/ comments' = {d \in comments : d.id # c.id} \cup {new} /\ since' = "changed"
         \/ comments' = comments /\ since' = since
      /\ moved' = IF \E d \in comments : d.id = c.id /\ d.user = user
                  THEN moved ELSE moved \cup {c.id}
      /\ \/ notices' = notices
         \/ \E d \in told : notices' = Announce({d.user}, c.id) \cup
                              {n \in notices : n.user # d.user \/ n.comment # c.id}
  BY <1>1, <1>2 DEF CommentUpdate, Request
<1>4. /\ comments \subseteq Row /\ IsFiniteSet(comments) /\ copies \subseteq Row
      /\ \A a, b \in comments : a.id = b.id => a = b
      /\ writes + 1 \in Nat /\ moved \subseteq 1..MaxRows
      /\ \A d \in doomed : d.now \in 1..MaxRows /\ d.rest \subseteq 1..MaxRows
      /\ \A n \in notices : /\ n.read \in BOOLEAN /\ n.user \in Nat
                           /\ n.comment \in 1..MaxRows
                           /\ n = [user |-> n.user, comment |-> n.comment, read |-> n.read]
      /\ comments \subseteq copies
      /\ \A d \in copies : d.id \in 1..MaxRows /\ {d.id, d.rid} \subseteq 0..lastId
      /\ \A a, b \in copies : a.id = b.id => a.rid = b.rid
      /\ \A a \in copies : a.id \notin moved =>
            \E d \in comments : d.id = a.id /\ d.user = a.user
      /\ \A n \in notices : n.comment <= lastId /\ AnswersOwner(n)
  BY TableFits
<1>5. new \in Row /\ new.id = c.id /\ new.rid = c.rid /\ new.user = user
  <2>1. /\ c = [id |-> c.id, rid |-> c.rid, root |-> c.root, page |-> c.page, site |-> c.site,
               user |-> c.user, guest |-> c.guest, pending |-> c.pending,
               pinned |-> c.pinned, votes |-> c.votes, date |-> c.date, hit |-> c.hit]
        /\ c \in Row
    BY <1>4 DEF Row
  <2>2. user \in Nat
    <3>1. \A v \in Viewers : v.user \in Nat
      BY ListingAssumption
    <3>2. c.user \in Nat
      BY <2>1 DEF Row
    <3> QED
      BY <3>1, <3>2 DEF Authors
  <2>3. page \in STRING
    <3>1. PICK d \in copies : page = d.page
      OBVIOUS
    <3> QED
      BY <3>1, <1>4 DEF Row
  <2>4. new = [id |-> c.id, rid |-> c.rid, root |-> c.root, page |-> page, site |-> c.site,
               user |-> user, guest |-> c.guest, pending |-> pending, pinned |-> pinned,
               votes |-> c.votes, date |-> c.date, hit |-> c.hit]
    BY <1>1, <2>1
  <2> QED
    BY <2>1, <2>2, <2>3, <2>4 DEF Row
<1>6. /\ IsFiniteSet(comments') /\ comments' \subseteq copies' /\ copies' \subseteq Row
      /\ \A a, b \in comments' : a.id = b.id => a = b
  <2>1. CASE comments' = {d \in comments : d.id # c.id} \cup {new}
    <3>1. IsFiniteSet({d \in comments : d.id # c.id})
      BY <1>4, FS_Subset
    <3>2. IsFiniteSet(comments')
      BY <2>1, <3>1, FS_AddElement
    <3> QED
      BY <2>1, <3>2, <1>3, <1>4, <1>5
  <2>2. CASE comments' = comments
    BY <2>2, <1>3, <1>4, <1>5
  <2> QED
    BY <1>3, <2>1, <2>2
<1>7. moved' \subseteq 1..MaxRows
  BY <1>3, <1>4
<1>8. \A n \in notices' : /\ n.read \in BOOLEAN /\ n.user \in Nat /\ n.comment \in 1..MaxRows
                          /\ n = [user |-> n.user, comment |-> n.comment, read |-> n.read]
                          /\ n.comment <= lastId /\ AnswersOwner(n)'
  <2> SUFFICES ASSUME NEW n \in notices'
               PROVE  /\ n.read \in BOOLEAN /\ n.user \in Nat /\ n.comment \in 1..MaxRows
                      /\ n = [user |-> n.user, comment |-> n.comment, read |-> n.read]
                      /\ n.comment <= lastId /\ AnswersOwner(n)'
    OBVIOUS
  <2>1. CASE n \in notices
    <3>1. AnswersOwner(n)
      BY <2>1, <1>4
    <3>2. \A a \in copies' : \E b \in copies : b.id = a.id /\ b.rid = a.rid
      BY <1>3, <1>5
    <3>3. AnswersOwner(n)'
      BY <3>1, <3>2, <1>3 DEF AnswersOwner, Admins
    <3> QED
      BY <2>1, <3>3, <1>4
  <2>2. CASE n \notin notices
    <3>1. PICK d \in told : n \in Announce({d.user}, c.id)
      BY <2>2, <1>3
    <3>2. n = [user |-> d.user, comment |-> c.id, read |-> FALSE]
      BY <3>1 DEF Announce
    <3>3. d \in copies /\ d.id = c.rid /\ d.user \in Nat
      BY <3>1, <1>2, <1>4 DEF FindComment, Row
    <3>4. \A a \in copies' : a.id = c.id => a.rid = c.rid
      BY <1>3, <1>4, <1>5
    <3>5. AnswersOwner(n)'
      BY <3>2, <3>3, <3>4, <1>3 DEF AnswersOwner
    <3>6. c.id \in 1..MaxRows /\ c.id <= lastId
      BY <1>4
    <3> QED
      BY <3>2, <3>3, <3>5, <3>6
  <2> QED
    BY <2>1, <2>2
<1>9. CopiesFit'
  <2>1. \A a \in copies' : a.id \in 1..MaxRows /\ {a.id, a.rid} \subseteq 0..lastId'
    BY <1>3, <1>4, <1>5
  <2>2. \A a, b \in copies' : a.id = b.id => a.rid = b.rid
    BY <1>3, <1>4, <1>5
  <2>3. ASSUME NEW a \in copies', a.id \notin moved'
        PROVE  \E d \in comments' : d.id = a.id /\ d.user = a.user
    <3>1. a.id \notin moved
      BY <2>3, <1>3
    <3>2. CASE a.id # c.id
      <4>1. PICK d \in comments : d.id = a.id /\ d.user = a.user
        BY <3>1, <3>2, <2>3, <1>3, <1>4, <1>5
      <4> QED
        BY <4>1, <3>2, <1>3
    <3>3. CASE a.id = c.id
      <4>1. PICK d \in comments : d.id = c.id /\ d.user = user
        BY <2>3, <3>3, <1>3
      <4>2. a.user = user
        <5>1. CASE a = new
          BY <5>1, <1>5
        <5>2. CASE a \in copies
          <6>1. PICK e \in comments : e.id = a.id /\ e.user = a.user
            BY <3>1, <5>2, <1>4
          <6>2. e = d
            BY <6>1, <4>1, <3>3, <1>4
          <6> QED
            BY <6>1, <6>2, <4>1
        <5> QED
          BY <5>1, <5>2, <1>3
      <4> QED
        BY <3>3, <4>1, <4>2, <1>3, <1>5
    <3> QED
      BY <3>2, <3>3
  <2> QED
    BY <1>6, <2>1, <2>2, <2>3 DEF CopiesFit
<1>10. NoticesAnswer'
  BY <1>3, <1>8, <1>9 DEF NoticesAnswer
<1>11. writes' \in Nat /\ \A d \in doomed' : d.now \in 1..MaxRows /\ d.rest \subseteq 1..MaxRows
  BY <1>3, <1>4
<1>12. since' = "changed" \/ (comments' = comments /\ since' = since)
  BY <1>3
<1> QED
  BY <1>3, <1>6, <1>7, <1>8, <1>10, <1>11, <1>12, OthersKeep

(* A deletion goes on with comments that there are.                        *)
LEMMA GoesOn ==
    ASSUME NEW d \in doomed, NEW left \in SUBSET (1..MaxRows), GoOn(d, left),
           \A x \in doomed : x.now \in 1..MaxRows /\ x.rest \subseteq 1..MaxRows
    PROVE  \A x \in doomed' : x.now \in 1..MaxRows /\ x.rest \subseteq 1..MaxRows
<1>1. PICK i : i = CHOOSE j \in left : TRUE
  OBVIOUS
<1>2. doomed' \subseteq doomed \/
      (left # {} /\ doomed' \subseteq doomed \cup
          {[now |-> i, step |-> "notices", top |-> FALSE, rest |-> left \ {i}]})
  BY <1>1 DEF GoOn
<1>3. left # {} => i \in left
  BY <1>1
<1>4. ASSUME NEW x \in doomed' PROVE x.now \in 1..MaxRows /\ x.rest \subseteq 1..MaxRows
  <2>1. CASE x \in doomed
    BY <2>1
  <2>2. CASE x \notin doomed
    <3>1. left # {} /\ x = [now |-> i, step |-> "notices", top |-> FALSE, rest |-> left \ {i}]
      BY <1>2, <2>2
    <3>2. x.now = i /\ x.rest = left \ {i}
      BY <3>1
    <3> QED
      BY <1>3, <3>1, <3>2
  <2> QED
    BY <2>1, <2>2
<1> QED
  BY <1>4

(* A request to delete a comment, a deletion that has removed the          *)
(* notifications of one, or its row, or that fails to, leave no            *)
(* notification without the comment that it is about.                      *)
LEMMA DeletingKeeps ==
    ASSUME ListingInv, \/ \E id \in 1..lastId : CommentDelete(id)
                       \/ \E d \in doomed : DeleteNotices(d) \/ DeleteRow(d) \/ DeleteFails(d)
    PROVE  ListingInv'
<1>1. /\ comments \subseteq Row /\ IsFiniteSet(comments) /\ copies \subseteq Row
      /\ \A a, b \in comments : a.id = b.id => a = b
      /\ writes \in Nat /\ writes + 1 \in Nat /\ moved \subseteq 1..MaxRows
      /\ \A d \in doomed : d.now \in 1..MaxRows /\ d.rest \subseteq 1..MaxRows
      /\ \A n \in notices : /\ n.read \in BOOLEAN /\ n.user \in Nat
                           /\ n.comment \in 1..MaxRows
                           /\ n = [user |-> n.user, comment |-> n.comment, read |-> n.read]
      /\ comments \subseteq copies
      /\ \A d \in copies : d.id \in 1..MaxRows /\ {d.id, d.rid} \subseteq 0..lastId
      /\ \A a, b \in copies : a.id = b.id => a.rid = b.rid
      /\ \A a \in copies : a.id \notin moved =>
            \E d \in comments : d.id = a.id /\ d.user = a.user
      /\ \A n \in notices : n.comment <= lastId /\ AnswersOwner(n)
  BY TableFits
<1>2. /\ reader' = reader /\ before' = before /\ lastId' = lastId /\ copies' = copies
      /\ writes' \in Nat /\ notices' \subseteq notices
      /\ since' = "changed" \/ (comments' = comments /\ since' = since)
  BY <1>1 DEF CommentDelete, DeleteNotices, DeleteRow, DeleteFails, Request
<1>3. /\ comments' \subseteq comments /\ moved \subseteq moved' /\ moved' \subseteq 1..MaxRows
      /\ \A c \in comments : c.id \notin moved' => c \in comments'
  <2>1. CASE \E d \in doomed : DeleteRow(d)
    <3>1. PICK d \in doomed : /\ comments' = {c \in comments : c.id # d.now}
                              /\ moved' = moved \cup {d.now}
      BY <2>1 DEF DeleteRow
    <3> QED
      BY <3>1, <1>1
  <2>2. CASE ~ \E d \in doomed : DeleteRow(d)
    BY <2>2, <1>1 DEF CommentDelete, DeleteNotices, DeleteFails
  <2> QED
    BY <2>1, <2>2
<1>4. \A d \in doomed' : d.now \in 1..MaxRows /\ d.rest \subseteq 1..MaxRows
  <2>1. ASSUME NEW id \in 1..lastId, CommentDelete(id)
        PROVE  \A d \in doomed' : d.now \in 1..MaxRows /\ d.rest \subseteq 1..MaxRows
    <3>1. id \in 1..MaxRows
      <4>1. PICK c : c \in FindComment(id)
        BY <2>1 DEF CommentDelete
      <4> QED
        BY <4>1, <1>1 DEF FindComment
    <3> QED
      BY <2>1, <3>1, <1>1 DEF CommentDelete
  <2>2. ASSUME NEW d \in doomed, DeleteNotices(d)
        PROVE  \A x \in doomed' : x.now \in 1..MaxRows /\ x.rest \subseteq 1..MaxRows
    <3>1. [d EXCEPT !.step = "row"].now = d.now /\ [d EXCEPT !.step = "row"].rest = d.rest
      OBVIOUS
    <3> QED
      BY <2>2, <3>1, <1>1 DEF DeleteNotices
  <2>3. ASSUME NEW d \in doomed, DeleteRow(d)
        PROVE  \A x \in doomed' : x.now \in 1..MaxRows /\ x.rest \subseteq 1..MaxRows
    <3>1. PICK left \in SUBSET (1..MaxRows) : GoOn(d, left)
      BY <2>3, <1>1 DEF DeleteRow, Thread
    <3> QED
      BY <3>1, <1>1, GoesOn
  <2>4. ASSUME NEW d \in doomed, DeleteFails(d)
        PROVE  \A x \in doomed' : x.now \in 1..MaxRows /\ x.rest \subseteq 1..MaxRows
    <3>1. PICK left \in SUBSET (1..MaxRows) : GoOn(d, left)
      BY <2>4, <1>1 DEF DeleteFails
    <3> QED
      BY <3>1, <1>1, GoesOn
  <2> QED
    BY <2>1, <2>2, <2>3, <2>4
<1>5. NoticesAnswer'
  <2>1. \A n \in notices' : AnswersOwner(n)'
    BY <1>1, <1>2 DEF AnswersOwner, Admins
  <2>2. \A a \in copies' : a.id \notin moved' =>
            \E d \in comments' : d.id = a.id /\ d.user = a.user
    <3> SUFFICES ASSUME NEW a \in copies, a.id \notin moved'
                 PROVE  \E d \in comments' : d.id = a.id /\ d.user = a.user
      BY <1>2
    <3>1. PICK d \in comments : d.id = a.id /\ d.user = a.user
      BY <1>1, <1>3
    <3> QED
      BY <3>1, <1>3
  <2> QED
    BY <2>1, <2>2, <1>1, <1>2, <1>3 DEF NoticesAnswer, CopiesFit
<1>6. IsFiniteSet(comments') /\ \A a, b \in comments' : a.id = b.id => a = b
  BY <1>1, <1>3, FS_Subset
<1>7. /\ copies' \subseteq Row
      /\ \A n \in notices' : /\ n.read \in BOOLEAN /\ n.user \in Nat
                            /\ n.comment \in 1..MaxRows
                            /\ n = [user |-> n.user, comment |-> n.comment, read |-> n.read]
  BY <1>1, <1>2
<1> QED
  BY <1>2, <1>3, <1>4, <1>5, <1>6, <1>7, OthersKeep

(* A notification that is read stays what it announces.                    *)
LEMMA ReadAllKeeps ==
    ASSUME ListingInv, NEW v \in Viewers, NotifyReadAll(v)
    PROVE  ListingInv'
<1>1. /\ comments' = comments /\ lastId' = lastId /\ reader' = reader /\ writes' = writes
      /\ copies' = copies /\ doomed' = doomed /\ moved' = moved
      /\ before' = before /\ since' = since
  BY DEF NotifyReadAll, others
<1>2. ListingShape
  BY DEF ListingInv
<1>3. \A n \in notices' : /\ n = [user |-> n.user, comment |-> n.comment, read |-> n.read]
                          /\ n.read \in BOOLEAN
                          /\ \E m \in notices : n.user = m.user /\ n.comment = m.comment
  <2> SUFFICES ASSUME NEW n \in notices'
               PROVE  /\ n = [user |-> n.user, comment |-> n.comment, read |-> n.read]
                      /\ n.read \in BOOLEAN
                      /\ \E m \in notices : n.user = m.user /\ n.comment = m.comment
    OBVIOUS
  <2>1. \A m \in notices : /\ m = [user |-> m.user, comment |-> m.comment, read |-> m.read]
                           /\ m.read \in BOOLEAN
    BY <1>2 DEF ListingShape, ListingTypeOK
  <2>2. CASE n \in notices
    BY <2>1, <2>2
  <2>3. CASE n \notin notices
    <3>1. PICK m \in notices : n = [m EXCEPT !.read = TRUE]
      BY <2>3 DEF NotifyReadAll, others, UnreadNotifications, NotificationQuery
    <3>2. n = [user |-> m.user, comment |-> m.comment, read |-> TRUE]
      <4>1. m = [user |-> m.user, comment |-> m.comment, read |-> m.read]
        BY <2>1
      <4> QED
        BY <3>1, <4>1
    <3> QED
      BY <3>2
  <2> QED
    BY <2>2, <2>3
<1>4. ListingShape'
  <2>1. ListingTypeOK'
    <3>1. \A n \in notices' : n.read \in BOOLEAN /\ n.user \in Nat /\ n.comment \in 1..MaxRows
      BY <1>2, <1>3 DEF ListingShape, ListingTypeOK
    <3> QED
      BY <1>1, <1>2, <3>1 DEF ListingShape, ListingTypeOK
  <2>2. ReaderFits'
    BY <1>1, <1>2 DEF ListingShape, ReaderFits
  <2> QED
    BY <1>1, <1>2, <1>3, <2>1, <2>2 DEF ListingShape
<1>5. OnlyReadable'
  BY <1>1 DEF ListingInv, OnlyReadable, Shown, MayRead, PageScopeQuery, Admins
<1>6. NoticesAnswer'
  BY <1>1, <1>3 DEF ListingInv, NoticesAnswer, CopiesFit, AnswersOwner, Admins
<1>7. ListTrue'
  BY <1>1, SameListTrue DEF ListingInv
<1> QED
  BY <1>4, <1>5, <1>6, <1>7 DEF ListingInv

(* At first nobody lists anything.                                         *)
LEMMA ListingBegins ==
    ASSUME ListingInit
    PROVE  ListingInv
<1>1. /\ comments \in Tables0 /\ reader = NoReader
      /\ notices = {[user |-> x[2].user, comment |-> x[1].id, read |-> FALSE] :
                       x \in {y \in comments \X comments : y[1].rid = y[2].id}}
      /\ copies = comments /\ doomed = {} /\ moved = {}
      /\ writes = 0 /\ before = {} /\ since = "nothing"
      /\ lastId = Max({c.id : c \in comments} \cup {c.rid : c \in comments} \cup {0})
  BY DEF ListingInit
<1>2. /\ comments \subseteq Row /\ IsFiniteSet(comments)
      /\ \A c \in comments : c.id \in 1..MaxRows
      /\ \A c, d \in comments : c.id = d.id => c = d
  BY <1>1, ListingAssumption
<1>3. lastId \in Nat /\ \A c \in comments : {c.id, c.rid} \subseteq 0..lastId
  <2> DEFINE f == [c \in comments |-> c.id]
             g == [c \in comments |-> c.rid]
             D == {c.id : c \in comments} \cup {c.rid : c \in comments} \cup {0}
  <2>1. IsFiniteSet({f[c] : c \in comments}) /\ IsFiniteSet({g[c] : c \in comments})
    <3>1. IsFiniteSet(comments)
      BY <1>2
    <3>2. f = [c \in comments |-> f[c]] /\ g = [c \in comments |-> g[c]]
      OBVIOUS
    <3> HIDE DEF f, g
    <3>3. IsFiniteSet({f[c] : c \in comments})
      BY <3>1, <3>2, FieldFinite
    <3>4. IsFiniteSet({g[c] : c \in comments})
      BY <3>1, <3>2, FieldFinite
    <3> QED
      BY <3>3, <3>4
  <2>2. /\ {f[c] : c \in comments} = {c.id : c \in comments}
        /\ {g[c] : c \in comments} = {c.rid : c \in comments}
    OBVIOUS
  <2>3. IsFiniteSet(D)
    <3>1. IsFiniteSet({c.id : c \in comments} \cup {c.rid : c \in comments})
      BY <2>1, <2>2, FS_Union
    <3> QED
      BY <3>1, FS_AddElement
  <2>4. D \subseteq Nat /\ D # {} /\ \A c \in comments : c.id \in D /\ c.rid \in D
    BY <1>2 DEF Row
  <2>5. lastId = Max(D)
    BY <1>1
  <2> HIDE DEF D
  <2>6. Max(D) \in D /\ \A y \in D : Max(D) >= y
    BY <2>3, <2>4, GreatestThere
  <2>7. Max(D) \in Nat
    BY <2>4, <2>6
  <2>8. ASSUME NEW c \in comments PROVE {c.id, c.rid} \subseteq 0..Max(D)
    <3>1. c.id \in Nat /\ c.rid \in Nat /\ Max(D) >= c.id /\ Max(D) >= c.rid
      BY <2>4, <2>6
    <3> QED
      BY <2>7, <3>1
  <2> QED
    BY <2>5, <2>7, <2>8
<1>4. reader.list = <<>> /\ reader.linked = {} /\ reader.pc = "idle" /\ reader.last = 0
      /\ reader.count = 0 /\ reader.roots = 0 /\ reader.v = Stranger /\ reader.o = NoRequest
  BY <1>1 DEF NoReader
<1>5. <<>> \in Seq(Row) /\ Len(<<>>) = 0 /\ ToSet(<<>>) = {}
  BY DEF ToSet
<1>6. \A n \in notices : \E c, d \in comments :
         n = [user |-> d.user, comment |-> c.id, read |-> FALSE] /\ c.rid = d.id
  BY <1>1
<1>60. \A n \in notices : /\ n.read \in BOOLEAN /\ n.user \in Nat /\ n.comment \in 1..MaxRows
                         /\ n = [user |-> n.user, comment |-> n.comment, read |-> n.read]
  <2> TAKE n \in notices
  <2>1. PICK c, d \in comments : n = [user |-> d.user, comment |-> c.id, read |-> FALSE]
    BY <1>6
  <2>2. d.user \in Nat /\ c.id \in 1..MaxRows
    BY <1>2 DEF Row
  <2> QED
    BY <2>1, <2>2
<1>61. ListingShape
  <2>1. ListingTypeOK
    BY <1>1, <1>2, <1>3, <1>4, <1>5, <1>60 DEF ListingTypeOK
  <2>2. ReaderFits
    BY <1>1, <1>4, <1>5 DEF ReaderFits, NoReader
  <2> QED
    BY <1>1, <1>2, <1>3, <1>60, <2>1, <2>2 DEF ListingShape
<1>7. OnlyReadable
  BY <1>4, <1>5 DEF OnlyReadable, Shown
<1>8. NoticesAnswer
  <2>1. CopiesFit
    BY <1>1, <1>2, <1>3 DEF CopiesFit
  <2>2. ASSUME NEW n \in notices PROVE n.comment <= lastId /\ AnswersOwner(n)
    <3>1. PICK c, d \in comments :
             n = [user |-> d.user, comment |-> c.id, read |-> FALSE] /\ c.rid = d.id
      BY <1>6
    <3>2. c.id <= lastId
      BY <1>3
    <3>3. \A a \in copies : a.id = n.comment => a = c
      BY <3>1, <1>1, <1>2
    <3> QED
      BY <3>1, <3>2, <3>3, <1>1 DEF AnswersOwner
  <2> QED
    BY <2>1, <2>2 DEF NoticesAnswer
<1>9. ListTrue
  BY <1>4 DEF ListTrue, StillDue, SeenSoFar, Beginning, NotBeyond, CountsTrue, Undisturbed,
              Walking
<1> QED
  BY <1>61, <1>7, <1>8, <1>9 DEF ListingInv

(* What a notification announces is an answer to a comment of its owner,   *)
(* unless that was deleted or given to another.                            *)
LEMMA AnnouncedFound ==
    ASSUME ListingInv
    PROVE  NoticesFound
<1> SUFFICES ASSUME NEW v \in Viewers, NEW n \in NotificationQuery(v), NEW c \in comments,
                    c.id = n.comment, ~ c.pending, c.rid \notin moved, n.user \notin Admins
             PROVE  GetQueryScopes(v, All, c)
  BY DEF NoticesFound
<1>1. v.user = 0 \/ v.guest = ""
  BY ListingAssumption
<1>2. CommonScope(v, c)
  BY DEF CommonScope, NoPending
<1>3. All.scope = "user" /\ All.type = "all" /\ ~ All.search
  BY DEF All
<1>4. UserScopeQuery(v, All, c)
  <2>1. CASE v.user # 0
    <3>1. n \in notices /\ n.user = v.user
      BY <2>1 DEF NotificationQuery
    <3>0. PICK e \in copies : e.id = c.rid /\ e.user = n.user
      BY <3>1 DEF ListingInv, NoticesAnswer, CopiesFit, AnswersOwner
    <3>2. PICK d \in comments : d.id = c.rid /\ d.user = n.user
      BY <3>0 DEF ListingInv, NoticesAnswer, CopiesFit
    <3>3. c.rid \in GetUserAllCommentIDs(v.user)
      BY <3>1, <3>2 DEF GetUserAllCommentIDs
    <3> QED
      BY <1>3, <2>1, <3>3 DEF UserScopeQuery
  <2>2. CASE v.user = 0
    <3>1. /\ v.guest # ""
          /\ \E a, d \in comments : /\ a.id = n.comment /\ ~a.pending /\ a.rid = d.id
                                    /\ d.guest = v.guest /\ d.user = n.user
      BY <2>2 DEF NotificationQuery
    <3>2. PICK a, d \in comments : a.id = n.comment /\ a.rid = d.id /\ d.guest = v.guest
      BY <3>1
    <3>3. a = c
      BY <3>2 DEF ListingInv, ListingShape, ListingTypeOK
    <3>4. c.rid \in GetGuestComments(v.guest)
      BY <3>2, <3>3 DEF GetGuestComments
    <3> QED
      BY <1>3, <2>2, <3>1, <3>4 DEF UserScopeQuery
  <2> QED
    BY <2>1, <2>2
<1> QED
  BY <1>2, <1>3, <1>4 DEF GetQueryScopes, SearchScope

(* The comments that match are the roots, the linked ones, and those below *)
(* roots that are not shown.                                               *)
LEMMA ThreeKinds ==
    ASSUME NEW M, IsFiniteSet(M), NEW ids
    PROVE  LET roots == OnlyRoot(M)
               linked == {c \in M : c.rid # 0 /\ c.root \in ids}
               hidden == {c \in M : c.rid # 0 /\ c.root \notin ids}
           IN  Cardinality(M) - Cardinality(roots) - Cardinality(linked) = Cardinality(hidden)
<1> DEFINE roots == OnlyRoot(M)
           linked == {c \in M : c.rid # 0 /\ c.root \in ids}
           hidden == {c \in M : c.rid # 0 /\ c.root \notin ids}
           rest == linked \cup hidden
<1>1. roots \subseteq M /\ linked \subseteq M /\ hidden \subseteq M /\ rest \subseteq M
  BY DEF OnlyRoot
<1>2. roots \cup rest = M /\ roots \cap rest = {} /\ linked \cap hidden = {}
  BY DEF OnlyRoot
<1> HIDE DEF roots, linked, hidden
<1>3. IsFiniteSet(roots) /\ IsFiniteSet(linked) /\ IsFiniteSet(hidden) /\ IsFiniteSet(rest)
  <2>1. \A T \in SUBSET M : IsFiniteSet(T)
    BY FS_Subset
  <2> QED
    BY <1>1, <2>1
<1>4. Cardinality(rest) = Cardinality(linked) + Cardinality(hidden)
  <2>1. Cardinality(linked \cup hidden) =
           Cardinality(linked) + Cardinality(hidden) - Cardinality(linked \cap hidden)
    BY <1>3, FS_Union
  <2>2. Cardinality(linked \cap hidden) = 0
    BY <1>2, FS_EmptySet
  <2>3. Cardinality(linked) \in Nat /\ Cardinality(hidden) \in Nat
    BY <1>3, FS_CardinalityType
  <2> QED
    BY <2>1, <2>2, <2>3
<1> HIDE DEF rest
<1>5. Cardinality(M) = Cardinality(roots) + Cardinality(rest)
  <2>1. Cardinality(roots \cup rest) =
           Cardinality(roots) + Cardinality(rest) - Cardinality(roots \cap rest)
    BY <1>3, FS_Union
  <2>2. Cardinality(roots \cap rest) = 0
    BY <1>2, FS_EmptySet
  <2>3. Cardinality(roots) \in Nat /\ Cardinality(rest) \in Nat
    BY <1>3, FS_CardinalityType
  <2>4. Cardinality(M) = Cardinality(roots \cup rest)
    BY <1>2
  <2> QED
    BY <2>1, <2>2, <2>3, <2>4
<1>6. Cardinality(roots) \in Nat /\ Cardinality(linked) \in Nat /\ Cardinality(hidden) \in Nat
  BY <1>3, FS_CardinalityType
<1>7. Cardinality(M) - Cardinality(roots) - Cardinality(linked) = Cardinality(hidden)
  BY <1>4, <1>5, <1>6
<1> USE DEF roots, linked, hidden
<1> QED
  BY <1>7

(* Who has come to the end has seen it all.                                *)
LEMMA EndIsComplete ==
    ASSUME ListingInv
    PROVE  WalkComplete
<1> SUFFICES ASSUME Ended, since # "changed", Untied PROVE WalkComplete
  BY DEF WalkComplete
<1>1. reader.pc = "page" /\ Walking /\ AtEnd
  BY DEF Ended, Walking, AtEnd
<1>2. PICK o : o = reader.o
  OBVIOUS
<1> DEFINE due == {id \in before : o.nested => \E c \in comments : c.id = id /\ c.rid = 0}
           at(id) == {i \in DOMAIN reader.list : reader.list[i].id = id}
<1>3. ListingShape
  BY DEF ListingInv
<1>4. Selected \subseteq comments /\ \A a, b \in comments : a.id = b.id => a = b
  BY <1>3, SelectedRows DEF ListingShape, ListingTypeOK
<1>5. reader.list \in Seq(Row) /\ Len(reader.list) \in Nat
      /\ DOMAIN reader.list = 1..Len(reader.list)
  BY <1>3 DEF ListingShape, ListingTypeOK
<1>6. \A id \in due : Seen(id)
  <2> TAKE id \in due
  <2>1. PICK c \in Matching(reader.v, reader.o) : c.id = id
    BY <1>1 DEF ListingInv, ListTrue, StillDue
  <2>2. c \in comments
    BY <1>3, <2>1, SelectedRows
  <2>3. o.nested => c.rid = 0
    BY <1>4, <2>1, <2>2
  <2>4. c \in Selected
    BY <1>2, <2>1, <2>3 DEF Selected, OnlyRoot
  <2> QED
    BY <1>1, <2>1, <2>4 DEF ListingInv, ListTrue, SeenSoFar
<1>7. \A id : IsFiniteSet(at(id)) /\ Cardinality(at(id)) \in Nat
  <2> TAKE id
  <2>1. at(id) \subseteq 1..Len(reader.list) /\ IsFiniteSet(1..Len(reader.list))
    <3>1. 1 \in Int /\ Len(reader.list) \in Int
      BY <1>5
    <3> QED
      BY <1>5, <3>1, FS_Interval
  <2> QED
    BY <2>1, FS_Subset, FS_CardinalityType
<1>8. \A id : Times(id) = Cardinality(at(id))
  BY DEF Times
<1>9. \A id \in due : Times(id) >= 1
  <2> TAKE id \in due
  <2>1. at(id) # {}
    BY <1>6 DEF Seen
  <2>2. IsFiniteSet(at(id)) /\ Cardinality(at(id)) \in Nat /\ Times(id) = Cardinality(at(id))
    BY <1>7, <1>8
  <2> HIDE DEF at
  <2>3. Cardinality(at(id)) # 0
    BY <2>1, <2>2, FS_EmptySet
  <2> QED
    BY <2>2, <2>3
<1>10. o.sort = "date_asc" => \A id \in due : Times(id) = 1
  <2> SUFFICES ASSUME o.sort = "date_asc", NEW id \in due PROVE Times(id) = 1
    OBVIOUS
  <2>1. PICK i \in DOMAIN reader.list : reader.list[i].id = id
    BY <1>6 DEF Seen
  <2>2. \A j \in DOMAIN reader.list :
            reader.list[j] \in Selected /\ Rank(reader.list[j]) = j - 1
    BY <1>1, <1>2 DEF ListingInv, ListTrue, Beginning
  <2>3. \A j \in at(id) : j = i
    <3> TAKE j \in at(id)
    <3>1. j \in 1..Len(reader.list) /\ i \in 1..Len(reader.list) /\ reader.list[j].id = id
      BY <1>5, <2>1
    <3>2. reader.list[j] = reader.list[i]
      BY <1>4, <1>5, <2>1, <2>2, <3>1
    <3>3. j - 1 = i - 1
      BY <1>5, <2>2, <3>1, <3>2
    <3> QED
      BY <1>5, <3>1, <3>3
  <2>4. at(id) = {i}
    BY <2>1, <2>3
  <2>5. Cardinality({i}) = 1
    BY FS_Singleton
  <2> QED
    BY <1>8, <2>4, <2>5
<1>11. ASSUME since = "nothing"
       PROVE  /\ IF o.nested THEN reader.roots = Len(reader.list)
                 ELSE reader.count = Len(reader.list)
              /\ o.nested =>
                   reader.count - reader.roots - Cardinality(reader.linked) =
                   Cardinality({c \in Matching(reader.v, o) :
                                  c.rid # 0 /\ c.root \notin {r.id : r \in ToSet(reader.list)}})
  <2>1. Undisturbed
    BY <1>1, <1>11 DEF Undisturbed
  <2>2. PICK M, ids : M = Matching(reader.v, reader.o)
                      /\ ids = {r.id : r \in ToSet(reader.list)}
    OBVIOUS
  <2>3. IdsOf(LinkedTo) = ids
    BY <1>1, <2>2 DEF IdsOf, LinkedTo
  <2>4. /\ Len(reader.list) = Cardinality(Selected)
        /\ reader.count = Cardinality(M)
        /\ reader.roots = Cardinality(OnlyRoot(M))
        /\ o.nested => reader.linked = {c \in M : c.rid # 0 /\ c.root \in ids}
    BY <1>1, <1>2, <2>1, <2>2, <2>3 DEF ListingInv, ListTrue, CountsTrue
  <2>5. Selected = IF o.nested THEN OnlyRoot(M) ELSE M
    BY <1>2, <2>2 DEF Selected
  <2>6. IsFiniteSet(M)
    BY <1>3, <2>2, SelectedRows
  <2>7. Cardinality(M) - Cardinality(OnlyRoot(M))
            - Cardinality({c \in M : c.rid # 0 /\ c.root \in ids}) =
        Cardinality({c \in M : c.rid # 0 /\ c.root \notin ids})
    BY <2>6, ThreeKinds
  <2>8. M = Matching(reader.v, o)
    BY <1>2, <2>2
  <2> QED
    BY <2>2, <2>4, <2>5, <2>7, <2>8
<1> HIDE DEF at
<1> QED
  BY <1>2, <1>9, <1>10, <1>11 DEF WalkComplete

(* A step that changes nothing keeps it all.                               *)
LEMMA NothingKeeps ==
    ASSUME ListingInv, UNCHANGED listingVars
    PROVE  ListingInv'
<1>1. /\ comments' = comments /\ lastId' = lastId /\ notices' = notices /\ reader' = reader
      /\ writes' = writes /\ before' = before /\ since' = since
      /\ copies' = copies /\ doomed' = doomed /\ moved' = moved
  BY DEF listingVars, others
<1>2. ListingShape'
  BY <1>1 DEF ListingInv, ListingShape, ListingTypeOK, ReaderFits
<1>3. OnlyReadable' /\ NoticesAnswer'
  BY <1>1 DEF ListingInv, OnlyReadable, Shown, MayRead, PageScopeQuery, Admins, NoticesAnswer,
        CopiesFit, AnswersOwner
<1>4. ListTrue'
  BY <1>1, SameListTrue DEF ListingInv
<1> QED
  BY <1>2, <1>3, <1>4 DEF ListingInv

(* Nothing reaches a reader that he may not read, his notifications lead   *)
(* him to what they announce, and who pages through a list to its end has  *)
(* seen all that was due (the handlers of lists and the queries they make).  *)
THEOREM ListsSound == ListingSpec => []ListingSound
<1>1. ListingInit => ListingInv
  BY ListingBegins
<1>2. ListingInv /\ [ListingNext]_listingVars => ListingInv'
  <2> SUFFICES ASSUME ListingInv, [ListingNext]_listingVars PROVE ListingInv'
    OBVIOUS
  <2>1. CASE \E v \in Viewers : \E o \in Queries : CommentList(v, o)
    BY <2>1, CommentListKeeps
  <2>2. CASE \E v \in Viewers : \E id \in 1..lastId : CommentGet(v, id)
    BY <2>2, CommentGetKeeps
  <2>3. CASE \E v \in Viewers : \E order \in {"latest", "rand"}, n \in {-1, 2}, c \in comments :
                Stat(v, c.site, order, n)
    <3>1. PICK v \in Viewers, order \in {"latest", "rand"}, n \in {-1, 2}, c \in comments :
             Stat(v, c.site, order, n)
      BY <2>3, Zenon
    <3> QED
      BY <3>1, StatKeeps
  <2>4. CASE \E v \in Viewers : NotifyReadAll(v)
    BY <2>4, ReadAllKeeps
  <2>5. CASE \E v \in Viewers : \E c \in copies, top, pending \in BOOLEAN :
                CommentCreate(v, c, top, pending)
    BY <2>5, CreateKeeps
  <2>6. CASE FindComments
    BY <2>6, FindCommentsKeeps
  <2>7. CASE findNestedChildren
    BY <2>7, NestedKeeps
  <2>8. CASE findFlatLinkedComments
    BY <2>8, FlatKeeps
  <2>9. CASE CountAll
    BY <2>9, CountAllKeeps
  <2>10. CASE CountRoots
    BY <2>10, CountRootsKeeps
  <2>11. CASE NextPage
    BY <2>11, NextPageKeeps
  <2>12. CASE Leave
    BY <2>12, LeaveKeeps
  <2>13. CASE \E c \in copies, pending, pinned \in BOOLEAN :
            \E user \in Authors \cup {c.user}, page \in {d.page : d \in copies} :
               CommentUpdate(c, user, page, pending, pinned)
    BY <2>13, UpdateKeeps
  <2>14. CASE \/ \E id \in 1..lastId : CommentDelete(id)
              \/ \E d \in doomed : DeleteNotices(d) \/ DeleteRow(d) \/ DeleteFails(d)
    BY <2>14, DeletingKeeps
  <2>15. CASE UNCHANGED listingVars
    BY <2>15, NothingKeeps
  <2> QED
    BY <2>1, <2>2, <2>3, <2>4, <2>5, <2>6, <2>7, <2>8, <2>9, <2>10, <2>11, <2>12, <2>13, <2>14,
       <2>15, Zenon DEF ListingNext
<1>3. ListingInv => ListingSound
  BY AnnouncedFound, EndIsComplete DEF ListingInv, ListingShape, ListingSound
<1> QED
  BY <1>1, <1>2, <1>3, PTL DEF ListingSpec
=============================================================================
