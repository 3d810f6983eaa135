---------------------------- MODULE ServerProofs ----------------------------
(***************************************************************************)
(* Verification codes: for every set of addresses, clients, codes and      *)
(* concurrent requests and every attempt limit, the types, the budget of   *)
(* an issuance, the lockout, the order of sends on one mutex, and who may  *)
(* be refused.                                                             *)
(*                                                                         *)
(* Uploads keep what they were given, and nothing else: for any number of  *)
(* overlapping requests, settings and files.  A file is named by the       *)
(* uploads that have written it.  While no other upload has the name of    *)
(* one, the file is what its last step made of it; names are never given   *)
(* back, so two uploads that had one name at any time are marked as shared *)
(* for good.                                                               *)
(*                                                                         *)
(* The start on an old database: each stage of a launch has the part of    *)
(* the schema that the stages before it have made, the proofs of guests    *)
(* are all under the one name the column has, and a comment that has been  *)
(* reached has the end of its chain of parents as its root.  The chain is  *)
(* a function over numbers; that it is there, and ends, is shown by        *)
(* induction over a set of numbers.                                        *)
(***************************************************************************)
EXTENDS EmailVerify, Uploads, Migration, SequenceTheorems, FiniteSetTheorems,
        WellFoundedInduction, TLAPS

-----------------------------------------------------------------------------
(* Verification codes.                                                     *)

(* The state of a request that is not running, and the zero value of a     *)
(* row, are well typed.                                                    *)
LEMMA IdleTypes == IdleSend \in SendState /\ NoRow \in Row /\ IdleCheck \in CheckState
<1> DEFINE e == CHOOSE x \in Emails : TRUE
           i == CHOOSE x \in IPs : TRUE
           k == CHOOSE x \in Codes : TRUE
<1>1. e \in Emails /\ i \in IPs /\ k \in Codes
  BY InputAssumption
<1> HIDE DEF e, i, k
<1>2. IdleSend \in SendState
  BY <1>1 DEF IdleSend, SendState, e, i
<1>3. NoRow \in Row
  BY <1>1 DEF NoRow, Row, e, i
<1>4. IdleCheck \in CheckState
  BY <1>1, <1>3 DEF IdleCheck, CheckState, e, k
<1>5. QED
  BY <1>2, <1>3, <1>4

(* Replacing an element of a sequence, as Save does to a row of the table, *)
(* leaves a sequence of the same length.                                   *)
LEMMA SeqExcept ==
    ASSUME NEW T, NEW q \in Seq(T), NEW i, NEW v, i \in 1..Len(q) => v \in T
    PROVE  [q EXCEPT ![i] = v] \in Seq(T)
<1>1. CASE i \in 1..Len(q)
  BY <1>1, ExceptSeq
<1>2. CASE i \notin 1..Len(q)
  <2>1. [q EXCEPT ![i] = v] = q
    BY <1>2
  <2>2. QED
    BY <2>1
<1>3. QED
  BY <1>1, <1>2

(* The types hold before the first request.                                *)
LEMMA InitType == Init => TypeOK
  BY IdleTypes DEF Init, TypeOK

(* Every step of a send, of a check and of the clock keeps the types.      *)
LEMMA NextType == TypeOK /\ [Next]_vars => TypeOK'
<1> SUFFICES ASSUME TypeOK, [Next]_vars PROVE TypeOK'
  OBVIOUS
<1> USE DEF TypeOK
<1>0. ASSUME NEW s \in Senders
      PROVE /\ At(s, "find", 0, 0) \in SendState
            /\ At(s, "create", 0, 0) \in SendState
            /\ \A i \in Nat : At(s, "update", i, 0) \in SendState
            /\ \A n \in Nat : At(s, "mail", 0, n) \in SendState
  BY DEF At, SendState
<1>1. CASE Tick
  BY <1>1, TimeAssumption DEF Tick
<1>2. ASSUME NEW s \in Senders, NEW e \in Emails, NEW ip \in IPs, SendStart(s, e, ip)
      PROVE TypeOK'
  BY <1>2 DEF SendStart, SendState
<1>3. ASSUME NEW s \in Senders, SendReturn(s)
      PROVE send' \in [Senders -> SendState] /\ held' \subseteq {Stripe[e] : e \in Emails}
  BY <1>3, IdleTypes DEF SendReturn
<1>4. ASSUME NEW s \in Senders, SendCooldown(s)
      PROVE TypeOK'
  BY <1>4, <1>3, <1>0 DEF SendCooldown
<1>5. ASSUME NEW s \in Senders, SendFind(s)
      PROVE TypeOK'
  <2>1. CASE send' = [send EXCEPT ![s] = At(s, "create", 0, 0)]
    BY <2>1, <1>5, <1>0 DEF SendFind
  <2>2. ASSUME NEW i \in 1..Len(rows), send' = [send EXCEPT ![s] = At(s, "update", i, 0)]
        PROVE  TypeOK'
    <3>1. At(s, "update", i, 0) \in SendState
      BY <1>0
    <3>2. QED
      BY <2>2, <3>1, <1>5 DEF SendFind
  <2>3. QED
    BY <1>5, <2>1, <2>2 DEF SendFind
<1>6. ASSUME NEW s \in Senders, NEW k \in Codes
      PROVE NewChallenge(s, k) \in Row
  BY TimeAssumption DEF NewChallenge, Row, SendState
<1>7. ASSUME NEW s \in Senders, NEW k \in Codes, Issue(s, k)
      PROVE issued' \in Seq(Issuance) /\ send' \in [Senders -> SendState]
  <2>1. [email |-> send[s].email, code |-> k, wrong |-> 0, right |-> 0] \in Issuance
    BY DEF Issuance, SendState
  <2>2. QED
    BY <2>1, <1>7, <1>0 DEF Issue
<1>8. ASSUME NEW s \in Senders, NEW k \in Codes, SendCreate(s, k)
      PROVE TypeOK'
  <2>1. rows' \in Seq(Row)
    BY <1>8, <1>6 DEF SendCreate
  <2>2. QED
    BY <2>1, <1>8, <1>7 DEF SendCreate
<1>9. ASSUME NEW s \in Senders, NEW k \in Codes, SendUpdate(s, k)
      PROVE TypeOK'
  <2>1. rows' = rows \/ rows' = [rows EXCEPT ![send[s].id] = NewChallenge(s, k)]
    BY <1>9 DEF SendUpdate
  <2>2. NewChallenge(s, k) \in Row
    BY <1>6
  <2>3. rows' \in Seq(Row)
    <3> DEFINE new == NewChallenge(s, k)
               i == send[s].id
    <3>1. new \in Row
      BY <2>2
    <3> HIDE DEF new, i
    <3>2. [rows EXCEPT ![i] = new] \in Seq(Row)
      BY <3>1, SeqExcept
    <3>3. QED
      BY <3>2, <2>1 DEF new, i
  <2>4. CASE Replaceable(rows[send[s].id], send[s].now)
    <3>1. Issue(s, k) /\ UNCHANGED <<held, clock, check, outbox>>
      BY <2>4, <1>9 DEF SendUpdate
    <3>2. QED
      BY <3>1, <2>3, <1>7
  <2>5. CASE ~ Replaceable(rows[send[s].id], send[s].now)
    <3>1. SendReturn(s) /\ UNCHANGED <<issued, clock, check, outbox>>
      BY <2>5, <1>9 DEF SendUpdate
    <3>2. QED
      BY <3>1, <2>3, <1>3
  <2>6. QED
    BY <2>4, <2>5
<1>10. ASSUME NEW s \in Senders, SendMail(s)
      PROVE TypeOK'
  BY <1>10, <1>3 DEF SendMail, SendState
<1>11. ASSUME NEW s \in Senders, SendFail(s)
      PROVE TypeOK'
  BY <1>11, <1>3 DEF SendFail
<1>12. ASSUME NEW c \in Checkers, NEW e \in Emails, NEW k \in Codes, CheckStart(c, e, k)
      PROVE TypeOK'
  BY <1>12, IdleTypes DEF CheckStart, CheckState
<1>13. ASSUME NEW c \in Checkers, CheckRead(c)
      PROVE TypeOK'
  <2>1. ASSUME NEW i \in 1..Len(rows) PROVE Seen(check[c], i) \in CheckState
    <3>1. rows[i] \in Row
      OBVIOUS
    <3>2. rows[i].issue \in Nat
      BY <3>1 DEF Row
    <3>3. QED
      BY <3>1, <3>2 DEF Seen, CheckState
  <2>2. Left(check[c], "refused", check[c].retry) \in CheckState
    BY IdleTypes DEF CheckState, Left
  <2>3. QED
    BY <1>13, <2>1, <2>2 DEF CheckRead
<1>14. ASSUME NEW c \in Checkers, CheckCas(c)
      PROVE TypeOK'
  <2> DEFINE i == check[c].id
             seen == check[c].seen
             matched == seen.code = check[c].code
  <2> HIDE DEF i, seen, matched
  <2>0. /\ i \in Nat /\ seen \in Row
        /\ Left(check[c], "read", check[c].retry + 1) \in CheckState
        /\ Left(check[c], "accepted", check[c].retry) \in CheckState
        /\ Left(check[c], "refused", check[c].retry) \in CheckState
    BY IdleTypes DEF Left, CheckState, i, seen
  <2>1. CASE ~ SameVersion(rows[i], seen, clock)
    BY <2>0, <2>1, <1>14 DEF CheckCas, i, seen
  <2>2. CASE SameVersion(rows[i], seen, clock)
    <3>1. \A r \in Row : Spent(r, seen, matched) \in Row
      BY <2>0, AttemptsAssumption DEF Spent, Row
    <3>2. rows' \in Seq(Row)
      <4>1. rows' = [rows EXCEPT ![i] = Spent(rows[i], seen, matched)]
        BY <2>2, <1>14 DEF CheckCas, i, seen, matched
      <4>2. QED
        <5>1. i \in 1..Len(rows) => Spent(rows[i], seen, matched) \in Row
          BY <3>1
        <5>2. QED
          BY <4>1, <5>1, SeqExcept
    <3>3. \A x \in Issuance : Charged(x, matched) \in Issuance
      BY DEF Charged, Issuance
    <3>4. issued' \in Seq(Issuance)
      <4>1. issued' = [issued EXCEPT ![rows[i].issue] =
                                 Charged(issued[rows[i].issue], matched)]
        BY <2>2, <1>14 DEF CheckCas, i, seen, matched
      <4>2. QED
        <5>1. rows[i].issue \in 1..Len(issued)
                 => Charged(issued[rows[i].issue], matched) \in Issuance
          BY <3>3
        <5>2. QED
          BY <4>1, <5>1, SeqExcept
    <3>5. check' \in [Checkers -> CheckState]
      BY <2>0, <2>2, <1>14 DEF CheckCas, i, seen, matched
    <3>6. QED
      BY <3>2, <3>4, <3>5, <1>14 DEF CheckCas
  <2>3. QED
    BY <2>1, <2>2
<1>15. ASSUME NEW c \in Checkers, CheckReturn(c) \/ CheckFail(c)
      PROVE TypeOK'
  BY <1>15, IdleTypes DEF CheckReturn, CheckFail
<1>16. CASE UNCHANGED vars
  BY <1>16 DEF vars
<1>17. QED
  BY <1>1, <1>2, <1>4, <1>5, <1>8, <1>9, <1>10, <1>11, <1>12, <1>13, <1>14, <1>15, <1>16
     DEF Next, SendStep, CheckStep

(* Type correctness of the issuing and checking requests.                  *)
THEOREM TypeCorrect == Spec => []TypeOK
<1>1. QED
  BY InitType, NextType, PTL DEF Spec

-----------------------------------------------------------------------------
(* The budget of an issuance.                                              *)

IInv == Ledger /\ AcceptedAtMostOnce /\ AttemptBudget

(* What AuthEmailSend writes is a row.                                     *)
LEMMA NewChallengeType ==
    ASSUME TypeOK, NEW s \in Senders, NEW k \in Codes PROVE NewChallenge(s, k) \in Row
  BY TimeAssumption DEF NewChallenge, Row, SendState, TypeOK

(* With an empty table the rows and the issuances agree.                   *)
LEMMA InitIInv == Init => IInv
<1> SUFFICES ASSUME Init PROVE IInv
  OBVIOUS
<1>1. Len(rows) = 0 /\ Len(issued) = 0
  BY DEF Init
<1>2. \A s \in Senders : send[s].pc = "idle"
  BY DEF Init, IdleSend
<1>3. \A c \in Checkers : check[c].pc = "idle"
  BY DEF Init, IdleCheck
<1>4. QED
  BY <1>1, <1>2, <1>3 DEF IInv, Ledger, AcceptedAtMostOnce, AttemptBudget

(* Steps that write neither table nor history: only the requests' own part *)
(* of the invariant is at stake.                                           *)
LEMMA FrameIInv ==
    ASSUME IInv, UNCHANGED <<rows, issued>>,
           \A s \in Senders : send'[s].pc = "update" => send'[s].id \in 1..Len(rows),
           \A c \in Checkers : check'[c].pc = "cas" =>
              /\ check'[c].id \in 1..Len(rows)
              /\ check'[c].seen.code # NoCode
              /\ check'[c].seen.attempts < MaxAttempts
    PROVE  IInv'
  BY DEF IInv, Ledger, RowLedger, AcceptedAtMostOnce, AttemptBudget

(* A step of a send request that touches only its own state.               *)
LEMMA SendFrame ==
    ASSUME TypeOK, IInv, UNCHANGED <<rows, issued, check>>, NEW s \in Senders, NEW r,
           send' = [send EXCEPT ![s] = r], r.pc = "update" => r.id \in 1..Len(rows)
    PROVE  IInv'
<1>1. \A t \in Senders : send'[t].pc = "update" => send'[t].id \in 1..Len(rows)
  BY DEF TypeOK, IInv, Ledger
<1>2. QED
  BY <1>1, FrameIInv DEF IInv, Ledger

(* A step of a check that touches only its own state.                      *)
LEMMA CheckFrame ==
    ASSUME TypeOK, IInv, UNCHANGED <<rows, issued, send>>, NEW c \in Checkers, NEW r,
           check' = [check EXCEPT ![c] = r],
           r.pc = "cas" => /\ r.id \in 1..Len(rows)
                           /\ r.seen.code # NoCode
                           /\ r.seen.attempts < MaxAttempts
    PROVE  IInv'
<1>1. \A d \in Checkers : check'[d].pc = "cas" =>
              /\ check'[d].id \in 1..Len(rows)
              /\ check'[d].seen.code # NoCode
              /\ check'[d].seen.attempts < MaxAttempts
  BY DEF TypeOK, IInv, Ledger
<1>2. QED
  BY <1>1, FrameIInv DEF IInv, Ledger

(* An issuance puts the new challenge n at id i, which is either the next  *)
(* free id or that of the row it replaces.                                 *)
LEMMA IssueIInv ==
    ASSUME TypeOK, IInv, UNCHANGED check, NEW s \in Senders, NEW k \in Codes,
           Issue(s, k), rows' \in Seq(Row), issued' \in Seq(Issuance),
           NEW i \in 1..Len(rows'), rows'[i] = NewChallenge(s, k),
           Len(rows') >= Len(rows),
           \A j \in 1..Len(rows') : j # i => j \in 1..Len(rows) /\ rows'[j] = rows[j]
    PROVE  IInv'
<1> DEFINE n == Len(issued) + 1
<1>1. /\ Len(issued') = n /\ n \in Nat
      /\ issued'[n].right = 0 /\ issued'[n].wrong = 0
      /\ \A j \in 1..Len(issued) : issued'[j] = issued[j]
  BY DEF Issue, TypeOK
<1>2. rows'[i].issue = n /\ rows'[i].attempts = 0 /\ rows'[i].code # NoCode
  BY NoCodeAssumption DEF NewChallenge
<1>3. RowLedger(rows[i])'
  BY <1>1, <1>2, AttemptsAssumption DEF RowLedger
<1>4. ASSUME NEW j \in 1..Len(rows'), j # i
      PROVE  RowLedger(rows[j])' /\ rows'[j].issue \in 1..Len(issued)
  <2>1. RowLedger(rows[j]) /\ rows'[j] = rows[j]
    BY <1>4 DEF IInv, Ledger
  <2>2. QED
    BY <2>1, <1>1 DEF RowLedger, TypeOK
<1>5. \A j \in 1..Len(rows') : RowLedger(rows[j])'
  BY <1>3, <1>4
<1>6. \A j, m \in 1..Len(rows') : rows'[j].issue = rows'[m].issue => j = m
  <2>1. \A j \in 1..Len(rows') : j # i => rows'[j].issue # n
    BY <1>4, <1>1 DEF TypeOK
  <2>2. \A j \in 1..Len(rows') : j # i => j \in 1..Len(rows) /\ rows'[j] = rows[j]
    OBVIOUS
  <2>3. \A j, m \in 1..Len(rows) : rows[j].issue = rows[m].issue => j = m
    BY DEF IInv, Ledger
  <2>4. QED
    BY ONLY <2>1, <2>2, <2>3, <1>2
<1>7. \A t \in Senders : send'[t].pc = "update" => send'[t].id \in 1..Len(rows')
  <2>1. \A t \in Senders : send'[t] = IF t = s THEN At(s, "mail", 0, n) ELSE send[t]
    BY DEF Issue, TypeOK
  <2>2. \A t \in Senders : send[t].pc = "update" => send[t].id \in 1..Len(rows')
    BY DEF IInv, Ledger, TypeOK
  <2>3. At(s, "mail", 0, n).pc = "mail"
    BY DEF At
  <2>4. QED
    BY <2>1, <2>2, <2>3
<1>8. \A c \in Checkers : check'[c].pc = "cas" =>
              /\ check'[c].id \in 1..Len(rows')
              /\ check'[c].seen.code # NoCode
              /\ check'[c].seen.attempts < MaxAttempts
  BY DEF IInv, Ledger, TypeOK
<1>9. AcceptedAtMostOnce' /\ AttemptBudget'
  <2>1. ASSUME NEW j \in 1..Len(issued')
        PROVE  issued'[j].right <= 1 /\ issued'[j].wrong + issued'[j].right <= MaxAttempts
    <3>1. CASE j = n
      BY <3>1, <1>1, AttemptsAssumption
    <3>2. CASE j # n
      <4>1. j \in 1..Len(issued)
        BY <3>2, <1>1 DEF TypeOK
      <4>2. QED
        BY <4>1, <1>1 DEF IInv, AcceptedAtMostOnce, AttemptBudget
    <3>3. QED
      BY <3>1, <3>2
  <2>2. QED
    BY <2>1 DEF AcceptedAtMostOnce, AttemptBudget
<1>10. QED
  BY <1>5, <1>6, <1>7, <1>8, <1>9 DEF IInv, Ledger

(* A compare-and-swap that succeeds charges the issuance of the row it     *)
(* writes: the row was open, so it can pay.                                *)
LEMMA CasIInv ==
    ASSUME TypeOK, TypeOK', IInv, NEW c \in Checkers, CheckCas(c) PROVE IInv'
<1> PICK i \in 1..Len(rows) : i = check[c].id
  BY DEF CheckCas, IInv, Ledger
<1> DEFINE seen == check[c].seen
           matched == seen.code = check[c].code
           n == rows[i].issue
<1>0. seen.code # NoCode /\ seen.attempts < MaxAttempts
  BY DEF CheckCas, IInv, Ledger
<1> HIDE DEF seen, matched, n
<1>1. CASE ~ SameVersion(rows[i], seen, clock)
  <2> DEFINE r == Left(check[c], "read", check[c].retry + 1)
  <2>1. check' = [check EXCEPT ![c] = r] /\ UNCHANGED <<rows, issued, send>>
    BY <1>1 DEF CheckCas, seen
  <2>2. r.pc = "read"
    BY DEF Left
  <2> HIDE DEF r
  <2>3. QED
    BY <2>1, <2>2, CheckFrame
<1>2. CASE SameVersion(rows[i], seen, clock)
  <2>1. /\ rows' = [rows EXCEPT ![i] = Spent(rows[i], seen, matched)]
        /\ issued' = [issued EXCEPT ![n] = Charged(issued[n], matched)]
        /\ check' = [check EXCEPT ![c] = Left(check[c],
                       IF matched THEN "accepted" ELSE "refused", check[c].retry)]
        /\ UNCHANGED send
    BY <1>2 DEF CheckCas, seen, matched, n
  <2>2. /\ n \in 1..Len(issued)
        /\ rows[i].attempts < MaxAttempts /\ rows[i].attempts = seen.attempts
        /\ rows[i].code # NoCode
        /\ issued[n].right = 0 /\ issued[n].wrong = rows[i].attempts
        /\ rows[i].attempts \in Nat /\ n \in Nat
    <3>1. RowLedger(rows[i]) /\ rows[i] \in Row
      BY <1>0 DEF IInv, Ledger, TypeOK
    <3>2. QED
      BY <3>1, <1>0, <1>2 DEF SameVersion, RowLedger, Row, n
  <2>3. /\ Len(rows') = Len(rows) /\ Len(issued') = Len(issued)
        /\ rows'[i] = Spent(rows[i], seen, matched)
        /\ \A j \in 1..Len(rows) : j # i => rows'[j] = rows[j]
        /\ issued'[n] = Charged(issued[n], matched)
        /\ \A j \in 1..Len(issued) : j # n => issued'[j] = issued[j]
    BY <2>1, <2>2, <1>0 DEF TypeOK
  <2>4. /\ issued'[n].right = IF matched THEN 1 ELSE 0
        /\ issued'[n].wrong = IF matched THEN rows[i].attempts ELSE rows[i].attempts + 1
    BY <2>2, <2>3 DEF Charged
  <2>5. /\ rows'[i].issue = n
        /\ rows'[i].code = IF matched THEN NoCode ELSE rows[i].code
        /\ rows'[i].attempts = IF matched THEN MaxAttempts ELSE rows[i].attempts + 1
    BY <2>2, <2>3 DEF Spent, n
  <2>6. RowLedger(rows[i])'
    <3>1. CASE matched
      BY <3>1, <2>2, <2>3, <2>4, <2>5, AttemptsAssumption DEF RowLedger
    <3>2. CASE ~ matched
      BY <3>2, <2>2, <2>3, <2>4, <2>5, AttemptsAssumption DEF RowLedger
    <3>3. QED
      BY <3>1, <3>2
  <2>7. ASSUME NEW j \in 1..Len(rows), j # i PROVE RowLedger(rows[j])'
    <3>1. RowLedger(rows[j]) /\ rows[j].issue # n
      BY <2>7, <1>0 DEF IInv, Ledger, n
    <3>2. rows'[j] = rows[j] /\ issued'[rows[j].issue] = issued[rows[j].issue]
      BY <3>1, <2>3, <2>7 DEF RowLedger
    <3>3. QED
      BY <3>1, <3>2, <2>3 DEF RowLedger
  <2>8. \A j \in 1..Len(rows') : RowLedger(rows[j])'
    <3>1. Len(rows') = Len(rows)
      BY <2>3
    <3>2. ASSUME NEW j \in 1..Len(rows) PROVE RowLedger(rows[j])'
      <4>1. CASE j = i
        BY <4>1, <2>6
      <4>2. QED
        BY <4>1, <2>7
    <3>3. QED
      BY <3>1, <3>2
  <2>9. \A j, m \in 1..Len(rows') : rows'[j].issue = rows'[m].issue => j = m
    <3>1. \A j \in 1..Len(rows) : rows'[j].issue = rows[j].issue
      BY <2>3, <2>5 DEF n
    <3>2. QED
      BY <3>1, <2>3 DEF IInv, Ledger
  <2>10. \A s \in Senders : send'[s].pc = "update" => send'[s].id \in 1..Len(rows')
    BY <2>1, <2>3 DEF IInv, Ledger
  <2>11. \A d \in Checkers : check'[d].pc = "cas" =>
              /\ check'[d].id \in 1..Len(rows')
              /\ check'[d].seen.code # NoCode
              /\ check'[d].seen.attempts < MaxAttempts
    <3>1. check'[c].pc # "cas"
      BY <2>1 DEF Left, TypeOK
    <3>2. \A d \in Checkers : d # c => check'[d] = check[d]
      BY <2>1 DEF TypeOK
    <3>3. QED
      BY <3>1, <3>2, <2>3 DEF IInv, Ledger
  <2>12. AcceptedAtMostOnce' /\ AttemptBudget'
    <3>1. ASSUME NEW j \in 1..Len(issued)
          PROVE  issued'[j].right <= 1 /\ issued'[j].wrong + issued'[j].right <= MaxAttempts
      <4>1. CASE j = n
        BY <4>1, <2>2, <2>4, AttemptsAssumption
      <4>2. CASE j # n
        BY <4>2, <2>3 DEF IInv, AcceptedAtMostOnce, AttemptBudget
      <4>3. QED
        BY <4>1, <4>2
    <3>2. QED
      BY <3>1, <2>3 DEF AcceptedAtMostOnce, AttemptBudget
  <2>13. QED
    BY <2>8, <2>9, <2>10, <2>11, <2>12 DEF IInv, Ledger
<1>3. QED
  BY <1>1, <1>2

(* Every step keeps the agreement of rows and issuances: one case per      *)
(* action of the two handlers.                                             *)
LEMMA NextIInv == TypeOK /\ TypeOK' /\ IInv /\ [Next]_vars => IInv'
<1> SUFFICES ASSUME TypeOK, TypeOK', IInv, [Next]_vars PROVE IInv'
  OBVIOUS
<1>1. CASE Tick
  BY <1>1, FrameIInv DEF Tick, IInv, Ledger
<1>2. ASSUME NEW s \in Senders, NEW e \in Emails, NEW ip \in IPs, SendStart(s, e, ip)
      PROVE IInv'
  BY <1>2, SendFrame DEF SendStart
<1>3. ASSUME NEW s \in Senders, SendReturn(s), UNCHANGED <<rows, issued, check>>
      PROVE IInv'
  <2>1. IdleSend.pc = "idle"
    BY DEF IdleSend
  <2>2. QED
    BY <1>3, <2>1, SendFrame DEF SendReturn
<1>4. ASSUME NEW s \in Senders, SendCooldown(s) PROVE IInv'
  <2>1. At(s, "find", 0, 0).pc = "find"
    BY DEF At
  <2>2. QED
    BY <1>4, <1>3, <2>1, SendFrame DEF SendCooldown
<1>5. ASSUME NEW s \in Senders, SendFind(s) PROVE IInv'
  <2>1. At(s, "create", 0, 0).pc = "create"
    BY DEF At
  <2>2. CASE send' = [send EXCEPT ![s] = At(s, "create", 0, 0)]
    BY <1>5, <2>1, <2>2, SendFrame DEF SendFind
  <2>3. ASSUME NEW i \in 1..Len(rows), send' = [send EXCEPT ![s] = At(s, "update", i, 0)]
        PROVE  IInv'
    <3>1. At(s, "update", i, 0).id = i
      BY DEF At
    <3>2. QED
      BY <1>5, <2>3, <3>1, SendFrame DEF SendFind
  <2>4. QED
    BY <1>5, <2>2, <2>3 DEF SendFind
<1>6. ASSUME NEW s \in Senders, NEW k \in Codes, SendCreate(s, k) PROVE IInv'
  <2>1. NewChallenge(s, k) \in Row
    BY NewChallengeType
  <2>2. /\ Len(rows') = Len(rows) + 1 /\ Len(rows) \in Nat
        /\ rows'[Len(rows) + 1] = NewChallenge(s, k)
        /\ \A j \in 1..Len(rows) : rows'[j] = rows[j]
    BY <1>6, <2>1 DEF SendCreate, TypeOK
  <2>3. \A j \in 1..Len(rows') : j # Len(rows) + 1 =>
           j \in 1..Len(rows) /\ rows'[j] = rows[j]
    BY <2>2
  <2>4. PICK i \in 1..Len(rows') : i = Len(rows) + 1
    BY <2>2
  <2>5. /\ Issue(s, k) /\ UNCHANGED check
        /\ rows' \in Seq(Row) /\ issued' \in Seq(Issuance)
    BY <1>6 DEF SendCreate, TypeOK
  <2>6. rows'[i] = NewChallenge(s, k) /\ Len(rows') >= Len(rows)
    BY <2>2, <2>4
  <2>7. QED
    BY <2>3, <2>4, <2>5, <2>6, IssueIInv
<1>7. ASSUME NEW s \in Senders, NEW k \in Codes, SendUpdate(s, k) PROVE IInv'
  <2>1. CASE ~ Replaceable(rows[send[s].id], send[s].now)
    BY <1>7, <2>1, <1>3 DEF SendUpdate
  <2>2. CASE Replaceable(rows[send[s].id], send[s].now)
    <3> PICK i \in 1..Len(rows) : i = send[s].id
      BY <1>7 DEF SendUpdate, IInv, Ledger
    <3>1. NewChallenge(s, k) \in Row
      BY NewChallengeType
    <3>2. /\ rows' = [rows EXCEPT ![i] = NewChallenge(s, k)]
          /\ Issue(s, k) /\ UNCHANGED check
      BY <1>7, <2>2 DEF SendUpdate
    <3>3. /\ Len(rows') = Len(rows) /\ Len(rows) \in Nat
          /\ rows'[i] = NewChallenge(s, k)
          /\ \A j \in 1..Len(rows') : j # i => j \in 1..Len(rows) /\ rows'[j] = rows[j]
      BY <3>1, <3>2 DEF TypeOK
    <3>4. QED
      BY <3>2, <3>3, IssueIInv DEF TypeOK
  <2>3. QED
    BY <2>1, <2>2
<1>8. ASSUME NEW s \in Senders, SendMail(s) \/ SendFail(s) PROVE IInv'
  BY <1>8, <1>3 DEF SendMail, SendFail
<1>9. ASSUME NEW c \in Checkers, NEW e \in Emails, NEW k \in Codes, CheckStart(c, e, k)
      PROVE IInv'
  BY <1>9, CheckFrame DEF CheckStart
<1>10. ASSUME NEW c \in Checkers, CheckRead(c) PROVE IInv'
  <2>1. Left(check[c], "refused", check[c].retry).pc = "refused"
    BY DEF Left
  <2>2. CASE check' = [check EXCEPT ![c] = Left(check[c], "refused", check[c].retry)]
    <3>1. UNCHANGED <<rows, issued, send>>
      BY <1>10 DEF CheckRead
    <3> DEFINE r == Left(check[c], "refused", check[c].retry)
    <3>2. check' = [check EXCEPT ![c] = r] /\ r.pc # "cas"
      BY <2>1, <2>2
    <3> HIDE DEF r
    <3>3. QED
      BY <3>1, <3>2, CheckFrame
  <2>3. ASSUME NEW i \in 1..Len(rows),
               IsFirst(i, {j \in 1..Len(rows) : Live(rows[j], check[c].email, clock)}),
               check' = [check EXCEPT ![c] = Seen(check[c], i)]
        PROVE  IInv'
    <3>1. Live(rows[i], check[c].email, clock)
      BY <2>3 DEF IsFirst
    <3>2. Seen(check[c], i).id = i /\ Seen(check[c], i).seen = rows[i]
      BY DEF Seen
    <3>3. rows[i].code # NoCode /\ rows[i].attempts < MaxAttempts
      BY <3>1 DEF Live
    <3> DEFINE r == Seen(check[c], i)
    <3>4. r.id \in 1..Len(rows) /\ r.seen.code # NoCode /\ r.seen.attempts < MaxAttempts
      BY <3>2, <3>3
    <3>5. check' = [check EXCEPT ![c] = r] /\ UNCHANGED <<rows, issued, send>>
      BY <1>10, <2>3 DEF CheckRead
    <3> HIDE DEF r
    <3>6. QED
      BY <3>4, <3>5, CheckFrame
  <2>4. QED
    BY <1>10, <2>2, <2>3 DEF CheckRead
<1>11. ASSUME NEW c \in Checkers, CheckReturn(c) \/ CheckFail(c) PROVE IInv'
  <2>1. IdleCheck.pc = "idle"
    BY DEF IdleCheck
  <2>2. QED
    BY <1>11, <2>1, CheckFrame DEF CheckReturn, CheckFail
<1>12. CASE UNCHANGED vars
  BY <1>12, FrameIInv DEF vars, IInv, Ledger
<1>13. QED
  BY <1>1, <1>2, <1>4, <1>5, <1>6, <1>7, <1>8, <1>9, <1>10, <1>11, <1>12, CasIInv
     DEF Next, SendStep, CheckStep

(* CheckEmailVerifyCode accepts a code at most once, for any number of     *)
(* simultaneous requests and whatever resends happen meanwhile.            *)
THEOREM AcceptedOnce == Spec => []AcceptedAtMostOnce
<1>1. IInv => AcceptedAtMostOnce
  BY DEF IInv
<1>2. QED
  BY <1>1, TypeCorrect, InitIInv, NextIInv, PTL DEF Spec

(* CheckEmailVerifyCode never spends more than emailVerifyMaxAttempts      *)
(* comparisons on one issuance.                                            *)
THEOREM WithinBudget == Spec => []AttemptBudget
<1>1. IInv => AttemptBudget
  BY DEF IInv
<1>2. QED
  BY <1>1, TypeCorrect, InitIInv, NextIInv, PTL DEF Spec

-----------------------------------------------------------------------------
(* The lockout.                                                            *)

(* The time a send request works with lies in the past.                    *)
TimeInv == \A s \in Senders : send[s].now <= clock

(* Time goes forward.                                                      *)
LEMMA ClockStep ==
    TypeOK /\ [Next]_vars => clock \in Nat /\ clock' \in Nat /\ clock' >= clock
<1> SUFFICES ASSUME TypeOK, [Next]_vars PROVE clock' = clock \/ clock' = clock + 1
  BY DEF TypeOK
<1>1. ASSUME NEW s \in Senders, SendStep(s) \/ SendFail(s) PROVE UNCHANGED clock
  BY <1>1 DEF SendStep, SendCooldown, SendFind, SendCreate, SendUpdate, SendMail, SendFail
<1>2. ASSUME NEW c \in Checkers, CheckStep(c) \/ CheckReturn(c) \/ CheckFail(c)
      PROVE  UNCHANGED clock
  BY <1>2 DEF CheckStep, CheckRead, CheckCas, CheckReturn, CheckFail
<1>3. CASE Tick \/ UNCHANGED vars
  BY <1>3 DEF Tick, vars
<1>4. ASSUME NEW s \in Senders, NEW e \in Emails, NEW ip \in IPs, SendStart(s, e, ip)
      PROVE  UNCHANGED clock
  BY <1>4 DEF SendStart
<1>5. ASSUME NEW c \in Checkers, NEW e \in Emails, NEW k \in Codes, CheckStart(c, e, k)
      PROVE  UNCHANGED clock
  BY <1>5 DEF CheckStart
<1>6. QED
  BY <1>1, <1>2, <1>3, <1>4, <1>5 DEF Next

(* No request works with a later time than the clock shows.                *)
LEMMA TimeStep == TypeOK /\ TimeInv /\ [Next]_vars => TimeInv'
<1> SUFFICES ASSUME TypeOK, TimeInv, [Next]_vars PROVE TimeInv'
  OBVIOUS
<1> USE DEF TypeOK, TimeInv
<1>1. clock \in Nat /\ clock' \in Nat /\ clock <= clock'
  BY ClockStep
<1>2. \A s \in Senders : send[s].now \in Int
  BY DEF SendState
<1>3. CASE UNCHANGED send
  BY <1>1, <1>2, <1>3
<1>4. ASSUME NEW s \in Senders, NEW r, r.now <= clock, r.now \in Int,
             send' = [send EXCEPT ![s] = r]
      PROVE  TimeInv'
  BY <1>1, <1>2, <1>4
<1>5. IdleSend.now <= clock /\ IdleSend.now \in Int
  BY <1>1 DEF IdleSend
<1>6. ASSUME NEW s \in Senders, SendReturn(s) PROVE TimeInv'
  BY <1>4, <1>5, <1>6 DEF SendReturn
<1>7. ASSUME NEW s \in Senders, NEW p, NEW i, NEW n,
             send' = [send EXCEPT ![s] = At(s, p, i, n)]
      PROVE  TimeInv'
  <2>1. At(s, p, i, n).now = send[s].now
    BY DEF At
  <2>2. QED
    BY <2>1, <1>2, <1>4, <1>7
<1>8. ASSUME NEW s \in Senders, NEW e \in Emails, NEW ip \in IPs, SendStart(s, e, ip)
      PROVE  TimeInv'
  BY <1>1, <1>4, <1>8 DEF SendStart
<1>9. ASSUME NEW s \in Senders, SendStep(s) \/ SendFail(s) PROVE TimeInv'
  <2>1. CASE SendCooldown(s)
    BY <2>1, <1>6, <1>7 DEF SendCooldown
  <2>2. CASE SendFind(s)
    BY <2>2, <1>7 DEF SendFind
  <2>3. ASSUME NEW k \in Codes, SendCreate(s, k) \/ SendUpdate(s, k) PROVE TimeInv'
    BY <2>3, <1>6, <1>7 DEF SendCreate, SendUpdate, Issue
  <2>4. CASE SendMail(s) \/ SendFail(s)
    BY <2>4, <1>6 DEF SendMail, SendFail
  <2>5. QED
    BY <1>9, <2>1, <2>2, <2>3, <2>4 DEF SendStep
<1>10. QED
  BY <1>3, <1>8, <1>9 DEF Next, Tick, CheckStep, CheckStart, CheckRead, CheckCas,
                          CheckReturn, CheckFail, vars

(* AuthEmailSend never replaces, and CheckEmailVerifyCode never charges, a *)
(* challenge that is exhausted and not yet expired.                        *)
THEOREM LockoutNeverLifted == Spec => LockoutKept
<1>1. ASSUME TypeOK, IInv, TimeInv, [Next]_vars, NEW i \in 1..Len(rows),
             Exhausted(rows[i], clock)
      PROVE  rows'[i] = rows[i]
  <2>1. rows[i] \in Row
    BY <1>1 DEF TypeOK
  <2>2. CASE UNCHANGED rows
    BY <2>2
  <2>3. ASSUME NEW s \in Senders, NEW k \in Codes, SendCreate(s, k)
        PROVE  rows'[i] = rows[i]
    <3>1. Append(rows, NewChallenge(s, k))[i] = rows[i]
      BY <1>1 DEF TypeOK
    <3>2. QED
      BY <3>1, <2>3 DEF SendCreate
  <2>4. ASSUME NEW s \in Senders, NEW k \in Codes, SendUpdate(s, k)
        PROVE  rows'[i] = rows[i]
    <3>1. CASE send[s].id # i
      BY <3>1, <2>4, <1>1 DEF SendUpdate, TypeOK
    <3>2. CASE send[s].id = i
      <4>1. send[s].now \in Int /\ clock \in Int /\ send[s].now <= clock
        BY <1>1 DEF TypeOK, TimeInv, SendState
      <4>2. ~ Replaceable(rows[i], send[s].now)
        BY <4>1, <2>1, <1>1, AttemptsAssumption DEF Replaceable, Exhausted, Row
      <4>3. QED
        BY <4>2, <3>2, <2>4 DEF SendUpdate
    <3>3. QED
      BY <3>1, <3>2
  <2>5. ASSUME NEW c \in Checkers, CheckCas(c) PROVE rows'[i] = rows[i]
    <3>1. CASE check[c].id # i
      BY <3>1, <2>5, <1>1 DEF CheckCas, TypeOK
    <3>2. CASE check[c].id = i
      <4>1. check[c].seen.attempts < MaxAttempts /\ check[c].seen.attempts \in Nat
        BY <2>5, <1>1 DEF CheckCas, IInv, Ledger, TypeOK, CheckState, Row
      <4>2. ~ SameVersion(rows[i], check[c].seen, clock)
        BY <4>1, <2>1, <1>1, AttemptsAssumption DEF SameVersion, Exhausted, Row
      <4>3. QED
        BY <4>2, <3>2, <2>5 DEF CheckCas
    <3>3. QED
      BY <3>1, <3>2
  <2>6. QED
    BY <1>1, <2>2, <2>3, <2>4, <2>5
       DEF Next, Tick, SendStep, SendStart, SendCooldown, SendFind, SendMail, SendFail,
           CheckStep, CheckStart, CheckRead, CheckReturn, CheckFail, vars
<1>2. TypeOK /\ IInv /\ TimeInv /\ [Next]_vars =>
         [\A i \in 1..Len(rows) : Exhausted(rows[i], clock) => rows'[i] = rows[i]]_vars
  BY <1>1
<1>3. Init => TimeInv
  BY DEF Init, TimeInv, IdleSend
<1>4. QED
  BY <1>2, <1>3, TypeCorrect, InitIInv, NextIInv, TimeStep, PTL DEF Spec, LockoutKept
-----------------------------------------------------------------------------
(* What every step leaves of the challenges.                               *)

(* A row that still holds the same issuance: only a check may have         *)
(* consumed it or spent an attempt.                                        *)
Later(r, q) ==
    /\ q.email = r.email /\ q.issue = r.issue
    /\ q.updated = r.updated /\ q.expires = r.expires
    /\ q.code \in {r.code, NoCode}
    /\ q.attempts >= r.attempts

(* From one state to the next the issuances stay, and a row that holds one *)
(* of them already held it.                                                *)
Ages ==
    /\ clock' >= clock
    /\ Len(issued') >= Len(issued)
    /\ \A n \in 1..Len(issued) :
          issued'[n].email = issued[n].email /\ issued'[n].code = issued[n].code
    /\ \A i \in 1..Len(rows') : rows'[i].issue \in 1..Len(issued) =>
          i \in 1..Len(rows) /\ Later(rows[i], rows'[i])

(* Nothing written: nothing but time passes.                               *)
LEMMA AgesFrame ==
    ASSUME TypeOK, clock' >= clock, UNCHANGED <<rows, issued>>
    PROVE  Ages
<1>1. ASSUME NEW i \in 1..Len(rows) PROVE Later(rows[i], rows[i])
  <2>1. rows[i] \in Row
    BY DEF TypeOK
  <2>2. QED
    BY <2>1 DEF Row, Later
<1>2. Len(issued) \in Nat
  BY DEF TypeOK
<1>3. QED
  BY <1>1, <1>2 DEF Ages

(* A new issuance takes the next number.                                   *)
LEMMA AgesIssue ==
    ASSUME TypeOK, UNCHANGED clock, NEW s \in Senders, NEW k \in Codes, Issue(s, k),
           NEW i, rows'[i] = NewChallenge(s, k),
           \A j \in 1..Len(rows') : j # i => j \in 1..Len(rows) /\ rows'[j] = rows[j]
    PROVE  Ages
<1>1. Len(issued') = Len(issued) + 1 /\ Len(issued) \in Nat
  BY DEF Issue, TypeOK
<1>2. \A n \in 1..Len(issued) : issued'[n] = issued[n]
  BY DEF Issue, TypeOK
<1>3. rows'[i].issue = Len(issued) + 1
  BY DEF NewChallenge
<1>4. ASSUME NEW j \in 1..Len(rows'), rows'[j].issue \in 1..Len(issued)
      PROVE  j \in 1..Len(rows) /\ Later(rows[j], rows'[j])
  <2>1. j # i
    BY <1>1, <1>3, <1>4
  <2>2. j \in 1..Len(rows) /\ rows'[j] = rows[j]
    BY <2>1
  <2>3. rows[j] \in Row
    BY <2>2 DEF TypeOK
  <2>4. QED
    BY <2>2, <2>3 DEF Later, Row
<1>5. clock' >= clock
  BY DEF TypeOK
<1>6. QED
  BY <1>1, <1>2, <1>4, <1>5 DEF Ages

(* A comparison spends an attempt of the row it has read, or consumes it.  *)
LEMMA AgesCas ==
    ASSUME TypeOK, IInv, NEW c \in Checkers, CheckCas(c)
    PROVE  Ages
<1> PICK i \in 1..Len(rows) : i = check[c].id
  BY DEF CheckCas, IInv, Ledger
<1> DEFINE seen == check[c].seen
           matched == seen.code = check[c].code
           n == rows[i].issue
<1>0. seen.code # NoCode /\ seen.attempts < MaxAttempts /\ rows[i] \in Row
  BY DEF CheckCas, IInv, Ledger, TypeOK
<1>c. clock' >= clock
  BY DEF TypeOK, CheckCas
<1> HIDE DEF seen, matched, n
<1>1. CASE ~ SameVersion(rows[i], seen, clock)
  BY <1>1, <1>c, AgesFrame DEF CheckCas, seen
<1>2. CASE SameVersion(rows[i], seen, clock)
  <2>1. /\ rows' = [rows EXCEPT ![i] = Spent(rows[i], seen, matched)]
        /\ issued' = [issued EXCEPT ![n] = Charged(issued[n], matched)]
    BY <1>2 DEF CheckCas, seen, matched, n
  <2>2. /\ Len(rows') = Len(rows) /\ Len(issued') = Len(issued) /\ Len(issued) \in Nat
        /\ rows'[i] = Spent(rows[i], seen, matched)
        /\ \A j \in 1..Len(rows) : j # i => rows'[j] = rows[j]
    BY <2>1 DEF TypeOK
  <2>3. ASSUME NEW m \in 1..Len(issued)
        PROVE  issued'[m] = Charged(issued[m], matched) \/ issued'[m] = issued[m]
    BY <2>1 DEF TypeOK
  <2>4. ASSUME NEW m \in 1..Len(issued)
        PROVE  issued'[m].email = issued[m].email /\ issued'[m].code = issued[m].code
    <3>1. \A x : Charged(x, matched).email = x.email /\ Charged(x, matched).code = x.code
      BY DEF Charged
    <3>2. QED
      BY <2>3, <3>1
  <2>5. Later(rows[i], rows'[i])
    <3>1. rows[i].attempts = seen.attempts /\ rows[i].attempts \in Nat
      BY <1>0, <1>2 DEF SameVersion, Row
    <3>2. CASE matched
      BY <3>1, <3>2, <2>2, <1>0, AttemptsAssumption DEF Later, Spent
    <3>3. CASE ~ matched
      BY <3>1, <3>3, <2>2, <1>0 DEF Later, Spent
    <3>4. QED
      BY <3>2, <3>3
  <2>6. ASSUME NEW j \in 1..Len(rows), j # i PROVE Later(rows[j], rows'[j])
    <3>1. rows'[j] = rows[j] /\ rows[j] \in Row
      BY <2>2, <2>6 DEF TypeOK
    <3>2. QED
      BY <3>1 DEF Later, Row
  <2>7. ASSUME NEW j \in 1..Len(rows') PROVE j \in 1..Len(rows) /\ Later(rows[j], rows'[j])
    BY <2>2, <2>5, <2>6
  <2>8. QED
    BY <2>2, <2>4, <2>7, <1>c DEF Ages
<1>3. QED
  BY <1>1, <1>2

(* Every step only ages the challenges.                                    *)
LEMMA NextAges == TypeOK /\ IInv /\ [Next]_vars => Ages
<1> SUFFICES ASSUME TypeOK, IInv, [Next]_vars PROVE Ages
  OBVIOUS
<1>1. CASE UNCHANGED <<rows, issued>>
  <2>1. clock' >= clock
    BY ClockStep
  <2>2. QED
    BY <1>1, <2>1, AgesFrame
<1>2. ASSUME NEW s \in Senders, NEW k \in Codes, SendCreate(s, k) PROVE Ages
  <2>1. NewChallenge(s, k) \in Row
    BY NewChallengeType
  <2>2. /\ rows'[Len(rows) + 1] = NewChallenge(s, k)
        /\ \A j \in 1..Len(rows') : j # Len(rows) + 1 =>
              j \in 1..Len(rows) /\ rows'[j] = rows[j]
    BY <1>2, <2>1 DEF SendCreate, TypeOK
  <2>3. Issue(s, k) /\ UNCHANGED clock
    BY <1>2 DEF SendCreate
  <2>4. QED
    BY <2>2, <2>3, AgesIssue
<1>3. ASSUME NEW s \in Senders, NEW k \in Codes, SendUpdate(s, k), ~ UNCHANGED <<rows, issued>>
      PROVE  Ages
  <2>1. /\ rows' = [rows EXCEPT ![send[s].id] = NewChallenge(s, k)]
        /\ Issue(s, k) /\ UNCHANGED clock
    BY <1>3 DEF SendUpdate
  <2>2. PICK i \in 1..Len(rows) : i = send[s].id
    BY <1>3 DEF SendUpdate, IInv, Ledger
  <2>3. NewChallenge(s, k) \in Row
    BY NewChallengeType
  <2>4. /\ rows'[i] = NewChallenge(s, k)
        /\ \A j \in 1..Len(rows') : j # i => j \in 1..Len(rows) /\ rows'[j] = rows[j]
    BY <2>1, <2>2, <2>3 DEF TypeOK
  <2>5. QED
    BY <2>1, <2>4, AgesIssue
<1>4. QED
  BY <1>1, <1>2, <1>3, AgesCas
     DEF Next, Tick, SendStep, SendStart, SendCooldown, SendFind, SendMail, SendFail,
         CheckStep, CheckStart, CheckRead, CheckReturn, CheckFail, vars

-----------------------------------------------------------------------------
(* The order of sends.                                                     *)

(* Only one send runs on a mutex.                                          *)
Running(s) == send[s].pc # "idle"
Exclusive ==
    /\ \A s \in Senders : Running(s) => Stripe[send[s].email] \in held
    /\ \A s, t \in Senders :
          Running(s) /\ Running(t) /\ Stripe[send[s].email] = Stripe[send[t].email] => s = t

(* What a send has found in the table stays true until it writes, and      *)
(* nothing newer of its address is mailed before what it has written.      *)
SendGuard(s) ==
    /\ send[s].pc = "create" => \A i \in 1..Len(rows) : rows[i].email # send[s].email
    /\ send[s].pc = "update" => rows[send[s].id].email = send[s].email
    /\ send[s].pc = "mail" =>
          /\ send[s].issue \in 1..Len(issued)
          /\ issued[send[s].issue].email = send[s].email
          /\ \A j \in 1..Len(outbox) :
                issued[outbox[j]].email = send[s].email => outbox[j] < send[s].issue

Mailed == \A j \in 1..Len(outbox) : outbox[j] \in 1..Len(issued)

OrderInv ==
    /\ Exclusive
    /\ \A s \in Senders : SendGuard(s)
    /\ Mailed
    /\ SendsInOrder

(* Nothing runs and nothing is stored yet.                                 *)
LEMMA InitOrder == Init => OrderInv
<1> SUFFICES ASSUME Init PROVE OrderInv
  OBVIOUS
<1>1. Len(rows) = 0 /\ Len(outbox) = 0 /\ \A s \in Senders : send[s].pc = "idle"
  BY DEF Init, IdleSend
<1>2. QED
  BY <1>1 DEF OrderInv, Exclusive, Running, SendGuard, Mailed, SendsInOrder,
              OneRowPerEmail, MailedInOrder

(* Sends of another address do not run on the same mutex.                  *)
LEMMA OtherAddress ==
    ASSUME OrderInv, NEW s \in Senders, NEW t \in Senders, s # t, Running(s), Running(t)
    PROVE  send[s].email # send[t].email
  BY DEF OrderInv, Exclusive

(* A request that returns gives back its own mutex only.                   *)
LEMMA ReturnExclusive ==
    ASSUME TypeOK, OrderInv, NEW s \in Senders, Running(s), SendReturn(s)
    PROVE  Exclusive'
<1>1. \A t \in Senders : send'[t] = IF t = s THEN IdleSend ELSE send[t]
  BY DEF SendReturn, TypeOK
<1>2. IdleSend.pc = "idle"
  BY DEF IdleSend
<1>3. ASSUME NEW t \in Senders, Running(t)'
      PROVE  t # s /\ send'[t] = send[t] /\ Running(t) /\ Stripe[send[t].email] \in held'
  <2>1. t # s
    BY <1>1, <1>2, <1>3 DEF Running
  <2>2. send'[t] = send[t] /\ Running(t)
    BY <2>1, <1>1, <1>3 DEF Running
  <2>3. Stripe[send[t].email] \in held /\ Stripe[send[t].email] # Stripe[send[s].email]
    BY <2>1, <2>2 DEF OrderInv, Exclusive
  <2>4. QED
    BY <2>1, <2>2, <2>3 DEF SendReturn
<1>4. QED
  BY <1>3 DEF OrderInv, Exclusive

(* A request that goes on keeps its mutex.                                 *)
LEMMA GoExclusive ==
    ASSUME TypeOK, OrderInv, NEW s \in Senders, Running(s), UNCHANGED held,
           NEW r, r.email = send[s].email, send' = [send EXCEPT ![s] = r]
    PROVE  Exclusive'
<1>1. \A t \in Senders : send'[t] = IF t = s THEN r ELSE send[t]
  BY DEF TypeOK
<1>2. \A t \in Senders : Running(t)' => Running(t) /\ send'[t].email = send[t].email
  BY <1>1 DEF Running
<1>3. QED
  BY <1>2 DEF OrderInv, Exclusive

(* A send that waits keeps what it has found, as long as nobody adds a row *)
(* or a mail of its address.                                               *)
LEMMA WaitGuard ==
    ASSUME TypeOK, IInv, OrderInv, Ages, NEW s \in Senders, send'[s] = send[s],
           \A i \in 1..Len(rows') : rows'[i].email = send[s].email =>
              i \in 1..Len(rows) /\ rows[i].email = send[s].email,
           \A i \in 1..Len(rows) : i \in 1..Len(rows') /\ rows'[i].email = rows[i].email,
           \A j \in 1..Len(outbox') : 
              \/ j \in 1..Len(outbox) /\ outbox'[j] = outbox[j]
              \/ outbox'[j] \in 1..Len(issued) /\ issued[outbox'[j]].email # send[s].email
    PROVE  SendGuard(s)'
<1>1. SendGuard(s)
  BY DEF OrderInv
<1>2. send[s].pc = "update" => send[s].id \in 1..Len(rows)
  BY DEF IInv, Ledger
<1>3. CASE send[s].pc = "create"
  BY <1>1, <1>3 DEF SendGuard
<1>4. CASE send[s].pc = "update"
  BY <1>1, <1>2, <1>4 DEF SendGuard
<1>5. CASE send[s].pc = "mail"
  <2>1. /\ send[s].issue \in 1..Len(issued')
        /\ issued'[send[s].issue].email = send[s].email
    BY <1>1, <1>5 DEF SendGuard, Ages, TypeOK
  <2>2. ASSUME NEW j \in 1..Len(outbox'), issued'[outbox'[j]].email = send[s].email
        PROVE  outbox'[j] < send[s].issue
    <3>1. outbox'[j] \in 1..Len(issued)
      BY DEF OrderInv, Mailed
    <3>2. issued'[outbox'[j]].email = issued[outbox'[j]].email
      BY <3>1 DEF Ages
    <3>3. j \in 1..Len(outbox) /\ outbox'[j] = outbox[j]
      BY <2>2, <3>2
    <3>4. QED
      BY <1>1, <1>5, <2>2, <3>2, <3>3 DEF SendGuard
  <2>3. QED
    BY <1>5, <2>1, <2>2 DEF SendGuard
<1>6. QED
  BY <1>3, <1>4, <1>5 DEF SendGuard

(* What was mailed stays in order when no mail is added.                   *)
LEMMA MailKept ==
    ASSUME TypeOK, OrderInv, Ages, UNCHANGED outbox
    PROVE  Mailed' /\ MailedInOrder'
<1>1. Len(issued) \in Nat /\ Len(issued') >= Len(issued)
  BY DEF TypeOK, Ages
<1>2. \A j \in 1..Len(outbox) :
         outbox[j] \in 1..Len(issued) /\ issued'[outbox[j]].email = issued[outbox[j]].email
  BY DEF OrderInv, Mailed, Ages
<1>3. Mailed'
  BY <1>1, <1>2, TypeOK DEF Mailed, TypeOK, Ages
<1>4. MailedInOrder'
  BY <1>2 DEF OrderInv, SendsInOrder, MailedInOrder
<1>5. QED
  BY <1>3, <1>4

(* Steps that write neither a row nor a mail.                              *)
LEMMA OrderFrame ==
    ASSUME TypeOK, IInv, OrderInv, Ages, UNCHANGED outbox, Exclusive',
           Len(rows') = Len(rows),
           \A i \in 1..Len(rows) : rows'[i].email = rows[i].email,
           NEW s, \A t \in Senders : t # s => send'[t] = send[t],
           s \in Senders => SendGuard(s)'
    PROVE  OrderInv'
<1>1. Mailed' /\ MailedInOrder'
  BY MailKept
<1>2. OneRowPerEmail'
  BY DEF OrderInv, SendsInOrder, OneRowPerEmail
<1>3. ASSUME NEW t \in Senders, t # s PROVE SendGuard(t)'
  <2>1. \A j \in 1..Len(outbox') : 
              \/ j \in 1..Len(outbox) /\ outbox'[j] = outbox[j]
              \/ outbox'[j] \in 1..Len(issued) /\ issued[outbox'[j]].email # send[t].email
    OBVIOUS
  <2>2. send'[t] = send[t]
    BY <1>3
  <2>3. /\ \A i \in 1..Len(rows') : rows'[i].email = send[t].email =>
              i \in 1..Len(rows) /\ rows[i].email = send[t].email
        /\ \A i \in 1..Len(rows) : i \in 1..Len(rows') /\ rows'[i].email = rows[i].email
    OBVIOUS
  <2>4. QED
    BY <2>1, <2>2, <2>3, WaitGuard
<1>4. QED
  BY <1>1, <1>2, <1>3 DEF OrderInv, SendsInOrder

(* An issuance: no other send of its address runs.                         *)
LEMMA OrderIssue ==
    ASSUME TypeOK, IInv, OrderInv, Ages, NEW s \in Senders, NEW k \in Codes, Running(s),
           Issue(s, k), UNCHANGED <<held, outbox>>,
           NEW i \in 1..Len(rows'), rows'[i] = NewChallenge(s, k),
           Len(rows') >= Len(rows),
           \A j \in 1..Len(rows') : j # i => j \in 1..Len(rows) /\ rows'[j] = rows[j],
           \A j \in 1..Len(rows) : j \in 1..Len(rows'),
           \A j \in 1..Len(rows) : rows[j].email = send[s].email => j = i,
           i \in 1..Len(rows) => rows[i].email = send[s].email
    PROVE  OrderInv'
<1> DEFINE n == Len(issued) + 1
<1>1. /\ Len(issued') = n /\ n \in Nat /\ issued'[n].email = send[s].email
      /\ \A j \in 1..Len(issued) : issued'[j] = issued[j]
  BY DEF Issue, TypeOK
<1>2. rows'[i].email = send[s].email
  BY DEF NewChallenge
<1>3. /\ At(s, "mail", 0, n).email = send[s].email
      /\ At(s, "mail", 0, n).pc = "mail" /\ At(s, "mail", 0, n).issue = n
  BY DEF At
<1>4. send' = [send EXCEPT ![s] = At(s, "mail", 0, n)]
  BY DEF Issue
<1>5. send'[s] = At(s, "mail", 0, n) /\ \A t \in Senders : t # s => send'[t] = send[t]
  BY <1>4 DEF TypeOK
<1>6. Exclusive'
  BY <1>3, <1>4, GoExclusive
<1>7. Mailed' /\ MailedInOrder'
  BY MailKept
<1>8. OneRowPerEmail'
  <2> SUFFICES ASSUME NEW j \in 1..Len(rows'), NEW m \in 1..Len(rows'),
                      rows'[j].email = rows'[m].email
               PROVE  j = m
    BY DEF OneRowPerEmail
  <2>1. CASE j # i /\ m # i
    BY <2>1 DEF OrderInv, SendsInOrder, OneRowPerEmail
  <2>2. CASE j = i /\ m # i
    BY <2>2, <1>2
  <2>3. CASE j # i /\ m = i
    BY <2>3, <1>2
  <2>4. QED
    BY <2>1, <2>2, <2>3
<1>9. SendGuard(s)'
  <2>1. \A j \in 1..Len(outbox) : outbox[j] < n
    BY DEF OrderInv, Mailed, TypeOK
  <2>2. QED
    BY <2>1, <1>1, <1>3, <1>5 DEF SendGuard
<1>10. ASSUME NEW t \in Senders, t # s PROVE SendGuard(t)'
  <2>1. CASE ~ Running(t)
    BY <2>1, <1>5, <1>10 DEF SendGuard, Running
  <2>2. CASE Running(t)
    <3>1. send[t].email # send[s].email /\ send'[t] = send[t]
      BY <2>2, <1>5, <1>10, OtherAddress
    <3>2. \A j \in 1..Len(rows') : rows'[j].email = send[t].email =>
             j \in 1..Len(rows) /\ rows[j].email = send[t].email
      BY <3>1, <1>2
    <3>3. \A j \in 1..Len(rows) : j \in 1..Len(rows') /\ rows'[j].email = rows[j].email
      BY <1>2
    <3>4. \A j \in 1..Len(outbox') :
              \/ j \in 1..Len(outbox) /\ outbox'[j] = outbox[j]
              \/ outbox'[j] \in 1..Len(issued) /\ issued[outbox'[j]].email # send[t].email
      OBVIOUS
    <3>5. QED
      BY <3>1, <3>2, <3>3, <3>4, WaitGuard
  <2>3. QED
    BY <2>1, <2>2
<1>11. QED
  BY <1>6, <1>7, <1>8, <1>9, <1>10 DEF OrderInv, SendsInOrder

(* A mail: what it carries is newer than all mails of its address.         *)
LEMMA OrderMail ==
    ASSUME TypeOK, IInv, OrderInv, Ages, NEW s \in Senders, SendMail(s)
    PROVE  OrderInv'
<1> DEFINE e == send[s].email
           n == send[s].issue
           m == Len(outbox) + 1
<1>1. /\ Running(s) /\ SendReturn(s) /\ UNCHANGED <<rows, issued>>
      /\ outbox' = Append(outbox, n)
  BY DEF SendMail, Running
<1>2. /\ n \in 1..Len(issued) /\ issued[n].email = e
      /\ \A j \in 1..Len(outbox) : issued[outbox[j]].email = e => outbox[j] < n
  BY DEF SendMail, OrderInv, SendGuard
<1>3. /\ Len(outbox') = m /\ m \in Nat \ {0} /\ outbox'[m] = n
      /\ \A j \in 1..Len(outbox) : outbox'[j] = outbox[j]
  BY <1>1, <1>2 DEF TypeOK
<1> HIDE DEF m
<1>4. \A j \in 1..Len(outbox') : j = m \/ (j \in 1..Len(outbox) /\ outbox'[j] = outbox[j])
  BY <1>3 DEF m
<1>5. Exclusive'
  BY <1>1, ReturnExclusive
<1>6. Mailed'
  BY <1>1, <1>2, <1>3, <1>4 DEF OrderInv, Mailed
<1>7. OneRowPerEmail'
  BY <1>1 DEF OrderInv, SendsInOrder, OneRowPerEmail
<1>8. MailedInOrder'
  <2> SUFFICES ASSUME NEW i \in 1..Len(outbox'), NEW j \in 1..Len(outbox'), i < j,
                      issued[outbox'[i]].email = issued[outbox'[j]].email
               PROVE  outbox'[i] < outbox'[j]
    BY <1>1 DEF MailedInOrder
  <2>1. i \in 1..Len(outbox) /\ outbox'[i] = outbox[i]
    BY <1>3, <1>4
  <2>2. CASE j = m
    BY <2>1, <2>2, <1>2, <1>3
  <2>3. CASE j \in 1..Len(outbox) /\ outbox'[j] = outbox[j]
    BY <2>1, <2>3 DEF OrderInv, SendsInOrder, MailedInOrder
  <2>4. QED
    BY <2>2, <2>3, <1>4
<1>9. ASSUME NEW t \in Senders PROVE SendGuard(t)'
  <2>1. CASE t = s
    <3>1. send'[t].pc = "idle"
      BY <2>1, <1>1 DEF SendReturn, IdleSend, TypeOK
    <3>2. QED
      BY <3>1 DEF SendGuard
  <2>2. CASE t # s
    <3>1. send'[t] = send[t]
      BY <2>2, <1>1 DEF SendReturn, TypeOK
    <3>2. CASE ~ Running(t)
      BY <3>1, <3>2 DEF SendGuard, Running
    <3>3. CASE Running(t)
      <4>1. send[t].email # e
        BY <3>3, <2>2, <1>1, OtherAddress
      <4>2. \A j \in 1..Len(outbox') :
              \/ j \in 1..Len(outbox) /\ outbox'[j] = outbox[j]
              \/ outbox'[j] \in 1..Len(issued) /\ issued[outbox'[j]].email # send[t].email
        BY <4>1, <1>2, <1>3, <1>4
      <4>3. /\ \A j \in 1..Len(rows') : rows'[j].email = send[t].email =>
                  j \in 1..Len(rows) /\ rows[j].email = send[t].email
            /\ \A j \in 1..Len(rows) : j \in 1..Len(rows') /\ rows'[j].email = rows[j].email
        BY <1>1
      <4>4. QED
        BY <3>1, <4>2, <4>3, WaitGuard
    <3>4. QED
      BY <3>2, <3>3
  <2>3. QED
    BY <2>1, <2>2
<1>10. QED
  BY <1>5, <1>6, <1>7, <1>8, <1>9 DEF OrderInv, SendsInOrder

(* A request that returns without having written.                          *)
LEMMA OrderReturn ==
    ASSUME TypeOK, IInv, OrderInv, Ages, NEW s \in Senders, Running(s), SendReturn(s),
           UNCHANGED <<rows, outbox>>
    PROVE  OrderInv'
<1>1. Exclusive'
  BY ReturnExclusive
<1>2. \A t \in Senders : t # s => send'[t] = send[t]
  BY DEF SendReturn, TypeOK
<1>3. SendGuard(s)'
  BY DEF SendReturn, IdleSend, TypeOK, SendGuard
<1>4. QED
  BY <1>1, <1>2, <1>3, OrderFrame

(* A request that goes on to its next statement without having written.    *)
LEMMA OrderGo ==
    ASSUME TypeOK, IInv, OrderInv, Ages, NEW s \in Senders, Running(s),
           UNCHANGED <<rows, outbox, held>>, NEW p, NEW i, NEW n,
           send' = [send EXCEPT ![s] = At(s, p, i, n)],
           p \in {"find", "create", "update"},
           p = "create" => \A j \in 1..Len(rows) : rows[j].email # send[s].email,
           p = "update" => rows[i].email = send[s].email
    PROVE  OrderInv'
<1> DEFINE r == At(s, p, i, n)
<1>1. r.email = send[s].email /\ r.pc = p /\ r.id = i
  BY DEF At
<1>2. send' = [send EXCEPT ![s] = r]
  OBVIOUS
<1> HIDE DEF r
<1>3. Exclusive'
  BY <1>1, <1>2, GoExclusive
<1>4. send'[s] = r /\ \A t \in Senders : t # s => send'[t] = send[t]
  BY <1>2 DEF TypeOK
<1>5. SendGuard(s)'
  BY <1>1, <1>4 DEF SendGuard
<1>6. QED
  BY <1>3, <1>4, <1>5, OrderFrame

(* One case per action that can disturb the order of sends.                *)
LEMMA NextOrder == TypeOK /\ IInv /\ OrderInv /\ [Next]_vars => OrderInv'
<1> SUFFICES ASSUME TypeOK, IInv, OrderInv, [Next]_vars PROVE OrderInv'
  OBVIOUS
<1>0. Ages
  BY NextAges
<1>1. CASE UNCHANGED <<send, held, outbox>> /\ (UNCHANGED rows \/ \E c \in Checkers : CheckCas(c))
  <2>1. Exclusive'
    BY <1>1 DEF OrderInv, Exclusive, Running
  <2>2. Len(rows') = Len(rows) /\ \A i \in 1..Len(rows) : rows'[i].email = rows[i].email
    <3>1. CASE UNCHANGED rows
      BY <3>1
    <3>2. ASSUME NEW c \in Checkers, CheckCas(c), ~ UNCHANGED rows
          PROVE  /\ Len(rows') = Len(rows)
                 /\ \A i \in 1..Len(rows) : rows'[i].email = rows[i].email
      <4>1. PICK i \in 1..Len(rows), matched \in BOOLEAN :
               rows' = [rows EXCEPT ![i] = Spent(@, check[c].seen, matched)]
        BY <3>2 DEF CheckCas, IInv, Ledger
      <4>2. Spent(rows[i], check[c].seen, matched).email = rows[i].email
        BY DEF Spent
      <4>3. QED
        BY <4>1, <4>2 DEF TypeOK
    <3>3. QED
      BY <3>1, <3>2, <1>1
  <2> DEFINE none == CHOOSE x : x \notin Senders
  <2>3. none \notin Senders
    BY NoSetContainsEverything
  <2>4. QED
    BY <1>0, <1>1, <2>1, <2>2, <2>3, OrderFrame
<1>2. ASSUME NEW s \in Senders, NEW e \in Emails, NEW ip \in IPs, SendStart(s, e, ip)
      PROVE  OrderInv'
  <2> DEFINE r == [pc |-> "cooldown", email |-> e, ip |-> ip, now |-> clock,
                   id |-> 0, issue |-> 0]
  <2>1. send' = [send EXCEPT ![s] = r] /\ held' = held \cup {Stripe[e]}
    BY <1>2 DEF SendStart
  <2>2. r.email = e /\ r.pc = "cooldown"
    OBVIOUS
  <2> HIDE DEF r
  <2>3. send'[s] = r /\ \A t \in Senders : t # s => send'[t] = send[t]
    BY <2>1 DEF TypeOK
  <2>4. Exclusive'
    <3>1. \A t \in Senders : t # s /\ Running(t)' =>
             Running(t) /\ Stripe[send[t].email] \in held /\ send'[t] = send[t]
      BY <2>3 DEF OrderInv, Exclusive, Running
    <3>2. Stripe[e] \notin held
      BY <1>2 DEF SendStart
    <3>3. QED
      BY <2>1, <2>2, <2>3, <3>1, <3>2 DEF OrderInv, Exclusive
  <2>5. SendGuard(s)'
    BY <2>2, <2>3 DEF SendGuard
  <2>6. UNCHANGED <<rows, outbox>>
    BY <1>2 DEF SendStart
  <2>7. QED
    BY <1>0, <2>3, <2>4, <2>5, <2>6, OrderFrame
<1>3. ASSUME NEW s \in Senders, SendCooldown(s) PROVE OrderInv'
  <2>1. Running(s) /\ UNCHANGED <<rows, outbox>>
    BY <1>3 DEF SendCooldown, Running
  <2>2. CASE SendReturn(s)
    BY <1>0, <2>1, <2>2, OrderReturn
  <2>3. CASE send' = [send EXCEPT ![s] = At(s, "find", 0, 0)] /\ UNCHANGED held
    BY <1>0, <2>1, <2>3, OrderGo
  <2>4. QED
    BY <1>3, <2>2, <2>3 DEF SendCooldown
<1>4. ASSUME NEW s \in Senders, SendFind(s) PROVE OrderInv'
  <2>1. Running(s) /\ UNCHANGED <<rows, outbox, held>>
    BY <1>4 DEF SendFind, Running
  <2>2. CASE /\ \A i \in 1..Len(rows) : rows[i].email # send[s].email
             /\ send' = [send EXCEPT ![s] = At(s, "create", 0, 0)]
    BY <1>0, <2>1, <2>2, OrderGo
  <2>3. ASSUME NEW i \in 1..Len(rows),
               IsFirst(i, {j \in 1..Len(rows) : rows[j].email = send[s].email}),
               send' = [send EXCEPT ![s] = At(s, "update", i, 0)]
        PROVE  OrderInv'
    <3>1. rows[i].email = send[s].email
      BY <2>3 DEF IsFirst
    <3>2. QED
      BY <1>0, <2>1, <2>3, <3>1, OrderGo
  <2>4. QED
    BY <1>4, <2>2, <2>3 DEF SendFind
<1>5. ASSUME NEW s \in Senders, NEW k \in Codes, SendCreate(s, k) PROVE OrderInv'
  <2>1. NewChallenge(s, k) \in Row
    BY NewChallengeType
  <2>2. PICK i : i = Len(rows) + 1
    OBVIOUS
  <2>3. /\ i \in 1..Len(rows') /\ i \notin 1..Len(rows) /\ rows'[i] = NewChallenge(s, k)
        /\ \A j \in 1..Len(rows') : j # i => j \in 1..Len(rows) /\ rows'[j] = rows[j]
        /\ Len(rows') >= Len(rows) /\ \A j \in 1..Len(rows) : j \in 1..Len(rows')
    BY <1>5, <2>1, <2>2 DEF SendCreate, TypeOK
  <2>4. \A j \in 1..Len(rows) : rows[j].email # send[s].email
    BY <1>5 DEF SendCreate, OrderInv, SendGuard
  <2>5. Running(s) /\ Issue(s, k) /\ UNCHANGED <<held, outbox>>
    BY <1>5 DEF SendCreate, Running
  <2>6. QED
    BY <1>0, <2>3, <2>4, <2>5, OrderIssue
<1>6. ASSUME NEW s \in Senders, NEW k \in Codes, SendUpdate(s, k) PROVE OrderInv'
  <2>1. Running(s) /\ UNCHANGED outbox
    BY <1>6 DEF SendUpdate, Running
  <2>2. CASE ~ Replaceable(rows[send[s].id], send[s].now)
    BY <1>0, <1>6, <2>1, <2>2, OrderReturn DEF SendUpdate
  <2>3. CASE Replaceable(rows[send[s].id], send[s].now)
    <3> PICK i \in 1..Len(rows) : i = send[s].id
      BY <1>6 DEF SendUpdate, IInv, Ledger
    <3>1. NewChallenge(s, k) \in Row
      BY NewChallengeType
    <3>2. /\ rows' = [rows EXCEPT ![i] = NewChallenge(s, k)]
          /\ Issue(s, k) /\ UNCHANGED held
      BY <1>6, <2>3 DEF SendUpdate
    <3>3. /\ i \in 1..Len(rows') /\ rows'[i] = NewChallenge(s, k)
          /\ \A j \in 1..Len(rows') : j # i => j \in 1..Len(rows) /\ rows'[j] = rows[j]
          /\ Len(rows') >= Len(rows) /\ \A j \in 1..Len(rows) : j \in 1..Len(rows')
      BY <3>1, <3>2 DEF TypeOK
    <3>4. rows[i].email = send[s].email
      BY <1>6 DEF SendUpdate, OrderInv, SendGuard
    <3>5. \A j \in 1..Len(rows) : rows[j].email = send[s].email => j = i
      BY <3>4 DEF OrderInv, SendsInOrder, OneRowPerEmail
    <3>6. QED
      BY <1>0, <2>1, <3>2, <3>3, <3>4, <3>5, OrderIssue
  <2>4. QED
    BY <2>2, <2>3
<1>7. ASSUME NEW s \in Senders, SendFail(s) PROVE OrderInv'
  BY <1>0, <1>7, OrderReturn DEF SendFail, Running
<1>8. QED
  BY <1>0, <1>1, <1>2, <1>3, <1>4, <1>5, <1>6, <1>7, OrderMail
     DEF Next, Tick, SendStep, CheckStep, CheckStart, CheckRead, CheckCas, CheckReturn,
         CheckFail, vars

(* AuthEmailSend leaves one challenge per address and hands its codes to   *)
(* the queue in the order in which they were written.                      *)
THEOREM SendsOrdered == Spec => []SendsInOrder
<1>1. OrderInv => SendsInOrder
  BY DEF OrderInv
<1>2. QED
  BY <1>1, TypeCorrect, InitIInv, NextIInv, InitOrder, NextOrder, PTL DEF Spec

-----------------------------------------------------------------------------
(* Who is refused.                                                         *)

(* No check on address e can use issuance n any more.                      *)
Dead(n, e) == \A i \in 1..Len(rows) : rows[i].issue = n => ~ Live(rows[i], e, clock)

(* Every failed compare-and-swap of a check has cost the challenge it      *)
(* first read an attempt, or its life.                                     *)
Paid(n, e, spent) ==
    \A i \in 1..Len(rows) :
       rows[i].issue = n => rows[i].attempts >= spent \/ ~ Live(rows[i], e, clock)

(* What a check saw of an issuance, against the row that still holds it.   *)
Glimpse(i, seen) ==
    /\ seen.issue \in 1..Len(issued)
    /\ seen.code = issued[seen.issue].code
    /\ \A j \in 1..Len(rows) : rows[j].issue = seen.issue => j = i /\ Later(seen, rows[j])

CheckGuard(c) ==
    LET first == check[c].first
        e == check[c].email
    IN /\ first = 0 \/ first \in 1..Len(issued)
       /\ check[c].pc = "read" =>
             IF first = 0 THEN check[c].retry = 0 ELSE Paid(first, e, check[c].retry)
       /\ check[c].pc = "cas" =>
             /\ first # 0
             /\ Glimpse(check[c].id, check[c].seen)
             /\ \/ check[c].seen.issue = first /\ check[c].seen.attempts >= check[c].retry
                \/ Dead(first, e)
       /\ check[c].pc = "refused" /\ first # 0 /\ issued[first].code = check[c].code
             => Dead(first, e)

(* A row holds the code of its issuance until that is consumed.            *)
CodeKept == \A i \in 1..Len(rows) : rows[i].code \in {issued[rows[i].issue].code, NoCode}

RefuseInv == CodeKept /\ \A c \in Checkers : CheckGuard(c)

(* No check runs and no row is stored yet.                                 *)
LEMMA InitRefuse == Init => RefuseInv
<1> SUFFICES ASSUME Init PROVE RefuseInv
  OBVIOUS
<1>1. Len(rows) = 0 /\ \A c \in Checkers : check[c].pc = "idle" /\ check[c].first = 0
  BY DEF Init, IdleCheck
<1>2. QED
  BY <1>1 DEF RefuseInv, CodeKept, CheckGuard

(* Time and other requests never revive a row.                             *)
LEMMA NeverRevived ==
    ASSUME NEW r \in Row, NEW q \in Row, Later(r, q), clock \in Nat, clock' \in Nat,
           clock' >= clock, NEW e
    PROVE  Live(q, e, clock') => Live(r, e, clock)
  BY AttemptsAssumption DEF Later, Live, Row

(* A challenge that is dead for an address stays dead.                     *)
LEMMA DeadStays ==
    ASSUME TypeOK, TypeOK', Ages, NEW n \in 1..Len(issued), NEW e, Dead(n, e)
    PROVE  Dead(n, e)'
<1> SUFFICES ASSUME NEW i \in 1..Len(rows'), rows'[i].issue = n
             PROVE  ~ Live(rows'[i], e, clock')
  BY DEF Dead
<1>1. i \in 1..Len(rows) /\ Later(rows[i], rows'[i])
  BY DEF Ages
<1>2. rows[i] \in Row /\ rows'[i] \in Row /\ clock \in Nat /\ clock' \in Nat /\ clock' >= clock
  BY <1>1 DEF TypeOK, Ages
<1>3. rows[i].issue = n
  BY <1>1 DEF Later
<1>4. ~ Live(rows[i], e, clock)
  BY <1>1, <1>3 DEF Dead
<1>5. QED
  BY <1>1, <1>2, <1>4, NeverRevived

(* What a challenge has paid is not given back.                            *)
LEMMA PaidStays ==
    ASSUME TypeOK, TypeOK', Ages, NEW n \in 1..Len(issued), NEW e, NEW m \in Nat, Paid(n, e, m)
    PROVE  Paid(n, e, m)'
<1> SUFFICES ASSUME NEW i \in 1..Len(rows'), rows'[i].issue = n
             PROVE  rows'[i].attempts >= m \/ ~ Live(rows'[i], e, clock')
  BY DEF Paid
<1>1. i \in 1..Len(rows) /\ Later(rows[i], rows'[i])
  BY DEF Ages
<1>2. rows[i] \in Row /\ rows'[i] \in Row /\ clock \in Nat /\ clock' \in Nat /\ clock' >= clock
  BY <1>1 DEF TypeOK, Ages
<1>3. rows[i].issue = n
  BY <1>1 DEF Later
<1>4. CASE ~ Live(rows[i], e, clock)
  BY <1>1, <1>2, <1>4, NeverRevived
<1>5. CASE rows[i].attempts >= m
  BY <1>1, <1>2, <1>5 DEF Later, Row
<1>6. QED
  BY <1>1, <1>3, <1>4, <1>5 DEF Paid

(* What a check has seen stays an earlier state of that challenge.         *)
LEMMA GlimpseStays ==
    ASSUME TypeOK, TypeOK', Ages, NEW i, NEW seen \in Row, Glimpse(i, seen)
    PROVE  Glimpse(i, seen)'
<1>1. seen.issue \in 1..Len(issued') /\ seen.code = issued'[seen.issue].code
  BY DEF Glimpse, Ages, TypeOK
<1>2. ASSUME NEW j \in 1..Len(rows'), rows'[j].issue = seen.issue
      PROVE  j = i /\ Later(seen, rows'[j])
  <2>1. j \in 1..Len(rows) /\ Later(rows[j], rows'[j])
    BY <1>2 DEF Ages, Glimpse
  <2>2. j = i /\ Later(seen, rows[j])
    BY <2>1, <1>2 DEF Glimpse, Later
  <2>3. rows[j] \in Row /\ rows'[j] \in Row
    BY <2>1 DEF TypeOK
  <2>4. QED
    BY <2>1, <2>2, <2>3 DEF Later, Row
<1>3. QED
  BY <1>1, <1>2 DEF Glimpse

(* A check that does not move keeps its guard.                             *)
LEMMA GuardStays ==
    ASSUME TypeOK, TypeOK', Ages, NEW c \in Checkers, check'[c] = check[c], CheckGuard(c)
    PROVE  CheckGuard(c)'
<1> DEFINE first == check[c].first
           e == check[c].email
<1>0. check[c] \in CheckState /\ check[c].seen \in Row /\ check[c].retry \in Nat
  BY DEF TypeOK, CheckState
<1>1. first = 0 \/ first \in 1..Len(issued)
  BY DEF CheckGuard
<1>2. first = 0 \/ first \in 1..Len(issued')
  BY <1>1 DEF Ages, TypeOK
<1>3. CASE check[c].pc = "read" /\ first # 0
  <2>1. Paid(first, e, check[c].retry)'
    BY <1>0, <1>1, <1>3, PaidStays DEF CheckGuard
  <2>2. QED
    BY <1>2, <1>3, <2>1 DEF CheckGuard
<1>3a. CASE first = 0
  BY <1>3a DEF CheckGuard
<1>4. CASE check[c].pc = "cas"
  <2>1. first # 0 /\ first \in 1..Len(issued)
    BY <1>1, <1>4 DEF CheckGuard
  <2>2. Glimpse(check[c].id, check[c].seen)'
    BY <1>0, <1>4, GlimpseStays DEF CheckGuard
  <2>3. Dead(first, e) => Dead(first, e)'
    BY <2>1, DeadStays
  <2>4. QED
    BY <1>2, <1>4, <2>1, <2>2, <2>3 DEF CheckGuard
<1>5. CASE check[c].pc = "refused" /\ first # 0
  <2>1. issued'[first].code = issued[first].code
    BY <1>1, <1>5 DEF Ages
  <2>2. Dead(first, e) => Dead(first, e)'
    BY <1>1, <1>5, DeadStays
  <2>3. QED
    BY <1>2, <1>5, <2>1, <2>2 DEF CheckGuard
<1>6. QED
  BY <1>2, <1>3, <1>3a, <1>4, <1>5 DEF CheckGuard

(* The rows keep the codes of their issuances.                             *)
LEMMA CodesStay ==
    ASSUME TypeOK, TypeOK', IInv, CodeKept, [Next]_vars
    PROVE  CodeKept'
<1>1. CASE UNCHANGED <<rows, issued>>
  BY <1>1 DEF CodeKept
<1>2. ASSUME NEW s \in Senders, NEW k \in Codes, Issue(s, k), NEW i \in 1..Len(rows'),
             rows'[i] = NewChallenge(s, k),
             \A j \in 1..Len(rows') : j # i => j \in 1..Len(rows) /\ rows'[j] = rows[j]
      PROVE  CodeKept'
  <2>1. /\ \A n \in 1..Len(issued) : issued'[n] = issued[n]
        /\ issued'[Len(issued) + 1].code = k
    BY <1>2 DEF Issue, TypeOK
  <2>2. rows'[i].issue = Len(issued) + 1 /\ rows'[i].code = k
    BY <1>2 DEF NewChallenge
  <2>3. ASSUME NEW j \in 1..Len(rows'), j # i
        PROVE  rows'[j].code \in {issued'[rows'[j].issue].code, NoCode}
    <3>1. j \in 1..Len(rows) /\ rows'[j] = rows[j] /\ rows[j].issue \in 1..Len(issued)
      BY <2>3, <1>2 DEF IInv, Ledger, RowLedger
    <3>2. QED
      BY <3>1, <2>1 DEF CodeKept
  <2>4. QED
    BY <2>1, <2>2, <2>3 DEF CodeKept
<1>3. ASSUME NEW s \in Senders, NEW k \in Codes, SendCreate(s, k) PROVE CodeKept'
  <2>1. NewChallenge(s, k) \in Row
    BY NewChallengeType
  <2>2. PICK i : i = Len(rows) + 1
    OBVIOUS
  <2>3. /\ i \in 1..Len(rows') /\ rows'[i] = NewChallenge(s, k)
        /\ \A j \in 1..Len(rows') : j # i => j \in 1..Len(rows) /\ rows'[j] = rows[j]
    BY <1>3, <2>1, <2>2 DEF SendCreate, TypeOK
  <2>4. QED
    BY <1>2, <1>3, <2>3 DEF SendCreate
<1>4. ASSUME NEW s \in Senders, NEW k \in Codes, SendUpdate(s, k), ~ UNCHANGED <<rows, issued>>
      PROVE  CodeKept'
  <2>1. /\ rows' = [rows EXCEPT ![send[s].id] = NewChallenge(s, k)]
        /\ Issue(s, k)
    BY <1>4 DEF SendUpdate
  <2>2. PICK i \in 1..Len(rows) : i = send[s].id
    BY <1>4 DEF SendUpdate, IInv, Ledger
  <2>3. NewChallenge(s, k) \in Row
    BY NewChallengeType
  <2>4. /\ i \in 1..Len(rows') /\ rows'[i] = NewChallenge(s, k)
        /\ \A j \in 1..Len(rows') : j # i => j \in 1..Len(rows) /\ rows'[j] = rows[j]
    BY <2>1, <2>2, <2>3 DEF TypeOK
  <2>5. QED
    BY <2>1, <2>4, <1>2
<1>5. ASSUME NEW c \in Checkers, CheckCas(c) PROVE CodeKept'
  <2>1. Ages
    BY <1>5, AgesCas
  <2>2. ASSUME NEW j \in 1..Len(rows') PROVE rows'[j].issue \in 1..Len(issued)
    <3>1. Len(rows') = Len(rows) /\ rows'[j].issue = rows[j].issue
      <4>1. CASE UNCHANGED rows
        BY <4>1
      <4>2. CASE ~ UNCHANGED rows
        <5>1. PICK i \in 1..Len(rows), matched \in BOOLEAN :
                 rows' = [rows EXCEPT ![i] = Spent(@, check[c].seen, matched)]
          BY <4>2, <1>5 DEF CheckCas, IInv, Ledger
        <5>2. Spent(rows[i], check[c].seen, matched).issue = rows[i].issue
          BY DEF Spent
        <5>3. QED
          BY <5>1, <5>2 DEF TypeOK
      <4>3. QED
        BY <4>1, <4>2
    <3>2. QED
      BY <3>1 DEF IInv, Ledger, RowLedger
  <2>3. ASSUME NEW j \in 1..Len(rows')
        PROVE  rows'[j].code \in {issued'[rows'[j].issue].code, NoCode}
    <3>1. j \in 1..Len(rows) /\ Later(rows[j], rows'[j])
      BY <2>1, <2>2 DEF Ages
    <3>2. issued'[rows'[j].issue].code = issued[rows[j].issue].code
      BY <2>1, <2>2, <3>1 DEF Ages, Later
    <3>3. QED
      BY <3>1, <3>2 DEF CodeKept, Later
  <2>4. QED
    BY <2>3 DEF CodeKept
<1>6. QED
  BY <1>1, <1>3, <1>4, <1>5
     DEF Next, Tick, SendStep, SendStart, SendCooldown, SendFind, SendMail, SendFail,
         CheckStep, CheckStart, CheckRead, CheckReturn, CheckFail, vars

(* The SELECT: a live row of the address, and there is no other.           *)
LEMMA GuardRead ==
    ASSUME TypeOK, TypeOK', IInv, SendsInOrder, RefuseInv, NEW c \in Checkers, CheckRead(c)
    PROVE  CheckGuard(c)'
<1> DEFINE first == check[c].first
           e == check[c].email
<1>1. UNCHANGED <<clock, rows, issued>> /\ check[c].pc = "read" /\ check[c].retry \in Nat
  BY DEF CheckRead, TypeOK, CheckState
<1>2. /\ first = 0 \/ first \in 1..Len(issued)
      /\ IF first = 0 THEN check[c].retry = 0 ELSE Paid(first, e, check[c].retry)
  BY <1>1 DEF RefuseInv, CheckGuard
<1>3. ASSUME NEW i \in 1..Len(rows),
             IsFirst(i, {j \in 1..Len(rows) : Live(rows[j], e, clock)}),
             check' = [check EXCEPT ![c] = Seen(check[c], i)]
      PROVE  CheckGuard(c)'
  <2> DEFINE r == Seen(check[c], i)
             f == IF first = 0 THEN rows[i].issue ELSE first
  <2>1. /\ r.pc = "cas" /\ r.id = i /\ r.seen = rows[i] /\ r.first = f
        /\ r.email = e /\ r.retry = check[c].retry
    BY DEF Seen
  <2> HIDE DEF r, f
  <2>2. check'[c] = r
    BY <1>3 DEF TypeOK, r
  <2>3. Live(rows[i], e, clock) /\ rows[i] \in Row
    BY <1>3 DEF IsFirst, TypeOK
  <2>4. RowLedger(rows[i]) /\ rows[i].code # NoCode /\ rows[i].code = issued[rows[i].issue].code
    BY <2>3 DEF IInv, Ledger, Live, RefuseInv, CodeKept
  <2>5. Glimpse(i, rows[i])
    <3>1. ASSUME NEW j \in 1..Len(rows), rows[j].issue = rows[i].issue
          PROVE  j = i
      BY <3>1 DEF IInv, Ledger
    <3>2. Later(rows[i], rows[i])
      BY <2>3 DEF Later, Row
    <3>3. QED
      BY <3>1, <3>2, <2>4 DEF Glimpse, RowLedger
  <2>6. f # 0 /\ f \in 1..Len(issued)
    BY <2>4, <1>2 DEF f, RowLedger, TypeOK
  <2>7. (rows[i].issue = f /\ rows[i].attempts >= check[c].retry) \/ Dead(f, e)
    <3>1. CASE first = 0
      <4>1. check[c].retry = 0
        BY <3>1, <1>2
      <4>2. QED
        BY <3>1, <4>1, <2>3 DEF f, Row
    <3>2. CASE first # 0 /\ rows[i].issue = first
      BY <3>2, <1>2, <2>3 DEF f, Paid
    <3>3. CASE first # 0 /\ rows[i].issue # first
      <4>1. ASSUME NEW j \in 1..Len(rows), rows[j].issue = first, Live(rows[j], e, clock)
            PROVE  FALSE
        <5>1. rows[j].email = rows[i].email
          BY <4>1, <2>3 DEF Live
        <5>2. j = i
          BY <5>1 DEF SendsInOrder, OneRowPerEmail
        <5>3. QED
          BY <5>2, <4>1, <3>3
      <4>2. QED
        BY <3>3, <4>1 DEF Dead, f
    <3>4. QED
      BY <3>1, <3>2, <3>3
  <2>8. QED
    BY <1>1, <2>1, <2>2, <2>5, <2>6, <2>7 DEF CheckGuard, Glimpse, Dead
<1>4. ASSUME check[c].retry >= MaxRetry \/ \A i \in 1..Len(rows) : ~ Live(rows[i], e, clock),
             check' = [check EXCEPT ![c] = Left(check[c], "refused", check[c].retry)]
      PROVE  CheckGuard(c)'
  <2> DEFINE r == Left(check[c], "refused", check[c].retry)
  <2>1. r.pc = "refused" /\ r.first = first /\ r.email = e
    BY DEF Left
  <2> HIDE DEF r
  <2>2. check'[c] = r
    BY <1>4 DEF TypeOK, r
  <2>3. ASSUME first # 0, NEW i \in 1..Len(rows), rows[i].issue = first
        PROVE  ~ Live(rows[i], e, clock)
    <3>1. rows[i] \in Row
      BY DEF TypeOK
    <3>2. rows[i].attempts >= MaxAttempts => ~ Live(rows[i], e, clock)
      BY <3>1, AttemptsAssumption DEF Live, Row
    <3>3. QED
      BY <1>1, <1>2, <1>4, <2>3, <3>1, <3>2, AttemptsAssumption DEF Paid, MaxRetry, Row
  <2>4. first # 0 => Dead(first, e)
    BY <2>3 DEF Dead
  <2>5. QED
    BY <1>1, <1>2, <2>1, <2>2, <2>4 DEF CheckGuard, Dead
<1>5. QED
  BY <1>3, <1>4 DEF CheckRead

(* The UPDATE: when it misses, an attempt was spent meanwhile.             *)
LEMMA GuardCas ==
    ASSUME TypeOK, TypeOK', IInv, RefuseInv, NEW c \in Checkers, CheckCas(c)
    PROVE  CheckGuard(c)'
<1> PICK first, e, seen, i, retry :
         /\ first = check[c].first /\ e = check[c].email /\ retry = check[c].retry
         /\ seen = check[c].seen /\ i = check[c].id
  OBVIOUS
<1> DEFINE matched == seen.code = check[c].code
<1>1. Ages /\ UNCHANGED clock
  BY AgesCas DEF CheckCas
<1>2. /\ check[c].pc = "cas" /\ i \in 1..Len(rows) /\ seen \in Row /\ rows[i] \in Row
      /\ retry \in Nat /\ seen.code # NoCode
  BY DEF CheckCas, IInv, Ledger, TypeOK, CheckState
<1>3. /\ first # 0 /\ first \in 1..Len(issued)
      /\ Glimpse(i, seen)
      /\ (seen.issue = first /\ seen.attempts >= retry) \/ Dead(first, e)
  BY <1>2 DEF RefuseInv, CheckGuard
<1>4. /\ first \in 1..Len(issued') /\ issued'[first].code = issued[first].code
  BY <1>1, <1>3 DEF Ages, TypeOK
<1>d. Dead(first, e) => Dead(first, e)'
  BY <1>1, <1>3, DeadStays
<1> HIDE DEF matched
<1>5. CASE SameVersion(rows[i], seen, clock)
  <2> DEFINE p == IF matched THEN "accepted" ELSE "refused"
             r == Left(check[c], p, check[c].retry)
  <2>1. r.pc = p /\ r.first = first /\ r.email = e /\ r.code = check[c].code
    BY DEF Left
  <2>2. check' = [check EXCEPT ![c] = r]
    BY <1>5 DEF CheckCas, matched
  <2> HIDE DEF r
  <2>3. check'[c] = r
    BY <2>2 DEF TypeOK
  <2>4. ~ matched /\ issued[first].code = check[c].code => Dead(first, e)
    BY <1>3 DEF Glimpse, matched
  <2>5. QED
    BY <1>3, <1>4, <1>d, <2>1, <2>3, <2>4 DEF CheckGuard
<1>6. CASE ~ SameVersion(rows[i], seen, clock)
  <2> DEFINE r == Left(check[c], "read", check[c].retry + 1)
  <2>1. r.pc = "read" /\ r.first = first /\ r.email = e /\ r.retry = retry + 1
    BY DEF Left
  <2>2. check' = [check EXCEPT ![c] = r] /\ UNCHANGED <<rows, issued>>
    BY <1>6 DEF CheckCas
  <2> HIDE DEF r
  <2>3. check'[c] = r
    BY <2>2 DEF TypeOK
  <2>4. ASSUME NEW j \in 1..Len(rows), rows[j].issue = first
        PROVE  rows[j].attempts >= retry + 1 \/ ~ Live(rows[j], e, clock)
    <3>1. CASE Dead(first, e)
      BY <2>4, <3>1 DEF Dead
    <3>2. CASE seen.issue = first /\ seen.attempts >= retry
      <4>1. j = i /\ Later(seen, rows[i])
        BY <3>2, <2>4, <1>3 DEF Glimpse
      <4>2. CASE rows[i].attempts = seen.attempts
        <5>1. rows[i].updated = seen.updated /\ rows[i].code \in {seen.code, NoCode}
          BY <4>1 DEF Later
        <5>2. rows[i].code = NoCode \/ ~ (rows[i].expires > clock)
          BY <5>1, <4>2, <1>6 DEF SameVersion
        <5>3. QED
          BY <5>2, <4>1 DEF Live
      <4>3. CASE rows[i].attempts # seen.attempts
        <5>1. rows[i].attempts \in Nat /\ seen.attempts \in Nat
          BY <1>2 DEF Row
        <5>2. rows[i].attempts >= seen.attempts
          BY <4>1 DEF Later
        <5>3. rows[i].attempts >= retry + 1
          BY <5>1, <5>2, <4>3, <3>2, <1>2
        <5>4. QED
          BY <5>3, <4>1
      <4>4. QED
        BY <4>2, <4>3
    <3>3. QED
      BY <3>1, <3>2, <1>3
  <2>5. Paid(first, e, retry + 1)'
    BY <2>4, <2>2, <1>1 DEF Paid
  <2>6. QED
    BY <1>3, <1>4, <2>1, <2>3, <2>5 DEF CheckGuard
<1>7. QED
  BY <1>5, <1>6

(* One case per action of CheckEmailVerifyCode; the rest leaves checks     *)
(* where they are.                                                         *)
LEMMA NextRefuse ==
    TypeOK /\ TypeOK' /\ IInv /\ SendsInOrder /\ RefuseInv /\ [Next]_vars => RefuseInv'
<1> SUFFICES ASSUME TypeOK, TypeOK', IInv, SendsInOrder, RefuseInv, [Next]_vars
             PROVE  RefuseInv'
  OBVIOUS
<1>1. CodeKept'
  BY CodesStay DEF RefuseInv
<1>2. Ages
  BY NextAges
<1>3. ASSUME NEW c \in Checkers, check'[c] = check[c] PROVE CheckGuard(c)'
  BY <1>2, <1>3, GuardStays DEF RefuseInv
<1>4. ASSUME NEW c \in Checkers, NEW r, check' = [check EXCEPT ![c] = r], CheckGuard(c)'
      PROVE  \A d \in Checkers : CheckGuard(d)'
  <2>1. \A d \in Checkers : d # c => check'[d] = check[d]
    BY <1>4 DEF TypeOK
  <2>2. QED
    BY <1>3, <1>4, <2>1
<1>5. ASSUME NEW c \in Checkers, NEW r, check' = [check EXCEPT ![c] = r],
             r.first = 0, r.retry = 0, r.pc \in {"idle", "read"}
      PROVE  \A d \in Checkers : CheckGuard(d)'
  <2>1. check'[c] = r
    BY <1>5 DEF TypeOK
  <2>2. CheckGuard(c)'
    BY <1>5, <2>1 DEF CheckGuard
  <2>3. QED
    BY <1>4, <1>5, <2>2
<1>6. ASSUME NEW c \in Checkers, NEW e \in Emails, NEW k \in Codes, CheckStart(c, e, k)
      PROVE  \A d \in Checkers : CheckGuard(d)'
  <2> DEFINE r == [pc |-> "read", email |-> e, code |-> k, retry |-> 0, id |-> 0,
                   seen |-> NoRow, first |-> 0]
  <2>1. r.first = 0 /\ r.retry = 0 /\ r.pc = "read"
    OBVIOUS
  <2>2. check' = [check EXCEPT ![c] = r]
    BY <1>6 DEF CheckStart
  <2> HIDE DEF r
  <2>3. QED
    BY <2>1, <2>2, <1>5
<1>7. ASSUME NEW c \in Checkers, CheckReturn(c) \/ CheckFail(c)
      PROVE  \A d \in Checkers : CheckGuard(d)'
  <2>1. IdleCheck.first = 0 /\ IdleCheck.retry = 0 /\ IdleCheck.pc = "idle"
    BY DEF IdleCheck
  <2>2. check' = [check EXCEPT ![c] = IdleCheck]
    BY <1>7 DEF CheckReturn, CheckFail
  <2>3. QED
    BY <2>1, <2>2, <1>5
<1>8. ASSUME NEW c \in Checkers, CheckStep(c) PROVE \A d \in Checkers : CheckGuard(d)'
  <2>1. CheckGuard(c)'
    BY <1>8, GuardRead, GuardCas DEF CheckStep
  <2>2. \E r : check' = [check EXCEPT ![c] = r]
    BY <1>8 DEF CheckStep, CheckRead, CheckCas
  <2>3. QED
    BY <2>1, <2>2, <1>4
<1>9. ASSUME UNCHANGED check PROVE \A d \in Checkers : CheckGuard(d)'
  BY <1>3, <1>9
<1>10. \A d \in Checkers : CheckGuard(d)'
  BY <1>6, <1>7, <1>8, <1>9
     DEF Next, Tick, SendStep, SendStart, SendCooldown, SendFind, SendCreate,
         SendUpdate, SendMail, SendFail, vars
<1>11. QED
  BY <1>1, <1>10 DEF RefuseInv

(* CheckEmailVerifyCode turns down the right code for the challenge it     *)
(* first read only when that challenge is dead: emailVerifyMaxAttempts     *)
(* retries are enough, for any number of simultaneous checks.              *)
THEOREM RefusedIfDead == Spec => []RefusedOnlyIfDead
<1>1. RefuseInv => RefusedOnlyIfDead
  BY DEF RefuseInv, CheckGuard, RefusedOnlyIfDead, Dead
<1>2. OrderInv => SendsInOrder
  BY DEF OrderInv
<1>3. QED
  BY <1>1, <1>2, TypeCorrect, InitIInv, NextIInv, InitOrder, NextOrder, InitRefuse,
     NextRefuse, PTL DEF Spec

-----------------------------------------------------------------------------
(* Uploads.                                                                *)

(* The invariant.                                                          *)

UploadPcs == {"idle", "refused", "read", "create", "write", "upgit", "answer", "delete",
              "remove", "done", "failed", "temp"}
UploadSet == [pc : UploadPcs, name : FileNames \cup {NoName}]

(* What the checks let through.                                            *)
Passed(m, o) ==
    /\ m.on \/ o.admin
    /\ m.max # 0 => o.size <= m.max
    /\ o.type # "none"

(* Where request c is, it has a name or none, and it has passed.           *)
Stage(m, o, c) ==
    /\ c.pc \in {"idle", "refused", "read", "create", "temp"} => c.name = NoName
    /\ c.pc \in {"write", "upgit", "answer", "delete", "remove", "done"} => c.name \in FileNames
    /\ c.pc = "read" => m.on \/ o.admin
    /\ (c.pc = "create" \/ c.name \in FileNames) => Passed(m, o)
    /\ c.name \in FileNames => c.name[2] = o.type
    /\ c.pc \in {"upgit", "delete", "remove"} => m.upgit
    /\ c.pc = "delete" => m.del

ImageOf(u) == [by |-> {u}, whole |-> TRUE]

(* What the file d of request u holds, and r that was sent, while no other *)
(* request has its name; K are those whose file could not be removed.      *)
Holds(m, u, x, d, r, K) ==
    /\ x = "write" => d = Nothing
    /\ x = "upgit" => d = ImageOf(u)
    /\ x \in {"answer", "done", "delete"} => (m.upgit => r = ImageOf(u))
    /\ x \in {"delete", "remove"} => d = ImageOf(u)
    /\ x \in {"answer", "done"} =>
          d = IF m.upgit /\ m.del /\ u \notin K THEN NoImage ELSE ImageOf(u)
    /\ x = "failed" => IF u \in K THEN d = ImageOf(u) ELSE d = NoImage \/ ~ d.whole

Files ==
    /\ mode \in Modes /\ milli \in 0..MaxMilli /\ offer \in [Images -> Offers]
    /\ disk \in [FileNames -> Stored] /\ remote \in [Images -> Stored]
    /\ temp \in [Images -> Stored] /\ shared \subseteq Images /\ kept \subseteq Images
    /\ upload \in [Images -> UploadSet]

Stages == \A u \in Images : Stage(mode, offer[u], upload[u])

Apart ==
    \A u, v \in Images :
        u # v /\ upload[u].name \in FileNames /\ upload[v].name = upload[u].name => u \in shared

Alike == \A u \in shared : \E v \in Images \ {u} : offer[v].type = offer[u].type

Owners == \A n \in FileNames, u \in Images : u \in disk[n].by => upload[u].name = n

Sent == \A u \in Images : u \in remote[u].by => upload[u].name \in FileNames

Alone ==
    \A u \in Images \ shared :
        upload[u].name \in FileNames =>
            Holds(mode, u, upload[u].pc, disk[upload[u].name], remote[u], kept)

(* A removal fails at the end of a request only.                           *)
Ended(m, c) == m.upgit /\ c.pc \in {"answer", "done", "failed"} /\ c.name \in FileNames
KeptLate == \A u \in kept : Ended(mode, upload[u])

UploadInv == Files /\ Stages /\ Apart /\ Alike /\ Owners /\ Sent /\ Alone /\ KeptLate

-----------------------------------------------------------------------------
(* Steps.                                                                  *)

(* A name is never the one that stands for no name.                        *)
LEMMA NoNameApart == NoName \notin FileNames
BY DEF NoName, FileNames

(* A request goes on to another step (Reaches).                            *)
LEMMA ReachForm ==
    ASSUME upload \in [Images -> UploadSet], NEW u \in Images, NEW x \in UploadPcs, Reaches(u, x)
    PROVE  \E c \in UploadSet :
              /\ upload' \in [Images -> UploadSet] /\ upload'[u] = c
              /\ c.pc = x /\ c.name = upload[u].name
              /\ \A v \in Images : v # u => upload'[v] = upload[v]
<1> PICK c : c = [upload[u] EXCEPT !.pc = x]
    OBVIOUS
<1>1. c \in UploadSet /\ c.pc = x /\ c.name = upload[u].name
    BY DEF UploadSet
<1>2. upload' = [upload EXCEPT ![u] = c]
    BY DEF Reaches
<1> QED BY <1>1, <1>2

(* A request steps: it touches the file of its name and what it has sent.  *)
LEMMA UploadStep ==
    ASSUME UploadInv, NEW u \in Images, NEW c \in UploadSet,
           UNCHANGED <<mode, offer, milli>>,
           upload' \in [Images -> UploadSet], upload'[u] = c,
           \A v \in Images : v # u => upload'[v] = upload[v],
           disk' \in [FileNames -> Stored], remote' \in [Images -> Stored],
           temp' \in [Images -> Stored], shared \subseteq shared', shared' \subseteq Images,
           Stage(mode, offer[u], c),
           upload[u].name \in FileNames => c.name = upload[u].name,
           \A n \in FileNames : n # c.name => disk'[n] = disk[n],
           \A v \in Images : v # u => remote'[v] = remote[v],
           c.name \in FileNames =>
              \A v \in disk'[c.name].by : v = u \/ v \in disk[c.name].by,
           u \in remote'[u].by => c.name \in FileNames,
           \A v \in Images : v # u /\ c.name \in FileNames /\ upload[v].name = c.name =>
                                u \in shared' /\ v \in shared',
           \A v \in shared' \ shared : \E w \in Images \ {v} : offer[w].type = offer[v].type,
           kept' \subseteq Images, \A v \in Images : v # u => (v \in kept' <=> v \in kept),
           u \in kept' => Ended(mode, c),
           u \notin shared' /\ c.name \in FileNames =>
              Holds(mode, u, c.pc, disk'[c.name], remote'[u], kept')
    PROVE  UploadInv'
<1>1. Files'
    BY DEF UploadInv, Files
<1>2. Stages'
    BY DEF UploadInv, Stages
<1>3. Apart'
    <2> SUFFICES ASSUME NEW v \in Images, NEW w \in Images, v # w,
                        upload'[v].name \in FileNames, upload'[w].name = upload'[v].name
                 PROVE  v \in shared'
        BY DEF Apart
    <2>1. CASE v = u
        BY <2>1
    <2>2. CASE w = u
        BY <2>2
    <2>3. CASE v # u /\ w # u
        BY <2>3 DEF UploadInv, Apart
    <2> QED BY <2>1, <2>2, <2>3
<1>4. Alike'
    BY DEF UploadInv, Alike
<1>5. Owners'
    <2> SUFFICES ASSUME NEW n \in FileNames, NEW v \in Images, v \in disk'[n].by
                 PROVE  upload'[v].name = n
        BY DEF Owners
    <2>1. v = u \/ v \in disk[n].by
        BY DEF UploadInv, Files
    <2>2. v \in disk[n].by => upload[v].name = n
        BY DEF UploadInv, Owners
    <2>3. CASE v # u
        BY <2>1, <2>2, <2>3
    <2>4. CASE v = u
        BY <2>2, <2>4
    <2> QED BY <2>3, <2>4
<1>6. Sent'
    BY DEF UploadInv, Sent
<1>7. Alone'
    <2> SUFFICES ASSUME NEW v \in Images, v \notin shared', upload'[v].name \in FileNames
                 PROVE  Holds(mode, v, upload'[v].pc, disk'[upload'[v].name], remote'[v], kept')
        BY DEF Alone
    <2>1. CASE v = u
        BY <2>1
    <2>2. CASE v # u
        <3>1. upload'[v] = upload[v] /\ remote'[v] = remote[v] /\ v \notin shared
            BY <2>2
        <3>2. upload[v].name # c.name
            BY <2>2, <3>1
        <3>3. disk'[upload[v].name] = disk[upload[v].name]
            BY <3>1, <3>2
        <3>4. Holds(mode, v, upload[v].pc, disk[upload[v].name], remote[v], kept)
            BY <3>1 DEF UploadInv, Alone
        <3>5. v \in kept' <=> v \in kept
            BY <2>2
        <3>6. Holds(mode, v, upload[v].pc, disk[upload[v].name], remote[v], kept')
            BY <3>4, <3>5 DEF Holds
        <3> QED BY <3>1, <3>3, <3>6
    <2> QED BY <2>1, <2>2
<1>8. KeptLate'
    <2> SUFFICES ASSUME NEW v \in kept' PROVE Ended(mode', upload'[v])
        BY DEF KeptLate
    <2>1. CASE v = u
        BY <2>1
    <2>2. CASE v # u
        <3>1. v \in kept /\ upload'[v] = upload[v]
            BY <2>2
        <3>2. Ended(mode, upload[v])
            BY <3>1 DEF UploadInv, KeptLate
        <3> QED BY <3>1, <3>2
    <2> QED BY <2>1, <2>2
<1> QED BY <1>1, <1>2, <1>3, <1>4, <1>5, <1>6, <1>7, <1>8 DEF UploadInv

(* What the invariant says of one request.                                 *)
LEMMA OneUpload ==
    ASSUME UploadInv, NEW u \in Images
    PROVE  /\ upload[u] \in UploadSet /\ Stage(mode, offer[u], upload[u])
           /\ upload[u].name \in FileNames \cup {NoName}
           /\ \A v \in Images : v # u /\ upload[u].name \in FileNames
                                /\ upload[v].name = upload[u].name =>
                                   u \in shared /\ v \in shared
           /\ u \in remote[u].by => upload[u].name \in FileNames
           /\ u \notin shared /\ upload[u].name \in FileNames =>
                Holds(mode, u, upload[u].pc, disk[upload[u].name], remote[u], kept)
           /\ u \in kept => Ended(mode, upload[u])
           /\ kept \subseteq Images
<1>1. upload[u] \in UploadSet /\ upload[u].name \in FileNames \cup {NoName}
    BY DEF UploadInv, Files, UploadSet
<1>2. Stage(mode, offer[u], upload[u])
    BY DEF UploadInv, Stages
<1>3. (u \in kept => Ended(mode, upload[u])) /\ kept \subseteq Images
    BY DEF UploadInv, KeptLate, Files
<1> QED BY <1>1, <1>2, <1>3 DEF UploadInv, Apart, Sent, Alone

(* A request that touches nothing goes on.                                 *)
LEMMA StillStep ==
    ASSUME UploadInv, NEW u \in Images, NEW x \in UploadPcs, Reaches(u, x), Still,
           \A c : c.pc = x /\ c.name = upload[u].name => Stage(mode, offer[u], c),
           u \notin shared /\ upload[u].name \in FileNames =>
              Holds(mode, u, x, disk[upload[u].name], remote[u], kept),
           u \in kept => x \in {"answer", "done", "failed"}
    PROVE  UploadInv'
<1>1. UNCHANGED <<mode, milli, offer, disk, remote, temp, shared, kept>>
    BY DEF Still, Unmoved
<1>2. PICK c \in UploadSet :
         /\ upload' \in [Images -> UploadSet] /\ upload'[u] = c
         /\ c.pc = x /\ c.name = upload[u].name
         /\ \A v \in Images : v # u => upload'[v] = upload[v]
    BY ReachForm DEF UploadInv, Files
<1>3. Stage(mode, offer[u], c)
    BY <1>2
<1>4. disk \in [FileNames -> Stored] /\ remote \in [Images -> Stored]
      /\ temp \in [Images -> Stored] /\ shared \subseteq Images
    BY DEF UploadInv, Files
<1>5. u \in remote[u].by => c.name \in FileNames
    BY <1>2, OneUpload
<1>6. \A v \in Images : v # u /\ c.name \in FileNames /\ upload[v].name = c.name =>
                          u \in shared /\ v \in shared
    BY <1>2, OneUpload
<1>7. (u \in kept => Ended(mode, c)) /\ kept \subseteq Images
    BY <1>2, OneUpload DEF Ended
<1> QED BY <1>1, <1>2, <1>3, <1>4, <1>5, <1>6, <1>7, UploadStep

(* Uploads are off, or too much is declared.                               *)
LEMMA GuardStep ==
    ASSUME UploadInv, NEW u \in Images, Guard(u)
    PROVE  UploadInv'
<1>1. upload[u].name = NoName /\ u \notin kept
    BY OneUpload DEF Guard, Stage, Ended
<1>2. Still /\ (Reaches(u, "refused") \/ (Reaches(u, "read") /\ (mode.on \/ offer[u].admin)))
    BY DEF Guard
<1>3. ASSUME NEW x \in {"refused", "read"}, x = "read" => mode.on \/ offer[u].admin, Reaches(u, x)
      PROVE  UploadInv'
    <2>1. x \in UploadPcs
        BY DEF UploadPcs
    <2>2. \A c : c.pc = x /\ c.name = NoName => Stage(mode, offer[u], c)
        BY <1>3, NoNameApart DEF Stage
    <2> QED BY <1>1, <1>2, <1>3, <2>1, <2>2, NoNameApart, StillStep
<1> QED BY <1>2, <1>3

(* What was read is too much, or no image.                                 *)
LEMMA CheckSizeStep ==
    ASSUME UploadInv, NEW u \in Images, Check(u)
    PROVE  UploadInv'
<1>1. upload[u].name = NoName /\ (mode.on \/ offer[u].admin) /\ u \notin kept
    BY OneUpload DEF Check, Stage, Ended
<1>2. Still /\ (Reaches(u, "refused") \/ (Reaches(u, "create") /\ Passed(mode, offer[u])))
    <2>1. offer[u].size \in 0..2 /\ mode.max \in {0, 1}
        BY UploadAssumption DEF UploadInv, Files, Offer, Mode
    <2>2. ~ TooBig(u) => (mode.max # 0 => offer[u].size <= mode.max)
        BY <2>1 DEF TooBig
    <2> QED BY <1>1, <2>2 DEF Check, Passed
<1>3. ASSUME NEW x \in {"refused", "create"}, x = "create" => Passed(mode, offer[u]),
             Reaches(u, x)
      PROVE  UploadInv'
    <2>1. x \in UploadPcs
        BY DEF UploadPcs
    <2>2. \A c : c.pc = x /\ c.name = NoName => Stage(mode, offer[u], c)
        BY <1>3, NoNameApart DEF Stage
    <2> QED BY <1>1, <1>2, <1>3, <2>1, <2>2, NoNameApart, StillStep
<1> QED BY <1>2, <1>3

(* The address is answered.                                                *)
LEMMA AnswerStep ==
    ASSUME UploadInv, NEW u \in Images, Answer(u)
    PROVE  UploadInv'
<1>1. Still /\ Reaches(u, "done") /\ upload[u].pc = "answer"
    BY DEF Answer
<1>2. \A c : c.pc = "done" /\ c.name = upload[u].name => Stage(mode, offer[u], c)
    BY <1>1, OneUpload DEF Stage
<1>3. u \notin shared /\ upload[u].name \in FileNames =>
        Holds(mode, u, "done", disk[upload[u].name], remote[u], kept)
    BY <1>1, OneUpload DEF Holds
<1>4. "done" \in UploadPcs
    BY DEF UploadPcs
<1> QED BY <1>1, <1>2, <1>3, <1>4, StillStep

(* A file is made or emptied; its name may be shared from now on.          *)
LEMMA CreateStep ==
    ASSUME UploadInv, NEW u \in Images, Create(u)
    PROVE  UploadInv'
<1>1. upload[u].pc = "create" /\ upload[u].name = NoName /\ Passed(mode, offer[u])
      /\ u \notin kept /\ kept \subseteq Images
    BY OneUpload DEF Create, Stage, Ended
<1>2. CASE Reaches(u, "failed") /\ Still
    <2>1. \A c : c.pc = "failed" /\ c.name = NoName => Stage(mode, offer[u], c)
        BY NoNameApart DEF Stage
    <2>2. "failed" \in UploadPcs
        BY DEF UploadPcs
    <2> QED BY <1>1, <1>2, <2>1, <2>2, NoNameApart, StillStep
<1> DEFINE n == <<milli, offer[u].type>>
           same == {v \in Images \ {u} : upload[v].name = n}
<1>3. CASE /\ upload' = [upload EXCEPT ![u] = [pc |-> "write", name |-> n]]
           /\ disk' = [disk EXCEPT ![n] = Nothing]
           /\ shared' = shared \cup same \cup (IF same = {} THEN {} ELSE {u})
           /\ UNCHANGED <<mode, milli, offer, remote, temp, kept>>
    <2> PICK c : c = [pc |-> "write", name |-> n]
        OBVIOUS
    <2>1. offer[u] \in Offer /\ milli \in 0..MaxMilli
        BY UploadAssumption DEF UploadInv, Files
    <2>2. n \in FileNames
        BY <1>1, <2>1 DEF FileNames, Passed, Offer
    <2>3. c \in UploadSet /\ c.pc = "write" /\ c.name = n
        BY <2>2 DEF UploadSet, UploadPcs
    <2>4. /\ upload' \in [Images -> UploadSet] /\ upload'[u] = c
          /\ \A v \in Images : v # u => upload'[v] = upload[v]
        BY <1>3, <2>3 DEF UploadInv, Files
    <2>5. Stage(mode, offer[u], c)
        BY <1>1, <2>2, <2>3 DEF Stage
    <2>6. /\ disk' \in [FileNames -> Stored] /\ disk'[n] = Nothing
          /\ \A m \in FileNames : m # n => disk'[m] = disk[m]
        BY <1>3, <2>2 DEF UploadInv, Files, Nothing, Stored
    <2>7. shared \subseteq shared' /\ shared' \subseteq Images
        BY <1>3 DEF UploadInv, Files
    <2>8. \A v \in Images : v # u /\ upload[v].name = n => u \in shared' /\ v \in shared'
        BY <1>3
    <2>9. ASSUME NEW v \in shared' \ shared
          PROVE  \E w \in Images \ {v} : offer[w].type = offer[v].type
        <3>1. \A w \in same : w \in Images /\ w # u /\ offer[w].type = offer[u].type
            <4> SUFFICES ASSUME NEW w \in Images, upload[w].name = n
                         PROVE  offer[w].type = offer[u].type
                OBVIOUS
            <4>1. n[2] = offer[w].type
                BY <2>2, OneUpload DEF Stage
            <4> QED BY <4>1
        <3>2. v \in same \/ (v = u /\ same # {})
            BY <1>3
        <3> QED BY <3>1, <3>2
    <2>10. Holds(mode, u, c.pc, disk'[c.name], remote'[u], kept')
        BY <2>3, <2>6 DEF Holds
    <2>11. ~ (upload[u].name \in FileNames)
        BY <1>1, NoNameApart
    <2>12. remote \in [Images -> Stored] /\ temp \in [Images -> Stored]
        BY DEF UploadInv, Files
    <2> HIDE DEF n, same
    <2>13. \A v \in disk'[c.name].by : v = u \/ v \in disk[c.name].by
        BY <2>3, <2>6 DEF Nothing
    <2>14. u \notin kept' /\ kept' = kept /\ kept \subseteq Images
        BY <1>1, <1>3
    <2> QED BY <1>3, <2>2, <2>3, <2>4, <2>5, <2>6, <2>7, <2>8, <2>9, <2>10, <2>11, <2>12, <2>13,
               <2>14, UploadStep
<1> QED BY <1>2, <1>3 DEF Create, Unmoved

(* One file, or what one request has sent, is replaced.                    *)
Put(f, n, d) == [f EXCEPT ![n] = d]

(* A request writes its own file, or removes it, or sends it.              *)
LEMMA OwnStep ==
    ASSUME UploadInv, NEW u \in Images, NEW x \in UploadPcs, Reaches(u, x),
           UNCHANGED <<mode, milli, offer, temp, shared>>,
           NEW n \in FileNames, n = upload[u].name,
           \A c : c.pc = x /\ c.name = n => Stage(mode, offer[u], c),
           NEW d \in Stored, disk' = Put(disk, n, d),
           d.by \subseteq disk[n].by \cup {u},
           NEW r \in Stored, remote' = Put(remote, u, r),
           kept' \subseteq Images, \A v \in Images : v # u => (v \in kept' <=> v \in kept),
           u \in kept' => mode.upgit /\ x \in {"answer", "done", "failed"},
           u \notin shared => Holds(mode, u, x, d, r, kept')
    PROVE  UploadInv'
<1>1. PICK c \in UploadSet :
         /\ upload' \in [Images -> UploadSet] /\ upload'[u] = c
         /\ c.pc = x /\ c.name = n
         /\ \A v \in Images : v # u => upload'[v] = upload[v]
    BY ReachForm DEF UploadInv, Files
<1>2. /\ disk' \in [FileNames -> Stored] /\ disk'[n] = d
      /\ \A m \in FileNames : m # n => disk'[m] = disk[m]
    BY DEF UploadInv, Files, Put
<1>3. /\ remote' \in [Images -> Stored] /\ remote'[u] = r
      /\ \A v \in Images : v # u => remote'[v] = remote[v]
    BY DEF UploadInv, Files, Put
<1>4. temp' \in [Images -> Stored] /\ shared' = shared /\ shared \subseteq Images
    BY DEF UploadInv, Files
<1>5. \A v \in Images : v # u /\ upload[v].name = n => u \in shared /\ v \in shared
    BY OneUpload
<1>6. Stage(mode, offer[u], c)
    BY <1>1
<1>7. \A v \in disk'[c.name].by : v = u \/ v \in disk[c.name].by
    BY <1>1, <1>2
<1>8. u \notin shared => Holds(mode, u, c.pc, disk'[c.name], remote'[u], kept')
    BY <1>1, <1>2, <1>3
<1>9. u \in kept' => Ended(mode, c)
    BY <1>1 DEF Ended
<1> QED BY <1>1, <1>2, <1>3, <1>4, <1>5, <1>6, <1>7, <1>8, <1>9, UploadStep

(* What files are made of.                                                 *)
LEMMA StoredFacts ==
    /\ NoImage \in Stored /\ NoImage.by = {} /\ Nothing \in Stored /\ Nothing # NoImage
    /\ \A u \in Images : ImageOf(u) \in Stored /\ ImageOf(u) # NoImage /\ ImageOf(u).by = {u}
<1>1. NoImage \in Stored /\ NoImage.by = {} /\ Nothing \in Stored
    BY DEF NoImage, Nothing, Stored
<1>2. Nothing.whole = FALSE /\ NoImage.whole = TRUE
    BY DEF NoImage, Nothing
<1>3. \A u \in Images : ImageOf(u) \in Stored /\ ImageOf(u).by = {u}
    BY DEF ImageOf, Stored
<1>4. \A u \in Images : ImageOf(u) # NoImage
    BY <1>1, <1>3
<1> QED BY <1>1, <1>2, <1>3, <1>4

(* The bytes are written, all or some.                                     *)
LEMMA WriteStep ==
    ASSUME UploadInv, NEW u \in Images, Write(u)
    PROVE  UploadInv'
<1> PICK n : n = upload[u].name
    OBVIOUS
<1> PICK f, r : f = disk[n] /\ r = remote[u]
    OBVIOUS
<1>1. upload[u].pc = "write" /\ n \in FileNames /\ u \notin kept /\ kept \subseteq Images
    BY OneUpload DEF Write, Stage, Ended
<1>2. f \in Stored /\ r \in Stored /\ remote' = Put(remote, u, r)
    BY <1>1 DEF Write, UploadInv, Files, Put
<1>3. u \notin shared => f = Nothing
    BY <1>1, OneUpload DEF Holds
<1>4. UNCHANGED <<mode, milli, offer, remote, temp, shared, kept>>
    BY DEF Write, Unmoved
<1> DEFINE over == IF f = NoImage THEN NoImage ELSE [by |-> {u}, whole |-> TRUE]
           both == IF f = NoImage THEN NoImage ELSE [by |-> f.by \cup {u}, whole |-> TRUE]
           part == IF f = NoImage THEN NoImage ELSE [by |-> f.by \cup {u}, whole |-> FALSE]
           on == IF mode.upgit THEN "upgit" ELSE "answer"
<1>5. \/ Reaches(u, on) /\ \E c \in {over, both} : disk' = Put(disk, n, c)
      \/ Reaches(u, "failed") /\ disk' = Put(disk, n, part)
    BY DEF Write, Put
<1>6. Passed(mode, offer[u]) /\ n[2] = offer[u].type
    BY <1>1, OneUpload DEF Stage
<1>7. CASE Reaches(u, on) /\ \E c \in {over, both} : disk' = Put(disk, n, c)
    <2> PICK d \in {over, both} : disk' = Put(disk, n, d)
        BY <1>7
    <2>1. d \in Stored /\ d.by \subseteq f.by \cup {u}
        <3>1. f.by \in SUBSET Images
            BY <1>2 DEF Stored
        <3>2. CASE d = NoImage
            BY <3>2, StoredFacts
        <3>3. CASE d = [by |-> {u}, whole |-> TRUE]
            BY <3>3 DEF Stored
        <3>4. CASE d = [by |-> f.by \cup {u}, whole |-> TRUE]
            BY <3>1, <3>4 DEF Stored
        <3> QED BY <3>2, <3>3, <3>4
    <2>2. u \notin shared => d = ImageOf(u)
        BY <1>3, StoredFacts DEF ImageOf, Nothing
    <2>3. u \notin shared => Holds(mode, u, on, d, r, kept')
        BY <1>1, <1>4, <2>2 DEF Holds
    <2>4. \A c : c.pc = on /\ c.name = n => Stage(mode, offer[u], c)
        BY <1>1, <1>6 DEF Stage
    <2>5. on \in UploadPcs
        BY DEF UploadPcs
    <2> HIDE DEF on, over, both
    <2> QED BY <1>1, <1>2, <1>4, <1>7, <2>1, <2>3, <2>4, <2>5, OwnStep
<1>8. CASE Reaches(u, "failed") /\ disk' = Put(disk, n, part)
    <2> PICK d : d = part
        OBVIOUS
    <2>1. d \in Stored /\ d.by \subseteq f.by \cup {u} /\ (d = NoImage \/ ~ d.whole)
        BY <1>2, StoredFacts DEF Stored
    <2>2. Holds(mode, u, "failed", d, r, kept')
        BY <1>1, <1>4, <2>1 DEF Holds
    <2>3. \A c : c.pc = "failed" /\ c.name = n => Stage(mode, offer[u], c)
        BY <1>1, <1>6 DEF Stage
    <2>4. "failed" \in UploadPcs /\ disk' = Put(disk, n, d)
        BY <1>8 DEF UploadPcs
    <2> HIDE DEF part
    <2> QED BY <1>1, <1>2, <1>4, <1>8, <2>1, <2>2, <2>3, <2>4, OwnStep
<1> QED BY <1>5, <1>7, <1>8

(* The file is sent, or cannot be sent.                                    *)
LEMMA UpgitStep ==
    ASSUME UploadInv, NEW u \in Images, Upgit(u)
    PROVE  UploadInv'
<1> PICK n : n = upload[u].name
    OBVIOUS
<1> PICK d, r : d = disk[n] /\ r = remote'[u]
    OBVIOUS
<1>1. upload[u].pc = "upgit" /\ n \in FileNames /\ mode.upgit /\ u \notin kept
      /\ kept \subseteq Images
    BY OneUpload DEF Upgit, Stage, Ended
<1>2. d \in Stored /\ disk' = Put(disk, n, d)
    BY <1>1 DEF Upgit, UploadInv, Files, Put
<1>3. u \notin shared => d = ImageOf(u)
    BY <1>1, OneUpload DEF Holds
<1>4. UNCHANGED <<mode, milli, offer, disk, temp, shared, kept>>
    BY DEF Upgit, Unmoved
<1>5. Passed(mode, offer[u]) /\ n[2] = offer[u].type
    BY <1>1, OneUpload DEF Stage
<1> PICK x : x = IF mode.del THEN "delete" ELSE "answer"
    OBVIOUS
<1>6. CASE remote' = Put(remote, u, d) /\ Reaches(u, x)
    <2>1. u \notin shared => Holds(mode, u, x, d, d, kept')
        BY <1>1, <1>3, <1>4 DEF Holds
    <2>2. \A c : c.pc = x /\ c.name = n => Stage(mode, offer[u], c)
        BY <1>1, <1>5 DEF Stage
    <2>3. x \in UploadPcs /\ d.by \subseteq disk[n].by \cup {u}
        BY DEF UploadPcs
    <2>4. UNCHANGED <<mode, milli, offer, temp, shared>> /\ kept' \subseteq Images
          /\ kept' = kept /\ u \notin kept'
        BY <1>1, <1>4
    <2>5. n = upload[u].name /\ n \in FileNames
        BY <1>1
    <2> QED BY ONLY UploadInv, u \in Images, <1>2, <1>6, <2>1, <2>2, <2>3, <2>4, <2>5, OwnStep
<1>7. CASE (\E s \in {remote[u], d} : remote' = Put(remote, u, s)) /\ Reaches(u, "remove")
    <2>1. u \notin shared => Holds(mode, u, "remove", d, r, kept')
        BY <1>3 DEF Holds
    <2>2. \A c : c.pc = "remove" /\ c.name = n => Stage(mode, offer[u], c)
        BY <1>1, <1>5 DEF Stage
    <2>3. "remove" \in UploadPcs /\ d.by \subseteq disk[n].by \cup {u}
        BY DEF UploadPcs
    <2>4. r \in Stored /\ remote' = Put(remote, u, r)
        <3>1. remote \in [Images -> Stored]
            BY DEF UploadInv, Files
        <3> QED BY <1>2, <1>7, <3>1 DEF Put
    <2> QED BY <1>1, <1>2, <1>4, <1>7, <2>1, <2>2, <2>3, <2>4, OwnStep
<1> QED BY <1>6, <1>7 DEF Upgit, Put

(* The file is removed, after it was sent or could not be; or it stays.    *)
LEMMA DelLocalStep ==
    ASSUME UploadInv, NEW u \in Images, DelLocal(u)
    PROVE  UploadInv'
<1> PICK n : n = upload[u].name
    OBVIOUS
<1> PICK r : r = remote[u]
    OBVIOUS
<1> PICK x : x = IF upload[u].pc = "delete" THEN "answer" ELSE "failed"
    OBVIOUS
<1>1. upload[u].pc \in {"delete", "remove"} /\ n \in FileNames /\ mode.upgit
      /\ (x = "answer" => upload[u].pc = "delete" /\ mode.del)
    BY OneUpload DEF DelLocal, Stage
<1>2. /\ Reaches(u, x) /\ UNCHANGED <<mode, milli, offer, remote, temp, shared>>
      /\ \/ disk' = Put(disk, n, NoImage) /\ kept' = kept
         \/ disk' = disk /\ kept' = kept \cup {u}
    BY DEF DelLocal, Put
<1>3. r \in Stored /\ remote' = Put(remote, u, r)
    BY <1>2 DEF UploadInv, Files, Put
<1>4. Passed(mode, offer[u]) /\ n[2] = offer[u].type
    BY <1>1, OneUpload DEF Stage
<1>5. \A c : c.pc = x /\ c.name = n => Stage(mode, offer[u], c)
    BY <1>1, <1>4 DEF Stage
<1>6. u \notin shared => /\ upload[u].pc = "delete" => r = ImageOf(u)
                         /\ disk[n] = ImageOf(u)
    BY <1>1, OneUpload DEF Holds
<1>7. u \notin kept /\ kept \subseteq Images
    BY <1>1, OneUpload DEF Ended
<1>8. x \in UploadPcs /\ x \in {"answer", "done", "failed"} /\ NoImage \in Stored
      /\ NoImage.by \subseteq disk[n].by \cup {u}
    BY StoredFacts DEF UploadPcs
<1>9. CASE disk' = Put(disk, n, NoImage) /\ kept' = kept
    <2> PICK d : d = NoImage
        OBVIOUS
    <2>1. u \notin shared => Holds(mode, u, x, d, r, kept')
        BY <1>1, <1>6, <1>7, <1>9 DEF Holds
    <2>2. d \in Stored /\ disk' = Put(disk, n, d) /\ d.by \subseteq disk[n].by \cup {u}
        BY <1>8, <1>9
    <2>3. kept' \subseteq Images /\ u \notin kept' /\ \A v \in Images : v \in kept' <=> v \in kept
        BY <1>7, <1>9
    <2> QED BY <1>1, <1>2, <1>3, <1>5, <1>8, <2>1, <2>2, <2>3, OwnStep
<1>10. CASE disk' = disk /\ kept' = kept \cup {u}
    <2> PICK d : d = disk[n]
        OBVIOUS
    <2>1. u \notin shared => Holds(mode, u, x, d, r, kept')
        BY <1>1, <1>6, <1>10 DEF Holds
    <2>2. d \in Stored /\ disk' = Put(disk, n, d) /\ d.by \subseteq disk[n].by \cup {u}
        BY <1>1, <1>10 DEF UploadInv, Files, Put
    <2>3. kept' \subseteq Images /\ \A v \in Images : v # u => (v \in kept' <=> v \in kept)
        BY <1>7, <1>10
    <2> QED BY <1>1, <1>2, <1>3, <1>5, <1>8, <2>1, <2>2, <2>3, OwnStep
<1> QED BY <1>2, <1>9, <1>10

(* A file to import is no image, and has no name.                          *)
LEMMA TransferStep ==
    ASSUME UploadInv, NEW u \in Images, TransferUpload(u)
    PROVE  UploadInv'
<1>1. upload[u].name = NoName /\ u \notin kept /\ kept \subseteq Images
    BY OneUpload DEF TransferUpload, Stage, Ended
<1>2. PICK x \in {"temp", "failed"} : Reaches(u, x)
    BY DEF TransferUpload
<1>3. UNCHANGED <<mode, milli, offer, disk, remote, shared, kept>>
    BY DEF TransferUpload, Unmoved
<1>4. temp' \in [Images -> Stored]
    BY DEF TransferUpload, UploadInv, Files, Stored
<1>5. PICK c \in UploadSet :
         /\ upload' \in [Images -> UploadSet] /\ upload'[u] = c
         /\ c.pc = x /\ c.name = NoName
         /\ \A v \in Images : v # u => upload'[v] = upload[v]
    <2>1. x \in UploadPcs
        BY DEF UploadPcs
    <2> QED BY <1>1, <1>2, <2>1, ReachForm DEF UploadInv, Files
<1>6. Stage(mode, offer[u], c)
    BY <1>5, NoNameApart DEF Stage
<1>7. disk \in [FileNames -> Stored] /\ remote \in [Images -> Stored] /\ shared \subseteq Images
    BY DEF UploadInv, Files
<1>8. u \notin remote[u].by
    BY <1>1, NoNameApart, OneUpload
<1> QED BY <1>1, <1>3, <1>4, <1>5, <1>6, <1>7, <1>8, NoNameApart, UploadStep

(* The server starts.                                                      *)
LEMMA UploadInitInv == UploadInit => UploadInv
<1> SUFFICES ASSUME UploadInit PROVE UploadInv
    OBVIOUS
<1>1. \A u \in Images : upload[u].pc = "idle" /\ upload[u].name = NoName
    BY DEF UploadInit
<1>2. Files
    BY StoredFacts, UploadAssumption DEF UploadInit, Files, UploadSet, UploadPcs
<1>3. Stages
    BY <1>1, NoNameApart DEF Stages, Stage
<1>4. Apart /\ Alike /\ Alone
    BY <1>1, NoNameApart DEF UploadInit, Apart, Alike, Alone
<1>5. Owners /\ Sent /\ KeptLate
    BY StoredFacts DEF UploadInit, Owners, Sent, Nothing, KeptLate
<1> QED BY <1>2, <1>3, <1>4, <1>5 DEF UploadInv

(* Every step keeps the invariant.                                         *)
LEMMA UploadNextInv ==
    ASSUME UploadInv, [UploadNext]_uploadVars
    PROVE  UploadInv'
<1>1. CASE UNCHANGED uploadVars
    BY <1>1 DEF uploadVars, UploadInv, Files, Stages, Apart, Alike, Owners, Sent, Alone, KeptLate
<1>2. CASE Milli
    <2>1. milli' \in 0..MaxMilli
        BY <1>2, UploadAssumption DEF Milli, UploadInv, Files
    <2> QED BY <1>2, <2>1 DEF Milli, UploadInv, Files, Stages, Apart, Alike, Owners, Sent, Alone,
                              KeptLate
<1>3. ASSUME NEW u \in Images,
             \/ Guard(u) \/ Check(u) \/ Create(u) \/ Write(u) \/ Upgit(u) \/ DelLocal(u)
             \/ Answer(u) \/ TransferUpload(u)
      PROVE  UploadInv'
    BY <1>3, GuardStep, CheckSizeStep, CreateStep, WriteStep, UpgitStep, DelLocalStep, AnswerStep,
       TransferStep
<1> QED BY <1>1, <1>2, <1>3 DEF UploadNext

-----------------------------------------------------------------------------
(* The property.                                                           *)

(* The invariant says what the run checks.                                 *)
LEMMA UploadInvSound == UploadInv => UploadsSound
<1> SUFFICES ASSUME UploadInv PROVE UploadsSound
    OBVIOUS
<1>1. UploadTypeOK
    BY OneUpload DEF UploadInv, Files, UploadTypeOK
<1>2. LinksOwn
    <2>1. ASSUME NEW u \in Images, upload[u].pc = "done", u \notin shared
          PROVE  /\ mode.upgit => remote[u] = ImageOf(u)
                 /\ ~ (mode.upgit /\ mode.del) => disk[upload[u].name] = ImageOf(u)
        <3>1. upload[u].name \in FileNames
            BY <2>1, OneUpload DEF Stage
        <3> QED BY <2>1, <3>1, OneUpload DEF Holds
    <2>2. \A u \in shared : \E v \in Images \ {u} : offer[v].type = offer[u].type
        BY DEF UploadInv, Alike
    <2> QED BY <2>1, <2>2 DEF LinksOwn, ImageOf
<1>3. NothingLeft
    <2>1. ASSUME NEW u \in Images, NEW n \in FileNames, u \in disk[n].by \cup remote[u].by
          PROVE  /\ mode.on \/ offer[u].admin
                 /\ mode.max # 0 => offer[u].size <= mode.max
                 /\ u \in disk[n].by => upload[u].name = n /\ offer[u].type = n[2]
        <3>1. /\ u \in disk[n].by => upload[u].name = n
              /\ u \in remote[u].by => upload[u].name \in FileNames
            BY DEF UploadInv, Owners, Sent
        <3>2. upload[u].name \in FileNames
            BY <2>1, <3>1
        <3>3. Passed(mode, offer[u]) /\ upload[u].name[2] = offer[u].type
            BY <3>2, OneUpload DEF Stage
        <3> QED BY <3>1, <3>3 DEF Passed
    <2>2. ASSUME NEW u \in Images \ shared,
                 upload[u].pc = "failed" \/ (upload[u].pc = "done" /\ mode.upgit /\ mode.del),
                 u \notin kept
          PROVE  \/ upload[u].name = NoName \/ disk[upload[u].name] = NoImage
                 \/ ~ disk[upload[u].name].whole
        <3>1. upload[u].name \in FileNames =>
                Holds(mode, u, upload[u].pc, disk[upload[u].name], remote[u], kept)
            BY OneUpload
        <3> QED BY <2>2, <3>1, OneUpload DEF Holds
    <2>3. ASSUME NEW u \in Images \ shared, u \in kept
          PROVE  mode.upgit /\ disk[upload[u].name] = ImageOf(u)
        <3>1. Ended(mode, upload[u])
            BY <2>3, OneUpload
        <3>2. Holds(mode, u, upload[u].pc, disk[upload[u].name], remote[u], kept)
            BY <3>1, OneUpload DEF Ended
        <3> QED BY <2>3, <3>1, <3>2 DEF Holds, Ended
    <2> QED BY <2>1, <2>2, <2>3 DEF NothingLeft, ImageOf
<1> QED BY <1>1, <1>2, <1>3 DEF UploadsSound

(* Uploads keep what they were given, and nothing else (Upload): an answer *)
(* shows the image of its own request, what was refused is nowhere, and    *)
(* failures leave no whole file but one that could not be removed, however *)
(* requests overlap.                                                       *)
THEOREM UploadsCorrect == UploadSpec => []UploadsSound
<1>1. UploadInv /\ [UploadNext]_uploadVars => UploadInv'
    BY UploadNextInv
<1> QED BY <1>1, UploadInitInv, UploadInvSound, PTL DEF UploadSpec

-----------------------------------------------------------------------------
(* Numbers.                                                                *)

(* A set of numbers that is not empty has a least element.                 *)
LEMMA LeastNumber ==
    ASSUME NEW S, S \subseteq Nat, S # {}
    PROVE  \E i \in S : \A j \in S : i <= j
<1> DEFINE less == {ss \in Nat \X Nat : ss[1] < ss[2]}
<1>1. \A x, y \in Nat : <<x, y>> \in less <=> x < y
  OBVIOUS
<1>2. IsWellFoundedOn(less, Nat)
  BY NatLessThanWellFounded DEF OpToRel
<1> HIDE DEF less
<1>3. PICK i \in S : \A j \in S : <<j, i>> \notin less
  BY <1>2, WFMin
<1>4. \A j \in S : i <= j
  <2> SUFFICES ASSUME NEW j \in S PROVE i <= j
    OBVIOUS
  <2>1. i \in Nat /\ j \in Nat
    OBVIOUS
  <2>2. ~ (j < i)
    BY <1>1, <1>3, <2>1
  <2> QED
    BY <2>1, <2>2
<1> QED
  BY <1>4

(* A set with 0 and the successors of its numbers has all numbers.         *)
LEMMA AllNumbers ==
    ASSUME NEW S, 0 \in S, \A n \in Nat : n \in S => n + 1 \in S
    PROVE  Nat \subseteq S
<1> SUFFICES ASSUME Nat \ S # {} PROVE FALSE
  OBVIOUS
<1>1. PICK i \in Nat \ S : \A j \in Nat \ S : i <= j
  <2>1. Nat \ S \subseteq Nat
    OBVIOUS
  <2> QED
    BY <2>1, LeastNumber
<1>2. i # 0 /\ i - 1 \in Nat /\ (i - 1) + 1 = i
  OBVIOUS
<1>3. i - 1 \in S
  BY <1>1, <1>2
<1> QED
  BY <1>1, <1>2, <1>3


-----------------------------------------------------------------------------
(* The chain of parents.                                                   *)

(* Parents are comments.                                                   *)
ParentsFit == base.rid \in Parents

(* A chain of parents up to its place n.                                   *)
ChainOf(c, S, f, n) == IF n = 0 THEN c ELSE Up(f[n - 1], S)

(* The chain of Top is there.                                              *)
LEMMA ChainThere ==
    ASSUME NEW c, NEW S
    PROVE  \E f : f = [n \in 0..MaxComment |-> ChainOf(c, S, f, n)]
<1> DEFINE T == {m \in Nat : \E f : f = [i \in 0..m |-> ChainOf(c, S, f, i)]}
<1>1. 0 \in T
  <2>1. PICK g : g = [i \in 0..0 |-> c]
    OBVIOUS
  <2>2. g = [i \in 0..0 |-> ChainOf(c, S, g, i)]
    BY <2>1 DEF ChainOf
  <2> QED
    BY <2>2
<1>2. ASSUME NEW m \in Nat, m \in T PROVE m + 1 \in T
  <2>1. PICK f : f = [i \in 0..m |-> ChainOf(c, S, f, i)]
    BY <1>2
  <2>2. PICK x : x = ChainOf(c, S, f, m + 1)
    OBVIOUS
  <2>3. PICK g : g = [i \in 0..(m + 1) |-> IF i = m + 1 THEN x ELSE f[i]]
    OBVIOUS
  <2>4. \A i \in 0..m : g[i] = f[i]
    BY <2>3
  <2>5. ASSUME NEW i \in 0..(m + 1)
        PROVE  ChainOf(c, S, g, i) = ChainOf(c, S, f, i)
    <3>1. CASE i = 0
      BY <3>1 DEF ChainOf
    <3>2. CASE i # 0
      <4>1. i - 1 \in 0..m
        BY <3>2
      <4>2. g[i - 1] = f[i - 1]
        BY <2>4, <4>1
      <4> QED
        BY <3>2, <4>2 DEF ChainOf
    <3> QED
      BY <3>1, <3>2
  <2>6. \A i \in 0..(m + 1) : g[i] = ChainOf(c, S, g, i)
    <3> SUFFICES ASSUME NEW i \in 0..(m + 1) PROVE g[i] = ChainOf(c, S, g, i)
      OBVIOUS
    <3>1. CASE i = m + 1
      BY <2>2, <2>3, <2>5, <3>1
    <3>2. CASE i # m + 1
      <4>1. i \in 0..m
        BY <3>2
      <4>2. g[i] = f[i] /\ f[i] = ChainOf(c, S, f, i)
        BY <2>1, <2>4, <4>1
      <4> QED
        BY <2>5, <4>2
    <3> QED
      BY <3>1, <3>2
  <2>7. g = [i \in 0..(m + 1) |-> ChainOf(c, S, g, i)]
    BY <2>3, <2>6
  <2> QED
    BY <2>7
<1> HIDE DEF T
<1>3. MaxComment \in T
  BY <1>1, <1>2, AllNumbers, MigrationAssumption
<1> QED
  BY <1>3 DEF T

(* The path from a comment.                                                *)
LEMMA PathBy ==
    ASSUME NEW c, NEW S
    PROVE  \E f : /\ Path(c, S) = f /\ f = [n \in 0..MaxComment |-> f[n]] /\ f[0] = c
                  /\ \A n \in 0..(MaxComment - 1) : f[n + 1] = Up(f[n], S)
<1>1. PICK g : g = CHOOSE step : step = [n \in 0..MaxComment |->
                     IF n = 0 THEN c ELSE Up(step[n - 1], S)]
  OBVIOUS
<1>2. Path(c, S) = g
  BY <1>1 DEF Path
<1>3. \E f : f = [n \in 0..MaxComment |-> IF n = 0 THEN c ELSE Up(f[n - 1], S)]
  <2>1. PICK f : f = [n \in 0..MaxComment |-> ChainOf(c, S, f, n)]
    BY ChainThere
  <2> QED
    BY <2>1 DEF ChainOf
<1>4. g = [n \in 0..MaxComment |-> IF n = 0 THEN c ELSE Up(g[n - 1], S)]
  BY <1>1, <1>3
<1>5. g = [n \in 0..MaxComment |-> ChainOf(c, S, g, n)]
  BY <1>4 DEF ChainOf
<1>6. 0 \in 0..MaxComment
  BY MigrationAssumption
<1>7. g[0] = c
  BY <1>5, <1>6 DEF ChainOf
<1>8. ASSUME NEW n \in 0..(MaxComment - 1) PROVE g[n + 1] = Up(g[n], S)
  <2>1. n + 1 \in 0..MaxComment /\ n + 1 # 0 /\ (n + 1) - 1 = n
    BY MigrationAssumption
  <2> QED
    BY <1>5, <2>1 DEF ChainOf
<1>9. g = [n \in 0..MaxComment |-> g[n]]
  BY <1>5
<1> QED
  BY <1>2, <1>7, <1>8, <1>9

(* Top is the last of a chain.                                             *)
LEMMA TopBy ==
    ASSUME NEW c, NEW S
    PROVE  \E f : /\ Top(c, S) = f[MaxComment] /\ f[0] = c
                  /\ \A n \in 0..(MaxComment - 1) : f[n + 1] = Up(f[n], S)
BY PathBy DEF Top

(* A step up leads to a comment.                                           *)
LEMMA UpFits ==
    ASSUME ParentsFit, NEW p \in CommentIds, NEW S
    PROVE  Up(p, S) \in CommentIds
<1>1. base.rid[p] \in 0..MaxComment /\ MaxComment \in Nat
  BY MigrationAssumption DEF ParentsFit, Parents
<1> QED
  BY <1>1 DEF Up, CommentIds

(* A chain is one of comments, and that of the next comment is one step    *)
(* ahead.                                                                  *)
LEMMA TopEnds ==
    ASSUME ParentsFit, NEW c \in CommentIds, NEW S
    PROVE  /\ Top(c, S) \in CommentIds
           /\ Top(Up(c, S), S) = Up(Top(c, S), S)
<1>1. MaxComment \in Nat
  BY MigrationAssumption
<1>2. PICK f : /\ Top(c, S) = f[MaxComment] /\ f[0] = c
               /\ \A n \in 0..(MaxComment - 1) : f[n + 1] = Up(f[n], S)
  BY TopBy
<1>3. PICK u \in CommentIds : u = Up(c, S)
  BY UpFits
<1>4. PICK g : /\ Top(u, S) = g[MaxComment] /\ g[0] = u
               /\ \A n \in 0..(MaxComment - 1) : g[n + 1] = Up(g[n], S)
  BY TopBy
<1> DEFINE T == {n \in Nat : n <= MaxComment => f[n] \in CommentIds /\ g[n] = Up(f[n], S)}
<1>5. 0 \in T
  BY <1>1, <1>2, <1>3, <1>4
<1>6. ASSUME NEW n \in Nat, n \in T PROVE n + 1 \in T
  <2> SUFFICES ASSUME n + 1 <= MaxComment
               PROVE  f[n + 1] \in CommentIds /\ g[n + 1] = Up(f[n + 1], S)
    OBVIOUS
  <2>1. n \in 0..(MaxComment - 1) /\ n <= MaxComment
    BY <1>1
  <2>2. PICK p \in CommentIds : p = f[n]
    BY <1>6, <2>1
  <2>3. PICK q \in CommentIds : q = f[n + 1] /\ q = Up(p, S)
    BY <1>2, <2>1, <2>2, UpFits
  <2>4. g[n + 1] = Up(q, S)
    BY <1>4, <1>6, <2>1, <2>2, <2>3
  <2> QED
    BY <2>3, <2>4
<1> HIDE DEF T
<1>7. MaxComment \in T
  BY <1>1, <1>5, <1>6, AllNumbers
<1>8. f[MaxComment] \in CommentIds /\ g[MaxComment] = Up(f[MaxComment], S)
  <2>1. MaxComment <= MaxComment
    BY <1>1
  <2> QED
    BY <1>7, <2>1 DEF T
<1> QED
  BY <1>2, <1>3, <1>4, <1>8

(* A path that does not end comes back to a comment.                       *)
LEMMA PathFits ==
    ASSUME ParentsFit, NEW c \in CommentIds, NEW S
    PROVE  Path(c, S)[Min(SeenAgain(Path(c, S)))] \in CommentIds
<1>1. MaxComment \in Nat
  BY MigrationAssumption
<1>2. PICK f : /\ Path(c, S) = f /\ f = [n \in 0..MaxComment |-> f[n]] /\ f[0] = c
               /\ \A n \in 0..(MaxComment - 1) : f[n + 1] = Up(f[n], S)
  BY PathBy
<1> DEFINE T == {n \in Nat : n <= MaxComment => f[n] \in CommentIds}
<1>3. 0 \in T
  BY <1>2
<1>4. ASSUME NEW n \in Nat, n \in T PROVE n + 1 \in T
  <2> SUFFICES ASSUME n + 1 <= MaxComment PROVE f[n + 1] \in CommentIds
    OBVIOUS
  <2>1. n \in 0..(MaxComment - 1) /\ n <= MaxComment
    BY <1>1
  <2> QED
    BY <1>2, <1>4, <2>1, UpFits
<1>5. Nat \subseteq T
  <2> HIDE DEF T
  <2> QED
    BY <1>3, <1>4, AllNumbers
<1>6. ASSUME NEW n \in 0..MaxComment PROVE f[n] \in CommentIds
  BY <1>1, <1>5
<1> HIDE DEF T
<1>7. f \in [0..MaxComment -> CommentIds]
  BY <1>2, <1>6
<1>8. \E n, m \in 0..MaxComment : n # m /\ f[n] = f[m]
  <2>1. /\ IsFiniteSet(0..MaxComment) /\ Cardinality(0..MaxComment) = MaxComment + 1
        /\ IsFiniteSet(1..MaxComment) /\ Cardinality(1..MaxComment) = MaxComment
    BY <1>1, FS_Interval
  <2>2. Cardinality(CommentIds) < Cardinality(0..MaxComment) /\ IsFiniteSet(CommentIds)
    BY <1>1, <2>1 DEF CommentIds
  <2> QED
    BY <1>7, <2>1, <2>2, FS_PigeonHole
<1>9. \E n, m \in 0..MaxComment : n < m /\ f[m] = f[n]
  BY <1>1, <1>8
<1> PICK I : I = SeenAgain(f)
  OBVIOUS
<1>10. I \subseteq 0..MaxComment /\ I # {}
  BY <1>9 DEF SeenAgain
<1>11. Min(I) \in I
  <2>1. PICK x \in I : \A y \in I : x <= y
    BY <1>1, <1>10, LeastNumber
  <2> QED
    BY <2>1 DEF Min
<1> QED
  BY <1>2, <1>6, <1>10, <1>11

(* The root that is looked up is a comment, and the end of the chain if it *)
(* has one.                                                                *)
LEMMA RootFits ==
    ASSUME ParentsFit, NEW c \in CommentIds
    PROVE  /\ FindCommentRootID(c) \in CommentIds
           /\ Rooted(c) => FindCommentRootID(c) = Top(c, LiveRows)
<1>1. Top(c, LiveRows) \in CommentIds
  BY TopEnds
<1>2. FindCommentRootID(c) \in CommentIds
  BY <1>1, PathFits DEF FindCommentRootID
<1>3. ASSUME Rooted(c) PROVE FindCommentRootID(c) = Top(c, LiveRows)
  BY <1>3 DEF FindCommentRootID, Rooted, Up
<1> QED
  BY <1>2, <1>3

(* Where no step leads further the chain ends.                             *)
LEMMA TopHere ==
    ASSUME ParentsFit, NEW c \in CommentIds, NEW S, Up(c, S) = c
    PROVE  Top(c, S) = c
<1>1. PICK f : /\ Top(c, S) = f[MaxComment] /\ f[0] = c
               /\ \A n \in 0..(MaxComment - 1) : f[n + 1] = Up(f[n], S)
  BY TopBy
<1>2. MaxComment \in Nat
  BY MigrationAssumption
<1> DEFINE T == {n \in Nat : n <= MaxComment => f[n] = c}
<1>3. 0 \in T
  BY <1>1
<1>4. ASSUME NEW n \in Nat, n \in T PROVE n + 1 \in T
  <2> SUFFICES ASSUME n + 1 <= MaxComment PROVE f[n + 1] = c
    OBVIOUS
  <2>1. n \in 0..(MaxComment - 1) /\ n <= MaxComment
    BY <1>2
  <2> QED
    BY <1>1, <1>4, <2>1
<1> HIDE DEF T
<1>5. MaxComment \in T
  BY <1>2, <1>3, <1>4, AllNumbers
<1> QED
  BY <1>1, <1>2, <1>5 DEF T

(* The end of a chain does not depend on comments that it does not meet.   *)
LEMMA TopSame ==
    ASSUME NEW S, NEW U, NEW P,
           \A p \in P : (p \in S <=> p \in U) /\ Up(p, S) \in P,
           NEW c \in P
    PROVE  Top(c, S) = Top(c, U) /\ Top(c, S) \in P
<1>1. MaxComment \in Nat
  BY MigrationAssumption
<1>2. PICK f : /\ Top(c, S) = f[MaxComment] /\ f[0] = c
               /\ \A n \in 0..(MaxComment - 1) : f[n + 1] = Up(f[n], S)
  BY TopBy
<1>3. PICK g : /\ Top(c, U) = g[MaxComment] /\ g[0] = c
               /\ \A n \in 0..(MaxComment - 1) : g[n + 1] = Up(g[n], U)
  BY TopBy
<1> DEFINE T == {n \in Nat : n <= MaxComment => f[n] \in P /\ g[n] = f[n]}
<1>4. 0 \in T
  BY <1>2, <1>3
<1>5. ASSUME NEW n \in Nat, n \in T PROVE n + 1 \in T
  <2> SUFFICES ASSUME n + 1 <= MaxComment PROVE f[n + 1] \in P /\ g[n + 1] = f[n + 1]
    OBVIOUS
  <2>1. n \in 0..(MaxComment - 1) /\ n <= MaxComment
    BY <1>1
  <2>2. PICK p \in P : p = f[n] /\ p = g[n]
    BY <1>5, <2>1
  <2>3. f[n + 1] = Up(p, S) /\ g[n + 1] = Up(p, U)
    BY <1>2, <1>3, <2>1, <2>2
  <2>4. Up(p, U) = Up(p, S)
    BY DEF Up
  <2> QED
    BY <2>3, <2>4
<1> HIDE DEF T
<1>6. MaxComment \in T
  BY <1>1, <1>4, <1>5, AllNumbers
<1> QED
  BY <1>1, <1>2, <1>3, <1>6 DEF T

(* A chain that reaches a root among the comments of S is the same in any  *)
(* set with more of them.                                                  *)
LEMMA TopMore ==
    ASSUME NEW S, NEW U, S \subseteq U, NEW c, Top(c, S) \in S
    PROVE  Top(c, U) = Top(c, S)
<1>1. MaxComment \in Nat
  BY MigrationAssumption
<1>2. PICK f : /\ Top(c, S) = f[MaxComment] /\ f[0] = c
               /\ \A n \in 0..(MaxComment - 1) : f[n + 1] = Up(f[n], S)
  BY TopBy
<1>3. PICK g : /\ Top(c, U) = g[MaxComment] /\ g[0] = c
               /\ \A n \in 0..(MaxComment - 1) : g[n + 1] = Up(g[n], U)
  BY TopBy
<1> DEFINE T == {n \in Nat : n <= MaxComment /\ f[n] \in S => g[n] = f[n]}
<1>4. 0 \in T
  BY <1>2, <1>3
<1>5. ASSUME NEW n \in Nat, n \in T PROVE n + 1 \in T
  <2> SUFFICES ASSUME n + 1 <= MaxComment, f[n + 1] \in S PROVE g[n + 1] = f[n + 1]
    OBVIOUS
  <2>1. n \in 0..(MaxComment - 1) /\ n <= MaxComment
    BY <1>1
  <2>2. f[n + 1] = Up(f[n], S) /\ g[n + 1] = Up(g[n], U)
    BY <1>2, <1>3, <2>1
  <2>3. f[n] \in S
    BY <2>2 DEF Up
  <2>4. g[n] = f[n]
    BY <1>5, <2>1, <2>3
  <2> QED
    BY <2>2, <2>3, <2>4 DEF Up
<1> HIDE DEF T
<1>6. MaxComment \in T
  BY <1>1, <1>4, <1>5, AllNumbers
<1> QED
  BY <1>1, <1>2, <1>3, <1>6 DEF T

-----------------------------------------------------------------------------
(* The start on an old database.                                           *)

(* What is taken for granted of the database that is found.                *)
FoundFit ==
    /\ base \in Database /\ ParentsFit
    /\ base.indexes \subseteq base.columns
    /\ base.comments \subseteq comments
    /\ \A c \in comments : \E b \in comments : base.rid[c] <= b

(* The stages of a launch: once the column of the proofs has its name,     *)
(* once all columns are there, once the indexes are, and once constraints  *)
(* are gone.                                                               *)
Unbound == {"merge", "clear", "insert", "serving"}
Indexes == {"drop"} \cup Unbound
Complete == {"indexes"} \cup Indexes
Renamed == {"renameIndex", "columns"} \cup Complete

Key == "guest_key_hash"
Token == "guest_token_hash"
SchemaFits ==
    /\ ~ ({Key, Token} \subseteq columns)
    /\ columns = {} => comments = {}
    /\ bound => base.constrains
    /\ boot \in Renamed => Key \notin columns
    /\ boot \in Complete => Model \subseteq columns
    /\ boot \in Indexes => Indexed \subseteq indexes
    /\ boot \in Unbound => ~ bound
    /\ faults = 0 /\ Key \in indexes => Key \in columns \/ boot = "renameIndex"

(* One column has all proofs.                                              *)
ProofsPlaced ==
    /\ Token \in columns => proved[Token] = HasProof
    /\ Key \in columns => proved[Key] = HasProof
    /\ Key \in columns => proved[Token] = {}
    /\ Key \notin columns /\ Token \notin columns => HasProof = {} /\ proved[Token] = {}

(* A comment that a migration or a visitor has reached has the root of its *)
(* thread.                                                                 *)
RootsTrue ==
    \A c \in LiveRows \ missed : base.rid[c] # 0 /\ Rooted(c) => root[c] = Top(c, LiveRows)

(* This launch reaches all comments: nothing has failed so far.            *)
Unfailing == faults = 0 \/ (faultless /\ "root" \in env)
NoneMissed ==
    /\ faults = 0 => faultless
    /\ faults = 0 /\ boot \in {Off, "open"} => "root_id" \notin columns \/ missed \cap LiveRows = {}
    /\ Unfailing /\ boot \in {"fill", "load", "loop"} => "root_id" \in columns
    /\ Unfailing /\ boot = "loop" => missed \cap LiveRows \subseteq todo
    /\ Unfailing /\ boot \in {"zero", "rename"} \cup Renamed => missed \cap LiveRows = {}

MigrationIInv ==
    MigrationTypeOK /\ FoundFit /\ SchemaFits /\ ProofsPlaced /\ RootsTrue /\ NoneMissed

(* The ends of chains depend on the parents alone.                         *)
LEMMA TopFrame ==
    ASSUME base' = base
    PROVE  \A c, S : Top(c, S)' = Top(c, S)
BY DEF Top, Path, Up

(* What was found stays what it was.                                       *)
LEMMA FoundFrame ==
    ASSUME FoundFit, base' = base, comments' = comments
    PROVE  FoundFit'
BY DEF FoundFit, ParentsFit

(* Steps that leave the proofs and their columns alone.                    *)
LEMMA ProofFrame ==
    ASSUME ProofsPlaced, base' = base, columns' = columns, comments' = comments,
           proved' = proved
    PROVE  ProofsPlaced'
BY DEF ProofsPlaced, HasProof, Key, Token

(* Steps that leave the comments alone, and their roots.                   *)
LEMMA RootFrame ==
    ASSUME base' = base, comments' = comments
    PROVE  /\ LiveRows' = LiveRows
           /\ \A c : Rooted(c)' <=> Rooted(c)
           /\ root' = root /\ missed' = missed /\ RootsTrue => RootsTrue'
<1>1. LiveRows' = LiveRows
  BY DEF LiveRows
<1>2. \A c, S : Top(c, S)' = Top(c, S)
  BY TopFrame
<1>3. \A c : Rooted(c)' <=> Rooted(c)
  BY <1>1, <1>2 DEF Rooted
<1> QED
  BY <1>1, <1>2, <1>3 DEF RootsTrue

(* A statement that fails: nothing is promised any more.                   *)
LEMMA FailStep ==
    ASSUME MigrationIInv, NEW pc \in Steps, Fails(pc),
           pc \in {Off, "fill", "load", "rename", "loop"} \/ (pc = "insert" /\ boot = "clear"),
           pc = "loop" => todo' \subseteq CommentIds
    PROVE  MigrationIInv'
<1>1. /\ MigrationTypeOK /\ FoundFit /\ SchemaFits /\ ProofsPlaced /\ RootsTrue /\ NoneMissed
      /\ faults < MaxFaults /\ faults' = faults + 1 /\ faultless' = FALSE
      /\ boot' = pc /\ base' = base /\ env' = env /\ boots' = boots
      /\ columns' = columns /\ indexes' = indexes /\ comments' = comments /\ root' = root
      /\ proved' = proved /\ bound' = bound /\ missed' = missed
  BY DEF MigrationIInv, Fails, schema
<1>2. faults' \in 0..MaxFaults /\ faults' # 0
  <2>1. faults \in 0..MaxFaults /\ MaxFaults \in Nat
    BY <1>1, MigrationAssumption DEF MigrationTypeOK
  <2> QED
    BY <1>1, <2>1
<1>3. MigrationTypeOK'
  BY <1>1, <1>2 DEF MigrationTypeOK
<1>4. FoundFit' /\ ProofsPlaced' /\ RootsTrue'
  BY <1>1, FoundFrame, ProofFrame, RootFrame
<1>5. SchemaFits'
  BY <1>1, <1>2 DEF SchemaFits, Unbound, Indexes, Complete, Renamed, Off, Key, Token
<1>6. NoneMissed'
  BY <1>1, <1>2 DEF NoneMissed, Unfailing
<1> QED
  BY <1>3, <1>4, <1>5, <1>6 DEF MigrationIInv

(* A statement whose failure ends the process.                             *)
LEMMA FatalStep ==
    ASSUME MigrationIInv, Fatal
    PROVE  MigrationIInv'
<1>1. Off \in Steps
  BY DEF Steps
<1> QED
  BY <1>1, FailStep DEF Fatal, Off

(* Going on: the stage changes, nothing that is kept.                      *)
LEMMA GoStep ==
    ASSUME MigrationIInv, NEW pc \in Steps, pc # "loop", pc # "open",
           boot' = pc, UNCHANGED <<base, schema, env, faultless, faults, boots>>,
           pc \in Renamed => Key \notin columns,
           pc \in Complete => Model \subseteq columns,
           pc \in Indexes => Indexed \subseteq indexes,
           pc \in Unbound => ~ bound,
           pc # "renameIndex", boot # "renameIndex",
           faults = 0 /\ pc = Off => missed \cap LiveRows = {},
           Unfailing /\ pc \in {"fill", "load"} => "root_id" \in columns,
           Unfailing /\ pc \in {"zero", "rename"} \cup Renamed => missed \cap LiveRows = {}
    PROVE  MigrationIInv'
<1>1. /\ MigrationTypeOK /\ FoundFit /\ SchemaFits /\ ProofsPlaced /\ RootsTrue /\ NoneMissed
      /\ base' = base /\ env' = env /\ boots' = boots /\ faults' = faults
      /\ faultless' = faultless
      /\ columns' = columns /\ indexes' = indexes /\ comments' = comments /\ root' = root
      /\ proved' = proved /\ bound' = bound /\ missed' = missed
  BY DEF MigrationIInv, schema
<1>2. MigrationTypeOK'
  BY <1>1 DEF MigrationTypeOK
<1>3. FoundFit' /\ ProofsPlaced' /\ RootsTrue' /\ LiveRows' = LiveRows
  BY <1>1, FoundFrame, ProofFrame, RootFrame
<1>4. SchemaFits'
  BY <1>1 DEF SchemaFits
<1>5. Unfailing' <=> Unfailing
  BY <1>1 DEF Unfailing
<1>6. NoneMissed'
  BY <1>1, <1>3, <1>5 DEF NoneMissed
<1> QED
  BY <1>2, <1>3, <1>4, <1>6 DEF MigrationIInv

(* The process is launched, and ends.                                      *)
LEMMA LaunchSteps ==
    ASSUME MigrationIInv,
           (\E e \in SUBSET {"root", "merge"} : Launch(e)) \/ Opened \/ Stop \/ Kill
    PROVE  MigrationIInv'
<1>1. /\ MigrationTypeOK /\ FoundFit /\ SchemaFits /\ ProofsPlaced /\ RootsTrue /\ NoneMissed
  BY DEF MigrationIInv
<1>2. ASSUME NEW e \in SUBSET {"root", "merge"}, Launch(e) PROVE MigrationIInv'
  <2>1. /\ boot = Off /\ boots < MaxBoots /\ boot' = "open" /\ env' = e /\ boots' = boots + 1
        /\ faultless' = TRUE /\ base' = base /\ todo' = todo /\ faults' = faults
        /\ columns' = columns /\ indexes' = indexes /\ comments' = comments /\ root' = root
        /\ proved' = proved /\ bound' = bound /\ missed' = missed
    BY <1>2 DEF Launch, schema
  <2>2. boots' \in 0..MaxBoots
    <3>1. boots \in 0..MaxBoots /\ MaxBoots \in Nat
      BY <1>1, MigrationAssumption DEF MigrationTypeOK
    <3> QED
      BY <2>1, <3>1
  <2>3. MigrationTypeOK'
    BY <1>1, <2>1, <2>2 DEF MigrationTypeOK, Steps
  <2>4. FoundFit' /\ ProofsPlaced' /\ RootsTrue' /\ LiveRows' = LiveRows
    BY <1>1, <2>1, FoundFrame, ProofFrame, RootFrame
  <2>5. SchemaFits'
    BY <1>1, <2>1 DEF SchemaFits, Unbound, Indexes, Complete, Renamed, Off, Key, Token
  <2>6. NoneMissed'
    BY <1>1, <2>1, <2>4 DEF NoneMissed, Renamed, Complete, Indexes, Unbound, Off
  <2> QED
    BY <2>3, <2>4, <2>5, <2>6 DEF MigrationIInv
<1>3. CASE Opened
  <2>1. CASE Fatal
    BY <2>1, FatalStep
  <2>2. CASE ~ Fatal
    <3>1. PICK pc : pc = IF columns # {} /\ ("root_id" \notin columns \/ "root" \in env)
                         THEN "addRoot" ELSE "rename"
      OBVIOUS
    <3>2. /\ boot = "open" /\ boot' = pc
          /\ UNCHANGED <<base, schema, env, faultless, faults, boots>>
      BY <1>3, <2>2, <3>1 DEF Opened, Goes
    <3>3. pc \in {"addRoot", "rename"} /\ pc \in Steps
      BY <3>1 DEF Steps
    <3>4. Unfailing /\ pc = "rename" => missed \cap LiveRows = {}
      <4> SUFFICES ASSUME Unfailing, pc = "rename" PROVE missed \cap LiveRows = {}
        OBVIOUS
      <4>1. CASE columns = {}
        BY <1>1, <4>1 DEF SchemaFits, MigrationTypeOK
      <4>2. CASE columns # {}
        <5>1. "root_id" \in columns /\ "root" \notin env
          BY <3>1, <4>2
        <5> QED
          BY <1>1, <3>2, <5>1 DEF NoneMissed, Unfailing
      <4> QED
        BY <4>1, <4>2
    <3> QED
      BY <3>2, <3>3, <3>4, GoStep DEF Renamed, Complete, Indexes, Unbound, Off
  <2> QED
    BY <2>1, <2>2
<1>4. CASE Stop
  <2>1. boot = "serving" /\ boot' = Off /\ UNCHANGED <<base, schema, env, faultless, faults, boots>>
    BY <1>4 DEF Stop, Goes
  <2>2. Off \in Steps
    BY DEF Steps
  <2>3. faults = 0 => missed \cap LiveRows = {}
    BY <1>1, <2>1 DEF NoneMissed, Unfailing, Renamed, Complete, Indexes, Unbound
  <2> QED
    BY <2>1, <2>2, <2>3, GoStep DEF Renamed, Complete, Indexes, Unbound, Off
<1>5. CASE Kill
  BY <1>5, FatalStep DEF Kill
<1> QED
  BY <1>2, <1>3, <1>4, <1>5

(* The recursive query finds the root of a thread that has one.            *)
LEMMA HierarchyRight ==
    ASSUME MigrationTypeOK, FoundFit, NEW c \in CommentIds
    PROVE  /\ Hierarchy(c) \in 0..MaxComment
           /\ Rooted(c) => Hierarchy(c) = Top(c, LiveRows)
<1>1. MaxComment \in Nat /\ ParentsFit /\ LiveRows \subseteq comments
  BY MigrationAssumption DEF FoundFit, LiveRows
<1>2. Top(c, comments) \in CommentIds
  BY <1>1, TopEnds
<1>3. Hierarchy(c) \in 0..MaxComment
  BY <1>1, <1>2 DEF Hierarchy, CommentIds
<1>4. ASSUME Rooted(c) PROVE Hierarchy(c) = Top(c, LiveRows)
  <2>1. Top(c, LiveRows) \in LiveRows /\ base.rid[Top(c, LiveRows)] = 0
    BY <1>4 DEF Rooted
  <2>2. Top(c, comments) = Top(c, LiveRows)
    BY <1>1, <2>1, TopMore
  <2> QED
    BY <1>1, <2>1, <2>2 DEF Hierarchy
<1> QED
  BY <1>3, <1>4

(* The column is added.                                                    *)
LEMMA AddRootStep ==
    ASSUME MigrationIInv, AddRoot
    PROVE  MigrationIInv'
<1>1. /\ MigrationTypeOK /\ FoundFit /\ SchemaFits /\ ProofsPlaced /\ RootsTrue /\ NoneMissed
      /\ boot = "addRoot"
  BY DEF MigrationIInv, AddRoot
<1>2. CASE Fails("fill")
  <2>1. "fill" \in Steps
    BY DEF Steps
  <2> QED
    BY <1>2, <2>1, FailStep
<1>3. CASE ~ Fails("fill")
  <2>1. /\ boot' = "fill" /\ columns' = columns \cup {"root_id"}
        /\ base' = base /\ env' = env /\ boots' = boots /\ faults' = faults
        /\ faultless' = faultless /\ todo' = todo
        /\ indexes' = indexes /\ comments' = comments /\ root' = root
        /\ proved' = proved /\ bound' = bound /\ missed' = missed
    BY <1>3 DEF AddRoot, Goes
  <2>2. MigrationTypeOK'
    BY <1>1, <2>1 DEF MigrationTypeOK, Steps, Columns
  <2>3. FoundFit' /\ RootsTrue' /\ LiveRows' = LiveRows
    BY <1>1, <2>1, FoundFrame, RootFrame
  <2>4. ProofsPlaced'
    BY <1>1, <2>1 DEF ProofsPlaced, HasProof, Key, Token
  <2>5. SchemaFits'
    BY <1>1, <2>1 DEF SchemaFits, Unbound, Indexes, Complete, Renamed, Key, Token
  <2>6. NoneMissed'
    BY <1>1, <2>1, <2>3
       DEF NoneMissed, Unfailing, Renamed, Complete, Indexes, Unbound, Off
  <2> QED
    BY <2>2, <2>3, <2>4, <2>5, <2>6 DEF MigrationIInv
<1> QED
  BY <1>2, <1>3

(* The roots are filled by the query.                                      *)
LEMMA FillStep ==
    ASSUME MigrationIInv, Fill
    PROVE  MigrationIInv'
<1>1. /\ MigrationTypeOK /\ FoundFit /\ SchemaFits /\ ProofsPlaced /\ RootsTrue /\ NoneMissed
      /\ boot = "fill"
  BY DEF MigrationIInv, Fill
<1>2. CASE Fails("load")
  <2>1. "load" \in Steps
    BY DEF Steps
  <2> QED
    BY <1>2, <2>1, FailStep
<1>3. CASE Goes("load") /\ UNCHANGED schema
  <2>1. /\ boot' = "load" /\ UNCHANGED <<base, schema, env, faultless, faults, boots>>
        /\ "load" \in Steps
    BY <1>3 DEF Goes, Steps
  <2>2. Unfailing => "root_id" \in columns
    BY <1>1 DEF NoneMissed
  <2> QED
    BY <1>1, <2>1, <2>2, GoStep DEF Renamed, Complete, Indexes, Unbound, Off
<1>4. CASE ~ Fails("load") /\ ~ (Goes("load") /\ UNCHANGED schema)
  <2>1. /\ boot' = "zero" /\ missed' = {}
        /\ root' = [c \in CommentIds |-> IF c \in comments THEN Hierarchy(c) ELSE 0]
        /\ base' = base /\ env' = env /\ boots' = boots /\ faults' = faults
        /\ faultless' = faultless /\ todo' = todo
        /\ columns' = columns /\ indexes' = indexes /\ comments' = comments
        /\ proved' = proved /\ bound' = bound
    BY <1>4 DEF Fill, Goes
  <2>2. \A c \in CommentIds : Hierarchy(c) \in 0..MaxComment
    BY <1>1, HierarchyRight
  <2>3. 0 \in 0..MaxComment
    BY MigrationAssumption
  <2>4. root' \in [CommentIds -> 0..MaxComment]
    BY <2>1, <2>2, <2>3
  <2>5. MigrationTypeOK'
    BY <1>1, <2>1, <2>4 DEF MigrationTypeOK, Steps
  <2>6. FoundFit' /\ ProofsPlaced' /\ LiveRows' = LiveRows /\ \A c : Rooted(c)' <=> Rooted(c)
    BY <1>1, <2>1, FoundFrame, ProofFrame, RootFrame
  <2>7. RootsTrue'
    <3> SUFFICES ASSUME NEW c \in LiveRows, Rooted(c) PROVE root'[c] = Top(c, LiveRows)
      BY <2>1, <2>6, TopFrame DEF RootsTrue
    <3>1. c \in CommentIds /\ c \in comments
      BY <1>1 DEF LiveRows, MigrationTypeOK
    <3> QED
      BY <1>1, <2>1, <3>1, HierarchyRight
  <2>8. SchemaFits'
    BY <1>1, <2>1 DEF SchemaFits, Unbound, Indexes, Complete, Renamed, Key, Token
  <2>9. NoneMissed'
    BY <1>1, <2>1 DEF NoneMissed, Unfailing, Renamed, Complete, Indexes, Unbound, Off
  <2> QED
    BY <2>5, <2>6, <2>7, <2>8, <2>9 DEF MigrationIInv
<1> QED
  BY <1>2, <1>3, <1>4

(* The roots of threads get 0; no reply is the root of its own thread.     *)
LEMMA ZeroStep ==
    ASSUME MigrationIInv, ZeroRoots
    PROVE  MigrationIInv'
<1>1. /\ MigrationTypeOK /\ FoundFit /\ SchemaFits /\ ProofsPlaced /\ RootsTrue /\ NoneMissed
      /\ boot = "zero"
  BY DEF MigrationIInv, ZeroRoots
<1>2. CASE Fails("rename")
  <2>1. "rename" \in Steps
    BY DEF Steps
  <2> QED
    BY <1>2, <2>1, FailStep
<1>3. CASE ~ Fails("rename")
  <2>1. /\ boot' = "rename"
        /\ root' = [c \in CommentIds |-> IF c \in LiveRows /\ root[c] = c THEN 0 ELSE root[c]]
        /\ base' = base /\ env' = env /\ boots' = boots /\ faults' = faults
        /\ faultless' = faultless /\ todo' = todo
        /\ columns' = columns /\ indexes' = indexes /\ comments' = comments
        /\ proved' = proved /\ bound' = bound /\ missed' = missed
    BY <1>3 DEF ZeroRoots, Goes
  <2>2. 0 \in 0..MaxComment
    BY MigrationAssumption
  <2>3. root' \in [CommentIds -> 0..MaxComment]
    BY <1>1, <2>1, <2>2 DEF MigrationTypeOK
  <2>4. MigrationTypeOK'
    BY <1>1, <2>1, <2>3 DEF MigrationTypeOK, Steps
  <2>5. FoundFit' /\ ProofsPlaced' /\ LiveRows' = LiveRows /\ \A c : Rooted(c)' <=> Rooted(c)
    BY <1>1, <2>1, FoundFrame, ProofFrame, RootFrame
  <2>6. RootsTrue'
    <3> SUFFICES ASSUME NEW c \in LiveRows \ missed, base.rid[c] # 0, Rooted(c)
                 PROVE  root'[c] = Top(c, LiveRows)
      BY <2>1, <2>5, TopFrame DEF RootsTrue
    <3>1. c \in CommentIds
      BY <1>1 DEF LiveRows, MigrationTypeOK
    <3>2. root[c] = Top(c, LiveRows)
      BY <1>1 DEF RootsTrue
    <3>3. root[c] # c
      BY <3>2 DEF Rooted
    <3> QED
      BY <2>1, <3>1, <3>2, <3>3
  <2>7. SchemaFits'
    BY <1>1, <2>1 DEF SchemaFits, Unbound, Indexes, Complete, Renamed, Key, Token
  <2>8. NoneMissed'
    BY <1>1, <2>1, <2>5 DEF NoneMissed, Unfailing, Renamed, Complete, Indexes, Unbound, Off
  <2> QED
    BY <2>4, <2>5, <2>6, <2>7, <2>8 DEF MigrationIInv
<1> QED
  BY <1>2, <1>3

(* The fallback loads the comments that are not deleted.                   *)
LEMMA LoadStep ==
    ASSUME MigrationIInv, Load
    PROVE  MigrationIInv'
<1>1. /\ MigrationTypeOK /\ FoundFit /\ SchemaFits /\ ProofsPlaced /\ RootsTrue /\ NoneMissed
      /\ boot = "load"
  BY DEF MigrationIInv, Load
<1>2. CASE Fatal
  BY <1>2, FatalStep
<1>3. CASE ~ Fatal
  <2>1. /\ boot' = "loop" /\ todo' = LiveRows
        /\ base' = base /\ env' = env /\ boots' = boots /\ faults' = faults
        /\ faultless' = faultless
        /\ columns' = columns /\ indexes' = indexes /\ comments' = comments /\ root' = root
        /\ proved' = proved /\ bound' = bound /\ missed' = missed
    BY <1>3 DEF Load, schema
  <2>2. LiveRows \subseteq CommentIds
    BY <1>1 DEF LiveRows, MigrationTypeOK
  <2>3. MigrationTypeOK'
    BY <1>1, <2>1, <2>2 DEF MigrationTypeOK, Steps
  <2>4. FoundFit' /\ ProofsPlaced' /\ RootsTrue' /\ LiveRows' = LiveRows
    BY <1>1, <2>1, FoundFrame, ProofFrame, RootFrame
  <2>5. SchemaFits'
    BY <1>1, <2>1 DEF SchemaFits, Unbound, Indexes, Complete, Renamed, Key, Token
  <2>6. NoneMissed'
    BY <1>1, <2>1, <2>4 DEF NoneMissed, Unfailing, Renamed, Complete, Indexes, Unbound, Off
  <2> QED
    BY <2>3, <2>4, <2>5, <2>6 DEF MigrationIInv
<1> QED
  BY <1>2, <1>3

(* The fallback updates one comment after another.                         *)
LEMMA LoopStep ==
    ASSUME MigrationIInv, Loop
    PROVE  MigrationIInv'
<1>1. /\ MigrationTypeOK /\ FoundFit /\ SchemaFits /\ ProofsPlaced /\ RootsTrue /\ NoneMissed
      /\ boot = "loop" /\ todo \subseteq CommentIds
  BY DEF MigrationIInv, MigrationTypeOK, Loop
<1>2. CASE todo = {} /\ Goes("rename") /\ UNCHANGED schema
  <2>1. /\ boot' = "rename" /\ UNCHANGED <<base, schema, env, faultless, faults, boots>>
        /\ "rename" \in Steps
    BY <1>2 DEF Goes, Steps
  <2>2. Unfailing => missed \cap LiveRows = {}
    BY <1>1, <1>2 DEF NoneMissed
  <2> QED
    BY <1>1, <2>1, <2>2, GoStep DEF Renamed, Complete, Indexes, Unbound, Off
<1>3. ASSUME NEW c \in todo, todo' = todo \ {c}, Fails("loop") PROVE MigrationIInv'
  <2>1. "loop" \in Steps /\ todo' \subseteq CommentIds
    BY <1>1, <1>3 DEF Steps
  <2> QED
    BY <1>3, <2>1, FailStep
<1>4. ASSUME NEW c \in todo, todo' = todo \ {c}, "root_id" \notin columns, boot' = "loop",
             UNCHANGED <<base, schema, env, faultless, faults, boots>>
      PROVE  MigrationIInv'
  <2>1. /\ base' = base /\ env' = env /\ boots' = boots /\ faults' = faults
        /\ faultless' = faultless
        /\ columns' = columns /\ indexes' = indexes /\ comments' = comments /\ root' = root
        /\ proved' = proved /\ bound' = bound /\ missed' = missed
    BY <1>4 DEF schema
  <2>2. MigrationTypeOK'
    BY <1>1, <1>4, <2>1 DEF MigrationTypeOK, Steps
  <2>3. FoundFit' /\ ProofsPlaced' /\ RootsTrue' /\ LiveRows' = LiveRows
    BY <1>1, <2>1, FoundFrame, ProofFrame, RootFrame
  <2>4. SchemaFits'
    BY <1>1, <1>4, <2>1 DEF SchemaFits
  <2>5. ~ Unfailing /\ ~ Unfailing'
    BY <1>1, <1>4, <2>1 DEF NoneMissed, Unfailing
  <2>6. NoneMissed'
    BY <1>1, <1>4, <2>1, <2>5 DEF NoneMissed, Off
  <2> QED
    BY <2>2, <2>3, <2>4, <2>6 DEF MigrationIInv
<1>5. ASSUME NEW c \in todo, todo' = todo \ {c}, boot' = "loop",
             root' = [root EXCEPT ![c] = FindCommentRootID(c)], missed' = missed \ {c},
             UNCHANGED <<base, columns, indexes, comments, proved, bound, env, faultless, faults,
                         boots>>
      PROVE  MigrationIInv'
  <2>1. /\ base' = base /\ env' = env /\ boots' = boots /\ faults' = faults
        /\ faultless' = faultless
        /\ columns' = columns /\ indexes' = indexes /\ comments' = comments
        /\ proved' = proved /\ bound' = bound
    BY <1>5
  <2>2. c \in CommentIds
    BY <1>1
  <2>3. /\ FindCommentRootID(c) \in 0..MaxComment
        /\ Rooted(c) => FindCommentRootID(c) = Top(c, LiveRows)
    <3>1. /\ FindCommentRootID(c) \in CommentIds
          /\ Rooted(c) => FindCommentRootID(c) = Top(c, LiveRows)
      BY <1>1, <2>2, RootFits DEF FoundFit
    <3> QED
      BY <3>1 DEF CommentIds
  <2>4. root' \in [CommentIds -> 0..MaxComment]
    BY <1>1, <1>5, <2>3 DEF MigrationTypeOK
  <2>5. MigrationTypeOK'
    BY <1>1, <1>5, <2>1, <2>4 DEF MigrationTypeOK, Steps
  <2>6. FoundFit' /\ ProofsPlaced' /\ LiveRows' = LiveRows /\ \A x : Rooted(x)' <=> Rooted(x)
    BY <1>1, <2>1, FoundFrame, ProofFrame, RootFrame
  <2>7. RootsTrue'
    <3> SUFFICES ASSUME NEW x \in LiveRows \ missed', base.rid[x] # 0, Rooted(x)
                 PROVE  root'[x] = Top(x, LiveRows)
      BY <2>1, <2>6, TopFrame DEF RootsTrue
    <3>1. x \in CommentIds
      BY <1>1 DEF LiveRows, MigrationTypeOK
    <3>2. CASE x = c
      BY <1>1, <1>5, <2>2, <2>3, <3>2 DEF MigrationTypeOK
    <3>3. CASE x # c
      <4>1. x \notin missed /\ root'[x] = root[x]
        BY <1>1, <1>5, <3>1, <3>3 DEF MigrationTypeOK
      <4> QED
        BY <1>1, <4>1 DEF RootsTrue
    <3> QED
      BY <3>2, <3>3
  <2>8. SchemaFits'
    BY <1>1, <1>5, <2>1 DEF SchemaFits
  <2>9. NoneMissed'
    <3>1. Unfailing' <=> Unfailing
      BY <2>1 DEF Unfailing
    <3> QED
      BY <1>1, <1>5, <2>1, <2>6, <3>1
         DEF NoneMissed, Renamed, Complete, Indexes, Unbound, Off
  <2> QED
    BY <2>5, <2>6, <2>7, <2>8, <2>9 DEF MigrationIInv
<1> QED
  BY <1>2, <1>3, <1>4, <1>5 DEF Loop

(* The column of the proofs takes its name.                                *)
LEMMA RenameColumnStep ==
    ASSUME MigrationIInv, RenameColumn
    PROVE  MigrationIInv'
<1>1. /\ MigrationTypeOK /\ FoundFit /\ SchemaFits /\ ProofsPlaced /\ RootsTrue /\ NoneMissed
      /\ boot = "rename" /\ (Unfailing => missed \cap LiveRows = {})
  BY DEF MigrationIInv, RenameColumn, NoneMissed
<1>2. CASE Fatal
  BY <1>2, FatalStep
<1>3. CASE ~ Drafted /\ Goes("columns") /\ UNCHANGED schema
  <2>1. /\ boot' = "columns" /\ UNCHANGED <<base, schema, env, faultless, faults, boots>>
        /\ "columns" \in Steps
    BY <1>3 DEF Goes, Steps
  <2>2. Key \notin columns
    BY <1>1, <1>3 DEF SchemaFits, Drafted, Key, Token
  <2> QED
    BY <1>1, <2>1, <2>2, GoStep DEF Complete, Indexes, Unbound, Off
<1>4. CASE Drafted /\ ~ Fatal
  <2>1. /\ boot' = "renameIndex"
        /\ columns' = (columns \ {Key}) \cup {Token}
        /\ proved' = [proved EXCEPT ![Token] = proved[Key], ![Key] = {}]
        /\ base' = base /\ env' = env /\ boots' = boots /\ faults' = faults
        /\ faultless' = faultless /\ todo' = todo
        /\ indexes' = indexes /\ comments' = comments /\ root' = root
        /\ bound' = bound /\ missed' = missed
        /\ Key \in columns /\ Token \notin columns
    BY <1>4 DEF RenameColumn, Goes, Drafted, Key, Token
  <2>2. Key \in Columns /\ Token \in Columns /\ Key # Token
    BY DEF Columns, Key, Token
  <2>3. /\ proved' \in [Columns -> SUBSET CommentIds]
        /\ proved'[Token] = proved[Key] /\ proved'[Key] = {}
    BY <1>1, <2>1, <2>2 DEF MigrationTypeOK
  <2>4. columns' \subseteq Columns /\ Key \notin columns' /\ Token \in columns'
    BY <1>1, <2>1, <2>2 DEF MigrationTypeOK
  <2>5. MigrationTypeOK'
    BY <1>1, <2>1, <2>3, <2>4 DEF MigrationTypeOK, Steps
  <2>6. FoundFit' /\ RootsTrue' /\ LiveRows' = LiveRows
    BY <1>1, <2>1, FoundFrame, RootFrame
  <2>7. HasProof' = HasProof
    BY <2>1 DEF HasProof
  <2>8. ProofsPlaced'
    BY <1>1, <2>1, <2>3, <2>4, <2>7 DEF ProofsPlaced
  <2>9. SchemaFits'
    BY <1>1, <2>1, <2>4 DEF SchemaFits, Unbound, Indexes, Complete
  <2>10. NoneMissed'
    BY <1>1, <2>1, <2>6 DEF NoneMissed, Unfailing, Off
  <2> QED
    BY <2>5, <2>6, <2>8, <2>9, <2>10 DEF MigrationIInv
<1> QED
  BY <1>2, <1>3, <1>4 DEF RenameColumn

(* The index follows; it may have been lost, which is no error.            *)
LEMMA RenameIndexStep ==
    ASSUME MigrationIInv, RenameIndex
    PROVE  MigrationIInv'
<1>1. /\ MigrationTypeOK /\ FoundFit /\ SchemaFits /\ ProofsPlaced /\ RootsTrue /\ NoneMissed
      /\ boot = "renameIndex" /\ Key \notin columns
  BY DEF MigrationIInv, RenameIndex, SchemaFits, Renamed
<1>2. CASE Fatal
  BY <1>2, FatalStep
<1>3. CASE ~ Fatal
  <2>1. /\ boot' = "columns"
        /\ indexes' = IF Key \notin indexes THEN indexes
                      ELSE (indexes \ {Key}) \cup {Token}
        /\ base' = base /\ env' = env /\ boots' = boots /\ faults' = faults
        /\ faultless' = faultless /\ todo' = todo
        /\ columns' = columns /\ comments' = comments /\ root' = root
        /\ proved' = proved /\ bound' = bound /\ missed' = missed
    BY <1>3 DEF RenameIndex, Goes, Key, Token
  <2>2. Key \notin indexes' /\ indexes' \subseteq Columns
    BY <1>1, <2>1 DEF MigrationTypeOK, Columns, Key, Token
  <2>3. MigrationTypeOK'
    BY <1>1, <2>1, <2>2 DEF MigrationTypeOK, Steps
  <2>4. FoundFit' /\ ProofsPlaced' /\ RootsTrue' /\ LiveRows' = LiveRows
    BY <1>1, <2>1, FoundFrame, ProofFrame, RootFrame
  <2>5. SchemaFits'
    BY <1>1, <2>1, <2>2 DEF SchemaFits, Unbound, Indexes, Complete
  <2>6. NoneMissed'
    BY <1>1, <2>1, <2>4 DEF NoneMissed, Unfailing, Renamed, Off
  <2> QED
    BY <2>3, <2>4, <2>5, <2>6 DEF MigrationIInv
<1> QED
  BY <1>2, <1>3

(* The columns that are missing.                                           *)
LEMMA AddColumnsStep ==
    ASSUME MigrationIInv, AddColumns
    PROVE  MigrationIInv'
<1>1. /\ MigrationTypeOK /\ FoundFit /\ SchemaFits /\ ProofsPlaced /\ RootsTrue /\ NoneMissed
      /\ boot = "columns" /\ Key \notin columns /\ (Unfailing => missed \cap LiveRows = {})
  BY DEF MigrationIInv, AddColumns, SchemaFits, NoneMissed, Renamed
<1>2. CASE Fatal
  BY <1>2, FatalStep
<1>3. CASE Model \subseteq columns /\ Goes("indexes") /\ UNCHANGED schema
  <2>1. /\ boot' = "indexes" /\ UNCHANGED <<base, schema, env, faultless, faults, boots>>
        /\ "indexes" \in Steps
    BY <1>3 DEF Goes, Steps
  <2> QED
    BY <1>1, <1>3, <2>1, GoStep DEF Indexes, Unbound, Off
<1>4. ASSUME NEW k \in Model \ columns,
             columns' = (IF columns = {} THEN Model ELSE columns \cup {k}), Goes("columns"),
             UNCHANGED <<indexes, comments, root, proved, bound, pageRows, missed>>
      PROVE  MigrationIInv'
  <2>1. /\ boot' = "columns"
        /\ base' = base /\ env' = env /\ boots' = boots /\ faults' = faults
        /\ faultless' = faultless /\ todo' = todo
        /\ indexes' = indexes /\ comments' = comments /\ root' = root
        /\ proved' = proved /\ bound' = bound /\ missed' = missed
    BY <1>4 DEF Goes
  <2>2. columns' \subseteq Columns /\ Key \notin columns' /\ columns' # {}
    BY <1>1, <1>4 DEF MigrationTypeOK, Model, Columns, Key
  <2>3. "root_id" \in columns => "root_id" \in columns'
    BY <1>4
  <2>4. MigrationTypeOK'
    BY <1>1, <2>1, <2>2 DEF MigrationTypeOK
  <2>5. FoundFit' /\ RootsTrue' /\ LiveRows' = LiveRows
    BY <1>1, <2>1, FoundFrame, RootFrame
  <2>6. ProofsPlaced'
    <3>1. HasProof' = HasProof
      BY <2>1 DEF HasProof
    <3>2. proved[Token] = HasProof
      BY <1>1 DEF ProofsPlaced
    <3> QED
      BY <2>1, <2>2, <3>1, <3>2, <1>1, <1>4 DEF ProofsPlaced
  <2>7. SchemaFits'
    BY <1>1, <2>1, <2>2 DEF SchemaFits, Unbound, Indexes, Complete
  <2>8. NoneMissed'
    BY <1>1, <2>1, <2>5 DEF NoneMissed, Unfailing, Off
  <2> QED
    BY <2>4, <2>5, <2>6, <2>7, <2>8 DEF MigrationIInv
<1> QED
  BY <1>2, <1>3, <1>4 DEF AddColumns

(* The indexes, one after another.                                         *)
LEMMA AddIndexesStep ==
    ASSUME MigrationIInv, AddIndexes
    PROVE  MigrationIInv'
<1>1. /\ MigrationTypeOK /\ FoundFit /\ SchemaFits /\ ProofsPlaced /\ RootsTrue /\ NoneMissed
      /\ boot = "indexes" /\ Key \notin columns /\ Model \subseteq columns
      /\ (Unfailing => missed \cap LiveRows = {})
  BY DEF MigrationIInv, AddIndexes, SchemaFits, NoneMissed, Renamed, Complete
<1>2. CASE Fatal
  BY <1>2, FatalStep
<1>3. CASE Indexed \subseteq indexes /\ Goes("drop") /\ UNCHANGED schema
  <2>1. /\ boot' = "drop" /\ UNCHANGED <<base, schema, env, faultless, faults, boots>>
        /\ "drop" \in Steps
    BY <1>3 DEF Goes, Steps
  <2> QED
    BY <1>1, <1>3, <2>1, GoStep DEF Unbound, Off
<1>4. ASSUME NEW k \in Indexed \ indexes, indexes' = indexes \cup {k}, Goes("indexes"),
             UNCHANGED <<columns, comments, root, proved, bound, pageRows, missed>>
      PROVE  MigrationIInv'
  <2>1. /\ boot' = "indexes"
        /\ base' = base /\ env' = env /\ boots' = boots /\ faults' = faults
        /\ faultless' = faultless /\ todo' = todo
        /\ columns' = columns /\ comments' = comments /\ root' = root
        /\ proved' = proved /\ bound' = bound /\ missed' = missed
    BY <1>4 DEF Goes
  <2>2. indexes' \subseteq Columns /\ (Key \in indexes' => Key \in indexes)
    BY <1>1, <1>4 DEF MigrationTypeOK, Indexed, Columns, Key
  <2>3. MigrationTypeOK'
    BY <1>1, <2>1, <2>2 DEF MigrationTypeOK
  <2>4. FoundFit' /\ ProofsPlaced' /\ RootsTrue' /\ LiveRows' = LiveRows
    BY <1>1, <2>1, FoundFrame, ProofFrame, RootFrame
  <2>5. SchemaFits'
    BY <1>1, <2>1, <2>2 DEF SchemaFits, Unbound, Indexes
  <2>6. NoneMissed'
    BY <1>1, <2>1, <2>4 DEF NoneMissed, Unfailing, Off
  <2> QED
    BY <2>3, <2>4, <2>5, <2>6 DEF MigrationIInv
<1> QED
  BY <1>2, <1>3, <1>4 DEF AddIndexes

(* Constraints are dropped.                                                *)
LEMMA DropStep ==
    ASSUME MigrationIInv, DropConstraintsIfExist
    PROVE  MigrationIInv'
<1>1. /\ MigrationTypeOK /\ FoundFit /\ SchemaFits /\ ProofsPlaced /\ RootsTrue /\ NoneMissed
      /\ boot = "drop" /\ Key \notin columns /\ Model \subseteq columns /\ Indexed \subseteq indexes
      /\ (Unfailing => missed \cap LiveRows = {})
  BY DEF MigrationIInv, DropConstraintsIfExist, SchemaFits, NoneMissed, Renamed, Complete, Indexes
<1>2. CASE Fatal
  BY <1>2, FatalStep
<1>3. CASE ~ Fatal
  <2>1. /\ boot' \in {"merge", "serving"} /\ bound' = (bound /\ ~ base.constrains)
        /\ base' = base /\ env' = env /\ boots' = boots /\ faults' = faults
        /\ faultless' = faultless /\ todo' = todo
        /\ columns' = columns /\ indexes' = indexes /\ comments' = comments /\ root' = root
        /\ proved' = proved /\ missed' = missed
    BY <1>3 DEF DropConstraintsIfExist, Goes
  <2>2. bound' = FALSE
    BY <1>1, <2>1 DEF SchemaFits
  <2>3. MigrationTypeOK'
    BY <1>1, <2>1, <2>2 DEF MigrationTypeOK, Steps
  <2>4. FoundFit' /\ ProofsPlaced' /\ RootsTrue' /\ LiveRows' = LiveRows
    BY <1>1, <2>1, FoundFrame, ProofFrame, RootFrame
  <2>5. SchemaFits'
    BY <1>1, <2>1, <2>2 DEF SchemaFits
  <2>6. NoneMissed'
    BY <1>1, <2>1, <2>4 DEF NoneMissed, Unfailing, Off
  <2> QED
    BY <2>3, <2>4, <2>5, <2>6 DEF MigrationIInv
<1> QED
  BY <1>2, <1>3

(* The merge of pages leaves comments and schema alone.                    *)
LEMMA MergeSteps ==
    ASSUME MigrationIInv, Merge \/ Clear \/ Insert
    PROVE  MigrationIInv'
<1>1. /\ MigrationTypeOK /\ FoundFit /\ SchemaFits /\ ProofsPlaced /\ RootsTrue /\ NoneMissed
      /\ boot \in {"merge", "clear", "insert"}
      /\ Key \notin columns /\ Model \subseteq columns /\ Indexed \subseteq indexes /\ ~ bound
      /\ (Unfailing => missed \cap LiveRows = {})
  BY DEF MigrationIInv, Merge, Clear, Insert, SchemaFits, NoneMissed, Renamed, Complete, Indexes,
         Unbound
<1>2. CASE Fatal
  BY <1>2, FatalStep
<1>3. CASE boot = "clear" /\ Fails("insert")
  <2>1. "insert" \in Steps
    BY DEF Steps
  <2> QED
    BY <1>3, <2>1, FailStep
<1>4. CASE ~ Fatal /\ ~ (boot = "clear" /\ Fails("insert"))
  <2>1. /\ boot' \in {"clear", "insert", Off}
        /\ base' = base /\ env' = env /\ boots' = boots /\ faults' = faults
        /\ faultless' = faultless
        /\ columns' = columns /\ indexes' = indexes /\ comments' = comments /\ root' = root
        /\ proved' = proved /\ bound' = bound /\ missed' = missed
    BY <1>4 DEF Merge, Clear, Insert, Goes, schema, Off
  <2>2. MigrationTypeOK'
    BY <1>1, <2>1 DEF MigrationTypeOK, Steps, Off
  <2>3. FoundFit' /\ ProofsPlaced' /\ RootsTrue' /\ LiveRows' = LiveRows
    BY <1>1, <2>1, FoundFrame, ProofFrame, RootFrame
  <2>4. SchemaFits'
    BY <1>1, <2>1 DEF SchemaFits, Off
  <2>5. Unfailing' <=> Unfailing
    BY <2>1 DEF Unfailing
  <2>6. faults = 0 => Unfailing
    BY DEF Unfailing
  <2>7. NoneMissed'
    BY <1>1, <2>1, <2>3, <2>5, <2>6 DEF NoneMissed, Off
  <2> QED
    BY <2>2, <2>3, <2>4, <2>7 DEF MigrationIInv
<1> QED
  BY <1>2, <1>3, <1>4

(* A comment is written: its thread is that of its parent, and no chain    *)
(* that was there passes through it, for its id is the greatest.           *)
LEMMA ReplyStep ==
    ASSUME MigrationIInv, NEW c \in CommentIds, Reply(c)
    PROVE  MigrationIInv'
<1>1. /\ MigrationTypeOK /\ FoundFit /\ SchemaFits /\ ProofsPlaced /\ RootsTrue /\ NoneMissed
      /\ boot = "serving" /\ boot' = "serving"
      /\ \A b \in comments : b < c
      /\ base.rid[c] \in {0} \cup LiveRows
      /\ comments' = comments \cup {c}
      /\ root' = [root EXCEPT ![c] = IF base.rid[c] = 0 THEN 0
                                     ELSE FindCommentRootID(base.rid[c])]
      /\ proved' = [proved EXCEPT ![Token] = proved[Token] \cup ({c} \cap base.guests)]
      /\ base' = base /\ env' = env /\ boots' = boots /\ faults' = faults
      /\ faultless' = faultless /\ todo' = todo
      /\ columns' = columns /\ indexes' = indexes /\ bound' = bound /\ missed' = missed
  BY DEF MigrationIInv, Reply, Goes, Token
<1>2. /\ MaxComment \in Nat /\ ParentsFit /\ LiveRows \subseteq comments
      /\ comments \subseteq CommentIds /\ missed \subseteq comments
  BY <1>1, MigrationAssumption DEF FoundFit, LiveRows, MigrationTypeOK
<1>3. c \notin comments
  BY <1>1, <1>2 DEF CommentIds
<1>4. FoundFit'
  <2>1. base.rid[c] <= c
    <3>1. CASE base.rid[c] = 0
      BY <1>2, <3>1 DEF CommentIds
    <3>2. CASE base.rid[c] # 0
      <4>1. base.rid[c] \in comments /\ base.rid[c] \in CommentIds
        BY <1>1, <1>2, <3>2
      <4> QED
        BY <1>1, <1>2, <4>1 DEF CommentIds
    <3> QED
      BY <3>1, <3>2
  <2>2. \A x \in comments' : \E b \in comments' : base.rid[x] <= b
    BY <1>1, <2>1 DEF FoundFit
  <2>3. base \in Database /\ ParentsFit' /\ base.indexes \subseteq base.columns
        /\ base.comments \subseteq comments'
    BY <1>1 DEF FoundFit, ParentsFit
  <2> QED
    BY <1>1, <2>2, <2>3 DEF FoundFit
<1>5. /\ Token \in columns /\ Key \notin columns /\ Token \in Columns /\ Key \in Columns
      /\ Key # Token
  BY <1>1 DEF SchemaFits, Renamed, Complete, Indexes, Unbound, Model, Token, Key, Columns
<1>6. root' \in [CommentIds -> 0..MaxComment]
  <2>1. ASSUME base.rid[c] # 0
        PROVE  FindCommentRootID(base.rid[c]) \in 0..MaxComment
    <3>1. base.rid[c] \in CommentIds
      BY <1>1, <1>2, <2>1
    <3>2. FindCommentRootID(base.rid[c]) \in CommentIds
      BY <1>2, <3>1, RootFits
    <3> QED
      BY <1>2, <3>2 DEF CommentIds
  <2> QED
    BY <1>1, <1>2, <2>1 DEF MigrationTypeOK
<1>7. /\ proved' \in [Columns -> SUBSET CommentIds]
      /\ proved'[Token] = proved[Token] \cup ({c} \cap base.guests)
  BY <1>1, <1>5 DEF MigrationTypeOK
<1>8. MigrationTypeOK'
  BY <1>1, <1>2, <1>6, <1>7 DEF MigrationTypeOK
<1>9. HasProof' = HasProof \cup ({c} \cap base.guests)
  BY <1>1, <1>3 DEF HasProof, FoundFit
<1>10. ProofsPlaced'
  BY <1>1, <1>5, <1>7, <1>9 DEF ProofsPlaced
<1>11. SchemaFits'
  <2>1. columns # {}
    BY <1>5
  <2> QED
    BY <1>1, <2>1 DEF SchemaFits
<1>12. LiveRows' \subseteq LiveRows \cup {c} /\ LiveRows \subseteq LiveRows'
  BY <1>1 DEF LiveRows
<1>13. ASSUME NEW x \in comments
       PROVE  Top(x, LiveRows') = Top(x, LiveRows) /\ Top(x, LiveRows) # c
  <2> PICK P : P = CommentIds \ {c}
    OBVIOUS
  <2>1. ASSUME NEW p \in P
        PROVE  (p \in LiveRows <=> p \in LiveRows') /\ Up(p, LiveRows) \in P
    <3>1. Up(p, LiveRows) \in CommentIds
      BY <1>2, UpFits
    <3>2. ASSUME p \in LiveRows PROVE base.rid[p] # c
      <4>1. PICK b \in comments : base.rid[p] <= b
        BY <1>1, <1>2, <3>2 DEF FoundFit
      <4>2. b < c /\ base.rid[p] \in 0..MaxComment
        BY <1>1, <1>2, <2>1 DEF ParentsFit, Parents
      <4> QED
        BY <1>2, <4>1, <4>2 DEF CommentIds
    <3>3. Up(p, LiveRows) # c
      BY <2>1, <3>2 DEF Up
    <3> QED
      BY <1>12, <2>1, <3>1, <3>3
  <2>2. x \in P
    BY <1>2, <1>3
  <2>3. Top(x, LiveRows) = Top(x, LiveRows') /\ Top(x, LiveRows) \in P
    BY <2>1, <2>2, TopSame
  <2> QED
    BY <2>3
<1>15. RootsTrue'
  <2> SUFFICES ASSUME NEW x \in LiveRows' \ missed, base.rid[x] # 0, Rooted(x)'
               PROVE  root'[x] = Top(x, LiveRows')
    BY <1>1, TopFrame DEF RootsTrue
  <2>1. Top(x, LiveRows') \in LiveRows' /\ base.rid[Top(x, LiveRows')] = 0
    BY <1>1, TopFrame DEF Rooted
  <2>2. CASE x = c
    <3>1. PICK p \in LiveRows : p = base.rid[c]
      BY <1>1, <2>2
    <3>2. p \in CommentIds /\ p \in comments
      BY <1>1, <1>2
    <3>3. Up(c, LiveRows') = p
      BY <2>2, <3>1 DEF Up
    <3>4. Top(p, LiveRows') = Top(c, LiveRows')
      <4>1. Top(p, LiveRows') = Up(Top(c, LiveRows'), LiveRows')
        BY <1>2, <3>3, TopEnds
      <4>2. Up(Top(c, LiveRows'), LiveRows') = Top(c, LiveRows')
        BY <2>1, <2>2 DEF Up
      <4> QED
        BY <4>1, <4>2
    <3>5. Top(p, LiveRows) = Top(c, LiveRows') /\ Top(p, LiveRows) # c
      BY <1>13, <3>2, <3>4
    <3>6. Rooted(p)
      BY <1>12, <2>1, <2>2, <3>5 DEF Rooted
    <3>7. root'[c] = Top(p, LiveRows)
      <4>1. root'[c] = FindCommentRootID(p)
        BY <1>1, <2>2, <3>1 DEF MigrationTypeOK
      <4> QED
        BY <1>2, <3>2, <3>6, <4>1, RootFits
    <3> QED
      BY <2>2, <3>5, <3>7
  <2>3. CASE x # c
    <3>1. x \in LiveRows /\ x \in CommentIds
      BY <1>1, <1>2, <1>12, <2>3
    <3>2. Top(x, LiveRows') = Top(x, LiveRows) /\ Top(x, LiveRows) # c
      BY <1>2, <1>13, <3>1
    <3>4. Rooted(x)
      BY <1>12, <2>1, <3>2 DEF Rooted
    <3>5. root[x] = Top(x, LiveRows)
      BY <1>1, <3>1, <3>4 DEF RootsTrue
    <3>6. root'[x] = root[x]
      BY <1>1, <2>3, <3>1 DEF MigrationTypeOK
    <3> QED
      BY <3>2, <3>5, <3>6
  <2> QED
    BY <2>2, <2>3
<1>16. NoneMissed'
  <2>1. missed \cap LiveRows' = missed \cap LiveRows
    BY <1>2, <1>3, <1>12
  <2>2. Unfailing' <=> Unfailing
    BY <1>1 DEF Unfailing
  <2> QED
    BY <1>1, <2>1, <2>2 DEF NoneMissed, Off
<1> QED
  BY <1>4, <1>8, <1>10, <1>11, <1>15, <1>16 DEF MigrationIInv

(* At first.                                                               *)
LEMMA MigrationIInvInit == MigrationInit => MigrationIInv
<1> SUFFICES ASSUME MigrationInit PROVE MigrationIInv
  OBVIOUS
<1>1. PICK d \in Databases :
          /\ base = d.base /\ columns = d.base.columns /\ indexes = d.base.indexes
          /\ comments = d.base.comments
          /\ proved = [k \in Columns |-> IF k \in d.base.columns \ {"id", "root_id"}
                                         THEN d.base.guests \cap d.base.comments ELSE {}]
          /\ bound = (d.base.constrains /\ d.base.columns # {})
  BY DEF MigrationInit
<1>2. /\ base \in Database
      /\ \A c \in base.comments : \E b \in base.comments : base.rid[c] <= b
      /\ ~ ({Key, Token} \subseteq base.columns)
      /\ base.indexes \subseteq base.columns /\ (base.columns = {} => base.comments = {})
  BY <1>1, MigrationAssumption DEF Key, Token
<1>3. /\ base.rid \in Parents /\ base.columns \subseteq Columns /\ base.indexes \subseteq Columns
      /\ base.comments \subseteq CommentIds /\ base.guests \subseteq CommentIds
      /\ base.constrains \in BOOLEAN
  BY <1>2 DEF Database
<1>4. /\ root = [c \in CommentIds |-> IF c \in comments /\ "root_id" \in columns /\ base.rid[c] # 0
                                      THEN Hierarchy(c) ELSE 0]
      /\ missed = (IF "root_id" \in columns THEN {} ELSE comments)
      /\ env = {} /\ boot = Off /\ todo = {} /\ faultless = TRUE /\ faults = 0 /\ boots = 0
  BY DEF MigrationInit
<1>5. FoundFit
  BY <1>1, <1>2, <1>3 DEF FoundFit, ParentsFit
<1>6. root \in [CommentIds -> 0..MaxComment]
  <2>1. \A c \in CommentIds : Top(c, comments) \in CommentIds
    BY <1>5, TopEnds DEF FoundFit
  <2>2. \A c \in CommentIds : Hierarchy(c) \in 0..MaxComment
    BY <2>1, MigrationAssumption DEF Hierarchy, CommentIds
  <2>3. 0 \in 0..MaxComment
    BY MigrationAssumption
  <2> QED
    BY <1>4, <2>2, <2>3
<1>7. proved \in [Columns -> SUBSET CommentIds]
  BY <1>1, <1>3
<1>8. bound \in BOOLEAN /\ (bound => base.constrains)
  BY <1>1, <1>3
<1>9. faults \in 0..MaxFaults /\ boots \in 0..MaxBoots
  BY <1>4, MigrationAssumption
<1>10. MigrationTypeOK
  BY <1>1, <1>2, <1>3, <1>4, <1>6, <1>7, <1>8, <1>9 DEF MigrationTypeOK, Steps
<1>11. SchemaFits
  BY <1>1, <1>2, <1>4, <1>8
     DEF SchemaFits, Renamed, Complete, Indexes, Unbound, Off
<1>12. ProofsPlaced
  <2>1. /\ Key \in Columns /\ Token \in Columns /\ Key \notin {"id", "root_id"}
        /\ Token \notin {"id", "root_id"}
    BY DEF Key, Token, Columns
  <2>2. /\ proved[Key] = IF Key \in columns THEN base.guests \cap comments ELSE {}
        /\ proved[Token] = IF Token \in columns THEN base.guests \cap comments ELSE {}
    BY <1>1, <2>1
  <2>3. HasProof = IF Key \in columns \/ Token \in columns THEN base.guests \cap comments ELSE {}
    BY <1>1 DEF HasProof, Key, Token
  <2> QED
    BY <1>1, <1>2, <2>2, <2>3 DEF ProofsPlaced
<1>13. RootsTrue
  <2> SUFFICES ASSUME NEW c \in LiveRows \ missed, base.rid[c] # 0, Rooted(c)
               PROVE  root[c] = Top(c, LiveRows)
    BY DEF RootsTrue
  <2>1. c \in comments /\ c \in CommentIds /\ "root_id" \in columns
    BY <1>1, <1>3, <1>4 DEF LiveRows
  <2>2. Hierarchy(c) = Top(c, LiveRows)
    BY <1>5, <1>10, <2>1, HierarchyRight
  <2> QED
    BY <1>4, <2>1, <2>2
<1>14. NoneMissed
  BY <1>4 DEF NoneMissed, Renamed, Complete, Indexes, Unbound, Off
<1> QED
  BY <1>5, <1>10, <1>11, <1>12, <1>13, <1>14 DEF MigrationIInv

(* Every step.                                                             *)
LEMMA MigrationIInvStep == MigrationIInv /\ [MigrationNext]_migrationVars => MigrationIInv'
<1> SUFFICES ASSUME MigrationIInv, [MigrationNext]_migrationVars PROVE MigrationIInv'
  OBVIOUS
<1>1. CASE (\E e \in SUBSET {"root", "merge"} : Launch(e)) \/ Opened \/ Stop \/ Kill
  BY <1>1, LaunchSteps
<1>2. CASE AddRoot \/ Fill \/ ZeroRoots \/ Load \/ Loop
  BY <1>2, AddRootStep, FillStep, ZeroStep, LoadStep, LoopStep
<1>3. CASE RenameColumn \/ RenameIndex \/ AddColumns \/ AddIndexes \/ DropConstraintsIfExist
  BY <1>3, RenameColumnStep, RenameIndexStep, AddColumnsStep, AddIndexesStep, DropStep
<1>4. CASE Merge \/ Clear \/ Insert
  BY <1>4, MergeSteps
<1>5. ASSUME NEW c \in CommentIds, Reply(c) PROVE MigrationIInv'
  BY <1>5, ReplyStep
<1>6. CASE UNCHANGED migrationVars
  <2>1. /\ MigrationTypeOK /\ FoundFit /\ SchemaFits /\ ProofsPlaced /\ RootsTrue /\ NoneMissed
    BY DEF MigrationIInv
  <2>2. /\ base' = base /\ columns' = columns /\ indexes' = indexes /\ comments' = comments
        /\ root' = root /\ proved' = proved /\ bound' = bound /\ env' = env /\ boot' = boot
        /\ todo' = todo /\ missed' = missed /\ faultless' = faultless /\ faults' = faults
        /\ boots' = boots
    BY <1>6 DEF migrationVars
  <2>3. MigrationTypeOK'
    BY <2>1, <2>2 DEF MigrationTypeOK
  <2>4. FoundFit' /\ ProofsPlaced' /\ RootsTrue' /\ LiveRows' = LiveRows
    BY <2>1, <2>2, FoundFrame, ProofFrame, RootFrame
  <2>5. SchemaFits'
    BY <2>1, <2>2 DEF SchemaFits
  <2>6. (Unfailing' <=> Unfailing)
    BY <2>2 DEF Unfailing
  <2>7. NoneMissed'
    BY <2>1, <2>2, <2>4, <2>6 DEF NoneMissed
  <2> QED
    BY <2>3, <2>4, <2>5, <2>7 DEF MigrationIInv
<1> QED
  BY <1>1, <1>2, <1>3, <1>4, <1>5, <1>6 DEF MigrationNext

(* What the invariant says of a server that runs.                          *)
LEMMA MigrationFollows == MigrationIInv => MigrationSound
<1> SUFFICES ASSUME MigrationIInv PROVE MigrationSound
  OBVIOUS
<1>1. /\ MigrationTypeOK /\ FoundFit /\ SchemaFits /\ ProofsPlaced /\ RootsTrue /\ NoneMissed
  BY DEF MigrationIInv
<1>2. ProofsKept
  <2> SUFFICES ASSUME boot = "serving"
               PROVE  /\ "guest_token_hash" \in columns
                      /\ proved["guest_token_hash"] = HasProof
                      /\ Indexed \subseteq indexes
                      /\ "guest_key_hash" \in indexes => faults > 0
                      /\ ~ bound
    BY DEF ProofsKept
  <2>1. Token \in columns /\ Key \notin columns /\ Indexed \subseteq indexes /\ ~ bound
        /\ (faults = 0 => Key \notin indexes)
    BY <1>1 DEF SchemaFits, Renamed, Complete, Indexes, Unbound, Model, Token
  <2>2. faults \in Nat
    BY <1>1, MigrationAssumption DEF MigrationTypeOK
  <2> QED
    BY <1>1, <2>1, <2>2 DEF ProofsPlaced, Token, Key
<1>3. RootsRight
  <2> SUFFICES ASSUME boot = "serving" PROVE RootsRight
    BY DEF RootsRight
  <2>1. faults = 0 \/ (faultless /\ "root" \in env) => missed \cap LiveRows = {}
    BY <1>1 DEF NoneMissed, Unfailing, Renamed, Complete, Indexes, Unbound
  <2>2. ASSUME NEW c \in LiveRows, base.rid[c] \notin {0, c}, Rooted(c),
               {c, base.rid[c]} \cap missed = {}
        PROVE  root[c] = IF base.rid[base.rid[c]] = 0 THEN base.rid[c] ELSE root[base.rid[c]]
    <3>1. c \in CommentIds /\ ParentsFit /\ MaxComment \in Nat
      BY <1>1, MigrationAssumption DEF LiveRows, MigrationTypeOK, FoundFit
    <3>2. PICK p \in CommentIds : p = base.rid[c]
      BY <2>2, <3>1 DEF ParentsFit, Parents, CommentIds
    <3>3. Up(c, LiveRows) = p
      BY <2>2, <3>2 DEF Up
    <3>4. Top(p, LiveRows) = Top(c, LiveRows)
      <4>1. Top(p, LiveRows) = Up(Top(c, LiveRows), LiveRows)
        BY <3>1, <3>3, TopEnds
      <4> QED
        BY <2>2, <4>1 DEF Rooted, Up
    <3>5. Rooted(p)
      BY <2>2, <3>4 DEF Rooted
    <3>6. root[c] = Top(c, LiveRows)
      BY <1>1, <2>2 DEF RootsTrue
    <3>7. CASE base.rid[p] = 0
      <4>1. Up(p, LiveRows) = p
        BY <3>7 DEF Up
      <4>2. Top(p, LiveRows) = p
        BY <3>1, <4>1, TopHere
      <4> QED
        BY <3>2, <3>4, <3>6, <3>7, <4>2
    <3>8. CASE base.rid[p] # 0
      <4>1. p \in LiveRows
        <5> SUFFICES ASSUME p \notin LiveRows PROVE FALSE
          OBVIOUS
        <5>1. Up(p, LiveRows) = p
          BY DEF Up
        <5>2. Top(p, LiveRows) = p
          BY <3>1, <5>1, TopHere
        <5> QED
          BY <3>5, <5>2 DEF Rooted
      <4>2. root[p] = Top(p, LiveRows)
        BY <1>1, <2>2, <3>2, <3>5, <3>8, <4>1 DEF RootsTrue
      <4> QED
        BY <3>2, <3>4, <3>6, <3>8, <4>2
    <3> QED
      BY <3>7, <3>8
  <2> QED
    BY <2>1, <2>2 DEF RootsRight
<1> QED
  BY <1>1, <1>2, <1>3 DEF MigrationSound

(* An upgrade leaves a database that the server can work with, wherever    *)
(* statements failed or the process was killed and however often it was    *)
(* launched: the proofs of guests are all in the column that is read, and  *)
(* every reply that a migration or a visitor has reached is in the thread  *)
(* of its parent (MigrateModels).                                          *)
THEOREM UpgradeSound == MigrationSpec => []MigrationSound
<1>1. MigrationInit => MigrationIInv
  BY MigrationIInvInit
<1>2. MigrationIInv /\ [MigrationNext]_migrationVars => MigrationIInv'
  BY MigrationIInvStep
<1>3. MigrationIInv => MigrationSound
  BY MigrationFollows
<1> QED
  BY <1>1, <1>2, <1>3, PTL DEF MigrationSpec
=============================================================================
