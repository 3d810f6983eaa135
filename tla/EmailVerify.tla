---------------------------- MODULE EmailVerify ----------------------------
(***************************************************************************)
(* E-mail verification codes: issuing them (server/handler/                *)
(* auth_email_send.go, AuthEmailSend) and checking them                    *)
(* (CheckEmailVerifyCode, called by the e-mail login, the e-mail           *)
(* registration and the profile update).                                   *)
(*                                                                         *)
(* Requests run concurrently.  Every SQL statement is one action, so       *)
(* anything may happen between two statements of one request.  Only        *)
(* issuing takes a lock: one of a fixed array of mutexes, chosen by a hash *)
(* of the address.  Checking takes none and relies on a compare-and-swap.  *)
(***************************************************************************)
EXTENDS Integers, Sequences

CONSTANTS
    Emails,       \* normalised (trimmed, lower-case) addresses
    IPs,          \* client addresses
    Codes,        \* what RandomStringWithAlphabet may draw
    NoCode,       \* the empty string: a consumed challenge
    Senders,      \* concurrent POST /auth/email/send requests
    Checkers,     \* concurrent calls of CheckEmailVerifyCode
    Stripe,       \* address -> index of its mutex in locks
    MaxAttempts,  \* emailVerifyMaxAttempts
    Cooldown,     \* time.Minute
    Lifetime,     \* 5 * time.Minute
    MaxTime       \* bound: the clock stops here

ASSUME InputAssumption == Emails # {} /\ IPs # {} /\ Codes # {}
ASSUME NoCodeAssumption == NoCode \notin Codes
ASSUME AttemptsAssumption == MaxAttempts \in Nat \ {0}
ASSUME TimeAssumption ==
    /\ Cooldown \in Nat \ {0}
    /\ Lifetime \in Nat \ {0}
    /\ MaxTime \in Nat

VARIABLES
    clock,   \* time.Now()
    rows,    \* table user_email_verifies, the index is the primary key
    held,    \* the stripes of locks that are locked
    send,    \* state of every send request
    check,   \* state of every check
    outbox,  \* issuances handed to the e-mail queue, in order
    issued   \* history: every issuance, with the comparisons spent on it

vars == <<clock, rows, held, send, check, outbox, issued>>

(***************************************************************************)
(* "issue" is a history field: which issuance wrote this challenge.        *)
(***************************************************************************)
Row == [email : Emails, ip : IPs, code : Codes \cup {NoCode},
        attempts : Nat, expires : Int, updated : Int, issue : Nat]

Issuance == [email : Emails, code : Codes, wrong : Nat, right : Nat]

SendState ==
    [pc : {"idle", "cooldown", "find", "create", "update", "mail"},
     email : Emails, ip : IPs, now : Int, id : Nat, issue : Nat]

CheckState ==
    [pc : {"idle", "read", "cas", "accepted", "refused"},
     email : Emails, code : Codes, retry : Nat, id : Nat, seen : Row,
     first : Nat]

TypeOK ==
    /\ clock \in Nat
    /\ rows \in Seq(Row)
    /\ held \subseteq {Stripe[e] : e \in Emails}
    /\ send \in [Senders -> SendState]
    /\ check \in [Checkers -> CheckState]
    /\ outbox \in Seq(Nat)
    /\ issued \in Seq(Issuance)

IdleSend == [pc |-> "idle", email |-> CHOOSE e \in Emails : TRUE,
             ip |-> CHOOSE i \in IPs : TRUE, now |-> 0, id |-> 0, issue |-> 0]

NoRow == [email |-> CHOOSE e \in Emails : TRUE, ip |-> CHOOSE i \in IPs : TRUE,
          code |-> NoCode, attempts |-> 0, expires |-> 0, updated |-> 0,
          issue |-> 0]

IdleCheck == [pc |-> "idle", email |-> CHOOSE e \in Emails : TRUE,
              code |-> CHOOSE k \in Codes : TRUE, retry |-> 0, id |-> 0,
              seen |-> NoRow, first |-> 0]

Init ==
    /\ clock = 0
    /\ rows = <<>>
    /\ held = {}
    /\ send = [s \in Senders |-> IdleSend]
    /\ check = [c \in Checkers |-> IdleCheck]
    /\ outbox = <<>>
    /\ issued = <<>>

-----------------------------------------------------------------------------
(* Queries.                                                                *)

(* First(&row) of a set of matching ids: the lowest primary key.           *)
IsFirst(i, ids) == i \in ids /\ \A j \in ids : i <= j

(* A challenge that has used up its attempts but is not consumed.          *)
Exhausted(r, now) == r.attempts >= MaxAttempts /\ r.code # NoCode /\ r.expires > now

(* The cooldown query of AuthEmailSend.                                    *)
Recent(r, e, ip, now) ==
    \/ (r.email = e \/ r.ip = ip) /\ r.updated > now - Cooldown
    \/ r.email = e /\ Exhausted(r, now)

(* The condition repeated in the UPDATE that replaces a challenge.         *)
Replaceable_NoRecheck(r, now) == r.updated <= now - Cooldown
Replaceable(r, now) ==
    /\ r.updated <= now - Cooldown
    /\ r.attempts < MaxAttempts \/ r.code = NoCode \/ r.expires <= now

(* The challenge a check may compare against.                              *)
Live(r, e, now) ==
    r.email = e /\ r.expires > now /\ r.attempts < MaxAttempts /\ r.code # NoCode

(* The version test in the UPDATE of CheckEmailVerifyCode.                 *)
SameVersion_NoAttempts(r, seen, now) ==
    r.code = seen.code /\ r.updated = seen.updated /\ r.expires > now
SameVersion(r, seen, now) ==
    /\ r.code = seen.code
    /\ r.attempts = seen.attempts
    /\ r.updated = seen.updated
    /\ r.expires > now

-----------------------------------------------------------------------------
(* POST /auth/email/send                                                   *)

(* Lock the address's mutex, then read the time once for the request.      *)
SendStart(s, e, ip) ==
    /\ send[s].pc = "idle"
    /\ Stripe[e] \notin held
    /\ held' = held \cup {Stripe[e]}
    /\ send' = [send EXCEPT ![s] = [pc |-> "cooldown", email |-> e, ip |-> ip,
                                    now |-> clock, id |-> 0, issue |-> 0]]
    /\ UNCHANGED <<clock, rows, check, outbox, issued>>

(* Every return unlocks (defer mutex.Unlock()).                            *)
SendReturn(s) ==
    /\ send' = [send EXCEPT ![s] = IdleSend]
    /\ held' = held \ {Stripe[send[s].email]}

(* The request goes on to its next statement.                              *)
At(s, pc, id, issue) ==
    [pc |-> pc, email |-> send[s].email, ip |-> send[s].ip, now |-> send[s].now,
     id |-> id, issue |-> issue]

(* "Send email verify code too frequently", or on to the next statement.   *)
SendCooldown(s) ==
    /\ send[s].pc = "cooldown"
    /\ IF \E i \in 1..Len(rows) :
              Recent(rows[i], send[s].email, send[s].ip, send[s].now)
       THEN SendReturn(s)
       ELSE /\ send' = [send EXCEPT ![s] = At(s, "find", 0, 0)]
            /\ UNCHANGED held
    /\ UNCHANGED <<clock, rows, check, outbox, issued>>

SendFind(s) ==
    /\ send[s].pc = "find"
    /\ \/ /\ \A i \in 1..Len(rows) : rows[i].email # send[s].email
          /\ send' = [send EXCEPT ![s] = At(s, "create", 0, 0)]
       \/ \E i \in 1..Len(rows) :
             /\ IsFirst(i, {j \in 1..Len(rows) : rows[j].email = send[s].email})
             /\ send' = [send EXCEPT ![s] = At(s, "update", i, 0)]
    /\ UNCHANGED <<clock, rows, held, check, outbox, issued>>

(* The row an issuance writes.  updated_at is stamped by the ORM when the  *)
(* statement runs; expires_at counts from the time read under the lock.    *)
NewChallenge(s, code) ==
    [email |-> send[s].email, ip |-> send[s].ip, code |-> code, attempts |-> 0,
     expires |-> send[s].now + Lifetime, updated |-> clock,
     issue |-> Len(issued) + 1]

Issue(s, code) ==
    /\ issued' = Append(issued, [email |-> send[s].email, code |-> code,
                                 wrong |-> 0, right |-> 0])
    /\ send' = [send EXCEPT ![s] = At(s, "mail", 0, Len(issued) + 1)]

SendCreate(s, code) ==
    /\ send[s].pc = "create"
    /\ rows' = Append(rows, NewChallenge(s, code))
    /\ Issue(s, code)
    /\ UNCHANGED <<clock, held, check, outbox>>

(* Conditional UPDATE; no row affected means the recheck failed.           *)
SendUpdate_UnlocksEarly(s, code) ==
    /\ send[s].pc = "update"
    /\ Replaceable(rows[send[s].id], send[s].now)
    /\ rows' = [rows EXCEPT ![send[s].id] = NewChallenge(s, code)]
    /\ Issue(s, code)
    /\ held' = held \ {Stripe[send[s].email]}
    /\ UNCHANGED <<clock, check, outbox>>
SendUpdate(s, code) ==
    /\ send[s].pc = "update"
    /\ IF Replaceable(rows[send[s].id], send[s].now)
       THEN /\ rows' = [rows EXCEPT ![send[s].id] = NewChallenge(s, code)]
            /\ Issue(s, code)
            /\ UNCHANGED held
       ELSE /\ SendReturn(s)
            /\ UNCHANGED <<rows, issued>>
    /\ UNCHANGED <<clock, check, outbox>>

(* AsyncSendTo, still under the mutex.                                     *)
SendMail(s) ==
    /\ send[s].pc = "mail"
    /\ outbox' = Append(outbox, send[s].issue)
    /\ SendReturn(s)
    /\ UNCHANGED <<clock, rows, check, issued>>

(* A failing statement, or no e-mail service: status 500.  A statement     *)
(* that failed wrote nothing; a code already written stays in the table.   *)
SendFail(s) ==
    /\ send[s].pc # "idle"
    /\ SendReturn(s)
    /\ UNCHANGED <<clock, rows, check, outbox, issued>>

-----------------------------------------------------------------------------
(* CheckEmailVerifyCode                                                    *)

CheckStart(c, e, code) ==
    /\ check[c].pc = "idle"
    /\ check' = [check EXCEPT ![c] = [pc |-> "read", email |-> e, code |-> code,
                                      retry |-> 0, id |-> 0, seen |-> NoRow,
                                      first |-> 0]]
    /\ UNCHANGED <<clock, rows, held, send, outbox, issued>>

(* The loop condition, then the SELECT.  No live challenge: leave the loop. *)
MaxRetry_Short == MaxAttempts - 1
MaxRetry == MaxAttempts

(* The next iteration, or the end of the loop: challenge is out of scope.  *)
Left(ch, pc, retry) ==
    [pc |-> pc, email |-> ch.email, code |-> ch.code, retry |-> retry,
     id |-> 0, seen |-> NoRow, first |-> ch.first]

Seen(ch, i) ==
    [pc |-> "cas", email |-> ch.email, code |-> ch.code, retry |-> ch.retry,
     id |-> i, seen |-> rows[i],
     first |-> IF ch.first = 0 THEN rows[i].issue ELSE ch.first]

CheckRead(c) ==
    /\ check[c].pc = "read"
    /\ \/ /\ check[c].retry < MaxRetry
          /\ \E i \in 1..Len(rows) :
               /\ IsFirst(i, {j \in 1..Len(rows) : Live(rows[j], check[c].email, clock)})
               /\ check' = [check EXCEPT ![c] = Seen(check[c], i)]
       \/ /\ \/ check[c].retry >= MaxRetry
             \/ \A i \in 1..Len(rows) : ~ Live(rows[i], check[c].email, clock)
          /\ check' = [check EXCEPT ![c] = Left(check[c], "refused", check[c].retry)]
    /\ UNCHANGED <<clock, rows, held, send, outbox, issued>>

(* What the UPDATE sets: a match consumes the code, a mismatch spends one  *)
(* attempt.  updated_at is left alone (UpdateColumns).                     *)
Spent_Untyped(r, seen, matched) ==
    IF matched THEN [r EXCEPT !.code = NoCode, !.attempts = NoCode]
               ELSE [r EXCEPT !.attempts = seen.attempts + 1]
Spent_NotConsumed(r, seen, matched) == [r EXCEPT !.attempts = seen.attempts + 1]
Spent(r, seen, matched) ==
    [email |-> r.email, ip |-> r.ip, code |-> IF matched THEN NoCode ELSE r.code,
     attempts |-> IF matched THEN MaxAttempts ELSE seen.attempts + 1,
     expires |-> r.expires, updated |-> r.updated, issue |-> r.issue]

Charged(iss, matched) ==
    [email |-> iss.email, code |-> iss.code,
     right |-> IF matched THEN iss.right + 1 ELSE iss.right,
     wrong |-> IF matched THEN iss.wrong ELSE iss.wrong + 1]

CheckCas(c) ==
    /\ check[c].pc = "cas"
    /\ LET i == check[c].id
           seen == check[c].seen
           matched == seen.code = check[c].code
       IN IF SameVersion(rows[i], seen, clock)
          THEN /\ rows' = [rows EXCEPT ![i] = Spent(@, seen, matched)]
               /\ issued' = [issued EXCEPT ![rows[i].issue] = Charged(@, matched)]
               /\ check' = [check EXCEPT ![c] = Left(check[c],
                                       IF matched THEN "accepted" ELSE "refused",
                                       check[c].retry)]
          ELSE /\ check' = [check EXCEPT ![c] = Left(check[c], "read",
                                       check[c].retry + 1)]
               /\ UNCHANGED <<rows, issued>>
    /\ UNCHANGED <<clock, held, send, outbox>>

(* The caller goes on with the result.                                     *)
CheckReturn(c) ==
    /\ check[c].pc \in {"accepted", "refused"}
    /\ check' = [check EXCEPT ![c] = IdleCheck]
    /\ UNCHANGED <<clock, rows, held, send, outbox, issued>>

(* A failing statement: status 500, nothing written.                       *)
CheckFail(c) ==
    /\ check[c].pc \in {"read", "cas"}
    /\ check' = [check EXCEPT ![c] = IdleCheck]
    /\ UNCHANGED <<clock, rows, held, send, outbox, issued>>

Tick ==
    /\ clock < MaxTime
    /\ clock' = clock + 1
    /\ UNCHANGED <<rows, held, send, check, outbox, issued>>

-----------------------------------------------------------------------------
SendStep(s) ==
    \/ SendCooldown(s)
    \/ SendFind(s)
    \/ \E k \in Codes : SendCreate(s, k) \/ SendUpdate(s, k)
    \/ SendMail(s)

CheckStep(c) == CheckRead(c) \/ CheckCas(c)

Next ==
    \/ Tick
    \/ \E s \in Senders :
          \/ \E e \in Emails, ip \in IPs : SendStart(s, e, ip)
          \/ SendStep(s)
          \/ SendFail(s)
    \/ \E c \in Checkers :
          \/ \E e \in Emails, k \in Codes : CheckStart(c, e, k)
          \/ CheckStep(c)
          \/ CheckReturn(c)
          \/ CheckFail(c)

Spec == Init /\ [][Next]_vars

-----------------------------------------------------------------------------
(* Properties.                                                             *)

(* A code is accepted at most once, however many requests carry it at the  *)
(* same time: the conditional UPDATE in CheckEmailVerifyCode consumes it.  *)
AcceptedAtMostOnce == \A i \in 1..Len(issued) : issued[i].right <= 1

(* No more than MaxAttempts comparisons are ever spent on one issuance,    *)
(* right or wrong, by simultaneous checks too.                             *)
AttemptBudget ==
    \A i \in 1..Len(issued) : issued[i].wrong + issued[i].right <= MaxAttempts

(* The table has no unique index on the address; the mutex of              *)
(* AuthEmailSend alone keeps it at one challenge per address.              *)
OneRowPerEmail ==
    \A i, j \in 1..Len(rows) : rows[i].email = rows[j].email => i = j

(* The invariant that makes the budget inductive: the table row of an      *)
(* issuance and the comparisons spent on that issuance agree, and what a   *)
(* check is about to compare with was still open when it was read.         *)
RowLedger(r) ==
    /\ r.issue \in 1..Len(issued)
    /\ IF r.code = NoCode
       THEN issued[r.issue].right = 1 /\ issued[r.issue].wrong < MaxAttempts
       ELSE /\ issued[r.issue].right = 0
            /\ issued[r.issue].wrong = r.attempts
            /\ r.attempts <= MaxAttempts

Ledger ==
    /\ \A i \in 1..Len(rows) : RowLedger(rows[i])
    /\ \A i, j \in 1..Len(rows) : rows[i].issue = rows[j].issue => i = j
    /\ \A s \in Senders : send[s].pc = "update" => send[s].id \in 1..Len(rows)
    /\ \A c \in Checkers : check[c].pc = "cas" =>
          /\ check[c].id \in 1..Len(rows)
          /\ check[c].seen.code # NoCode
          /\ check[c].seen.attempts < MaxAttempts

(* A check that carried the right code for the challenge it first read is  *)
(* refused only when that challenge is dead (consumed, exhausted, expired  *)
(* or replaced): MaxAttempts retries are enough, whoever wins the races.   *)
RefusedOnlyIfDead ==
    \A c \in Checkers :
       (/\ check[c].pc = "refused"
        /\ check[c].first # 0
        /\ issued[check[c].first].code = check[c].code)
       => \A i \in 1..Len(rows) :
             rows[i].issue = check[c].first => ~ Live(rows[i], check[c].email, clock)

(* For one address the codes are handed to the e-mail queue in the order   *)
(* in which they were written, so the last mail holds the valid code.      *)
MailedInOrder ==
    \A i, j \in 1..Len(outbox) :
       (i < j /\ issued[outbox[i]].email = issued[outbox[j]].email)
       => outbox[i] < outbox[j]

(* What the mutex of an address is for: sends for it that run at the same  *)
(* time leave one challenge, and the last mail holds its code.             *)
SendsInOrder == OneRowPerEmail /\ MailedInOrder

(* auth_email_send.go: "Exhausted challenges cannot be replaced until      *)
(* their original expiry", even by a resend that passed the cooldown check *)
(* before the last failure.                                                *)
LockoutKept ==
    [][\A i \in 1..Len(rows) :
         Exhausted(rows[i], clock) => rows'[i] = rows[i]]_vars

=============================================================================
