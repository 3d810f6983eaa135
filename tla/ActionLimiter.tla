--------------------------- MODULE ActionLimiter ---------------------------
(***************************************************************************)
(* The captcha limiter: LimiterGuard (server/common/captcha.go) asks the   *)
(* limiter (internal/limiter/base.go, lib.go) whether a client may act and *)
(* logs the action afterwards; POST /captcha/verify, GET /captcha and GET  *)
(* /captcha/status use the same limiter, and the store of image captchas   *)
(* or the services behind the captchas in a frame (internal/captcha).      *)
(* Both stores are simple_cache maps: one key is read or written at a      *)
(* time, nothing spans two calls.  Every call of a store is one action.    *)
(*                                                                         *)
(* Time is counted in ticks, TicksPerSecond of them a second; the limiter  *)
(* keeps whole seconds.                                                    *)
(***************************************************************************)
EXTENDS Integers, FiniteSets

CONSTANTS
    IPs,             \* client addresses
    Codes,           \* texts of image captchas
    Requests,        \* concurrent requests
    Modes,           \* the settings to consider
    Expiration,      \* CaptchaExpiration, in ticks
    TicksPerSecond,
    MaxTicks,         \* bound: the clock stops here
    MaxActs,         \* bound: requests made
    Nil              \* no entry in a store

(* The limit, the reset time-out in seconds (0: never), and whether the    *)
(* captcha is an image or is shown in a frame and checked by a service.    *)
Mode == [max : Int, reset : Nat, always : BOOLEAN, iframe : BOOLEAN]

ASSUME LimiterAssumption ==
    /\ IPs # {} /\ Codes # {} /\ Modes \subseteq Mode
    /\ Expiration \in Nat \ {0} /\ TicksPerSecond \in Nat \ {0}
    /\ MaxTicks \in Nat /\ MaxActs \in Nat /\ Nil \notin Int \cup BOOLEAN
    /\ Nil \notin [code : Codes, until : Nat] \cup [code : Codes, at : Nat]

VARIABLES
    mode,      \* app.Conf().Captcha when the server started
    clock,     \* time.Now()
    count,     \* action-count:ip
    last,      \* action-time:ip, in seconds
    verified,  \* captcha-am-verified:ip
    image,     \* atk_captcha:ip, and when it expires
    gc,        \* the key that a scan of the captcha store found expired
    work,      \* state of every request
    acts,      \* requests made so far
    credit,    \* history: the actions the rules still allow
    exact,     \* history: when action-time was written, in ticks
    latest,    \* history: the image generated last
    raced      \* history: clients whose requests have overlapped

store == <<count, last, verified>>
history == <<credit, exact, latest, raced>>
captchaVars == <<mode, clock, store, image, gc, work, acts, history>>

Pcs == {"idle", "isPass", "timeout", "resetTime", "resetCount", "handle", "logRead",
        "logCount", "logTime", "logVerified", "check", "drop", "passCount",
        "passVerified", "image", "panic"}

Always == mode.always \/ mode.max <= 0

CaptchaTypeOK ==
    /\ mode \in Mode /\ clock \in 0..MaxTicks
    /\ \A i \in IPs : count[i] \in Int \cup {Nil}
    /\ \A i \in IPs : last[i] \in Nat \cup {Nil}
    /\ \A i \in IPs : verified[i] \in BOOLEAN \cup {Nil}
    /\ \A i \in IPs : image[i] = Nil \/ image[i] \in [code : Codes, until : Nat]
    /\ gc \in IPs \cup {Nil}
    /\ work \in [Requests -> [pc : Pcs, op : {"", "act", "verify", "get", "status"},
                              ip : IPs, code : Codes, read : Int, mute : BOOLEAN]]
    /\ acts \in 0..MaxActs
    /\ credit \in [IPs -> Int] /\ exact \in [IPs -> Int]
    /\ \A i \in IPs : latest[i] = Nil \/ latest[i] \in [code : Codes, at : Nat]
    /\ raced \subseteq IPs

Idle == [pc |-> "idle", op |-> "", ip |-> CHOOSE i \in IPs : TRUE,
         code |-> CHOOSE k \in Codes : TRUE, read |-> 0, mute |-> FALSE]

CaptchaInit ==
    /\ mode \in Modes /\ clock = 0
    /\ count = [i \in IPs |-> Nil] /\ last = [i \in IPs |-> Nil]
    /\ verified = [i \in IPs |-> Nil] /\ image = [i \in IPs |-> Nil] /\ gc = Nil
    /\ work = [w \in Requests |-> Idle] /\ acts = 0
    /\ credit = [i \in IPs |-> IF Always THEN 0 ELSE mode.max]
    /\ exact = [i \in IPs |-> 0] /\ latest = [i \in IPs |-> Nil] /\ raced = {}

Ip(w) == work[w].ip
Goto(w, pc) == work' = [work EXCEPT ![w].pc = pc]
Return(w) == work' = [work EXCEPT ![w] = Idle]

(* A request arrives: a guarded action, an answer to a captcha, a call for *)
(* a new image, or a question for the status.                              *)
Begin(w, op, i, k) ==
    /\ work[w].pc = "idle" /\ acts < MaxActs
    /\ acts' = acts + 1
    /\ work' = [work EXCEPT ![w] = [Idle EXCEPT !.op = op, !.ip = i, !.code = k,
                  !.pc = CASE op = "verify" -> "check" [] op = "get" -> "image"
                              [] OTHER -> "isPass"]]
    /\ raced' = IF \E o \in Requests : work[o].pc # "idle" /\ Ip(o) = i
                THEN raced \cup {i} ELSE raced
    /\ UNCHANGED <<mode, clock, store, image, gc, credit, exact, latest>>

-----------------------------------------------------------------------------
(* IsPass                                                                  *)

(* The guard goes on to the handler or to a captcha; the status is told.   *)
Answer(w, pass) ==
    IF work[w].op = "status" THEN Return(w)
    ELSE Goto(w, IF pass THEN "handle" ELSE "image")

getCount(i) == IF count[i] = Nil THEN 0 ELSE count[i]

IsPass(w) ==
    /\ work[w].pc = "isPass"
    /\ IF ~ Always /\ getCount(Ip(w)) >= mode.max THEN Goto(w, "timeout")
       ELSE Answer(w, ~ Always \/ verified[Ip(w)] = TRUE)
    /\ UNCHANGED <<mode, clock, store, image, gc, acts, history>>

(* A client without an entry acted last in 1970.                           *)
isTimeout_Early(i) ==
    /\ mode.reset > 0
    /\ last[i] = Nil \/ clock > (last[i] + mode.reset - 1) * TicksPerSecond
isTimeout(i) ==
    /\ mode.reset > 0
    /\ last[i] = Nil \/ clock > (last[i] + mode.reset) * TicksPerSecond

Timeout(w) ==
    /\ work[w].pc = "timeout"
    /\ IF isTimeout(Ip(w)) THEN Goto(w, "resetTime") ELSE Answer(w, FALSE)
    /\ UNCHANGED <<mode, clock, store, image, gc, acts, history>>

(* ResetLog: two deletions.                                                *)
ResetTime(w) ==
    /\ work[w].pc = "resetTime"
    /\ last' = [last EXCEPT ![Ip(w)] = Nil]
    /\ Goto(w, "resetCount")
    /\ UNCHANGED <<mode, clock, count, verified, image, gc, acts, history>>

ResetCount(w) ==
    /\ work[w].pc = "resetCount"
    /\ count' = [count EXCEPT ![Ip(w)] = Nil]
    /\ credit' = [credit EXCEPT ![Ip(w)] = mode.max]
    /\ Answer(w, TRUE)
    /\ UNCHANGED <<mode, clock, last, verified, image, gc, acts, exact, latest, raced>>

(* The guarded handler runs; what it returns makes no difference.          *)
Handle(w) ==
    /\ work[w].pc = "handle"
    /\ credit' = [credit EXCEPT ![Ip(w)] = @ - 1]
    /\ Goto(w, "logRead")
    /\ UNCHANGED <<mode, clock, store, image, gc, acts, exact, latest, raced>>

-----------------------------------------------------------------------------
(* Log: increaseCount, logTime, setVerified.  MarkVerifyFailed logs too.   *)
LogRead(w) ==
    /\ work[w].pc = "logRead"
    /\ work' = [work EXCEPT ![w].pc = "logCount", ![w].read = getCount(Ip(w))]
    /\ UNCHANGED <<mode, clock, store, image, gc, acts, history>>

Spent(w) == IF Always \/ credit[Ip(w)] <= 0 THEN 0 ELSE credit[Ip(w)] - 1

LogCount(w) ==
    /\ work[w].pc = "logCount"
    /\ count' = [count EXCEPT ![Ip(w)] = work[w].read + 1]
    /\ credit' = IF work[w].op = "verify" THEN [credit EXCEPT ![Ip(w)] = Spent(w)] ELSE credit
    /\ Goto(w, "logTime")
    /\ UNCHANGED <<mode, clock, last, verified, image, gc, acts, exact, latest, raced>>

LogTime_Before(w) ==
    /\ work[w].pc = "logTime"
    /\ last' = [last EXCEPT ![Ip(w)] = clock \div TicksPerSecond - 1]
    /\ exact' = [exact EXCEPT ![Ip(w)] = clock]
    /\ Goto(w, "logVerified")
    /\ UNCHANGED <<mode, clock, count, verified, image, gc, acts, credit, latest, raced>>
LogTime(w) ==
    /\ work[w].pc = "logTime"
    /\ last' = [last EXCEPT ![Ip(w)] = clock \div TicksPerSecond]
    /\ exact' = [exact EXCEPT ![Ip(w)] = clock]
    /\ Goto(w, "logVerified")
    /\ UNCHANGED <<mode, clock, count, verified, image, gc, acts, credit, latest, raced>>

LogVerified(w) ==
    /\ work[w].pc = "logVerified"
    /\ verified' = [verified EXCEPT ![Ip(w)] = FALSE]
    /\ CASE work[w].op = "act" -> Return(w)
         [] work[w].mute -> Goto(w, "panic")
         [] OTHER -> Goto(w, "image")
    /\ UNCHANGED <<mode, clock, count, last, image, gc, acts, history>>

-----------------------------------------------------------------------------
(* POST /captcha/verify                                                    *)

Expired(i) == image[i] # Nil /\ image[i].until < clock

Check(w) ==
    /\ work[w].pc = "check" /\ ~ mode.iframe
    /\ Goto(w, CASE Expired(Ip(w)) -> "drop"
                 [] image[Ip(w)] # Nil /\ image[Ip(w)].code = work[w].code
                    /\ ~ Expired(Ip(w)) -> "passCount"
                 [] OTHER -> "logRead")
    /\ UNCHANGED <<mode, clock, store, image, gc, acts, history>>

(* The services behind the frames answer, whatever they were asked, or not *)
(* within ten seconds.  An answer whose status is not 200 is taken as a    *)
(* failure without an error.                                               *)
CheckByService(w) ==
    /\ work[w].pc = "check" /\ mode.iframe
    /\ \/ Goto(w, "passCount")
       \/ \E mute \in BOOLEAN : work' = [work EXCEPT ![w].pc = "logRead", ![w].mute = mute]
    /\ UNCHANGED <<mode, clock, store, image, gc, acts, history>>

(* simple_cache deletes the key it found expired.                          *)
Drop(w) ==
    /\ work[w].pc = "drop"
    /\ image' = [image EXCEPT ![Ip(w)] = Nil]
    /\ Goto(w, "logRead")
    /\ UNCHANGED <<mode, clock, store, gc, acts, history>>

(* MarkVerifyPassed: one action, not all of them.                          *)
PassCount_Zero(w) ==
    /\ work[w].pc = "passCount"
    /\ count' = [count EXCEPT ![Ip(w)] = 0]
    /\ Goto(w, "passVerified")
    /\ UNCHANGED <<mode, clock, last, verified, image, gc, acts, history>>
PassCount(w) ==
    /\ work[w].pc = "passCount"
    /\ count' = [count EXCEPT ![Ip(w)] = mode.max - 1]
    /\ Goto(w, "passVerified")
    /\ UNCHANGED <<mode, clock, last, verified, image, gc, acts, history>>

PassVerified(w) ==
    /\ work[w].pc = "passVerified"
    /\ verified' = [verified EXCEPT ![Ip(w)] = TRUE]
    /\ credit' = [credit EXCEPT ![Ip(w)] = 1]
    /\ Return(w)
    /\ UNCHANGED <<mode, clock, count, last, image, gc, acts, exact, latest, raced>>

(* A new image replaces the client's old one; or it cannot be generated.   *)
Image_KeepsOld(w, k) ==
    /\ work[w].pc = "image" /\ ~ mode.iframe
    /\ image' = IF image[Ip(w)] # Nil THEN image
                ELSE [image EXCEPT ![Ip(w)] = [code |-> k, until |-> clock + Expiration]]
    /\ latest' = [latest EXCEPT ![Ip(w)] = [code |-> k, at |-> clock]]
    /\ Return(w)
    /\ UNCHANGED <<mode, clock, store, gc, acts, credit, exact, raced>>
Image(w, k) ==
    /\ work[w].pc = "image" /\ ~ mode.iframe
    /\ image' = [image EXCEPT ![Ip(w)] = [code |-> k, until |-> clock + Expiration]]
    /\ latest' = [latest EXCEPT ![Ip(w)] = [code |-> k, at |-> clock]]
    /\ Return(w)
    /\ UNCHANGED <<mode, clock, store, gc, acts, credit, exact, raced>>

(* No image, or the page that shows the frame.                             *)
NoImage(w) ==
    /\ work[w].pc = "image"
    /\ Return(w)
    /\ UNCHANGED <<mode, clock, store, image, gc, acts, history>>

(* A failure without an error: the handler reads the text of the error it  *)
(* does not have.  Nothing recovers from it: the server ends, and starts   *)
(* again with empty stores.                                                *)
Panic(w) ==
    /\ work[w].pc = "panic"
    /\ count' = [i \in IPs |-> Nil] /\ last' = [i \in IPs |-> Nil]
    /\ verified' = [i \in IPs |-> Nil] /\ image' = [i \in IPs |-> Nil] /\ gc' = Nil
    /\ work' = [o \in Requests |-> Idle]
    /\ credit' = [i \in IPs |-> IF Always THEN 0 ELSE mode.max]
    /\ exact' = [i \in IPs |-> 0] /\ latest' = [i \in IPs |-> Nil] /\ raced' = {}
    /\ UNCHANGED <<mode, clock, acts>>

-----------------------------------------------------------------------------
(* GC of the captcha store, in the course of any call once the store is    *)
(* large: it deletes the keys that it found expired.                       *)
GcFind(i) ==
    /\ gc = Nil /\ Expired(i)
    /\ gc' = i
    /\ UNCHANGED <<mode, clock, store, image, work, acts, history>>

GcDelete ==
    /\ gc # Nil
    /\ image' = [image EXCEPT ![gc] = Nil]
    /\ gc' = Nil
    /\ UNCHANGED <<mode, clock, store, work, acts, history>>

CaptchaTick ==
    /\ clock < MaxTicks
    /\ clock' = clock + 1
    /\ UNCHANGED <<mode, store, image, gc, work, acts, history>>

-----------------------------------------------------------------------------
Step(w) ==
    \/ IsPass(w) \/ Timeout(w) \/ ResetTime(w) \/ ResetCount(w) \/ Handle(w)
    \/ LogRead(w) \/ LogCount(w) \/ LogTime(w) \/ LogVerified(w)
    \/ Check(w) \/ Drop(w) \/ PassCount(w) \/ PassVerified(w)
    \/ \E k \in Codes : Image(w, k)
    \/ CheckByService(w) \/ NoImage(w) \/ Panic(w)

CaptchaNext ==
    \/ \E w \in Requests : Step(w)
    \/ \E w \in Requests, i \in IPs :
          \/ \E k \in IF mode.iframe THEN {Idle.code} ELSE Codes : Begin(w, "verify", i, k)
          \/ \E op \in {"act", "get", "status"} : Begin(w, op, i, Idle.code)
    \/ \E i \in IPs : GcFind(i)
    \/ GcDelete
    \/ CaptchaTick

CaptchaSpec == CaptchaInit /\ [][CaptchaNext]_captchaVars

-----------------------------------------------------------------------------
(* Properties.                                                             *)

(* A client whose requests follow one another never acts more often than   *)
(* the limit allows: max times until a time-out, once per solved captcha,  *)
(* and a wrong answer costs an action.                                     *)
WithinCredit == CaptchaTypeOK /\ \A i \in IPs \ raced : credit[i] >= 0

(* A client is refused only if it has used up its actions, and never once  *)
(* the reset time-out has passed since its last logged action, whatever    *)
(* overlaps (the second part).                                             *)
RefusedWhenSpent(w) ==
    work[w].op = "act" /\ work[w].pc # "image" /\ work'[w].pc = "image" =>
       /\ Ip(w) \notin raced => credit[Ip(w)] = 0
       /\ ~ Always /\ mode.reset > 0 =>
             clock - exact[Ip(w)] <= mode.reset * TicksPerSecond

(* The count is reset no earlier than a second before the time-out since   *)
(* the last logged action: logTime drops the fraction of a second.         *)
NoEarlyReset(w) ==
    work[w].pc = "timeout" /\ work'[w].pc = "resetTime" /\ last[Ip(w)] # Nil =>
       clock - exact[Ip(w)] > (mode.reset - 1) * TicksPerSecond

(* The reset time-out of the limiter is kept: clients are not refused      *)
(* after it, and their count is not reset before it.                       *)
ResetInTime == [][\A w \in Requests : RefusedWhenSpent(w) /\ NoEarlyReset(w)]_captchaVars

(* An answer passes only if it is the text of the image generated last for *)
(* the client, within its lifetime, under any interleaving with new images *)
(* and with the deletions of expired ones.                                 *)
OnlyLatestImage ==
    [][\A w \in Requests :
         ~ mode.iframe /\ work[w].pc = "check" /\ work'[w].pc = "passCount" =>
            /\ latest[Ip(w)] # Nil
            /\ latest[Ip(w)].code = work[w].code
            /\ clock <= latest[Ip(w)].at + Expiration]_captchaVars
=============================================================================
