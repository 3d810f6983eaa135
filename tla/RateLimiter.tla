---------------------------- MODULE RateLimiter ----------------------------
(***************************************************************************)
(* limiter.RateLimiter (internal/limiter/rate.go): admissions per key and  *)
(* in total in a fixed window.  Allow runs under a mutex: one call is one  *)
(* step.  The limiter guards the creation of pages by views (page_pv.go)   *)
(* and the guessing of notification keys (notify_read.go).                 *)
(***************************************************************************)
EXTENDS Integers, FiniteSets

CONSTANTS
    Keys,         \* client addresses
    PerKeyLimit,
    TotalLimit,
    Window,       \* length of the window
    MaxTime       \* bound on the clock

(* NewRateLimiter panics unless the limits and the window are positive.    *)
ASSUME LimitAssumption ==
    /\ PerKeyLimit \in Nat \ {0} /\ TotalLimit \in Nat \ {0} /\ Window \in Nat \ {0}
    /\ MaxTime \in Nat

VARIABLES
    now,      \* clock
    expires,  \* end of the current window
    counts,   \* the map counts: the keys retained and their admissions
    total,    \* admissions in the current window
    opened    \* history: when the current window and the one before it began

vars == <<now, expires, counts, total, opened>>

CountMap == UNION {[K -> 1..PerKeyLimit] : K \in SUBSET Keys}

TypeOK ==
    /\ now \in 0..MaxTime
    /\ expires \in Nat
    /\ counts \in CountMap
    /\ total \in 0..TotalLimit
    /\ opened \in [cur : Int, prev : Int]

NoCounts == [k \in {} |-> 0]

(* The zero time is before every time of the clock.                        *)
Init ==
    /\ now = 0 /\ expires = 0
    /\ counts = NoCounts /\ total = 0
    /\ opened = [cur |-> -Window, prev |-> -Window - Window]

Tick ==
    /\ now < MaxTime
    /\ now' = now + 1
    /\ UNCHANGED <<expires, counts, total, opened>>

(* The state after the reset that Allow makes when the window is over.     *)
Over == now >= expires

Counts0 == IF Over THEN NoCounts ELSE counts
Total0 == IF Over THEN 0 ELSE total
Count(c, k) == IF k \in DOMAIN c THEN c[k] ELSE 0

Denied_NoTotal(k) == Count(Counts0, k) >= PerKeyLimit
Denied(k) == Total0 >= TotalLimit \/ Count(Counts0, k) >= PerKeyLimit

Reset ==
    /\ expires' = IF Over THEN now + Window ELSE expires
    /\ opened' = IF Over THEN [cur |-> now, prev |-> opened.cur] ELSE opened

(* A denied call leaves no trace but the reset.                            *)
Deny_Retains(k) ==
    /\ Denied(k)
    /\ Reset
    /\ counts' = [x \in DOMAIN Counts0 \cup {k} |-> IF x = k THEN PerKeyLimit ELSE Counts0[x]]
    /\ total' = Total0
    /\ UNCHANGED now
Deny(k) ==
    /\ Denied(k)
    /\ Reset
    /\ counts' = Counts0
    /\ total' = Total0
    /\ UNCHANGED now

Admit_NoTotal(k) ==
    /\ ~ Denied(k)
    /\ Reset
    /\ counts' = [x \in DOMAIN Counts0 \cup {k} |->
                    IF x = k THEN Count(Counts0, k) + 1 ELSE Counts0[x]]
    /\ total' = IF Count(Counts0, k) = 0 THEN Total0 + 1 ELSE Total0
    /\ UNCHANGED now
Admit(k) ==
    /\ ~ Denied(k)
    /\ Reset
    /\ counts' = [x \in DOMAIN Counts0 \cup {k} |->
                    IF x = k THEN Count(Counts0, k) + 1 ELSE Counts0[x]]
    /\ total' = Total0 + 1
    /\ UNCHANGED now

Next == Tick \/ \E k \in Keys : Deny(k) \/ Admit(k)

Spec == Init /\ [][Next]_vars

-----------------------------------------------------------------------------
(* Properties.                                                             *)

(* rate.go: at most totalLimit keys are retained, whatever keys callers    *)
(* make up: every retained key was admitted in this window.                *)
KeysBounded == Cardinality(DOMAIN counts) <= TotalLimit

(* Windows do not overlap: a new one begins only after the one before it   *)
(* has lasted its full length, so the limits of two windows bound what is  *)
(* admitted in any interval of that length.                                *)
WindowsApart == opened.cur >= opened.prev + Window

(* The limiter's bookkeeping is sound: no counter passes its limit, the    *)
(* map is bounded, and windows are apart.                                  *)
RateSound == TypeOK /\ KeysBounded /\ WindowsApart
=============================================================================
