--------------------------- MODULE MCRateLimiter ---------------------------
(* RateLimiter with a history of admissions for TLC.  Those of which no    *)
(* interval still open has any are forgotten.                              *)
EXTENDS RateLimiter, FiniteSetsExt, TLC

VARIABLE admitted  \* history: admissions of every key at every time

Times == 0..MaxTime

RateInit == Init /\ admitted = [k \in Keys |-> [t \in Times |-> 0]]

Admission(k) == Admit(k) /\ admitted' = [admitted EXCEPT ![k][now] = @ + 1]
Passing ==
    /\ Tick
    /\ admitted' = [k \in Keys |-> [t \in Times |->
                       IF t + Window <= now' THEN 0 ELSE admitted[k][t]]]
Denial(k) == Deny(k) /\ UNCHANGED admitted

RateNext == Passing \/ \E k \in Keys : Denial(k) \/ Admission(k)

rateVars == <<vars, admitted>>

Within(k, t) == MapThenSumSet(LAMBDA s : admitted[k][s],
                                           {s \in Times : t <= s /\ s < t + Window})
AllWithin(t) == MapThenSumSet(LAMBDA k : Within(k, t), Keys)

(* In any interval as long as the window, wherever it begins, at most      *)
(* twice the limits are admitted.                                          *)
SlidingBound ==
    \A t \in Times : AllWithin(t) <= 2 * TotalLimit
                     /\ \A k \in Keys : Within(k, t) <= 2 * PerKeyLimit

(* The quota is not given away and comes back in time: whoever is denied   *)
(* is in a window that still lasts and whose limit was really used up by   *)
(* admissions since it began.                                              *)
SinceOpened(k) == MapThenSumSet(LAMBDA t : admitted[k][t], {t \in Times : t >= opened.cur})
DeniedForCause ==
    \A k \in Keys : Denied(k) =>
        /\ now < opened.cur + Window
        /\ \/ SinceOpened(k) >= PerKeyLimit
           \/ MapThenSumSet(SinceOpened, Keys) >= TotalLimit
=============================================================================
