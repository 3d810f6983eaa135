----------------------------- MODULE FetchSlots -----------------------------
(***************************************************************************)
(* What the limiter of automatic title fetches promises (the comment above *)
(* pageFetchLimiter, internal/dao/page_fetch.go): few fetches at a time,   *)
(* one of a URL, and starts that keep a distance.                          *)
(***************************************************************************)
EXTENDS Integers, FiniteSets

CONSTANTS URLs, MaxConcurrent, Interval

VARIABLES
    running,  \* URLs that are being fetched
    since     \* time since the last start, as far as it matters

TypeInvariant == running \subseteq URLs /\ since \in 0..Interval

Init == running = {} /\ since = Interval

Start(u) ==
    /\ u \in URLs \ running
    /\ Cardinality(running) < MaxConcurrent
    /\ since = Interval
    /\ running' = running \cup {u} /\ since' = 0

Stop(u) == u \in running /\ running' = running \ {u} /\ UNCHANGED since

Pass == since < Interval /\ since' = since + 1 /\ UNCHANGED running

Next == Pass \/ \E u \in URLs : Start(u) \/ Stop(u)

Spec == Init /\ [][Next]_<<running, since>>
=============================================================================
