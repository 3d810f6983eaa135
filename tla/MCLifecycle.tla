---------------------------- MODULE MCLifecycle ----------------------------
(* Instances of Lifecycle and of PageFetch, the other work that goes on in *)
(* the background, checked side by side: live names the one whose steps a  *)
(* behaviour takes, the variables of the other keep one initial value.     *)
EXTENDS Lifecycle, PageFetch, TLC

CONSTANTS empty, plain, cached, invalid, zone, nodb, a1, a2, j1, Casts, o1, o2, u1, u2

VARIABLES live, cast

(* Two settings requests at the same time; settings requests that follow   *)
(* one another, with every kind of file, while mails are pushed and sent;  *)
(* the end of the process in the middle of a request or of a job.          *)
Together == {[who |-> {a1, a2}, yamls |-> {plain, invalid, zone}],
             [who |-> {a1, j1}, yamls |-> {plain, invalid, zone, nodb}],
             [who |-> {a1, Main}, yamls |-> {cached}],
             [who |-> {Main, j1}, yamls |-> {}]}

(* PageFetch: one origin is trusted, an edit adds the other.               *)
OriginOf == u1 :> o1 @@ u2 :> o2
OneOrBoth == {{o1}, {o1, o2}}

MCInit ==
    /\ live \in {"app", "fetch"} /\ cast \in Casts
    /\ Init /\ FetchInit
    /\ live = "app" => trusted = {o1}
    /\ live = "fetch" => cast.who = {Main, j1} /\ trusted = {o1}
AppNext ==
    /\ live = "app" /\ Next
    /\ \A a \in Actors : actor'[a].pc = "write" =>
          a \in cast.who /\ actor'[a].yaml \in cast.yamls
    /\ actor'[Main].pc # "idle" => Main \in cast.who
    /\ \A j \in Jobs : job'[j].pc # "idle" => j \in cast.who
    /\ up' \in Admins \cup Jobs => up' \in cast.who
    /\ UNCHANGED <<live, cast, fetchVars>>
FetchesNext == live = "fetch" /\ FetchNext /\ UNCHANGED <<live, cast, vars>>

(* The fairness of both modules, PageFetch's while it is live.             *)
MCSpec ==
    /\ MCInit /\ [][AppNext \/ FetchesNext]_<<live, cast, vars, fetchVars>>
    /\ Fairness
    /\ WF_fetchVars(live = "fetch" /\ FetchTick)
    /\ \A w \in Fetchers : WF_fetchVars(live = "fetch" /\ Own(w))
=============================================================================
