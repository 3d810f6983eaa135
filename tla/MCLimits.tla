------------------------------ MODULE MCLimits ------------------------------
(* Instances of RateLimiter, ActionLimiter and Social for TLC, checked     *)
(* side by side: live names the one whose steps a behaviour takes, the     *)
(* variables of the others keep one initial value.                         *)
EXTENDS MCRateLimiter, ActionLimiter, Social

CONSTANTS t1, t2

VARIABLES live, overlap

(* ActionLimiter: two actions until the time-out; the same without one;    *)
(* always a captcha, chosen, or because no action is free; and captchas    *)
(* that a service checks.                                                  *)
M(max, reset, always, iframe) ==
    [max |-> max, reset |-> reset, always |-> always, iframe |-> iframe]
AllModes == {M(2, 1, FALSE, FALSE), M(2, 0, FALSE, FALSE), M(2, 1, TRUE, FALSE),
             M(0, 1, FALSE, FALSE), M(2, 1, FALSE, TRUE), M(2, 1, TRUE, TRUE)}

(* Overlapping requests are followed through fewer of them.                *)
RacedActs == IF mode = M(2, 1, FALSE, FALSE) THEN 3 ELSE 2
ActionNext == CaptchaNext /\ (raced' # {} => acts' <= RacedActs)

(* Social: users of two Gitea servers and of other providers, with and     *)
(* without address and name, some of them alike.                           *)
Profile(p, s, uid, mail, nick) ==
    [provider |-> p, server |-> s, uid |-> uid, mail |-> mail, nick |-> nick]
MCPeople == {Profile("gitea", "gitea.com", "5", <<"", "">>, "ann"),
             Profile("gitea", "git.a", "5", <<"", "">>, "ann"),
             Profile("gitea", "git.a", "6", <<"ann", "b">>, "ann"),
             Profile("github", "github", "5", <<"ann", "b">>, "ann"),
             Profile("steam", "steam", "5", <<"", "">>, "")}
Auth(on, names, gitea) == [on |-> on, names |-> names, gitea |-> gitea]
MCConfs == {Auth(TRUE, {"gitea", "github", "steam"}, "gitea.com"),
            Auth(TRUE, {"gitea", "github"}, "git.a"),
            Auth(TRUE, {"gitea"}, "invalid"), Auth(FALSE, {}, "gitea.com")}

(* Two callbacks overlap while the settings stay; or one at a time meets a *)
(* change of the settings; or two changes, that overlap or not, and one    *)
(* flow.  A request brings a state to a provider that returns it, the      *)
(* second one that of the first.  Tabs differ by their names alone: the    *)
(* second one is used while the first is.                                  *)
LoginNext ==
    /\ SocialNext
    /\ Cardinality({k \in Calls : call'[k].pc # "idle"}) <= IF overlap THEN 2 ELSE 1
    /\ IF overlap THEN changes' = 0
       ELSE Brought' = {} /\ (changes' = 2 => flows' <= 1)
    /\ \A r \in redirects' : r.drawn \/ (r.state # 0 /\ \A q \in redirects' : q.state = r.state)
    /\ \A b \in Browsers : call[<<b, t2>>].pc = "idle" /\ call'[<<b, t2>>].pc # "idle" =>
                               call[<<b, t1>>].pc # "idle"

-----------------------------------------------------------------------------
MCInit ==
    /\ live \in {"rate", "captcha", "social"}
    /\ overlap \in (IF live = "social" THEN BOOLEAN ELSE {FALSE})
    /\ RateInit /\ CaptchaInit /\ SocialInit
    /\ live # "captcha" => mode = M(2, 0, FALSE, FALSE)
    /\ live # "social" => conf = Auth(FALSE, {}, "gitea.com")
    /\ overlap => conf = Auth(TRUE, {"gitea", "github", "steam"}, "gitea.com")

MCNext ==
    /\ UNCHANGED <<live, overlap>>
    /\ \/ live = "rate" /\ RateNext /\ UNCHANGED <<captchaVars, socialVars>>
       \/ live = "captcha" /\ ActionNext /\ UNCHANGED <<rateVars, socialVars>>
       \/ live = "social" /\ LoginNext /\ UNCHANGED <<rateVars, captchaVars>>
MCSpec == MCInit /\ [][MCNext]_<<live, overlap, rateVars, captchaVars, socialVars>>

(* rate.go: neither more is admitted than the limits allow nor less.       *)
LimitsExact == live = "rate" => SlidingBound /\ DeniedForCause

Symmetry == Permutations(Requests)
=============================================================================
