------------------------------ MODULE MCVotes ------------------------------
(* Instances of Votes, AntiSpam, Sites, Migration and Startup for TLC,     *)
(* checked side by side: live names the one whose steps a behaviour takes, *)
(* the variables of the others keep one initial value.                     *)
EXTENDS Votes, AntiSpam, Sites, MCMigration, MCStartup, TLC

CONSTANTS v1, v2, s1, e1, d1, ip1, ip2, Casts

VARIABLES live, cast

(* Votes: of two clients; two of one client with a deletion or an edit;    *)
(* one with a sync and an edit or a deletion.                              *)
Together == {[who |-> {v1, v2}, ips |-> {ip1, ip2}], [who |-> {v1, v2, d1}, ips |-> {ip1}],
             [who |-> {v1, v2, e1}, ips |-> {ip1}],
             [who |-> {v1, s1, e1}, ips |-> {ip1}], [who |-> {v1, s1, d1}, ips |-> {ip1}]}

(* AntiSpam: no service, one, or two; every mode of the keyword checker,   *)
(* with keywords that overlap each other and themselves, with a file that  *)
(* cannot be read, and with an empty mask.                                 *)
Moderation(on, f, k, w, r, to) ==
    [on |-> on, failBlock |-> f, keywords |-> k, words |-> w, read |-> r, to |-> to]
Overlapping == {<<<<"a", "b">>, <<"b", "c">>>>, <<<<"b">>, <<"b", "c", "b">>>>}
Moderations ==
    {Moderation(on, f, k, w, r, <<Star>>) :
        on \in {{}, {"akismet"}, {"tencent", "aliyun"}}, f \in BOOLEAN,
        k \in {"off", "block", "replace"}, w \in Overlapping, r \in BOOLEAN}
    \cup {Moderation({}, FALSE, "off", <<>>, FALSE, <<>>)}
    \cup {Moderation({}, FALSE, "replace", w, TRUE, <<>>) : w \in Overlapping}
MCContents == {<<"a", "b", "c">>, <<"b", "c", "b", "b">>, <<"c">>}

Some(S) == CHOOSE x \in S : TRUE
OrOne(name, S) == IF live = name THEN S ELSE {Some(S)}

MCInit ==
    /\ live \in {"votes", "spam", "sites", "migration", "startup"}
    /\ cast \in OrOne("votes", Casts) /\ Init
    /\ moderation \in OrOne("spam", SpamConfs) /\ content \in OrOne("spam", Contents)
    /\ heldFirst \in OrOne("spam", BOOLEAN) /\ SpamInit
    /\ SitesInit /\ (live # "sites" => sites[1] = Some(Names))
    /\ base \in OrOne("migration", {d.base : d \in Databases}) /\ MigrationInit
    /\ machine \in OrOne("startup", Machines) /\ StartupInit

(* Voters differ by their names alone: the second one starts only while    *)
(* the first is busy.                                                      *)
VotesNext ==
    /\ live = "votes" /\ Next
    /\ proc[v2].pc = "idle" /\ proc'[v2].pc # "idle" => proc[v1].pc # "idle"
    /\ \A p \in Procs \ cast.who : UNCHANGED proc[p]
    /\ \A p \in Voters : proc'[p].pc = "lock" => proc'[p].ip \in cast.ips
    /\ UNCHANGED <<live, cast, spamVars, sitesVars, migrationVars, startVars>>
SpamsNext ==
    /\ live = "spam" /\ SpamNext
    /\ UNCHANGED <<live, cast, vars, sitesVars, migrationVars, startVars>>
SiteNext ==
    /\ live = "sites" /\ SitesNext
    /\ UNCHANGED <<live, cast, vars, spamVars, migrationVars, startVars>>
DatabaseNext ==
    /\ live = "migration" /\ MigrationNext
    /\ UNCHANGED <<live, cast, vars, spamVars, sitesVars, startVars>>
LaunchNext ==
    /\ live = "startup" /\ StartupNext
    /\ UNCHANGED <<live, cast, vars, spamVars, sitesVars, migrationVars>>
MCSpec ==
    MCInit /\ [][VotesNext \/ SpamsNext \/ SiteNext \/ DatabaseNext \/ LaunchNext]_
                 <<live, cast, vars, spamVars, sitesVars, migrationVars, startVars>>
=============================================================================
