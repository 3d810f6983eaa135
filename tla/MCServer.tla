------------------------------ MODULE MCServer ------------------------------
(* Instances of EmailVerify, Accounts and Uploads for TLC, checked side by *)
(* side: live names the one whose steps a behaviour takes, the variables   *)
(* of the others keep one initial value.                                   *)
EXTENDS EmailVerify, MCAccounts, MCUploads, TLC

CONSTANTS ip1, ip2, k1, k2, s1, s2, x1, x2

VARIABLES live, mails

OneStripe == [e \in Emails |-> 1]

(* EmailVerify: two checks of one challenge; a resend, or two, and a check;*)
(* two sends for the same or two addresses of one stripe, from the same or *)
(* two clients.  "issues" bounds the codes ever written.                   *)
Deliveries ==
    {[who |-> {s1, x1, x2}, emails |-> {e1}, ips |-> {ip1}, codes |-> {k1, k2}, issues |-> 1],
     [who |-> {s1, s2, x1}, emails |-> {e1}, ips |-> {ip1}, codes |-> {k1, k2}, issues |-> 2],
     [who |-> {s1, s2}, emails |-> {e1, e2}, ips |-> {ip1, ip2}, codes |-> {k1}, issues |-> 3]}

Some(S) == CHOOSE x \in S : TRUE
OrOne(name, S) == IF live = name THEN S ELSE {Some(S)}

ServerInit ==
    /\ live \in {"email", "accounts", "uploads"}
    /\ mails \in OrOne("email", Deliveries) /\ Init
    /\ cast \in OrOne("accounts", Casts)
    /\ conf \in OrOne("accounts", [auth : cast.auth, cached : {cast.max > 3, TRUE}])
    /\ users \in OrOne("accounts", {t.users : t \in Tables}) /\ MCInit
    /\ mode \in OrOne("uploads", Modes) /\ offer \in OrOne("uploads", [Images -> Offers])
    /\ UploadInit

(* Requests of one kind differ by their names alone: the second one starts *)
(* only while the first is busy.  So do addresses, clients and codes: the  *)
(* first challenge is of the first ones.                                   *)
Begins(old, new, first, second) ==
    old[second].pc = "idle" /\ new[second].pc # "idle" => old[first].pc # "idle"
FirstChallenge(r) == r.email = e1 /\ r.ip = ip1 /\ r.code = k1

EmailNext ==
    /\ live = "email" /\ Next
    /\ \A s \in Senders \ mails.who : UNCHANGED send[s]
    /\ \A c \in Checkers \ mails.who : UNCHANGED check[c]
    /\ \A s \in Senders \cap mails.who :
          send'[s].pc = "cooldown" => send'[s].email \in mails.emails /\ send'[s].ip \in mails.ips
    /\ \A c \in Checkers \cap mails.who :
          check'[c].pc = "read" => check'[c].email \in mails.emails
    /\ \A i \in 1..Len(issued') : issued'[i].code \in mails.codes
    /\ Len(issued') <= mails.issues
    /\ rows = <<>> /\ rows' # <<>> => FirstChallenge(rows'[1])
    /\ Begins(check, check', x1, x2) /\ Begins(send, send', s1, s2)
    /\ UNCHANGED <<live, mails, cast, accountVars, uploadVars>>
UsersNext ==
    /\ live = "accounts" /\ MCNext
    /\ UNCHANGED <<live, mails, vars, uploadVars>>
FilesNext ==
    /\ live = "uploads" /\ UploadNext
    /\ UNCHANGED <<live, mails, cast, vars, accountVars>>
ServerSpec ==
    ServerInit
    /\ [][EmailNext \/ UsersNext \/ FilesNext]_
          <<live, mails, cast, vars, accountVars, uploadVars>>
=============================================================================
