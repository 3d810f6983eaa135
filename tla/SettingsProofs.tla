--------------------------- MODULE SettingsProofs ---------------------------
(***************************************************************************)
(* What the settings decide, for all of them.  First, whom a comment is    *)
(* mailed to, how often, and what its rows in table notifies say of it:    *)
(* for all administrators and addresses, and any number of moderators'     *)
(* requests beside the push.  Then what a start of the program makes of a  *)
(* file, an environment and a command line: for all of these, and any      *)
(* number of starts.                                                       *)
(***************************************************************************)
EXTENDS NotifyFlow, Startup, SequenceTheorems, FiniteSetTheorems, TLAPS

-----------------------------------------------------------------------------
(* The invariant.                                                          *)

Job == agent["job"]
Before == {"new", "check", "block", "mask", "push"}
Notifying == {"find", "initial", "mail"}

(* The administrators the job is to mail, by number, and whether it is to  *)
(* mail the parent's author.                                               *)
Due == {i \in 1..Len(Admins) : Chosen(Admins[i], Job.pend)}
UserDue == NeedUser(Job.pend)

(* The requests that are about to mail the parent's author.                *)
Busy == {m \in Mods : agent[m].pc \in Notifying}

(* Where the job and the requests may be, and for whom.                    *)
JobPlaced ==
    /\ Job.pc \notin {"idle", "save"}
    /\ Job.pc \in Before => Job.nth = 0
    /\ Job.pc \in Notifying => IF Job.nth = 0 THEN UserDue ELSE Job.nth \in Due
    /\ Job.nth # 0 => ToAdmins
    /\ Job.pc \in {"multi", "done"} /\ ToAdmins => Job.nth = Len(Admins)
ModsPlaced ==
    /\ \A m \in Mods : agent[m].pc \in {"idle", "save"} \cup Notifying /\ agent[m].nth = 0
    /\ Busy # {} => Renotify

(* How many administrators the job has dealt with, and whether it has      *)
(* mailed the parent's author.                                             *)
Past == IF Job.pc \in Notifying /\ Job.nth > 0 THEN Job.nth - 1 ELSE Job.nth
FromJob ==
    IF Job.pc \notin Before /\ (Job.pc \in Notifying => Job.nth > 0) /\ UserDue THEN 1 ELSE 0

(* The mails queued: one to each administrator chosen so far, and to the   *)
(* parent's author one of the job and one of each request.                 *)
AdminsOnce ==
    /\ \A x \in Users \ {conf.parent} :
          /\ mails[x] \in {0, 1}
          /\ mails[x] = 1 => \E i \in Due : i <= Past /\ Admins[i] = x
    /\ conf.email => \A i \in Due : i <= Past => mails[Admins[i]] = 1
ParentCounted ==
    /\ IsFiniteSet(Busy) /\ edits <= conf.edits
    /\ conf.parent \in Users => mails[conf.parent] + Cardinality(Busy) <= edits + FromJob

(* No mail is sent that was not queued, and none twice.                    *)
Queued(x) == {i \in 1..Len(queue) : queue[i] = x}
InHand(x) == IF worker.pc = "send" /\ worker.user = x THEN 1 ELSE 0
SentOnce == \A x \in Users : sent[x] + Cardinality(Queued(x)) + InHand(x) <= mails[x]

(* Every copy of a row that says emailed is of a user who was mailed.      *)
CopiesTrue ==
    /\ EmailedMeansSent
    /\ \A x \in Users : reader[x].emailed => sent[x] > 0
    /\ worker.pc = "mark" => sent[worker.user] > 0

FlowInv ==
    /\ TypeOK /\ JobPlaced /\ ModsPlaced
    /\ AdminsOnce /\ ParentCounted /\ SentOnce /\ CopiesTrue

-----------------------------------------------------------------------------
(* Types, by what they are about.                                          *)

Pcs == {"new", "check", "block", "mask", "push", "find", "initial", "mail",
        "admins", "multi", "save", "idle", "done"}
ConfOK == conf \in Conf
FlagsOK == pending \in BOOLEAN /\ blocked \in BOOLEAN /\ approved \in BOOLEAN
RowsOK == row \in [Users -> Row] /\ reader \in [Users -> Row]
AgentsOK == agent \in [Agents -> Agent]
CountsOK ==
    /\ edits \in 0..MaxEdits
    /\ mails \in [Users -> 0..MaxMails] /\ sent \in [Users -> 0..MaxMails]
QueueOK ==
    /\ queue \in Seq(Users) /\ Len(queue) <= Capacity + 1
    /\ worker \in [pc : {"idle", "send", "mark"}, user : Users]

LEMMA TypeParts ==
    TypeOK <=> ConfOK /\ FlagsOK /\ RowsOK /\ AgentsOK /\ CountsOK /\ QueueOK
<1> QED
  BY DEF TypeOK, ConfOK, FlagsOK, RowsOK, AgentsOK, CountsOK, QueueOK

LEMMA TypePartsPrime ==
    TypeOK' <=> ConfOK' /\ FlagsOK' /\ RowsOK' /\ AgentsOK' /\ CountsOK' /\ QueueOK'
<1> QED
  BY TypeParts, PTL

(* The administrators who are due: other users than the parent's author,   *)
(* who want mails, each once, no two at one address.                       *)
LEMMA DueFacts ==
    ASSUME ConfOK
    PROVE  /\ Admins \in Seq(Users) /\ Due \subseteq 1..Len(Admins) /\ Len(Admins) \in Nat
           /\ \A i \in 1..Len(Admins) : Admins[i] \in Users
           /\ \A i, j \in 1..Len(Admins) : Admins[i] = Admins[j] => i = j
           /\ \A i \in Due : Admins[i] # conf.parent /\ Admins[i] \in conf.willing
           /\ \A i, j \in Due : conf.addr[Admins[i]] = conf.addr[Admins[j]] => i = j
<1>1. /\ Admins \in Seq(Users) /\ Due \subseteq 1..Len(Admins) /\ Len(Admins) \in Nat
      /\ \A i \in 1..Len(Admins) : Admins[i] \in Users
      /\ \A i, j \in 1..Len(Admins) : Admins[i] = Admins[j] => i = j
  BY NotifyAssumption DEF Due
<1>2. \A i \in Due : Admins[i] # conf.parent /\ Admins[i] \in conf.willing
  BY DEF Due, Chosen, NeedAdmin
<1>3. ASSUME NEW i \in Due, NEW j \in Due, conf.addr[Admins[i]] = conf.addr[Admins[j]]
      PROVE  i = j
  <2>1. i \in 1..Len(Admins) /\ j \in 1..Len(Admins) /\ DOMAIN Admins = 1..Len(Admins)
    BY <1>1
  <2>2. PICK k \in 1..Len(Admins) : /\ Admins[k] = Admins[i]
                                    /\ \A l \in 1..(k - 1) :
                                         conf.addr[Admins[l]] # conf.addr[Admins[i]]
    BY <2>1 DEF Due, Chosen, FirstOfAddr
  <2>3. PICK n \in 1..Len(Admins) : /\ Admins[n] = Admins[j]
                                    /\ \A l \in 1..(n - 1) :
                                         conf.addr[Admins[l]] # conf.addr[Admins[j]]
    BY <2>1 DEF Due, Chosen, FirstOfAddr
  <2>4. k = i /\ n = j
    BY <1>1, <2>1, <2>2, <2>3
  <2> QED
    BY <1>1, <1>3, <2>1, <2>2, <2>3, <2>4
<1> QED
  BY <1>1, <1>2, <1>3

(* Who is due follows from the situation and the job's copy.               *)
LEMMA SameDue ==
    ASSUME conf' = conf, Job.pend' = Job.pend
    PROVE  Due' = Due /\ (UserDue' <=> UserDue)
<1>1. PICK h : h = Job.pend
  OBVIOUS
<1>2. (Job.pend)' = h
  BY <1>1
<1>3. \A x : Chosen(x, Job.pend) <=> Chosen(x, h)
  BY <1>1
<1>4. Due' = Due
  BY <1>1, <1>2 DEF Due, Chosen, FirstOfAddr, NeedAdmin, AuthorIsAdmin, AdminSet
<1>5. UserDue' <=> UserDue
  BY <1>1, <1>2 DEF UserDue, NeedUser, IsRoot, ParentIsAdmin, AdminSet
<1> QED
  BY <1>4, <1>5

(* What follows from the situation alone.                                  *)
LEMMA SameConf ==
    ASSUME conf' = conf
    PROVE  (ToAdmins' <=> ToAdmins) /\ (Renotify' <=> Renotify)
<1> QED
  BY DEF ToAdmins, Renotify, IsRoot, ParentIsAdmin, AdminSet

-----------------------------------------------------------------------------
(* Steps of the job.                                                       *)

(* One agent changes, the others stay.                                     *)
LEMMA Becomes ==
    ASSUME AgentsOK, NEW a \in Agents, NEW r \in Agent, agent' = [agent EXCEPT ![a] = r]
    PROVE  /\ agent' \in [Agents -> Agent] /\ agent'[a] = r
           /\ \A b \in Agents \ {a} : agent'[b] = agent[b]
<1> QED
  BY DEF AgentsOK

(* An agent goes on: only its place changes.                               *)
LEMMA GotoMoves ==
    ASSUME AgentsOK, NEW a \in Agents, NEW p \in Pcs, Goto(a, p)
    PROVE  \E r \in Agent : /\ agent' = [agent EXCEPT ![a] = r]
                            /\ r.pc = p /\ r.nth = agent[a].nth /\ r.pend = agent[a].pend
<1>1. PICK r : r = [agent[a] EXCEPT !.pc = p]
  OBVIOUS
<1>2. agent[a] \in Agent
  BY DEF AgentsOK
<1>3. /\ r \in Agent /\ r.pc = p /\ r.nth = agent[a].nth /\ r.pend = agent[a].pend
  BY <1>1, <1>2 DEF Agent, Pcs
<1>4. agent' = [agent EXCEPT ![a] = r]
  BY <1>1 DEF Goto
<1> QED
  BY <1>3, <1>4

(* A step of the job that queues no mail: it deals with no administrator   *)
(* who is due, and not with the parent's author if he is.                  *)
LEMMA JobStep0 ==
    ASSUME FlowInv, NEW r \in Agent, agent' = [agent EXCEPT !["job"] = r],
           UNCHANGED <<conf, edits, mails>>, JobPlaced',
           Due' = Due \/ (Past = 0 /\ Past' = 0),
           Past' = Past \/ (Past' = Past + 1 /\ Past' \notin Due),
           FromJob' = FromJob
    PROVE  AgentsOK' /\ ModsPlaced' /\ AdminsOnce' /\ ParentCounted'
<1>1. "job" \in Agents /\ \A m \in Mods : m \in Agents \ {"job"}
  BY NotifyAssumption DEF Agents
<1>2. /\ agent' \in [Agents -> Agent] /\ Job' = r
      /\ \A b \in Agents \ {"job"} : agent'[b] = agent[b]
  BY <1>1, Becomes, TypeParts DEF FlowInv, Job
<1>3. AgentsOK' /\ Busy' = Busy
  BY <1>1, <1>2 DEF AgentsOK, Busy
<1>4. ModsPlaced'
  BY <1>1, <1>2, <1>3, SameConf DEF FlowInv, ModsPlaced
<1>5. AdminsOnce'
  <2>1. CASE Past = 0 /\ Past' = 0
    <3>1. \A i \in Due \cup Due' : ~ (i <= 0)
      <4>1. ConfOK /\ ConfOK'
        BY TypeParts DEF FlowInv, ConfOK
      <4>2. Due \subseteq 1..Len(Admins)
        BY <4>1, DueFacts
      <4>3. Due' \subseteq 1..Len(Admins)
        BY DEF Due
      <4> QED
        BY <4>1, <4>2, <4>3, DueFacts
    <3> QED
      BY <2>1, <3>1 DEF FlowInv, AdminsOnce
  <2>2. CASE Due' = Due /\ Past' = Past
    BY <2>2 DEF FlowInv, AdminsOnce
  <2>3. CASE Due' = Due /\ Past' = Past + 1 /\ Past' \notin Due
    <3>1. Due \subseteq 1..Len(Admins) /\ Past \in Nat
      BY <1>1, DueFacts, TypeParts, NotifyAssumption
         DEF FlowInv, Past, Job, AgentsOK, Agent
    <3>2. \A i \in Due : i <= Past' <=> i <= Past
      BY <2>3, <3>1
    <3> QED
      BY <2>3, <3>2 DEF FlowInv, AdminsOnce
  <2> QED
    BY <2>1, <2>2, <2>3
<1>6. ParentCounted'
  BY <1>3 DEF FlowInv, ParentCounted
<1> QED
  BY <1>3, <1>4, <1>5, <1>6

(* A row found or made new claims no mail that the table does not claim.   *)
LEMMA FindOrNewFacts ==
    ASSUME NEW x \in Users, row \in [Users -> Row]
    PROVE  /\ FindOrNew(x) \in Row /\ FindOrNew(x).there
           /\ FindOrNew(x).emailed => row[x].emailed
<1> QED
  BY DEF FindOrNew, NewNotify, Row

(* What the job's place says of its past.                                  *)
LEMMA JobNow ==
    ASSUME FlowInv
    PROVE  /\ ConfOK /\ AgentsOK /\ "job" \in Agents /\ Job \in Agent /\ Job.nth \in Nat
           /\ Past \in Nat /\ FromJob \in {0, 1} /\ Len(Admins) \in Nat
           /\ Due \subseteq 1..Len(Admins)
<1>1. ConfOK /\ AgentsOK /\ "job" \in Agents
  BY TypeParts DEF FlowInv, Agents
<1>2. Job \in Agent /\ Len(Admins) \in Nat /\ Due \subseteq 1..Len(Admins)
  BY <1>1, DueFacts DEF AgentsOK, Job
<1>3. Job.nth \in Nat
  BY <1>2 DEF Agent
<1> QED
  BY <1>1, <1>2, <1>3 DEF Past, FromJob

(* The job after a step of its own.                                        *)
LEMMA OthersStay ==
    ASSUME FlowInv, NEW r \in Agent, agent' = [agent EXCEPT !["job"] = r]
    PROVE  Job' = r
<1> QED
  BY JobNow, Becomes DEF Job

(* Rows, and copies of rows, that are nothing new.                         *)
LEMMA CopiesStay ==
    ASSUME FlowInv, UNCHANGED <<row, reader, worker, sent>>
    PROVE  CopiesTrue'
<1> QED
  BY DEF FlowInv, CopiesTrue, EmailedMeansSent

(* What is sent, in hand and queued stays.                                 *)
LEMMA SentStay ==
    ASSUME FlowInv, UNCHANGED <<queue, worker, sent, mails>>
    PROVE  SentOnce'
<1> QED
  BY DEF FlowInv, SentOnce, Queued, InHand

(* A step of the job by which nothing changes but where it is, a flag, or  *)
(* what a row says that does not claim a mail.                             *)
LEMMA JobStep1 ==
    ASSUME FlowInv, NEW r \in Agent, agent' = [agent EXCEPT !["job"] = r],
           UNCHANGED <<conf, edits, mails, queue, worker, reader, sent>>, JobPlaced',
           Due' = Due \/ (Past = 0 /\ Past' = 0),
           Past' = Past \/ (Past' = Past + 1 /\ Past' \notin Due),
           FromJob' = FromJob, FlagsOK', row' \in [Users -> Row],
           \A x \in Users : row'[x].emailed => row[x].emailed
    PROVE  FlowInv'
<1>1. AgentsOK' /\ ModsPlaced' /\ AdminsOnce' /\ ParentCounted'
  BY JobStep0
<1>2. CopiesTrue'
  BY DEF FlowInv, CopiesTrue, EmailedMeansSent
<1>3. ConfOK' /\ RowsOK' /\ CountsOK' /\ QueueOK'
  BY TypeParts DEF FlowInv, ConfOK, RowsOK, CountsOK, QueueOK
<1> QED
  BY <1>1, <1>2, <1>3, SentStay, TypePartsPrime DEF FlowInv

(* The steps before the push: nobody has been dealt with.                  *)
LEMMA EarlyStep ==
    ASSUME FlowInv, NEW r \in Agent, agent' = [agent EXCEPT !["job"] = r],
           UNCHANGED <<conf, row, edits, queue, worker, reader, mails, sent>>,
           Job.pc \in Before, r.pc \in Before, r.nth = Job.nth, FlagsOK'
    PROVE  FlowInv'
<1>1. Job' = r /\ Job.nth = 0
  BY OthersStay DEF FlowInv, JobPlaced
<1>2. JobPlaced' /\ Past = 0 /\ Past' = 0 /\ FromJob' = 0 /\ FromJob = 0
  BY <1>1 DEF JobPlaced, Past, FromJob, Before, Notifying
<1>3. row' \in [Users -> Row]
  BY TypeParts DEF FlowInv, RowsOK
<1> QED
  BY <1>2, <1>3, JobStep1

(* One lemma for each of the job's steps.                                  *)
LEMMA CreateStep ==
    ASSUME FlowInv, Create
    PROVE  FlowInv'
<1>1. PICK h \in BOOLEAN : h = (~ AuthorIsAdmin /\ conf.pendingDefault)
  BY JobNow DEF ConfOK, Conf
<1>2. PICK p \in {"push", "check"} : p = IF AuthorIsAdmin THEN "push" ELSE "check"
  OBVIOUS
<1>3. PICK r : r = [Job EXCEPT !.pend = h, !.pc = p]
  OBVIOUS
<1>4. /\ agent' = [agent EXCEPT !["job"].pend = h, !["job"].pc = p]
      /\ Job.pc = "new" /\ pending' = h
      /\ UNCHANGED <<conf, row, edits, queue, worker, reader, mails, sent, blocked, approved>>
  BY <1>1, <1>2 DEF Create, Job
<1>5. agent' = [agent EXCEPT !["job"] = r]
  BY <1>3, <1>4, JobNow DEF Job, AgentsOK
<1>6. r \in Agent /\ r.pc = p /\ r.nth = Job.nth
  BY <1>2, <1>3, JobNow DEF Agent
<1>7. FlagsOK'
  BY <1>4, TypeParts DEF FlowInv, FlagsOK
<1> QED
  BY <1>2, <1>4, <1>5, <1>6, <1>7, EarlyStep DEF Before

LEMMA CheckStep ==
    ASSUME FlowInv, NEW o \in {"pass", "block", "mask"}, Check(o)
    PROVE  FlowInv'
<1>1. PICK p \in {"push", "block", "mask"} :
         p = IF o = "pass" \/ (o = "block" /\ pending) THEN "push" ELSE o
  OBVIOUS
<1>2. PICK r : r = [Job EXCEPT !.pc = p, !.seen = pending]
  OBVIOUS
<1>3. /\ agent' = [agent EXCEPT !["job"].pc = p, !["job"].seen = pending]
      /\ Job.pc = "check" /\ blocked' = (blocked \/ o = "block")
      /\ UNCHANGED <<conf, pending, row, edits, queue, worker, reader, mails, sent, approved>>
  BY <1>1 DEF Check, Job
<1>4. FlagsOK /\ pending \in BOOLEAN
  BY TypeParts DEF FlowInv, FlagsOK
<1>5. agent' = [agent EXCEPT !["job"] = r]
  BY <1>2, <1>3, JobNow DEF Job, AgentsOK
<1>6. r \in Agent /\ r.pc = p /\ r.nth = Job.nth
  BY <1>1, <1>2, <1>4, JobNow DEF Agent
<1>7. FlagsOK'
  BY <1>3, <1>4 DEF FlagsOK
<1> QED
  BY <1>1, <1>3, <1>5, <1>6, <1>7, EarlyStep DEF Before

LEMMA BlockStep ==
    ASSUME FlowInv, Block \/ Mask
    PROVE  FlowInv'
<1>1. /\ Job.pc \in {"block", "mask"} /\ Goto("job", "push")
      /\ UNCHANGED <<conf, row, edits, queue, worker, reader, mails, sent, blocked, approved>>
  BY DEF Block, Mask, Job
<1>2. pending' \in BOOLEAN
  BY JobNow DEF Block, Mask, Job, Agent
<1>3. PICK r \in Agent : /\ agent' = [agent EXCEPT !["job"] = r]
                         /\ r.pc = "push" /\ r.nth = Job.nth
  BY <1>1, GotoMoves, JobNow DEF Job, Pcs
<1>4. FlagsOK'
  BY <1>1, <1>2, TypeParts DEF FlowInv, FlagsOK
<1> QED
  BY <1>1, <1>3, <1>4, EarlyStep DEF Before

LEMMA PushStep ==
    ASSUME FlowInv, Push
    PROVE  FlowInv'
<1>1. PICK p \in {"find", "admins"} : p = IF UserDue THEN "find" ELSE "admins"
  OBVIOUS
<1>2. /\ Job.pc = "push" /\ Goto("job", p)
      /\ UNCHANGED <<conf, pending, row, edits, queue, worker, reader, mails, sent,
                     blocked, approved>>
  BY <1>1 DEF Push, Job, UserDue
<1>3. PICK r \in Agent : /\ agent' = [agent EXCEPT !["job"] = r]
                         /\ r.pc = p /\ r.nth = Job.nth /\ r.pend = Job.pend
  BY <1>1, <1>2, GotoMoves, JobNow DEF Job, Pcs
<1>4. Job' = r /\ Job.nth = 0
  BY <1>2, <1>3, OthersStay DEF FlowInv, JobPlaced, Before
<1>5. Due' = Due /\ (UserDue' <=> UserDue)
  BY <1>2, <1>3, <1>4, SameDue
<1>6. JobPlaced' /\ Past' = Past /\ FromJob' = FromJob
  BY <1>1, <1>2, <1>3, <1>4, <1>5 DEF JobPlaced, Past, FromJob, Before, Notifying
<1>7. FlagsOK' /\ row' \in [Users -> Row]
  BY <1>2, TypeParts DEF FlowInv, FlagsOK, RowsOK
<1> QED
  BY <1>2, <1>3, <1>5, <1>6, <1>7, JobStep1

LEMMA NextAdminStep ==
    ASSUME FlowInv, NextAdmin
    PROVE  FlowInv'
<1>1. PICK i : i = Job.nth + 1
  OBVIOUS
<1>2. /\ Job.pc = "admins"
      /\ IF ToAdmins /\ i <= Len(Admins)
         THEN agent' = [agent EXCEPT !["job"].nth = i,
                !["job"].pc = IF Chosen(Admins[i], Job.pend) THEN "find" ELSE "admins"]
         ELSE Goto("job", "multi")
      /\ UNCHANGED <<conf, pending, row, edits, queue, worker, reader, mails, sent,
                     blocked, approved>>
  BY <1>1 DEF NextAdmin, Job
<1>3. FlagsOK' /\ row' \in [Users -> Row]
  BY <1>2, TypeParts DEF FlowInv, FlagsOK, RowsOK
<1>4. CASE ToAdmins /\ i <= Len(Admins)
  <2>1. i \in 1..Len(Admins) /\ i # 0 /\ i \in 0..Len(Admins)
    BY <1>1, <1>4, JobNow
  <2>2. PICK p \in {"find", "admins"} : p = IF i \in Due THEN "find" ELSE "admins"
    OBVIOUS
  <2>3. PICK r : r = [Job EXCEPT !.nth = i, !.pc = p]
    OBVIOUS
  <2>4. agent' = [agent EXCEPT !["job"].nth = i, !["job"].pc = p]
    BY <1>2, <1>4, <2>1, <2>2 DEF Due
  <2>5. agent' = [agent EXCEPT !["job"] = r]
    BY <2>3, <2>4, JobNow DEF Job, AgentsOK
  <2>6. r \in Agent /\ r.pc = p /\ r.nth = i /\ r.pend = Job.pend
    <3>1. Job \in Agent
      BY JobNow
    <3> QED
      BY <2>1, <2>2, <2>3, <3>1 DEF Agent
  <2>7. Job' = r
    BY <2>5, <2>6, OthersStay
  <2>8. Due' = Due /\ (UserDue' <=> UserDue) /\ (ToAdmins' <=> ToAdmins)
    BY <1>2, <2>6, <2>7, SameDue, SameConf
  <2>9. JobPlaced'
    BY <1>4, <2>1, <2>2, <2>6, <2>7, <2>8 DEF JobPlaced, Before, Notifying
  <2>10. FromJob' = FromJob
    BY <1>2, <2>1, <2>2, <2>6, <2>7, <2>8, JobNow DEF FromJob, Before, Notifying
  <2>11. Past = Job.nth /\ Past' = IF i \in Due THEN i - 1 ELSE i
    BY <1>2, <2>1, <2>2, <2>6, <2>7 DEF Past, Notifying
  <2>12. Past' = Past \/ (Past' = Past + 1 /\ Past' \notin Due)
    BY <1>1, <2>11, JobNow
  <2> QED
    BY <1>2, <1>3, <2>5, <2>6, <2>8, <2>9, <2>10, <2>12, JobStep1
<1>5. CASE ~ (ToAdmins /\ i <= Len(Admins))
  <2>1. PICK r \in Agent : /\ agent' = [agent EXCEPT !["job"] = r]
                           /\ r.pc = "multi" /\ r.nth = Job.nth /\ r.pend = Job.pend
    BY <1>2, <1>5, GotoMoves, JobNow DEF Job, Pcs
  <2>2. Job' = r
    BY <2>1, OthersStay
  <2>3. Due' = Due /\ (UserDue' <=> UserDue) /\ (ToAdmins' <=> ToAdmins)
    BY <1>2, <2>1, <2>2, SameDue, SameConf
  <2>4. Job.nth \in 0..Len(Admins)
    BY JobNow DEF Agent
  <2>5. JobPlaced'
    <3>1. ToAdmins => Job.nth = Len(Admins)
      BY <1>1, <1>5, <2>4, JobNow
    <3> QED
      BY <2>1, <2>2, <2>3, <3>1 DEF FlowInv, JobPlaced, Before, Notifying
  <2>6. FromJob' = FromJob /\ Past' = Past
    BY <1>2, <2>1, <2>2, <2>3 DEF FromJob, Past, Before, Notifying
  <2> QED
    BY <1>2, <1>3, <2>1, <2>3, <2>5, <2>6, JobStep1
<1> QED
  BY <1>4, <1>5

LEMMA MultiPushStep ==
    ASSUME FlowInv, MultiPush
    PROVE  FlowInv'
<1>1. /\ Job.pc = "multi" /\ Goto("job", "done")
      /\ row' = IF NeedMulti(Job.pend) /\ Admins # <<>>
                THEN [row EXCEPT ![Head(Admins)] = FindOrNew(Head(Admins))] ELSE row
      /\ UNCHANGED <<conf, pending, edits, queue, worker, reader, mails, sent, blocked, approved>>
  BY DEF MultiPush, Job
<1>2. PICK r \in Agent : /\ agent' = [agent EXCEPT !["job"] = r]
                         /\ r.pc = "done" /\ r.nth = Job.nth /\ r.pend = Job.pend
  BY <1>1, GotoMoves, JobNow DEF Job, Pcs
<1>3. Job' = r
  BY <1>2, OthersStay
<1>4. Due' = Due /\ (UserDue' <=> UserDue) /\ (ToAdmins' <=> ToAdmins)
  BY <1>1, <1>2, <1>3, SameDue, SameConf
<1>5. JobPlaced' /\ FromJob' = FromJob /\ Past' = Past
  BY <1>1, <1>2, <1>3, <1>4 DEF FlowInv, JobPlaced, FromJob, Past, Before, Notifying
<1>6. FlagsOK' /\ row \in [Users -> Row]
  BY <1>1, TypeParts DEF FlowInv, FlagsOK, RowsOK
<1>7. CASE ~ (NeedMulti(Job.pend) /\ Admins # <<>>)
  <2>1. row' = row
    BY <1>1, <1>7
  <2> QED
    BY <1>1, <1>2, <1>4, <1>5, <1>6, <2>1, JobStep1
<1>8. CASE NeedMulti(Job.pend) /\ Admins # <<>>
  <2>1. PICK x : x = Head(Admins)
    OBVIOUS
  <2>2. x \in Users
    <3>1. Len(Admins) # 0
      BY <1>8, NotifyAssumption
    <3> QED
      BY <2>1, <3>1, DueFacts, JobNow
  <2>3. row' = [row EXCEPT ![x] = FindOrNew(x)]
    BY <1>1, <1>8, <2>1
  <2>4. row' \in [Users -> Row] /\ \A y \in Users : row'[y].emailed => row[y].emailed
    BY <1>6, <2>2, <2>3, FindOrNewFacts
  <2> QED
    BY <1>1, <1>2, <1>4, <1>5, <1>6, <2>4, JobStep1
<1> QED
  BY <1>7, <1>8

-----------------------------------------------------------------------------
(* The notifications: a row of the recipient, then the mail.               *)

(* Who notifies has a recipient.                                           *)
LEMMA RecipientFacts ==
    ASSUME FlowInv, NEW a \in Agents, agent[a].pc \in Notifying
    PROVE  /\ Recipient(a) \in Users
           /\ a \in Mods => Recipient(a) = conf.parent /\ Renotify
           /\ a = "job" => IF Job.nth = 0 THEN UserDue /\ Recipient(a) = conf.parent
                           ELSE Job.nth \in Due /\ Recipient(a) = Admins[Job.nth]
<1>1. conf.parent # Nobody => conf.parent \in Users
  BY JobNow DEF ConfOK, Conf
<1>2. CASE a \in Mods
  <2>1. agent[a].nth = 0 /\ Renotify /\ a # "job"
    BY <1>2, NotifyAssumption DEF FlowInv, ModsPlaced, Busy
  <2> QED
    BY <1>1, <1>2, <2>1 DEF Recipient, Renotify, IsRoot
<1>3. CASE a = "job"
  <2>1. IF Job.nth = 0 THEN UserDue ELSE Job.nth \in Due
    BY <1>3 DEF FlowInv, JobPlaced, Job
  <2>2. a \notin Mods
    BY <1>3, NotifyAssumption
  <2>3. CASE Job.nth = 0
    BY <1>1, <1>3, <2>1, <2>2, <2>3 DEF Recipient, UserDue, NeedUser, IsRoot, Job
  <2>4. CASE Job.nth # 0
    BY <1>3, <2>1, <2>2, <2>4, JobNow, DueFacts DEF Recipient, Job
  <2> QED
    BY <2>3, <2>4
<1> QED
  BY <1>2, <1>3 DEF Agents

(* A step of a request, and what it means for the others.                  *)
LEMMA ModMoves ==
    ASSUME FlowInv, NEW m \in Mods, NEW r \in Agent, agent' = [agent EXCEPT ![m] = r],
           conf' = conf, r.nth = 0, r.pc \in {"idle", "save"} \cup Notifying,
           r.pc \in Notifying => Renotify
    PROVE  /\ AgentsOK' /\ JobPlaced' /\ ModsPlaced'
           /\ Due' = Due /\ Past' = Past /\ FromJob' = FromJob
           /\ Busy' = IF r.pc \in Notifying THEN Busy \cup {m} ELSE Busy \ {m}
<1>1. /\ m \in Agents /\ m # "job" /\ "job" \in Agents
      /\ \A n \in Mods : n \in Agents
  BY NotifyAssumption DEF Agents
<1>2. /\ agent' \in [Agents -> Agent] /\ agent'[m] = r
      /\ \A b \in Agents \ {m} : agent'[b] = agent[b]
  BY <1>1, Becomes, JobNow
<1>3. Job' = Job
  BY <1>1, <1>2 DEF Job
<1>4. /\ Due' = Due /\ (UserDue' <=> UserDue) /\ (ToAdmins' <=> ToAdmins)
      /\ (Renotify' <=> Renotify)
  BY <1>3, SameDue, SameConf
<1>5. Past' = Past /\ FromJob' = FromJob
  BY <1>3, <1>4 DEF Past, FromJob
<1>6. JobPlaced'
  BY <1>3, <1>4 DEF FlowInv, JobPlaced
<1>7. Busy' = IF r.pc \in Notifying THEN Busy \cup {m} ELSE Busy \ {m}
  BY <1>1, <1>2 DEF Busy
<1>8. ModsPlaced'
  BY <1>1, <1>2, <1>4, <1>7 DEF FlowInv, ModsPlaced
<1> QED
  BY <1>2, <1>4, <1>5, <1>6, <1>7, <1>8 DEF AgentsOK

(* A request that begins, or goes on, or ends, without a mail.             *)
LEMMA ModStep0 ==
    ASSUME FlowInv, NEW m \in Mods, NEW r \in Agent, agent' = [agent EXCEPT ![m] = r],
           r.nth = 0, r.pc \in {"idle", "save"} \cup Notifying,
           r.pc \in Notifying => Renotify,
           UNCHANGED <<conf, queue, worker, reader, mails, sent>>,
           edits' \in Nat, edits' <= conf.edits,
           \/ edits' = edits + 1
           \/ edits' = edits /\ (r.pc \in Notifying => m \in Busy),
           FlagsOK', row' \in [Users -> Row],
           \A x \in Users : row'[x].emailed => row[x].emailed
    PROVE  FlowInv'
<1>1. /\ AgentsOK' /\ JobPlaced' /\ ModsPlaced'
      /\ Due' = Due /\ Past' = Past /\ FromJob' = FromJob
      /\ Busy' = IF r.pc \in Notifying THEN Busy \cup {m} ELSE Busy \ {m}
  BY ModMoves
<1>2. AdminsOnce'
  BY <1>1 DEF FlowInv, AdminsOnce
<1>3. IsFiniteSet(Busy) /\ Cardinality(Busy) \in Nat
  BY FS_CardinalityType DEF FlowInv, ParentCounted
<1>4. /\ IsFiniteSet(Busy') /\ Cardinality(Busy') \in Nat
      /\ Cardinality(Busy') <= Cardinality(Busy) + edits' - edits
  <2>1. edits \in Nat
    BY TypeParts, NotifyAssumption DEF FlowInv, CountsOK
  <2>2. CASE m \in Busy /\ r.pc \in Notifying
    <3>1. Busy' = Busy
      BY <1>1, <2>2
    <3> QED
      BY <1>3, <2>1, <3>1
  <2>3. CASE m \notin Busy /\ r.pc \in Notifying
    <3>1. Busy' = Busy \cup {m} /\ edits' = edits + 1
      BY <1>1, <2>3
    <3> QED
      BY <1>3, <2>1, <2>3, <3>1, FS_AddElement
  <2>4. CASE r.pc \notin Notifying
    <3>1. Busy' = Busy \ {m}
      BY <1>1, <2>4
    <3>2. /\ IsFiniteSet(Busy') /\ Cardinality(Busy') \in Nat
          /\ Cardinality(Busy') <= Cardinality(Busy)
      <4>1. /\ IsFiniteSet(Busy \ {m})
            /\ Cardinality(Busy \ {m}) = IF m \in Busy THEN Cardinality(Busy) - 1
                                         ELSE Cardinality(Busy)
        BY <1>3, FS_RemoveElement
      <4>2. Cardinality(Busy \ {m}) \in Nat
        BY <4>1, FS_CardinalityType
      <4> QED
        BY <1>3, <3>1, <4>1, <4>2
    <3> QED
      BY <1>3, <2>1, <3>2
  <2> QED
    BY <2>2, <2>3, <2>4
<1>5. ParentCounted'
  <2> SUFFICES ASSUME conf.parent \in Users
               PROVE  mails[conf.parent] + Cardinality(Busy') <= edits' + FromJob
    BY <1>1, <1>4 DEF ParentCounted
  <2>1. mails[conf.parent] + Cardinality(Busy) <= edits + FromJob
    BY DEF FlowInv, ParentCounted
  <2>2. mails[conf.parent] \in Nat /\ edits \in Nat
    BY TypeParts, NotifyAssumption DEF FlowInv, CountsOK, MaxMails
  <2>3. FromJob \in {0, 1}
    BY JobNow
  <2>4. PICK got \in Nat, busy \in Nat : got = mails[conf.parent] /\ busy = Cardinality(Busy)
    BY <1>3, <2>2
  <2>5. PICK old \in Nat, job \in Nat : old = edits /\ job = FromJob
    BY <2>2, <2>3
  <2>6. PICK now \in Nat, new \in Nat : now = Cardinality(Busy') /\ new = edits'
    BY <1>4
  <2>7. got + busy <= old + job
    BY <2>1, <2>4, <2>5
  <2>8. now <= busy + new - old
    BY <1>4, <2>4, <2>5, <2>6
  <2>9. got + now <= new + job
    BY <2>7, <2>8
  <2> QED
    BY <2>4, <2>5, <2>6, <2>9
<1>6. CopiesTrue'
  BY DEF FlowInv, CopiesTrue, EmailedMeansSent
<1>7. ConfOK' /\ RowsOK' /\ QueueOK'
  BY TypeParts DEF FlowInv, ConfOK, RowsOK, QueueOK
<1>8. CountsOK'
  <2>1. conf.edits \in 0..MaxEdits
    BY JobNow DEF ConfOK, Conf
  <2> QED
    BY <2>1, TypeParts, NotifyAssumption DEF FlowInv, CountsOK
<1> QED
  BY <1>1, <1>2, <1>5, <1>6, <1>7, <1>8, SentStay, TypePartsPrime DEF FlowInv

(* An agent goes on with its recipient.                                    *)
LEMMA NotifyStep ==
    ASSUME FlowInv, NEW a \in Agents, NEW p \in Pcs, Goto(a, p),
           agent[a].pc \in Notifying,
           p \in Notifying \/ (a \in Mods /\ p = "save"),
           UNCHANGED <<conf, pending, edits, queue, worker, reader, mails, sent, blocked,
                       approved>>,
           row' \in [Users -> Row],
           \A x \in Users : row'[x].emailed => row[x].emailed
    PROVE  FlowInv'
<1>1. PICK r \in Agent : /\ agent' = [agent EXCEPT ![a] = r]
                         /\ r.pc = p /\ r.nth = agent[a].nth /\ r.pend = agent[a].pend
  BY GotoMoves, JobNow
<1>2. FlagsOK'
  BY TypeParts DEF FlowInv, FlagsOK
<1>3. CASE a \in Mods
  <2>1. agent[a].nth = 0 /\ Renotify /\ a \in Busy
    BY <1>3 DEF FlowInv, ModsPlaced, Busy
  <2>2. edits \in Nat /\ edits <= conf.edits
    BY TypeParts, NotifyAssumption DEF FlowInv, CountsOK, ParentCounted
  <2> QED
    BY <1>1, <1>2, <1>3, <2>1, <2>2, ModStep0
<1>4. CASE a = "job"
  <2>1. Job' = r /\ p \in Notifying /\ r.nth = Job.nth /\ r.pend = Job.pend
    BY <1>1, <1>4, OthersStay, NotifyAssumption DEF Job
  <2>2. Due' = Due /\ (UserDue' <=> UserDue) /\ (ToAdmins' <=> ToAdmins)
    BY <2>1, SameDue, SameConf
  <2>3. JobPlaced' /\ FromJob' = FromJob /\ Past' = Past
    BY <1>1, <1>4, <2>1, <2>2 DEF FlowInv, JobPlaced, FromJob, Past, Before, Notifying, Job
  <2> QED
    BY <1>1, <1>2, <1>4, <2>2, <2>3, JobStep1
<1> QED
  BY <1>3, <1>4 DEF Agents

(* One lemma for each step with a recipient.                               *)
LEMMA FindCreateNotifyStep ==
    ASSUME FlowInv, NEW a \in Agents, FindCreateNotify(a)
    PROVE  FlowInv'
<1>1. PICK x : x = Recipient(a)
  OBVIOUS
<1>2. PICK p \in {"save", "initial"} :
         p = IF a \in Mods /\ FindOrNew(x).emailed THEN "save" ELSE "initial"
  OBVIOUS
<1>3. /\ agent[a].pc \in Notifying /\ row' = [row EXCEPT ![x] = FindOrNew(x)] /\ Goto(a, p)
      /\ UNCHANGED <<conf, pending, edits, queue, worker, reader, mails, sent, blocked, approved>>
  BY <1>1, <1>2 DEF FindCreateNotify, Notifying
<1>4. x \in Users /\ row \in [Users -> Row]
  BY <1>1, <1>3, RecipientFacts, TypeParts DEF FlowInv, RowsOK
<1>5. row' \in [Users -> Row] /\ \A y \in Users : row'[y].emailed => row[y].emailed
  BY <1>3, <1>4, FindOrNewFacts
<1>6. p \in Pcs /\ (p \in Notifying \/ (a \in Mods /\ p = "save"))
  BY <1>2 DEF Pcs, Notifying
<1> QED
  BY <1>3, <1>5, <1>6, NotifyStep

LEMMA NotifySetInitialStep ==
    ASSUME FlowInv, NEW a \in Agents, NotifySetInitial(a)
    PROVE  FlowInv'
<1>1. PICK x : x = Recipient(a)
  OBVIOUS
<1>2. PICK n : n = [there |-> TRUE, read |-> FALSE, emailed |-> FALSE]
  OBVIOUS
<1>3. /\ agent[a].pc \in Notifying /\ row' = [row EXCEPT ![x] = n] /\ Goto(a, "mail")
      /\ UNCHANGED <<conf, pending, edits, queue, worker, reader, mails, sent, blocked, approved>>
  BY <1>1, <1>2 DEF NotifySetInitial, Notifying
<1>4. x \in Users /\ row \in [Users -> Row]
  BY <1>1, <1>3, RecipientFacts, TypeParts DEF FlowInv, RowsOK
<1>5. n \in Row /\ ~ n.emailed
  BY <1>2 DEF Row
<1>6. row' \in [Users -> Row] /\ \A y \in Users : row'[y].emailed => row[y].emailed
  BY <1>3, <1>4, <1>5
<1>7. "mail" \in Pcs /\ "mail" \in Notifying
  BY DEF Pcs, Notifying
<1> QED
  BY <1>3, <1>6, <1>7, NotifyStep

LEMMA NotifySetInitialFailsStep ==
    ASSUME FlowInv, NEW a \in Agents, NotifySetInitialFails(a)
    PROVE  FlowInv'
<1>1. PICK p \in {"mail", "save"} : p = IF a = "job" THEN "mail" ELSE "save"
  OBVIOUS
<1>2. /\ agent[a].pc \in Notifying /\ Goto(a, p)
      /\ UNCHANGED <<conf, pending, row, edits, queue, worker, reader, mails, sent, blocked,
                     approved>>
  BY <1>1 DEF NotifySetInitialFails, Notifying
<1>3. row' \in [Users -> Row] /\ \A y \in Users : row'[y].emailed => row[y].emailed
  BY <1>2, TypeParts DEF FlowInv, RowsOK
<1>4. p \in Pcs /\ (p \in Notifying \/ (a \in Mods /\ p = "save"))
  BY <1>1 DEF Pcs, Notifying, Agents
<1> QED
  BY <1>2, <1>3, <1>4, NotifyStep

-----------------------------------------------------------------------------
(* CommentUpdate.                                                          *)

(* A request begins, or ends with or without its save.                     *)
LEMMA UpdateStartStep ==
    ASSUME FlowInv, NEW m \in Mods, NEW h \in BOOLEAN, UpdateStart(m, h)
    PROVE  FlowInv'
<1>1. PICK p \in {"find", "save"} :
         p = IF pending /\ ~ h /\ Renotify THEN "find" ELSE "save"
  OBVIOUS
<1>2. /\ agent[m].pc = "idle" /\ edits < conf.edits /\ edits' = edits + 1
      /\ agent' = [agent EXCEPT ![m].pend = h, ![m].pc = p]
      /\ UNCHANGED <<conf, pending, row, queue, worker, reader, mails, sent, blocked, approved>>
  BY <1>1 DEF UpdateStart
<1>3. PICK r : r = [agent[m] EXCEPT !.pend = h, !.pc = p]
  OBVIOUS
<1>4. m \in Agents /\ agent[m] \in Agent
  BY JobNow DEF Agents, AgentsOK
<1>5. agent' = [agent EXCEPT ![m] = r]
  BY <1>2, <1>3, <1>4, JobNow DEF AgentsOK
<1>6. r \in Agent /\ r.pc = p /\ r.nth = 0
  <2>1. agent[m].nth = 0
    BY DEF FlowInv, ModsPlaced
  <2> QED
    BY <1>1, <1>3, <1>4, <2>1 DEF Agent
<1>7. edits' \in Nat /\ edits' <= conf.edits
  <2>1. edits \in Nat /\ conf.edits \in Nat
    BY JobNow, TypeParts, NotifyAssumption DEF FlowInv, CountsOK, ConfOK, Conf
  <2> QED
    BY <1>2, <2>1
<1>8. FlagsOK' /\ row' \in [Users -> Row]
  BY <1>2, TypeParts DEF FlowInv, FlagsOK, RowsOK
<1>9. r.pc \in Notifying => Renotify
  BY <1>1, <1>6 DEF Notifying
<1>10. r.pc \in {"idle", "save"} \cup Notifying
  BY <1>1, <1>6 DEF Notifying
<1> QED
  BY <1>2, <1>5, <1>6, <1>7, <1>8, <1>9, <1>10, ModStep0

LEMMA UpdateSaveStep ==
    ASSUME FlowInv, NEW m \in Mods, UpdateSave(m) \/ UpdateSaveFails(m)
    PROVE  FlowInv'
<1>1. /\ agent[m].pc = "save" /\ Goto(m, "idle")
      /\ UNCHANGED <<conf, row, edits, queue, worker, reader, mails, sent, blocked>>
  BY DEF UpdateSave, UpdateSaveFails
<1>2. m \in Agents /\ agent[m] \in Agent /\ FlagsOK
  BY JobNow, TypeParts DEF FlowInv, Agents, AgentsOK
<1>3. pending' \in BOOLEAN /\ approved' \in BOOLEAN
  BY <1>2 DEF UpdateSave, UpdateSaveFails, Agent, FlagsOK
<1>4. PICK r \in Agent : /\ agent' = [agent EXCEPT ![m] = r]
                         /\ r.pc = "idle" /\ r.nth = agent[m].nth /\ r.pend = agent[m].pend
  BY <1>1, <1>2, GotoMoves, JobNow DEF Pcs
<1>5. r.nth = 0
  BY <1>4 DEF FlowInv, ModsPlaced
<1>6. FlagsOK' /\ row' \in [Users -> Row]
  BY <1>1, <1>2, <1>3, TypeParts DEF FlowInv, FlagsOK, RowsOK
<1>7. edits \in Nat /\ edits <= conf.edits
  BY TypeParts, NotifyAssumption DEF FlowInv, CountsOK, ParentCounted
<1>8. r.pc \notin Notifying
  BY <1>4 DEF Notifying
<1> QED
  BY <1>1, <1>4, <1>5, <1>6, <1>7, <1>8, ModStep0

-----------------------------------------------------------------------------
(* The queue: what waits of each user.                                     *)

(* The places of a user in the queue are finitely many; a mail more at     *)
(* the end is one place more, a mail less at the head one less.            *)
LEMMA QueuedFinite ==
    ASSUME queue \in Seq(Users), NEW x
    PROVE  IsFiniteSet(Queued(x)) /\ Cardinality(Queued(x)) \in Nat
<1>1. Len(queue) \in Nat
  OBVIOUS
<1>2. IsFiniteSet(1..Len(queue))
  BY <1>1, FS_Interval
<1>3. Queued(x) \in SUBSET (1..Len(queue))
  BY DEF Queued
<1>4. IsFiniteSet(Queued(x))
  BY <1>2, <1>3, FS_Subset
<1> QED
  BY <1>4, FS_CardinalityType

LEMMA AppendQueued ==
    ASSUME queue \in Seq(Users), NEW x \in Users, queue' = Append(queue, x), NEW y
    PROVE  Cardinality(Queued(y)') = Cardinality(Queued(y)) + (IF y = x THEN 1 ELSE 0)
<1>1. /\ Len(queue) \in Nat /\ Len(queue') = Len(queue) + 1
      /\ \A i \in 1..Len(queue) : queue'[i] = queue[i]
      /\ queue'[Len(queue) + 1] = x
  OBVIOUS
<1>2. IsFiniteSet(Queued(y)) /\ Cardinality(Queued(y)) \in Nat
  BY QueuedFinite
<1>3. Len(queue) + 1 \notin Queued(y)
  BY <1>1 DEF Queued
<1>4. CASE y = x
  <2>1. Queued(y)' = Queued(y) \cup {Len(queue) + 1}
    BY <1>1, <1>4 DEF Queued
  <2> QED
    BY <1>2, <1>3, <1>4, <2>1, FS_AddElement
<1>5. CASE y # x
  <2>1. Queued(y)' = Queued(y)
    BY <1>1, <1>5 DEF Queued
  <2> QED
    BY <1>2, <1>5, <2>1
<1> QED
  BY <1>4, <1>5

LEMMA TailQueued ==
    ASSUME queue \in Seq(Users), queue # <<>>, queue' = Tail(queue), NEW y
    PROVE  Cardinality(Queued(y)) = Cardinality(Queued(y)') + (IF y = Head(queue) THEN 1 ELSE 0)
<1>1. /\ Len(queue) \in Nat /\ Len(queue) # 0
      /\ Len(queue') = Len(queue) - 1
      /\ \A i \in 1..Len(queue') : queue'[i] = queue[i + 1]
      /\ Head(queue) = queue[1]
  BY HeadTailProperties
<1>2. IsFiniteSet(Queued(y)) /\ Cardinality(Queued(y)) \in Nat
  BY QueuedFinite
<1>3. PICK S : S = Queued(y) \ {1}
  OBVIOUS
<1>4. PICK T : T = Queued(y)'
  OBVIOUS
<1>5. /\ IsFiniteSet(S)
      /\ Cardinality(Queued(y)) = Cardinality(S) + (IF y = Head(queue) THEN 1 ELSE 0)
  <2>1. 1 \in Queued(y) <=> y = Head(queue)
    BY <1>1 DEF Queued
  <2>2. /\ IsFiniteSet(Queued(y) \ {1})
        /\ Cardinality(Queued(y) \ {1}) = IF 1 \in Queued(y) THEN Cardinality(Queued(y)) - 1
                                          ELSE Cardinality(Queued(y))
    BY <1>2, FS_RemoveElement
  <2> QED
    BY <1>2, <1>3, <2>1, <2>2
<1>6. Cardinality(T) = Cardinality(S)
  <2> DEFINE f == [i \in S |-> i - 1]
  <2>1. S = {i \in 2..Len(queue) : queue[i] = y}
    BY <1>1, <1>3 DEF Queued
  <2>2. T = {i \in 1..Len(queue) - 1 : queue[i + 1] = y}
    BY <1>1, <1>4 DEF Queued
  <2>3. \A i \in S : i \in Int /\ i - 1 \in T
    BY <1>1, <2>1, <2>2
  <2>4. \A j \in T : j \in Int /\ j + 1 \in S /\ (j + 1) - 1 = j
    BY <1>1, <2>1, <2>2
  <2>5. f \in [S -> T]
    BY <2>3
  <2>6. \A i, j \in S : f[i] = f[j] => i = j
    BY <2>3
  <2>7. \A j \in T : \E i \in S : f[i] = j
    <3> SUFFICES ASSUME NEW j \in T PROVE f[j + 1] = j /\ j + 1 \in S
      OBVIOUS
    <3> QED
      BY <2>4
  <2>8. f \in Bijection(S, T)
    BY <2>5, <2>6, <2>7 DEF Bijection, Injection, Surjection, IsInjective
  <2>9. ExistsBijection(S, T)
    BY <2>8 DEF ExistsBijection
  <2> QED
    BY <1>5, <2>9, FS_Bijection
<1> QED
  BY <1>4, <1>5, <1>6

-----------------------------------------------------------------------------
(* A mail is queued.                                                       *)

(* One mail more for x, and what it does to the counts.                    *)
LEMMA MailQueued ==
    ASSUME FlowInv, NEW x \in Users, HasRoom, queue' = Append(queue, x),
           mails' = [mails EXCEPT ![x] = @ + 1], UNCHANGED <<worker, sent>>
    PROVE  /\ QueueOK' /\ SentOnce' /\ mails' \in [Users -> Nat] /\ mails'[x] = mails[x] + 1
           /\ \A y \in Users \ {x} : mails'[y] = mails[y]
<1>1. /\ QueueOK /\ queue \in Seq(Users) /\ Len(queue) \in Nat /\ Capacity \in Nat
      /\ sent \in [Users -> Nat] /\ mails \in [Users -> Nat]
  BY TypeParts, NotifyAssumption DEF FlowInv, QueueOK, CountsOK, MaxMails
<1>2. /\ mails' \in [Users -> Nat] /\ mails'[x] = mails[x] + 1
      /\ \A y \in Users \ {x} : mails'[y] = mails[y]
  BY <1>1
<1>3. QueueOK'
  <2>1. Len(queue) <= Capacity
    <3>1. CASE Len(queue) < Capacity
      BY <1>1, <3>1
    <3>2. CASE queue = <<>>
      BY <1>1, <3>2
    <3> QED
      BY <3>1, <3>2 DEF HasRoom
  <2>2. queue' \in Seq(Users) /\ Len(queue') = Len(queue) + 1
    BY <1>1
  <2> QED
    BY <1>1, <2>1, <2>2 DEF QueueOK
<1>4. SentOnce'
  <2> SUFFICES ASSUME NEW y \in Users
               PROVE  sent'[y] + Cardinality(Queued(y)') + InHand(y)' <= mails'[y]
    BY DEF SentOnce
  <2>1. sent[y] + Cardinality(Queued(y)) + InHand(y) <= mails[y]
    BY DEF FlowInv, SentOnce
  <2>2. InHand(y)' = InHand(y) /\ InHand(y) \in Nat
    BY DEF InHand
  <2>3. Cardinality(Queued(y)') = Cardinality(Queued(y)) + (IF y = x THEN 1 ELSE 0)
    BY <1>1, AppendQueued
  <2>4. Cardinality(Queued(y)) \in Nat
    BY <1>1, QueuedFinite
  <2>5. sent[y] \in Nat /\ mails[y] \in Nat /\ sent' = sent
    BY <1>1
  <2>6. mails'[y] = mails[y] + (IF y = x THEN 1 ELSE 0)
    BY <1>2, <2>5
  <2> QED
    BY <2>1, <2>2, <2>3, <2>4, <2>5, <2>6
<1> QED
  BY <1>2, <1>3, <1>4

(* What is counted stays within the bounds of the types.                   *)
LEMMA CountsBounded ==
    ASSUME FlowInv, UNCHANGED <<conf, edits, sent>>, mails' \in [Users -> Nat],
           AdminsOnce', ParentCounted', FromJob' \in {0, 1}
    PROVE  CountsOK'
<1>1. conf.edits \in 0..MaxEdits /\ MaxEdits \in Nat
  BY JobNow, NotifyAssumption DEF ConfOK, Conf
<1>2. /\ edits \in 0..MaxEdits /\ sent \in [Users -> 0..MaxMails]
      /\ Cardinality(Busy') \in Nat
  BY TypeParts, FS_CardinalityType DEF FlowInv, CountsOK, ParentCounted
<1>3. \A x \in Users : mails'[x] <= MaxEdits + 1
  <2> SUFFICES ASSUME NEW x \in Users PROVE mails'[x] <= MaxEdits + 1
    OBVIOUS
  <2>1. mails'[x] \in Nat
    OBVIOUS
  <2>2. CASE x = conf.parent
    <3>1. mails'[x] + Cardinality(Busy') <= edits + FromJob'
      BY <2>2 DEF ParentCounted
    <3> QED
      BY <1>1, <1>2, <2>1, <3>1
  <2>3. CASE x # conf.parent
    <3>1. mails'[x] \in {0, 1}
      BY <2>3 DEF AdminsOnce
    <3> QED
      BY <1>1, <3>1
  <2> QED
    BY <2>2, <2>3
<1>4. mails' \in [Users -> 0..MaxMails]
  BY <1>1, <1>3 DEF MaxMails
<1> QED
  BY <1>2, <1>4 DEF CountsOK

(* A request mails the parent's author and goes on to save.                *)
LEMMA ModMails ==
    ASSUME FlowInv, NEW m \in Mods, AsyncSend(m)
    PROVE  FlowInv'
<1>1. /\ agent[m].pc = "mail" /\ Goto(m, "save")
      /\ UNCHANGED <<conf, pending, row, edits, worker, reader, sent, blocked, approved>>
  BY NotifyAssumption DEF AsyncSend, AfterMail
<1>2. m \in Agents /\ m \in Busy /\ agent[m].nth = 0
  BY <1>1 DEF Agents, Busy, Notifying, FlowInv, ModsPlaced
<1>3. PICK r \in Agent : /\ agent' = [agent EXCEPT ![m] = r]
                         /\ r.pc = "save" /\ r.nth = agent[m].nth /\ r.pend = agent[m].pend
  BY <1>1, <1>2, GotoMoves, JobNow DEF Pcs
<1>4. FlagsOK' /\ RowsOK' /\ ConfOK' /\ row' \in [Users -> Row]
  BY <1>1, TypeParts DEF FlowInv, FlagsOK, RowsOK, ConfOK
<1>5. CASE ~ conf.email
  <2>1. UNCHANGED <<queue, mails>>
    BY <1>5 DEF AsyncSend
  <2>2. edits \in Nat /\ edits <= conf.edits
    BY TypeParts, NotifyAssumption DEF FlowInv, CountsOK, ParentCounted
  <2>3. r.pc \notin Notifying
    BY <1>3 DEF Notifying
  <2> QED
    BY <1>1, <1>2, <1>3, <1>4, <2>1, <2>2, <2>3, ModStep0
<1>6. CASE conf.email
  <2>1. PICK x : x = conf.parent
    OBVIOUS
  <2>2. x \in Users /\ Recipient(m) = x
    BY <1>1, <1>2, <2>1, RecipientFacts DEF Notifying
  <2>3. HasRoom /\ queue' = Append(queue, x) /\ mails' = [mails EXCEPT ![x] = @ + 1]
    BY <1>6, <2>2 DEF AsyncSend
  <2>4. /\ QueueOK' /\ SentOnce' /\ mails' \in [Users -> Nat] /\ mails'[x] = mails[x] + 1
        /\ \A y \in Users \ {x} : mails'[y] = mails[y]
    BY <1>1, <2>2, <2>3, MailQueued
  <2>5. /\ AgentsOK' /\ JobPlaced' /\ ModsPlaced'
        /\ Due' = Due /\ Past' = Past /\ FromJob' = FromJob
        /\ Busy' = Busy \ {m}
    BY <1>1, <1>2, <1>3, ModMoves DEF Notifying
  <2>6. AdminsOnce'
    <3>1. \A i \in Due : Admins[i] \in Users \ {x}
      BY <2>1, JobNow, DueFacts
    <3> QED
      BY <1>1, <2>1, <2>4, <2>5, <3>1 DEF FlowInv, AdminsOnce
  <2>7. ParentCounted'
    <3>1. /\ IsFiniteSet(Busy) /\ edits <= conf.edits
          /\ mails[x] + Cardinality(Busy) <= edits + FromJob
      BY <2>1, <2>2 DEF FlowInv, ParentCounted
    <3>2. /\ IsFiniteSet(Busy \ {m}) /\ Cardinality(Busy \ {m}) = Cardinality(Busy) - 1
          /\ Cardinality(Busy) \in Nat
      BY <1>2, <3>1, FS_RemoveElement, FS_CardinalityType
    <3>3. mails[x] \in Nat /\ edits \in Nat
      BY <2>2, TypeParts, NotifyAssumption DEF FlowInv, CountsOK, MaxMails
    <3>4. mails'[x] + (Cardinality(Busy) - 1) <= edits + FromJob
      BY <2>4, <3>1, <3>2, <3>3, JobNow
    <3> QED
      BY <1>1, <2>1, <2>5, <3>1, <3>2, <3>4 DEF ParentCounted
  <2>8. CountsOK'
    BY <1>1, <2>4, <2>5, <2>6, <2>7, JobNow, CountsBounded
  <2> QED
    BY <1>1, <1>4, <2>4, <2>5, <2>6, <2>7, <2>8, CopiesStay, TypePartsPrime DEF FlowInv
<1> QED
  BY <1>5, <1>6

(* The job mails its recipient and goes on with the administrators.        *)
LEMMA JobMails ==
    ASSUME FlowInv, AsyncSend("job")
    PROVE  FlowInv'
<1>1. /\ Job.pc = "mail" /\ Goto("job", "admins")
      /\ UNCHANGED <<conf, pending, row, edits, worker, reader, sent, blocked, approved>>
  BY DEF AsyncSend, AfterMail, Job
<1>2. PICK r \in Agent : /\ agent' = [agent EXCEPT !["job"] = r]
                         /\ r.pc = "admins" /\ r.nth = Job.nth /\ r.pend = Job.pend
  BY <1>1, GotoMoves, JobNow DEF Pcs, Job
<1>3. Job' = r
  BY <1>2, OthersStay
<1>4. Due' = Due /\ (UserDue' <=> UserDue) /\ (ToAdmins' <=> ToAdmins)
  BY <1>1, <1>2, <1>3, SameDue, SameConf
<1>5. JobPlaced'
  BY <1>1, <1>2, <1>3, <1>4 DEF FlowInv, JobPlaced, Before, Notifying
<1>6. FlagsOK' /\ RowsOK' /\ ConfOK' /\ AgentsOK' /\ CopiesTrue'
  BY <1>1, <1>2, TypeParts, JobNow, Becomes, CopiesStay
     DEF FlowInv, FlagsOK, RowsOK, ConfOK, AgentsOK
<1>7. Busy' = Busy /\ ModsPlaced'
  <2>1. \A m \in Mods : agent'[m] = agent[m]
    BY <1>2, JobNow, Becomes, NotifyAssumption DEF Agents
  <2>2. Busy' = Busy
    BY <2>1 DEF Busy
  <2> QED
    BY <1>1, <2>1, <2>2, SameConf DEF FlowInv, ModsPlaced
<1>8. PICK x : x = Recipient("job")
  OBVIOUS
<1>9. /\ x \in Users
      /\ IF Job.nth = 0 THEN UserDue /\ x = conf.parent
         ELSE Job.nth \in Due /\ x = Admins[Job.nth] /\ x # conf.parent
  BY <1>1, <1>8, JobNow, RecipientFacts, DueFacts DEF Notifying, Job
<1>10. /\ Past' = Job.nth /\ FromJob' \in {0, 1}
       /\ Past = IF Job.nth > 0 THEN Job.nth - 1 ELSE 0
       /\ Job.nth = 0 => FromJob = 0 /\ FromJob' = 1
       /\ Job.nth > 0 => FromJob' = FromJob
  BY <1>1, <1>2, <1>3, <1>4, <1>9, JobNow DEF Past, FromJob, Before, Notifying
<1>11. /\ mails \in [Users -> Nat] /\ edits \in Nat
       /\ IsFiniteSet(Busy) /\ edits <= conf.edits /\ Cardinality(Busy) \in Nat
       /\ conf.parent \in Users => mails[conf.parent] + Cardinality(Busy) <= edits + FromJob
  BY TypeParts, NotifyAssumption, FS_CardinalityType
     DEF FlowInv, CountsOK, MaxMails, ParentCounted
<1>12. QueueOK' /\ SentOnce' /\ mails' \in [Users -> Nat] /\ AdminsOnce' /\ ParentCounted'
  <2>1. CASE ~ conf.email
    <3>1. UNCHANGED <<queue, mails>>
      BY <2>1 DEF AsyncSend
    <3>2. QueueOK' /\ SentOnce'
      BY <1>1, <3>1, SentStay, TypeParts DEF FlowInv, QueueOK
    <3>3. AdminsOnce'
      <4>1. \A i \in Due : i <= Past => i <= Past'
        BY <1>10, JobNow
      <4> QED
        BY <1>1, <1>4, <2>1, <3>1, <4>1 DEF FlowInv, AdminsOnce
    <3>4. ParentCounted'
      <4>1. FromJob <= FromJob' /\ FromJob \in Nat /\ FromJob' \in Nat
        BY <1>10, JobNow
      <4> QED
        BY <1>1, <1>7, <1>11, <3>1, <4>1 DEF ParentCounted
    <3> QED
      BY <1>11, <3>1, <3>2, <3>3, <3>4
  <2>2. CASE conf.email
    <3>1. HasRoom /\ queue' = Append(queue, x) /\ mails' = [mails EXCEPT ![x] = @ + 1]
      BY <1>8, <2>2 DEF AsyncSend
    <3>2. /\ QueueOK' /\ SentOnce' /\ mails' \in [Users -> Nat] /\ mails'[x] = mails[x] + 1
          /\ \A y \in Users \ {x} : mails'[y] = mails[y]
      BY <1>1, <1>9, <3>1, MailQueued
    <3>3. CASE Job.nth = 0
      <4>1. AdminsOnce'
        <5>1. Past' = 0 /\ Past = 0 /\ \A i \in Due : i > 0
          BY <1>10, <3>3, JobNow
        <5>2. \A y \in Users \ {conf.parent} : mails'[y] = mails[y]
          BY <1>9, <3>2, <3>3
        <5>3. \A i \in Due : ~ (i <= 0)
          BY <5>1, JobNow
        <5> QED
          BY <1>1, <1>4, <5>1, <5>2, <5>3 DEF FlowInv, AdminsOnce
      <4>2. ParentCounted'
        <5>1. mails'[conf.parent] + Cardinality(Busy) <= edits + FromJob'
          BY <1>9, <1>10, <1>11, <3>2, <3>3
        <5> QED
          BY <1>1, <1>7, <1>11, <5>1 DEF ParentCounted
      <4> QED
        BY <3>2, <4>1, <4>2
    <3>4. CASE Job.nth # 0
      <4>1. /\ Job.nth \in Due /\ x = Admins[Job.nth] /\ Job.nth > 0
            /\ Past' = Job.nth /\ Past = Job.nth - 1 /\ FromJob' = FromJob
        BY <1>9, <1>10, <3>4, JobNow
      <4>2. x \in Users \ {conf.parent} /\ mails[x] = 0
        <5>1. x \in Users \ {conf.parent} /\ mails[x] \in {0, 1}
          BY <1>9, <3>4 DEF FlowInv, AdminsOnce
        <5>2. ~ \E i \in Due : i <= Past /\ Admins[i] = x
          <6> SUFFICES ASSUME NEW i \in Due, i <= Past, Admins[i] = x PROVE FALSE
            OBVIOUS
          <6>1. i = Job.nth
            BY <4>1, JobNow, DueFacts
          <6> QED
            BY <4>1, <6>1, JobNow
        <5> QED
          BY <5>1, <5>2 DEF FlowInv, AdminsOnce
      <4>3. mails'[x] = 1
        BY <3>2, <4>2
      <4>4. \A i \in Due : i <= Past' <=> i <= Past \/ i = Job.nth
        BY <4>1, JobNow
      <4>5. \A i \in Due : Admins[i] = x \/ (Admins[i] \in Users \ {x})
        BY JobNow, DueFacts
      <4>6. AdminsOnce'
        BY <1>1, <1>4, <3>2, <4>1, <4>2, <4>3, <4>4, <4>5 DEF FlowInv, AdminsOnce
      <4>7. ParentCounted'
        <5>1. conf.parent \in Users => mails'[conf.parent] = mails[conf.parent]
          BY <3>2, <4>2
        <5> QED
          BY <1>1, <1>7, <1>11, <4>1, <5>1 DEF ParentCounted
      <4> QED
        BY <3>2, <4>6, <4>7
    <3> QED
      BY <3>3, <3>4
  <2> QED
    BY <2>1, <2>2
<1>13. CountsOK'
  BY <1>1, <1>10, <1>12, CountsBounded
<1> QED
  BY <1>5, <1>6, <1>7, <1>12, <1>13, TypePartsPrime DEF FlowInv

-----------------------------------------------------------------------------
(* The worker and the readers.                                             *)

(* They leave the agents alone.                                            *)
LEMMA NoAgentStep ==
    ASSUME FlowInv, UNCHANGED <<conf, agent, edits, mails>>
    PROVE  AgentsOK' /\ JobPlaced' /\ ModsPlaced' /\ AdminsOnce' /\ ParentCounted' /\ ConfOK'
<1>1. Job' = Job /\ Busy' = Busy
  BY DEF Job, Busy
<1>2. /\ Due' = Due /\ (UserDue' <=> UserDue) /\ (ToAdmins' <=> ToAdmins)
      /\ (Renotify' <=> Renotify)
  BY <1>1, SameDue, SameConf
<1>3. Past' = Past /\ FromJob' = FromJob
  BY <1>1, <1>2 DEF Past, FromJob
<1>4. JobPlaced' /\ ModsPlaced'
  BY <1>1, <1>2 DEF FlowInv, JobPlaced, ModsPlaced
<1>5. AdminsOnce'
  BY <1>2, <1>3 DEF FlowInv, AdminsOnce
<1>6. ParentCounted'
  BY <1>1, <1>3 DEF FlowInv, ParentCounted
<1>7. AgentsOK' /\ ConfOK'
  BY JobNow DEF AgentsOK, ConfOK
<1> QED
  BY <1>4, <1>5, <1>6, <1>7

(* Rows and copies change, and say emailed only of who was mailed.         *)
LEMMA RowStep ==
    ASSUME FlowInv,
           UNCHANGED <<conf, pending, agent, edits, queue, mails, sent, blocked, approved>>,
           row' \in [Users -> Row], reader' \in [Users -> Row],
           \A x \in Users : row'[x].emailed => sent[x] > 0,
           \A x \in Users : reader'[x].emailed => sent[x] > 0,
           worker' = worker \/ (worker.pc = "mark" /\ worker' = [worker EXCEPT !.pc = "idle"])
    PROVE  FlowInv'
<1>1. AgentsOK' /\ JobPlaced' /\ ModsPlaced' /\ AdminsOnce' /\ ParentCounted' /\ ConfOK'
  BY NoAgentStep
<1>2. FlagsOK' /\ RowsOK' /\ CountsOK'
  BY TypeParts DEF FlowInv, FlagsOK, RowsOK, CountsOK
<1>3. QueueOK /\ worker \in [pc : {"idle", "send", "mark"}, user : Users]
  BY TypeParts DEF FlowInv, QueueOK
<1>4. /\ worker' \in [pc : {"idle", "send", "mark"}, user : Users]
      /\ worker'.pc = "mark" => worker' = worker
      /\ \A x \in Users : InHand(x)' = InHand(x)
  <2>1. CASE worker' = worker
    BY <1>3, <2>1 DEF InHand
  <2>2. CASE worker.pc = "mark" /\ worker' = [worker EXCEPT !.pc = "idle"]
    <3>1. worker' \in [pc : {"idle", "send", "mark"}, user : Users] /\ worker'.pc = "idle"
      BY <1>3, <2>2
    <3> QED
      BY <2>2, <3>1 DEF InHand
  <2> QED
    BY <2>1, <2>2
<1>5. QueueOK'
  BY <1>3, <1>4 DEF QueueOK
<1>6. SentOnce'
  <2>1. \A x : Queued(x)' = Queued(x)
    BY DEF Queued
  <2> QED
    BY <1>4, <2>1 DEF FlowInv, SentOnce
<1>7. CopiesTrue'
  BY <1>4 DEF FlowInv, CopiesTrue, EmailedMeansSent
<1> QED
  BY <1>1, <1>2, <1>5, <1>6, <1>7, TypePartsPrime DEF FlowInv

(* The worker takes the first mail.                                        *)
LEMMA TakeStep ==
    ASSUME FlowInv, Take
    PROVE  FlowInv'
<1>1. PICK x : x = Head(queue)
  OBVIOUS
<1>2. /\ worker.pc = "idle" /\ queue # <<>> /\ worker' = [pc |-> "send", user |-> x]
      /\ queue' = Tail(queue)
      /\ UNCHANGED <<conf, pending, row, agent, edits, reader, mails, sent, blocked, approved>>
  BY <1>1 DEF Take
<1>3. /\ QueueOK /\ queue \in Seq(Users) /\ sent \in [Users -> Nat] /\ mails \in [Users -> Nat]
      /\ Capacity \in Nat
  BY TypeParts, NotifyAssumption DEF FlowInv, QueueOK, CountsOK, MaxMails
<1>4. x \in Users /\ queue' \in Seq(Users) /\ Len(queue') = Len(queue) - 1
  BY <1>1, <1>2, <1>3, HeadTailProperties
<1>5. AgentsOK' /\ JobPlaced' /\ ModsPlaced' /\ AdminsOnce' /\ ParentCounted' /\ ConfOK'
  BY <1>2, NoAgentStep
<1>6. FlagsOK' /\ RowsOK' /\ CountsOK'
  BY <1>2, TypeParts DEF FlowInv, FlagsOK, RowsOK, CountsOK
<1>7. QueueOK'
  <2>1. worker' \in [pc : {"idle", "send", "mark"}, user : Users]
    BY <1>2, <1>4
  <2>2. Len(queue) \in Nat /\ Len(queue) <= Capacity + 1
    BY <1>3 DEF QueueOK
  <2> QED
    BY <1>3, <1>4, <2>1, <2>2 DEF QueueOK
<1>8. SentOnce'
  <2> SUFFICES ASSUME NEW y \in Users
               PROVE  sent'[y] + Cardinality(Queued(y)') + InHand(y)' <= mails'[y]
    BY DEF SentOnce
  <2>1. sent[y] + Cardinality(Queued(y)) + InHand(y) <= mails[y]
    BY DEF FlowInv, SentOnce
  <2>2. InHand(y) = 0 /\ InHand(y)' = IF y = x THEN 1 ELSE 0
    BY <1>2 DEF InHand
  <2>3. Cardinality(Queued(y)) = Cardinality(Queued(y)') + (IF y = x THEN 1 ELSE 0)
    BY <1>1, <1>2, <1>3, TailQueued
  <2>4. Cardinality(Queued(y)') \in Nat
    <3>1. IsFiniteSet(Queued(y)') /\ Cardinality(Queued(y)') \in Nat
      <4>1. PICK q : q = queue'
        OBVIOUS
      <4>2. Queued(y)' = {i \in 1..Len(q) : q[i] = y}
        BY <4>1 DEF Queued
      <4>3. Len(q) \in Nat
        BY <1>4, <4>1
      <4>4. IsFiniteSet(1..Len(q))
        BY <4>3, FS_Interval
      <4>5. IsFiniteSet(Queued(y)')
        BY <4>2, <4>4, FS_Subset
      <4> QED
        BY <4>5, FS_CardinalityType
    <3> QED
      BY <3>1
  <2>5. sent[y] \in Nat /\ mails[y] \in Nat /\ sent' = sent /\ mails' = mails
    BY <1>2, <1>3
  <2> QED
    BY <2>1, <2>2, <2>3, <2>4, <2>5
<1>9. CopiesTrue'
  BY <1>2 DEF FlowInv, CopiesTrue, EmailedMeansSent
<1> QED
  BY <1>5, <1>6, <1>7, <1>8, <1>9, TypePartsPrime DEF FlowInv

(* The worker sends the mail in hand, or fails to.                         *)
LEMMA SendStep ==
    ASSUME FlowInv, NEW ok \in BOOLEAN, Send(ok)
    PROVE  FlowInv'
<1>1. PICK p \in {"mark", "idle"} : p = IF ok THEN "mark" ELSE "idle"
  OBVIOUS
<1>2. PICK x : x = worker.user
  OBVIOUS
<1>3. /\ worker.pc = "send" /\ worker' = [worker EXCEPT !.pc = p]
      /\ sent' = IF ok THEN [sent EXCEPT ![x] = @ + 1] ELSE sent
      /\ UNCHANGED <<conf, pending, row, agent, edits, queue, reader, mails, blocked, approved>>
  BY <1>1, <1>2 DEF Send
<1>4. /\ QueueOK /\ queue \in Seq(Users) /\ x \in Users
      /\ worker \in [pc : {"idle", "send", "mark"}, user : Users]
  BY <1>2, TypeParts DEF FlowInv, QueueOK
<1>5. sent \in [Users -> Nat] /\ mails \in [Users -> 0..MaxMails] /\ MaxMails \in Nat
  BY TypeParts, NotifyAssumption DEF FlowInv, CountsOK, MaxMails
<1>6. AgentsOK' /\ JobPlaced' /\ ModsPlaced' /\ AdminsOnce' /\ ParentCounted' /\ ConfOK'
  BY <1>3, NoAgentStep
<1>7. FlagsOK' /\ RowsOK'
  BY <1>3, TypeParts DEF FlowInv, FlagsOK, RowsOK
<1>8. /\ worker' \in [pc : {"idle", "send", "mark"}, user : Users]
      /\ worker'.pc = p /\ worker'.user = x
  BY <1>1, <1>2, <1>3, <1>4
<1>9. QueueOK'
  BY <1>3, <1>4, <1>8 DEF QueueOK
<1>10. /\ sent' \in [Users -> Nat]
       /\ \A y \in Users : sent'[y] = sent[y] + (IF ok /\ y = x THEN 1 ELSE 0)
  <2>1. CASE ok
    <3>1. sent' = [sent EXCEPT ![x] = @ + 1]
      BY <1>3, <2>1
    <3> QED
      BY <1>4, <1>5, <2>1, <3>1
  <2>2. CASE ~ ok
    <3>1. sent' = sent
      BY <1>3, <2>2
    <3> QED
      BY <1>5, <2>2, <3>1
  <2> QED
    BY <2>1, <2>2
<1>11. \A y \in Users : /\ sent'[y] + Cardinality(Queued(y)') + InHand(y)' <= mails'[y]
                        /\ sent'[y] <= mails'[y]
  <2> SUFFICES ASSUME NEW y \in Users
               PROVE  /\ sent'[y] + Cardinality(Queued(y)') + InHand(y)' <= mails'[y]
                      /\ sent'[y] <= mails'[y]
    OBVIOUS
  <2>1. sent[y] + Cardinality(Queued(y)) + InHand(y) <= mails[y]
    BY DEF FlowInv, SentOnce
  <2>2. InHand(y) = (IF y = x THEN 1 ELSE 0) /\ InHand(y)' = 0
    BY <1>1, <1>2, <1>3, <1>8 DEF InHand
  <2>3. Queued(y)' = Queued(y) /\ Cardinality(Queued(y)) \in Nat
    BY <1>3, <1>4, QueuedFinite DEF Queued
  <2>4. sent[y] \in Nat /\ mails[y] \in Nat /\ mails' = mails
    BY <1>3, <1>5
  <2>5. sent'[y] = sent[y] + (IF ok /\ y = x THEN 1 ELSE 0)
    BY <1>10
  <2> QED
    BY <2>1, <2>2, <2>3, <2>4, <2>5
<1>12. SentOnce'
  BY <1>11 DEF SentOnce
<1>13. CountsOK'
  <2>1. \A y \in Users : sent'[y] \in 0..MaxMails
    <3> SUFFICES ASSUME NEW y \in Users PROVE sent'[y] \in 0..MaxMails
      OBVIOUS
    <3>1. sent'[y] \in Nat /\ sent'[y] <= mails[y] /\ mails[y] \in 0..MaxMails
      BY <1>3, <1>5, <1>10, <1>11
    <3> QED
      BY <1>5, <3>1
  <2>2. sent' \in [Users -> 0..MaxMails]
    BY <1>10, <2>1
  <2> QED
    BY <1>3, <2>2, TypeParts DEF FlowInv, CountsOK
<1>14. CopiesTrue'
  <2>1. \A y \in Users : sent[y] > 0 => sent'[y] > 0
    BY <1>5, <1>10
  <2>2. worker'.pc = "mark" => ok /\ sent'[x] > 0
    <3>1. sent[x] \in Nat
      BY <1>4, <1>5
    <3> QED
      BY <1>1, <1>4, <1>8, <1>10, <3>1
  <2> QED
    BY <1>3, <1>8, <2>1, <2>2 DEF FlowInv, CopiesTrue, EmailedMeansSent
<1> QED
  BY <1>6, <1>7, <1>9, <1>12, <1>13, <1>14, TypePartsPrime DEF FlowInv

(* The worker marks the row of the user it has sent a mail.                *)
LEMMA NotifySetEmailedStep ==
    ASSUME FlowInv, NotifySetEmailed
    PROVE  FlowInv'
<1>1. PICK x : x = worker.user
  OBVIOUS
<1>2. PICK n : n = [there |-> TRUE, read |-> FALSE, emailed |-> TRUE]
  OBVIOUS
<1>3. /\ worker.pc = "mark" /\ row' = [row EXCEPT ![x] = n]
      /\ worker' = [worker EXCEPT !.pc = "idle"]
      /\ UNCHANGED <<conf, pending, agent, edits, queue, reader, mails, sent, blocked, approved>>
  BY <1>1, <1>2 DEF NotifySetEmailed
<1>4. x \in Users /\ row \in [Users -> Row] /\ reader \in [Users -> Row] /\ n \in Row
  BY <1>1, <1>2, TypeParts DEF FlowInv, QueueOK, RowsOK, Row
<1>5. /\ sent[x] > 0
      /\ \A y \in Users : (row[y].emailed => sent[y] > 0) /\ (reader[y].emailed => sent[y] > 0)
  BY <1>1, <1>3 DEF FlowInv, CopiesTrue, EmailedMeansSent
<1>6. row' \in [Users -> Row] /\ \A y \in Users : row'[y].emailed => sent[y] > 0
  BY <1>3, <1>4, <1>5
<1> QED
  BY <1>3, <1>4, <1>5, <1>6, RowStep

(* Readers copy rows and save copies.                                      *)
LEMMA ReadStep ==
    ASSUME FlowInv, NEW u \in Users, ReadFind(u) \/ NotifySetRead(u) \/ NotifyReadAll(u)
    PROVE  FlowInv'
<1>1. row \in [Users -> Row] /\ reader \in [Users -> Row]
  BY TypeParts DEF FlowInv, RowsOK
<1>2. \A y \in Users : (row[y].emailed => sent[y] > 0) /\ (reader[y].emailed => sent[y] > 0)
  BY DEF FlowInv, CopiesTrue, EmailedMeansSent
<1>3. CASE ReadFind(u)
  <2>1. /\ reader' = [reader EXCEPT ![u] = row[u]]
        /\ UNCHANGED <<conf, pending, row, agent, edits, queue, worker, mails, sent,
                       blocked, approved>>
    BY <1>3 DEF ReadFind
  <2>2. reader' \in [Users -> Row] /\ \A y \in Users : reader'[y].emailed => sent[y] > 0
    BY <1>1, <1>2, <2>1
  <2> QED
    BY <1>1, <1>2, <2>1, <2>2, RowStep
<1>4. CASE NotifySetRead(u)
  <2>1. PICK n : n = [reader[u] EXCEPT !.read = TRUE]
    OBVIOUS
  <2>2. /\ row' = [row EXCEPT ![u] = n] /\ reader' = [reader EXCEPT ![u] = Absent]
        /\ UNCHANGED <<conf, pending, agent, edits, queue, worker, mails, sent,
                       blocked, approved>>
    BY <1>4, <2>1 DEF NotifySetRead
  <2>3. n \in Row /\ n.emailed = reader[u].emailed /\ Absent \in Row /\ ~ Absent.emailed
    <3>1. reader[u] \in Row
      BY <1>1
    <3> QED
      BY <2>1, <3>1 DEF Row, Absent
  <2>4. row' \in [Users -> Row] /\ \A y \in Users : row'[y].emailed => sent[y] > 0
    BY <1>1, <1>2, <2>2, <2>3
  <2>5. reader' \in [Users -> Row] /\ \A y \in Users : reader'[y].emailed => sent[y] > 0
    BY <1>1, <1>2, <2>2, <2>3
  <2> QED
    BY <2>2, <2>4, <2>5, RowStep
<1>5. CASE NotifyReadAll(u)
  <2>1. PICK n : n = [row[u] EXCEPT !.read = TRUE]
    OBVIOUS
  <2>2. /\ row' = [row EXCEPT ![u] = n]
        /\ UNCHANGED <<conf, pending, agent, edits, queue, worker, reader, mails, sent,
                       blocked, approved>>
    BY <1>1, <1>5, <2>1 DEF NotifyReadAll
  <2>3. n \in Row /\ n.emailed = row[u].emailed
    <3>1. row[u] \in Row
      BY <1>1
    <3> QED
      BY <2>1, <3>1 DEF Row
  <2>4. row' \in [Users -> Row] /\ \A y \in Users : row'[y].emailed => sent[y] > 0
    BY <1>1, <1>2, <2>2, <2>3
  <2> QED
    BY <1>1, <1>2, <2>2, <2>4, RowStep
<1> QED
  BY <1>3, <1>4, <1>5

(* Nothing changes.                                                        *)
LEMMA StutterFlow ==
    ASSUME FlowInv, UNCHANGED vars
    PROVE  FlowInv'
<1>1. row \in [Users -> Row] /\ reader \in [Users -> Row]
  BY TypeParts DEF FlowInv, RowsOK
<1>2. \A y \in Users : (row[y].emailed => sent[y] > 0) /\ (reader[y].emailed => sent[y] > 0)
  BY DEF FlowInv, CopiesTrue, EmailedMeansSent
<1> QED
  BY <1>1, <1>2, RowStep DEF vars

-----------------------------------------------------------------------------
(* The invariant holds.                                                    *)

(* At first nobody is mailed and no row is there.                          *)
LEMMA FlowInit ==
    ASSUME Init
    PROVE  FlowInv
<1>1. conf \in Conf /\ conf.author \in Users /\ conf.edits \in 0..MaxEdits
  BY NotifyAssumption DEF Init, Conf
<1>2. AnyUser \in Users
  BY <1>1 DEF AnyUser
<1>3. Absent \in Row /\ ~ Absent.emailed
  BY DEF Absent, Row
<1>4. 0 \in 0..Len(Admins) /\ 0 \in 0..MaxEdits /\ 0 \in 0..MaxMails /\ Len(Admins) \in Nat
  BY NotifyAssumption DEF MaxMails
<1>5. /\ "job" \in Agents /\ Job.pc = "new" /\ Job.nth = 0
      /\ \A m \in Mods : agent[m].pc = "idle" /\ agent[m].nth = 0
  BY NotifyAssumption DEF Init, Agents, Job
<1>6. AgentsOK
  BY <1>4 DEF Init, AgentsOK, Agent
<1>7. ConfOK /\ FlagsOK /\ RowsOK /\ CountsOK
  BY <1>1, <1>3, <1>4 DEF Init, ConfOK, FlagsOK, RowsOK, CountsOK
<1>8. QueueOK
  BY <1>2, NotifyAssumption DEF Init, QueueOK
<1>9. Busy = {}
  BY <1>5 DEF Busy, Notifying
<1>10. JobPlaced /\ ModsPlaced
  BY <1>5, <1>9 DEF JobPlaced, ModsPlaced, Notifying
<1>11. Past = 0 /\ FromJob = 0
  BY <1>5 DEF Past, FromJob, Before, Notifying
<1>12. AdminsOnce
  <2>1. \A i \in Due : ~ (i <= 0)
    BY <1>4, <1>7, DueFacts
  <2> QED
    BY <1>11, <2>1 DEF Init, AdminsOnce
<1>13. ParentCounted
  BY <1>1, <1>9, <1>11, FS_EmptySet DEF Init, ParentCounted
<1>14. SentOnce
  <2>1. \A x : Queued(x) = {} /\ InHand(x) = 0
    BY DEF Init, Queued, InHand
  <2> QED
    <3> SUFFICES ASSUME NEW x \in Users
                 PROVE  sent[x] + Cardinality(Queued(x)) + InHand(x) <= mails[x]
      BY DEF SentOnce
    <3>1. Cardinality(Queued(x)) = 0 /\ InHand(x) = 0
      BY <2>1, FS_EmptySet
    <3>2. sent[x] = 0 /\ mails[x] = 0
      BY DEF Init
    <3> QED
      BY <3>1, <3>2
<1>15. CopiesTrue
  BY <1>3 DEF Init, CopiesTrue, EmailedMeansSent
<1> QED
  BY <1>6, <1>7, <1>8, <1>10, <1>12, <1>13, <1>14, <1>15, TypeParts DEF FlowInv

(* Every step keeps the invariant: of an agent with its recipient, of the  *)
(* job, of anyone.                                                         *)
LEMMA AgentMoves ==
    ASSUME FlowInv, NEW a \in Agents, AgentStep(a)
    PROVE  FlowInv'
<1>1. CASE FindCreateNotify(a)
  BY <1>1, FindCreateNotifyStep
<1>2. CASE NotifySetInitial(a)
  BY <1>2, NotifySetInitialStep
<1>3. CASE NotifySetInitialFails(a)
  BY <1>3, NotifySetInitialFailsStep
<1>4. CASE AsyncSend(a)
  BY <1>4, JobMails, ModMails DEF Agents
<1> QED
  BY <1>1, <1>2, <1>3, <1>4 DEF AgentStep

LEMMA JobMoves ==
    ASSUME FlowInv, JobStep
    PROVE  FlowInv'
<1>1. CASE Create
  BY <1>1, CreateStep
<1>2. CASE \E r \in {"pass", "block", "mask"} : Check(r)
  BY <1>2, CheckStep
<1>3. CASE Block \/ Mask
  BY <1>3, BlockStep
<1>4. CASE Push
  BY <1>4, PushStep
<1>5. CASE NextAdmin
  BY <1>5, NextAdminStep
<1>6. CASE AgentStep("job")
  BY <1>6, AgentMoves DEF Agents
<1>7. CASE MultiPush
  BY <1>7, MultiPushStep
<1> QED
  BY <1>1, <1>2, <1>3, <1>4, <1>5, <1>6, <1>7 DEF JobStep

LEMMA FlowStep ==
    ASSUME FlowInv, [Next]_vars
    PROVE  FlowInv'
<1>1. CASE JobStep
  BY <1>1, JobMoves
<1>2. ASSUME NEW m \in Mods, ModStep(m) \/ \E p \in BOOLEAN : UpdateStart(m, p)
      PROVE  FlowInv'
  <2>1. CASE UpdateSave(m) \/ UpdateSaveFails(m)
    BY <2>1, UpdateSaveStep
  <2>2. CASE AgentStep(m)
    BY <2>2, AgentMoves DEF Agents
  <2>3. CASE \E p \in BOOLEAN : UpdateStart(m, p)
    BY <2>3, UpdateStartStep
  <2> QED
    BY <1>2, <2>1, <2>2, <2>3 DEF ModStep
<1>3. CASE WorkerStep
  <2>1. CASE Take
    BY <2>1, TakeStep
  <2>2. CASE \E ok \in BOOLEAN : Send(ok)
    BY <2>2, SendStep
  <2>3. CASE NotifySetEmailed
    BY <2>3, NotifySetEmailedStep
  <2> QED
    BY <1>3, <2>1, <2>2, <2>3 DEF WorkerStep
<1>4. CASE \E u \in Users : ReadFind(u) \/ NotifySetRead(u) \/ NotifyReadAll(u)
  BY <1>4, ReadStep
<1>5. CASE UNCHANGED vars
  BY <1>5, StutterFlow
<1> QED
  BY <1>1, <1>2, <1>3, <1>4, <1>5 DEF Next

-----------------------------------------------------------------------------
(* What the invariant says of the recipients.                              *)

(* Without a moderator's request, the parent's author is mailed at most    *)
(* once, and only if he is to be.                                          *)
LEMMA OfThePush ==
    ASSUME FlowInv, edits = 0, NEW u \in Users
    PROVE  mails[u] <= 1 /\ (mails[u] > 0 => u \in conf.willing)
<1>1. mails[u] \in Nat
  BY TypeParts, NotifyAssumption DEF FlowInv, CountsOK, MaxMails
<1>2. CASE u = conf.parent
  <2>1. Cardinality(Busy) \in Nat /\ mails[u] + Cardinality(Busy) <= 0 + FromJob
    BY <1>2, FS_CardinalityType DEF FlowInv, ParentCounted
  <2>2. mails[u] <= FromJob
    BY <1>1, <2>1, JobNow
  <2>3. FromJob = 1 => u \in conf.willing
    BY <1>2 DEF FromJob, UserDue, NeedUser
  <2> QED
    BY <1>1, <2>2, <2>3, JobNow
<1>3. CASE u # conf.parent
  <2>1. mails[u] \in {0, 1} /\ (mails[u] = 1 => \E i \in Due : Admins[i] = u)
    BY <1>3 DEF FlowInv, AdminsOnce
  <2> QED
    BY <2>1, JobNow, DueFacts
<1> QED
  BY <1>2, <1>3

(* The administrators who are mailed have as many addresses.               *)
LEMMA AddressesApart ==
    ASSUME FlowInv
    PROVE  OneMailPerAdminAddress
<1> DEFINE mailed == {u \in AdminSet : mails[u] > 0 /\ u # conf.parent}
           addrs == {conf.addr[u] : u \in mailed}
           f == [u \in mailed |-> conf.addr[u]]
<1>1. IsFiniteSet(mailed)
  <2>1. Len(Admins) \in Nat /\ DOMAIN Admins = 1..Len(Admins)
    BY JobNow, DueFacts
  <2>2. IsFiniteSet(1..Len(Admins))
    BY <2>1, FS_Interval
  <2>3. Admins \in Surjection(1..Len(Admins), AdminSet)
    BY <2>1, JobNow, DueFacts DEF Surjection, AdminSet
  <2>4. IsFiniteSet(AdminSet)
    BY <2>2, <2>3, FS_Surjection
  <2> QED
    BY <2>4, FS_Subset
<1>2. \A u \in mailed : \E i \in Due : Admins[i] = u
  <2> SUFFICES ASSUME NEW u \in mailed PROVE \E i \in Due : Admins[i] = u
    OBVIOUS
  <2>1. u \in Users
    BY JobNow, DueFacts DEF AdminSet
  <2>2. mails[u] \in {0, 1} /\ (mails[u] = 1 => \E i \in Due : Admins[i] = u)
    BY <2>1 DEF FlowInv, AdminsOnce
  <2> QED
    BY <2>2
<1>3. \A u, v \in mailed : conf.addr[u] = conf.addr[v] => u = v
  BY <1>2, JobNow, DueFacts
<1>4. f \in [mailed -> addrs] /\ (\A u, v \in mailed : f[u] = f[v] => u = v)
  BY <1>3
<1>5. \A x \in addrs : \E u \in mailed : f[u] = x
  OBVIOUS
<1>6. f \in Bijection(mailed, addrs)
  BY <1>4, <1>5 DEF Bijection, Injection, Surjection, IsInjective
<1>7. ExistsBijection(mailed, addrs)
  BY <1>6 DEF ExistsBijection
<1>8. Cardinality(mailed) = Cardinality(addrs)
  BY <1>1, <1>7, FS_Bijection
<1> QED
  BY <1>8 DEF OneMailPerAdminAddress

(* With addresses apart, each administrator who is to be mailed is due.    *)
LEMMA AllAdminsMailed ==
    ASSUME FlowInv
    PROVE  AdminsMailed
<1> SUFFICES ASSUME Job.pc = "done", conf.email, ToAdmins,
                    \A a, b \in AdminSet : conf.addr[a] = conf.addr[b] => a = b,
                    NEW a \in AdminSet, NeedAdmin(a, Job.pend)
             PROVE  mails[a] > 0
  BY DEF AdminsMailed, Held, Job
<1>1. DOMAIN Admins = 1..Len(Admins) /\ Len(Admins) \in Nat
  BY JobNow, DueFacts
<1>2. PICK i \in 1..Len(Admins) : Admins[i] = a
  BY <1>1 DEF AdminSet
<1>3. \A j \in 1..(i - 1) : conf.addr[Admins[j]] # conf.addr[a]
  <2> SUFFICES ASSUME NEW j \in 1..(i - 1), conf.addr[Admins[j]] = conf.addr[a] PROVE FALSE
    OBVIOUS
  <2>1. j \in 1..Len(Admins) /\ j # i
    BY <1>1
  <2>2. Admins[j] = Admins[i]
    BY <1>1, <1>2, <2>1 DEF AdminSet
  <2> QED
    BY <1>2, <2>1, <2>2, JobNow, DueFacts
<1>4. i \in Due
  BY <1>1, <1>2, <1>3 DEF Due, Chosen, FirstOfAddr
<1>5. i <= Past
  <2>1. Past = Len(Admins)
    BY DEF FlowInv, JobPlaced, Past, Notifying
  <2> QED
    BY <1>1, <2>1
<1>6. mails[a] = 1
  BY <1>2, <1>4, <1>5 DEF FlowInv, AdminsOnce
<1> QED
  BY <1>6

(* Whatever the settings, the administrators, the requests of moderators   *)
(* and the size of the queue: a comment is mailed to whom it concerns, not *)
(* twice by one push, not against their will, to all administrators who    *)
(* want it and not twice to one address; and its row says emailed only     *)
(* when a mail was sent.                                                   *)
THEOREM RecipientsRight == Spec => []Recipients
<1>1. FlowInv => Recipients
  BY OfThePush, AddressesApart, AllAdminsMailed
     DEF FlowInv, Recipients, CopiesTrue, OneMailPerPush, WillingOnly
<1>2. Init => FlowInv
  BY FlowInit
<1>3. FlowInv /\ [Next]_vars => FlowInv'
  BY FlowStep
<1> QED
  BY <1>1, <1>2, <1>3, PTL DEF Spec
-----------------------------------------------------------------------------
(* Startup: the variables of the environment, and the configuration that   *)
(* the file and they make.                                                 *)

(* The options are three kinds apart.                                      *)
LEMMA OptionKinds ==
    /\ Scalars \subseteq Options /\ Lists \subseteq Options /\ Records \subseteq Options
    /\ \A o \in Options : o \in Scalars \/ o \in Lists \/ o \in Records
    /\ \A o \in Lists : o \notin Scalars
    /\ \A o \in Records : o \notin Scalars /\ o \notin Lists
BY DEF Options, Scalars, Lists, Records

(* The scalars the patches name.                                           *)
LEMMA ScalarNames ==
    /\ {"app_key", "timezone", "site_default", "cache.type"} \subseteq Scalars
    /\ {"captcha.action_limit", "captcha.always", "captcha.captcha_type"} \subseteq Scalars
    /\ {"captcha.action_timeout", "captcha.action_reset", "http.body_limit"} \subseteq Scalars
    /\ {"admin_notify.email.mail_subject", "admin_notify.noise_mode"} \subseteq Scalars
    /\ {"admin_notify.notify_subject", "admin_notify.email", "notify"} \subseteq Scalars
    /\ {"email.mail_subject", "email.mail_subject_to_admin"} \subseteq Scalars
    /\ {"moderator.pending_default", "img_upload.path", "http.proxy_header"} \subseteq Scalars
    /\ {"auth.enabled", "auth.callback", "locale"} \subseteq Scalars
    /\ {"ip_region.enabled", "ip_region.db_path", "ip_region.precision"} \subseteq Scalars
    /\ {"trusted_domains", "allow_origins"} \subseteq Options
    /\ "trusted_domains" \notin Scalars /\ "allow_origins" \notin Scalars
BY DEF Options, Scalars, Lists

(* A variable sets elements of its own option; a scalar is one element.    *)
LEMMA AssignedOwn ==
    ASSUME NEW v \in Variable, NEW p \in DOMAIN Assigned(v)
    PROVE  /\ p[1] = v.option /\ v.option \in Options
           /\ p[1] \in Scalars => p = <<p[1]>>
<1>1. v.option \in Options
  BY DEF Variable
<1>2. \/ Assigned(v) = <<>>
      \/ v.option \in Scalars /\ Assigned(v) = [q \in {<<v.option>>} |-> v.words[1]]
      \/ /\ v.option \in Records
         /\ Assigned(v) = [q \in {<<v.option, v.numbers[1], v.field>>} |-> v.words[1]]
      \/ /\ v.option \in Lists
         /\ Assigned(v) = [q \in {<<v.option, v.numbers[1]>>} |-> Last(v.words)]
      \/ /\ v.option \in Lists
         /\ Assigned(v) = [q \in {<<v.option, i - 1>> : i \in DOMAIN v.words} |->
                             v.words[q[2] + 1]]
  <2>1. CASE ~ Known(v)
    BY <2>1, Zenon DEF Assigned
  <2>2. CASE Known(v) /\ v.option \in Scalars /\ ~ (v.option \in Records \/ v.option \in Lists)
    BY <2>2, Zenon DEF Assigned
  <2>3. CASE Known(v) /\ v.option \in Records /\ ~ (v.option \in Scalars \/ v.option \in Lists)
    BY <2>3, Zenon DEF Assigned
  <2>4. CASE Known(v) /\ v.option \in Lists /\ ~ (v.option \in Scalars \/ v.option \in Records)
    BY <2>4, Zenon DEF Assigned
  <2> QED
    BY <1>1, <2>1, <2>2, <2>3, <2>4, OptionKinds
<1>3. CASE Assigned(v) = <<>>
  BY <1>3
<1>4. CASE v.option \in Scalars /\ Assigned(v) = [q \in {<<v.option>>} |-> v.words[1]]
  BY <1>1, <1>4
<1>5. CASE /\ v.option \in Records
           /\ Assigned(v) = [q \in {<<v.option, v.numbers[1], v.field>>} |-> v.words[1]]
  BY <1>1, <1>5, OptionKinds
<1>6. CASE /\ v.option \in Lists
           /\ Assigned(v) = [q \in {<<v.option, v.numbers[1]>>} |-> Last(v.words)]
  BY <1>1, <1>6, OptionKinds
<1>7. CASE /\ v.option \in Lists
           /\ Assigned(v) = [q \in {<<v.option, i - 1>> : i \in DOMAIN v.words} |->
                               v.words[q[2] + 1]]
  BY <1>1, <1>7, OptionKinds
<1> QED
  BY <1>2, <1>3, <1>4, <1>5, <1>6, <1>7

(* What is read of the environment is what its variables name.             *)
LEMMA ReadOwn ==
    ASSUME NEW e \in Seq(Variable), NEW p \in DOMAIN Read(e)
    PROVE  /\ \E i \in DOMAIN e : p[1] = e[i].option
           /\ p[1] \in Options /\ (p[1] \in Scalars => p = <<p[1]>>)
<1>1. DOMAIN Read(e) = UNION {DOMAIN Assigned(e[i]) : i \in DOMAIN e}
  BY DEF Read
<1>2. PICK i \in DOMAIN e : p \in DOMAIN Assigned(e[i])
  BY <1>1
<1>3. e[i] \in Variable
  OBVIOUS
<1> QED
  BY <1>2, <1>3, AssignedOwn

(* What is read does not depend on an order that decides nothing.          *)
LEMMA ReadReversed ==
    ASSUME NEW e \in Seq(Variable), Apart(e)
    PROVE  Read(Reverse(e)) = Read(e)
<1> DEFINE r == Reverse(e)
           Set(s) == UNION {DOMAIN Assigned(s[i]) : i \in DOMAIN s}
           At(s, x) == CHOOSE i \in Setting(s, x) : \A j \in Setting(s, x) : j <= i
<1>1. /\ DOMAIN e = 1..Len(e) /\ DOMAIN r = 1..Len(e) /\ Len(e) \in Nat
      /\ \A i \in 1..Len(e) : r[i] = e[(Len(e) - i) + 1] /\ (Len(e) - i) + 1 \in 1..Len(e)
  BY DEF Reverse
<1>2. \A s : Read(s) = [x \in Set(s) |-> Assigned(s[At(s, x)])[x]]
  BY DEF Read
<1>3. \A i \in 1..Len(e) : e[i] = r[(Len(e) - i) + 1]
  BY <1>1
<1>4. Set(r) = Set(e)
  BY <1>1, <1>3
<1>5. ASSUME NEW x \in Set(e)
      PROVE  Assigned(r[At(r, x)])[x] = Assigned(e[At(e, x)])[x]
  <2>1. PICK i \in 1..Len(e) : x \in DOMAIN Assigned(e[i])
    BY <1>1, <1>5
  <2>2. Setting(e, x) = {i}
    BY <1>1, <2>1 DEF Setting, Apart
  <2>3. Setting(r, x) = {(Len(e) - i) + 1}
    <3>1. ASSUME NEW j \in Setting(r, x) PROVE j = (Len(e) - i) + 1
      <4>1. j \in 1..Len(e) /\ x \in DOMAIN Assigned(e[(Len(e) - j) + 1])
        BY <1>1 DEF Setting
      <4>2. (Len(e) - j) + 1 \in Setting(e, x)
        BY <1>1, <4>1 DEF Setting
      <4> QED
        BY <1>1, <2>2, <4>1, <4>2
    <3>2. (Len(e) - i) + 1 \in Setting(r, x)
      BY <1>1, <1>3, <2>1 DEF Setting
    <3> QED
      BY <3>1, <3>2
  <2>4. At(e, x) = i
    BY <2>2
  <2>5. At(r, x) = (Len(e) - i) + 1
    BY <1>1, <2>3
  <2> QED
    BY <1>3, <2>4, <2>5
<1> HIDE DEF r, Set, At
<1> QED
  BY <1>2, <1>4, <1>5 DEF r

-----------------------------------------------------------------------------
(* The patches: what each changes, and that no value that is set is lost   *)
(* but those of Superseded.                                                *)
IsConfig(c) == c = [o \in Options |-> c[o]]
Kept(c, d, S) == \A o \in Scalars : o \in S \/ Blank(c[o]) \/ d[o] = c[o]
Same(c, d, S) == \A o \in Options : o \in S \/ d[o] = c[o]
Section(c) ==
    IF c["notify"] = "" THEN {} ELSE {o \in Options : \E s \in Options : <<o, s>> \in Replaced}
Subject(c) ==
    IF c["email.mail_subject_to_admin"] = "" THEN {} ELSE {"admin_notify.email.mail_subject"}
Noise(c) == IF c["moderator.pending_default"] = "" THEN {} ELSE {"admin_notify.noise_mode"}

(* Or sets a scalar that is empty.                                         *)
LEMMA OrSets ==
    ASSUME NEW c, IsConfig(c), NEW o \in Scalars, NEW v
    PROVE  /\ IsConfig(Or(c, o, v)) /\ Same(c, Or(c, o, v), {o})
           /\ Or(c, o, v)[o] = IF c[o] = "" THEN v ELSE c[o]
<1>1. o \in Options /\ NoOptions[o] = ""
  BY OptionKinds DEF NoOptions
<1>2. Or(c, o, v) = IF c[o] = "" THEN [c EXCEPT ![o] = v] ELSE c
  BY <1>1 DEF Or
<1> QED
  BY <1>1, <1>2 DEF IsConfig, Same

(* So does OrTrim, and one that is blank.                                  *)
LEMMA OrTrimSets ==
    ASSUME NEW c, IsConfig(c), NEW o \in Scalars, NEW v
    PROVE  /\ IsConfig(OrTrim(c, o, v)) /\ Same(c, OrTrim(c, o, v), {o})
           /\ OrTrim(c, o, v)[o] = IF Blank(c[o]) THEN v ELSE c[o]
<1>1. o \in Options
  BY OptionKinds
<1> QED
  BY <1>1 DEF OrTrim, IsConfig, Same

(* A default that is not blank leaves what is set, and nothing blank.      *)
LEMMA OrTrimKeeps ==
    ASSUME NEW c, IsConfig(c), NEW o \in Scalars, NEW v, ~ Blank(v), NEW d, d = OrTrim(c, o, v)
    PROVE  /\ IsConfig(d) /\ Same(c, d, {o})
           /\ ~ Blank(c[o]) => d[o] = c[o]
           /\ ~ Blank(d[o])
<1>1. IsConfig(d) /\ Same(c, d, {o}) /\ d[o] = IF Blank(c[o]) THEN v ELSE c[o]
  BY OrTrimSets
<1> QED
  BY <1>1

(* So does one that is not empty.                                          *)
LEMMA OrKeeps ==
    ASSUME NEW c, IsConfig(c), NEW o \in Scalars, NEW v, v # "", NEW d, d = Or(c, o, v)
    PROVE  /\ IsConfig(d) /\ Same(c, d, {o})
           /\ ~ Blank(c[o]) => d[o] = c[o]
           /\ d[o] # ""
<1>1. IsConfig(d) /\ Same(c, d, {o}) /\ d[o] = IF c[o] = "" THEN v ELSE c[o]
  BY OrSets
<1>2. ~ Blank(c[o]) => c[o] # ""
  BY DEF Blank
<1> QED
  BY <1>1, <1>2

(* The deprecated options: what is set stays, but in the sections that are *)
(* replaced; administrators are mailed, and a limit that was given has its *)
(* reset.                                                                  *)
LEMMA HistoryPatched ==
    ASSUME NEW c, IsConfig(c)
    PROVE  LET d == historyPatch(c)
           IN /\ IsConfig(d) /\ Kept(c, d, Section(c) \cup Subject(c))
              /\ \A o \in {"notify", "email.mail_subject_to_admin", "moderator.pending_default"} :
                    d[o] = c[o]
              /\ d["admin_notify.email"] # ""
              /\ d["captcha.action_timeout"] # "" => d["captcha.action_reset"] # ""
<1>1. PICK reset : reset = Or(c, "captcha.action_reset", c["captcha.action_timeout"])
  OBVIOUS
<1>2. PICK trusted : trusted = Or(reset, "trusted_domains", c["allow_origins"])
  OBVIOUS
<1>3. PICK section : section =
        IF c["notify"] = "" THEN trusted
        ELSE [o \in Options |-> IF \E s \in Options : <<o, s>> \in Replaced
                                THEN c[ReplacedBy(o)] ELSE trusted[o]]
  OBVIOUS
<1>4. PICK email : email = Or(section, "admin_notify.email", "true")
  OBVIOUS
<1>5. PICK d : d = IF c["email.mail_subject_to_admin"] = "" THEN email
                   ELSE [email EXCEPT !["admin_notify.email.mail_subject"] =
                                         c["email.mail_subject_to_admin"]]
  OBVIOUS
<1>6. historyPatch(c) = d
  BY <1>1, <1>2, <1>3, <1>4, <1>5 DEF historyPatch
<1>7. /\ IsConfig(reset) /\ Same(c, reset, {"captcha.action_reset"})
      /\ reset["captcha.action_reset"] =
            IF c["captcha.action_reset"] = "" THEN c["captcha.action_timeout"]
            ELSE c["captcha.action_reset"]
  BY <1>1, ScalarNames, OrSets
<1>8. IsConfig(trusted) /\ Same(reset, trusted, {"trusted_domains"})
  <2>1. "trusted_domains" \in Options
    BY ScalarNames
  <2>2. trusted = reset \/ trusted = [reset EXCEPT !["trusted_domains"] = c["allow_origins"]]
    BY <1>2 DEF Or
  <2> QED
    BY <1>7, <2>1, <2>2 DEF IsConfig, Same
<1>9. IsConfig(section) /\ Same(trusted, section, Section(c))
  BY <1>3, <1>8 DEF IsConfig, Same, Section
<1>10. /\ IsConfig(email) /\ Same(section, email, {"admin_notify.email"})
       /\ email["admin_notify.email"] =
             IF section["admin_notify.email"] = "" THEN "true" ELSE section["admin_notify.email"]
  BY <1>4, <1>9, ScalarNames, OrSets
<1>11. IsConfig(d) /\ Same(email, d, Subject(c))
  <2>1. "admin_notify.email.mail_subject" \in Options
    BY ScalarNames, OptionKinds
  <2> QED
    BY <1>5, <1>10, <2>1 DEF IsConfig, Same, Subject
<1>12. /\ {"notify", "email.mail_subject_to_admin", "moderator.pending_default"} \subseteq Options
       /\ {"captcha.action_timeout", "captcha.action_reset", "admin_notify.email"} \subseteq Options
       /\ "trusted_domains" \notin Scalars
  BY ScalarNames, OptionKinds
<1>13. \A o \in Section(c) :
          o \in {"admin_notify.noise_mode", "admin_notify.notify_subject", "admin_notify.email",
                 "admin_notify.email.mail_subject"}
  BY DEF Section, Replaced
<1>14. \A o \in {"notify", "email.mail_subject_to_admin", "moderator.pending_default",
                 "captcha.action_timeout"} : d[o] = c[o]
  BY <1>7, <1>8, <1>9, <1>10, <1>11, <1>12, <1>13 DEF Same, Subject
<1>15. Kept(c, d, Section(c) \cup Subject(c))
  <2>1. SUFFICES ASSUME NEW o \in Scalars, o \notin Section(c), o \notin Subject(c), ~ Blank(c[o])
                 PROVE  d[o] = c[o]
    BY DEF Kept
  <2>2. o \in Options /\ o # "trusted_domains" /\ c[o] # ""
    BY <2>1, OptionKinds, ScalarNames DEF Blank
  <2>3. reset[o] = c[o]
    BY <1>7, <2>2 DEF Same
  <2>4. trusted[o] = c[o]
    BY <1>8, <2>2, <2>3 DEF Same
  <2>5. section[o] = c[o]
    BY <1>9, <2>1, <2>2, <2>4 DEF Same
  <2>6. email[o] = c[o]
    BY <1>10, <2>2, <2>5 DEF Same
  <2> QED
    BY <1>11, <2>1, <2>2, <2>6 DEF Same
<1>16. d["admin_notify.email"] # ""
  BY <1>10, <1>11, <1>12 DEF Same, Subject
<1>17. d["captcha.action_reset"] = reset["captcha.action_reset"]
  BY <1>8, <1>9, <1>10, <1>11, <1>12, <1>13 DEF Same, Subject
<1> QED
  BY <1>6, <1>7, <1>11, <1>14, <1>15, <1>16, <1>17

(* The other patches: what is set stays, but for captcha.always and noise  *)
(* mode; and what the services need is set.                                *)
LEMMA NormalPatched ==
    ASSUME NEW c, IsConfig(c), NEW key, ~ Blank(key)
    PROVE  LET d == normalPatch(c, key)
           IN /\ IsConfig(d) /\ Kept(c, d, {"captcha.always"} \cup Noise(c))
              /\ \A o \in {"notify", "email.mail_subject_to_admin", "moderator.pending_default",
                          "admin_notify.email", "captcha.action_timeout",
                          "captcha.action_reset", "locale", "ip_region.enabled"} : d[o] = c[o]
              /\ \A o \in {"app_key", "timezone", "site_default", "captcha.captcha_type"} :
                    ~ Blank(d[o])
              /\ d["cache.type"] # "" /\ d["http.body_limit"] # ""
              /\ d["captcha.action_limit"] = "" => d["captcha.always"] = "true"
              /\ d["moderator.pending_default"] # "" => d["admin_notify.noise_mode"] = "true"
              /\ d["email.mail_subject"] # "" => d["admin_notify.email.mail_subject"] # ""
<1>1. PICK keyed : keyed = OrTrim(c, "app_key", key)
  OBVIOUS
<1>2. PICK zoned : zoned = OrTrim(keyed, "timezone", "Local")
  OBVIOUS
<1>3. PICK basic : basic = OrTrim(zoned, "site_default", "Default Site")
  OBVIOUS
<1>4. PICK cached : cached = Or(basic, "cache.type", "builtin")
  OBVIOUS
<1>5. PICK captcha : captcha = IF c["captcha.action_limit"] # "" THEN cached
                      ELSE [cached EXCEPT !["captcha.always"] = "true"]
  OBVIOUS
<1>6. PICK subject : subject = Or(captcha, "admin_notify.email.mail_subject",
                      IF c["admin_notify.notify_subject"] # ""
                         THEN c["admin_notify.notify_subject"] ELSE c["email.mail_subject"])
  OBVIOUS
<1>7. PICK noise : noise = IF c["moderator.pending_default"] = "" THEN subject
                    ELSE [subject EXCEPT !["admin_notify.noise_mode"] = "true"]
  OBVIOUS
<1>8. PICK typed : typed = OrTrim(noise, "captcha.captcha_type", "image")
  OBVIOUS
<1>9. PICK images : images = Or(typed, "img_upload.path", "./data/artalk-img/")
  OBVIOUS
<1>10. PICK body : body = Or(images, "http.body_limit", "100")
  OBVIOUS
<1>11. PICK http : http = Or(body, "http.proxy_header", "X-Forwarded-For")
  OBVIOUS
<1>12. PICK d : d = IF c["auth.enabled"] = "" THEN http
                ELSE OrTrim(http, "auth.callback", "localhost")
  OBVIOUS
<1>13. normalPatch(c, key) = d
  BY <1>1, <1>2, <1>3, <1>4, <1>5, <1>6, <1>7, <1>8, <1>9, <1>10, <1>11, <1>12
     DEF normalPatch
<1>14. /\ IsConfig(keyed) /\ Same(c, keyed, {"app_key"})
       /\ ~ Blank(c["app_key"]) => keyed["app_key"] = c["app_key"]
       /\ ~ Blank(keyed["app_key"])
  <2>1. "app_key" \in Scalars /\ "app_key" \in Options
    BY ScalarNames, OptionKinds
  <2> QED
    BY <1>1, <2>1, OrTrimKeeps
<1>15. /\ IsConfig(zoned) /\ Same(keyed, zoned, {"timezone"})
       /\ ~ Blank(keyed["timezone"]) => zoned["timezone"] = keyed["timezone"]
       /\ ~ Blank(zoned["timezone"])
  <2>1. "timezone" \in Scalars /\ ~ Blank("Local")
    BY ScalarNames DEF Blank
  <2> QED
    BY <1>2, <1>14, <2>1, OrTrimKeeps
<1>16. /\ IsConfig(basic) /\ Same(zoned, basic, {"site_default"})
       /\ ~ Blank(zoned["site_default"]) => basic["site_default"] = zoned["site_default"]
       /\ ~ Blank(basic["site_default"])
  <2>1. "site_default" \in Scalars /\ ~ Blank("Default Site")
    BY ScalarNames DEF Blank
  <2> QED
    BY <1>3, <1>15, <2>1, OrTrimKeeps
<1>17. /\ IsConfig(cached) /\ Same(basic, cached, {"cache.type"})
       /\ ~ Blank(basic["cache.type"]) => cached["cache.type"] = basic["cache.type"]
       /\ cached["cache.type"] # ""
  <2>1. "cache.type" \in Scalars /\ "builtin" # ""
    BY ScalarNames DEF Blank
  <2> QED
    BY <1>4, <1>16, <2>1, OrKeeps
<1>18. /\ IsConfig(captcha) /\ Same(cached, captcha, {"captcha.always"})
       /\ c["captcha.action_limit"] = "" => captcha["captcha.always"] = "true"
  <2>1. "captcha.always" \in Scalars /\ "captcha.always" \in Options
    BY ScalarNames, OptionKinds
  <2> QED
    BY <1>5, <1>17, <2>1 DEF IsConfig, Same
<1>19. /\ IsConfig(subject) /\ Same(captcha, subject, {"admin_notify.email.mail_subject"})
       /\ ~ Blank(captcha["admin_notify.email.mail_subject"]) =>
             subject["admin_notify.email.mail_subject"] = captcha["admin_notify.email.mail_subject"]
       /\ c["email.mail_subject"] # "" => subject["admin_notify.email.mail_subject"] # ""
  <2>1. /\ "admin_notify.email.mail_subject" \in Scalars
        /\ "admin_notify.email.mail_subject" \in Options
    BY ScalarNames, OptionKinds
  <2>2. PICK v : v = IF c["admin_notify.notify_subject"] # ""
                     THEN c["admin_notify.notify_subject"] ELSE c["email.mail_subject"]
    OBVIOUS
  <2>3. /\ IsConfig(subject) /\ Same(captcha, subject, {"admin_notify.email.mail_subject"})
        /\ subject["admin_notify.email.mail_subject"] =
              IF captcha["admin_notify.email.mail_subject"] = "" THEN v
              ELSE captcha["admin_notify.email.mail_subject"]
    BY <1>6, <1>18, <2>1, <2>2, OrSets
  <2> QED
    BY <2>2, <2>3 DEF Blank
<1>20. /\ IsConfig(noise) /\ Same(subject, noise, {"admin_notify.noise_mode"})
       /\ c["moderator.pending_default"] = "" => Same(subject, noise, {})
       /\ c["moderator.pending_default"] # "" => noise["admin_notify.noise_mode"] = "true"
  <2>1. "admin_notify.noise_mode" \in Scalars /\ "admin_notify.noise_mode" \in Options
    BY ScalarNames, OptionKinds
  <2> QED
    BY <1>7, <1>19, <2>1 DEF IsConfig, Same
<1>21. /\ IsConfig(typed) /\ Same(noise, typed, {"captcha.captcha_type"})
       /\ ~ Blank(noise["captcha.captcha_type"]) =>
             typed["captcha.captcha_type"] = noise["captcha.captcha_type"]
       /\ ~ Blank(typed["captcha.captcha_type"])
  <2>1. "captcha.captcha_type" \in Scalars /\ ~ Blank("image")
    BY ScalarNames DEF Blank
  <2> QED
    BY <1>8, <1>20, <2>1, OrTrimKeeps
<1>22. /\ IsConfig(images) /\ Same(typed, images, {"img_upload.path"})
       /\ ~ Blank(typed["img_upload.path"]) => images["img_upload.path"] = typed["img_upload.path"]
  <2>1. "img_upload.path" \in Scalars /\ "./data/artalk-img/" # ""
    BY ScalarNames DEF Blank
  <2> QED
    BY <1>9, <1>21, <2>1, OrKeeps
<1>23. /\ IsConfig(body) /\ Same(images, body, {"http.body_limit"})
       /\ ~ Blank(images["http.body_limit"]) => body["http.body_limit"] = images["http.body_limit"]
       /\ body["http.body_limit"] # ""
  <2>1. "http.body_limit" \in Scalars /\ "100" # ""
    BY ScalarNames DEF Blank
  <2> QED
    BY <1>10, <1>22, <2>1, OrKeeps
<1>24. /\ IsConfig(http) /\ Same(body, http, {"http.proxy_header"})
       /\ ~ Blank(body["http.proxy_header"]) =>
             http["http.proxy_header"] = body["http.proxy_header"]
  <2>1. "http.proxy_header" \in Scalars /\ "X-Forwarded-For" # ""
    BY ScalarNames DEF Blank
  <2> QED
    BY <1>11, <1>23, <2>1, OrKeeps
<1>25. /\ IsConfig(d) /\ Same(http, d, {"auth.callback"})
       /\ ~ Blank(http["auth.callback"]) => d["auth.callback"] = http["auth.callback"]
  <2>1. "auth.callback" \in Scalars /\ "auth.callback" \in Options
    BY ScalarNames, OptionKinds
  <2>2. /\ IsConfig(OrTrim(http, "auth.callback", "localhost"))
        /\ Same(http, OrTrim(http, "auth.callback", "localhost"), {"auth.callback"})
        /\ ~ Blank(http["auth.callback"]) =>
              OrTrim(http, "auth.callback", "localhost")["auth.callback"] = http["auth.callback"]
    BY <1>24, <2>1, OrTrimSets
  <2> QED
    BY <1>12, <1>24, <2>2 DEF Same
<1>26. Same(body, d,
          {"http.proxy_header", "auth.callback"})
  BY <1>24, <1>25 DEF Same
<1>27. Same(images, d,
          {"http.body_limit", "http.proxy_header", "auth.callback"})
  BY <1>23, <1>26 DEF Same
<1>28. Same(typed, d,
          {"img_upload.path", "http.body_limit", "http.proxy_header", "auth.callback"})
  BY <1>22, <1>27 DEF Same
<1>29. Same(noise, d,
          {"captcha.captcha_type", "img_upload.path", "http.body_limit", "http.proxy_header",
           "auth.callback"})
  BY <1>21, <1>28 DEF Same
<1>30. Same(subject, d,
          {"admin_notify.noise_mode", "captcha.captcha_type", "img_upload.path",
           "http.body_limit", "http.proxy_header", "auth.callback"})
  BY <1>20, <1>29 DEF Same
<1>31. Same(captcha, d,
          {"admin_notify.email.mail_subject", "admin_notify.noise_mode",
           "captcha.captcha_type", "img_upload.path", "http.body_limit", "http.proxy_header",
           "auth.callback"})
  BY <1>19, <1>30 DEF Same
<1>32. Same(cached, d,
          {"captcha.always", "admin_notify.email.mail_subject", "admin_notify.noise_mode",
           "captcha.captcha_type", "img_upload.path", "http.body_limit", "http.proxy_header",
           "auth.callback"})
  BY <1>18, <1>31 DEF Same
<1>33. Same(basic, d,
          {"cache.type", "captcha.always", "admin_notify.email.mail_subject",
           "admin_notify.noise_mode", "captcha.captcha_type", "img_upload.path",
           "http.body_limit", "http.proxy_header", "auth.callback"})
  BY <1>17, <1>32 DEF Same
<1>34. Same(zoned, d,
          {"site_default", "cache.type", "captcha.always", "admin_notify.email.mail_subject",
           "admin_notify.noise_mode", "captcha.captcha_type", "img_upload.path",
           "http.body_limit", "http.proxy_header", "auth.callback"})
  BY <1>16, <1>33 DEF Same
<1>35. Same(keyed, d,
          {"timezone", "site_default", "cache.type", "captcha.always",
           "admin_notify.email.mail_subject", "admin_notify.noise_mode",
           "captcha.captcha_type", "img_upload.path", "http.body_limit", "http.proxy_header",
           "auth.callback"})
  BY <1>15, <1>34 DEF Same
<1>36. Same(c, d,
          {"app_key", "timezone", "site_default", "cache.type", "captcha.always",
           "admin_notify.email.mail_subject", "admin_notify.noise_mode",
           "captcha.captcha_type", "img_upload.path", "http.body_limit", "http.proxy_header",
           "auth.callback"})
  BY <1>14, <1>35 DEF Same
<1>37. \A o \in {"notify", "email.mail_subject_to_admin", "moderator.pending_default",
                 "admin_notify.email", "captcha.action_timeout", "captcha.action_reset", "locale",
                 "ip_region.enabled", "captcha.action_limit", "email.mail_subject"} : d[o] = c[o]
  BY <1>36, ScalarNames, OptionKinds DEF Same
<1>38. Kept(c, d, {"captcha.always"} \cup Noise(c))
  <2>1. SUFFICES ASSUME NEW o \in Scalars, o # "captcha.always", o \notin Noise(c),
                        ~ Blank(c[o])
                 PROVE  d[o] = c[o]
    BY DEF Kept
  <2>2. o \in Options
    BY OptionKinds
  <2>3. keyed[o] = c[o]
    BY <1>14, <2>1, <2>2 DEF Same
  <2>4. zoned[o] = c[o]
    BY <1>15, <2>1, <2>2, <2>3 DEF Same
  <2>5. basic[o] = c[o]
    BY <1>16, <2>1, <2>2, <2>4 DEF Same
  <2>6. cached[o] = c[o]
    BY <1>17, <2>1, <2>2, <2>5 DEF Same
  <2>7. captcha[o] = c[o]
    BY <1>18, <2>1, <2>2, <2>6 DEF Same
  <2>8. subject[o] = c[o]
    BY <1>19, <2>1, <2>2, <2>7 DEF Same
  <2>9. noise[o] = c[o]
    BY <1>20, <2>1, <2>2, <2>8 DEF Same, Noise
  <2>10. typed[o] = c[o]
    BY <1>21, <2>1, <2>2, <2>9 DEF Same
  <2>11. images[o] = c[o]
    BY <1>22, <2>1, <2>2, <2>10 DEF Same
  <2>12. body[o] = c[o]
    BY <1>23, <2>1, <2>2, <2>11 DEF Same
  <2>13. http[o] = c[o]
    BY <1>24, <2>1, <2>2, <2>12 DEF Same
  <2>14. d[o] = c[o]
    BY <1>25, <2>1, <2>2, <2>13 DEF Same
  <2> QED
    BY <2>14
<1>39. {"app_key", "timezone", "site_default", "captcha.captcha_type", "cache.type",
         "http.body_limit", "captcha.always", "admin_notify.noise_mode",
         "admin_notify.email.mail_subject"} \subseteq Options
  BY ScalarNames, OptionKinds
<1>40. ~ Blank(d["app_key"])
  BY <1>14, <1>35, <1>39 DEF Same
<1>41. ~ Blank(d["timezone"])
  BY <1>15, <1>34, <1>39 DEF Same
<1>42. ~ Blank(d["site_default"])
  BY <1>16, <1>33, <1>39 DEF Same
<1>43. ~ Blank(d["captcha.captcha_type"])
  BY <1>21, <1>28, <1>39 DEF Same
<1>44. d["cache.type"] # ""
  BY <1>17, <1>32, <1>39 DEF Same
<1>45. d["http.body_limit"] # ""
  BY <1>23, <1>26, <1>39 DEF Same
<1>46. c["captcha.action_limit"] = "" => d["captcha.always"] = "true"
  BY <1>18, <1>31, <1>39 DEF Same
<1>47. c["moderator.pending_default"] # "" => d["admin_notify.noise_mode"] = "true"
  BY <1>20, <1>29, <1>39 DEF Same
<1>48. c["email.mail_subject"] # "" => d["admin_notify.email.mail_subject"] # ""
  BY <1>19, <1>30, <1>39 DEF Same
<1> QED
  BY <1>13, <1>25, <1>37, <1>38, <1>40, <1>41, <1>42, <1>43, <1>44, <1>45, <1>46, <1>47, <1>48

(* The language is never left empty.                                       *)
LEMMA LanguagePatched ==
    ASSUME NEW c, IsConfig(c), NEW han
    PROVE  LET d == i18nPatch(c, han)
           IN IsConfig(d) /\ Same(c, d, {"locale"}) /\ d["locale"] # ""
<1>1. "locale" \in Options
  BY ScalarNames, OptionKinds
<1>2. \A l : l # "" => Cased(l) # ""
  <2>1. \A l : Cased(l) \in {"zh-CN", "en", "en-US"} \/ Cased(l) = l
    BY DEF Cased
  <2> QED
    BY <2>1
<1>3. PICK l : l = IF c["locale"] = "" THEN (IF han THEN "zh-CN" ELSE "en")
                   ELSE Cased(c["locale"])
  OBVIOUS
<1>4. l # ""
  BY <1>2, <1>3
<1>5. i18nPatch(c, han) = [c EXCEPT !["locale"] = l]
  BY <1>1, <1>3 DEF i18nPatch, IsConfig
<1> QED
  BY <1>1, <1>4, <1>5 DEF IsConfig, Same

(* Regions are switched off, or get a database and a precision.            *)
LEMMA RegionPatched ==
    ASSUME NEW c, IsConfig(c), NEW there
    PROVE  LET d == ipRegionPatch(c, there)
           IN /\ IsConfig(d)
              /\ Same(c, d, {"ip_region.enabled", "ip_region.db_path", "ip_region.precision"})
              /\ Kept(c, d, {"ip_region.enabled"})
<1>1. PICK path : path = Or(c, "ip_region.db_path", "./data/ip2region.xdb")
  OBVIOUS
<1>2. PICK precise : precise = Or(path, "ip_region.precision", "province")
  OBVIOUS
<1>3. /\ IsConfig(path) /\ Same(c, path, {"ip_region.db_path"})
      /\ path["ip_region.db_path"] =
            IF c["ip_region.db_path"] = "" THEN "./data/ip2region.xdb" ELSE c["ip_region.db_path"]
  BY <1>1, ScalarNames, OrSets
<1>4. /\ IsConfig(precise) /\ Same(path, precise, {"ip_region.precision"})
      /\ precise["ip_region.precision"] =
            IF path["ip_region.precision"] = "" THEN "province" ELSE path["ip_region.precision"]
  BY <1>2, <1>3, ScalarNames, OrSets
<1>5. PICK on : on = IF there THEN precise["ip_region.enabled"] ELSE ""
  OBVIOUS
<1>6. {"ip_region.enabled", "ip_region.db_path", "ip_region.precision"} \subseteq Options
  BY ScalarNames, OptionKinds
<1>7. CASE c["ip_region.enabled"] = ""
  BY <1>7 DEF ipRegionPatch, Same, Kept
<1>8. CASE c["ip_region.enabled"] # ""
  <2>1. ipRegionPatch(c, there) = [precise EXCEPT !["ip_region.enabled"] = on]
    BY <1>1, <1>2, <1>4, <1>5, <1>6, <1>8 DEF ipRegionPatch, IsConfig
  <2>2. PICK d : d = [precise EXCEPT !["ip_region.enabled"] = on]
    OBVIOUS
  <2>3. IsConfig(d) /\ Same(precise, d, {"ip_region.enabled"})
    BY <1>4, <1>6, <2>2 DEF IsConfig, Same
  <2>4. Same(c, d, {"ip_region.enabled", "ip_region.db_path", "ip_region.precision"})
    BY <1>3, <1>4, <2>3 DEF Same
  <2>5. Kept(c, d, {"ip_region.enabled"})
    BY <1>3, <1>4, <2>3, OptionKinds DEF Same, Kept, Blank
  <2> QED
    BY <2>1, <2>2, <2>3, <2>4, <2>5
<1> QED
  BY <1>7, <1>8

(* The file and the environment make a configuration.                      *)
LEMMA LoadedConfig ==
    ASSUME NEW file, NEW e
    PROVE  IsConfig(Loaded(file, e))
BY DEF Loaded, IsConfig

(* A scalar of the environment counts in it.                               *)
LEMMA LoadedFromEnviron ==
    ASSUME NEW file, NEW e \in Seq(Variable), NEW p \in DOMAIN Read(e), p[1] \in Scalars
    PROVE  Loaded(file, e)[p[1]] = Read(e)[p]
<1> DEFINE named == {q[1] : q \in DOMAIN Read(e)}
<1>1. Loaded(file, e) = [o \in Options |-> IF o \in named THEN Unflatten(Read(e), o)
                          ELSE IF o \in DOMAIN file THEN file[o] ELSE NoOptions[o]]
  BY DEF Loaded
<1>2. p[1] \in named /\ p[1] \in Options /\ p = <<p[1]>>
  BY ReadOwn
<1> QED
  BY <1>1, <1>2 DEF Unflatten

(* And one that no variable names counts as the file has it.               *)
LEMMA LoadedFromFile ==
    ASSUME NEW file, NEW e \in Seq(Variable), NEW o \in Scalars,
           \A i \in DOMAIN e : e[i].option # o
    PROVE  Loaded(file, e)[o] = IF o \in DOMAIN file THEN file[o] ELSE ""
<1> DEFINE named == {q[1] : q \in DOMAIN Read(e)}
<1>1. Loaded(file, e) = [x \in Options |-> IF x \in named THEN Unflatten(Read(e), x)
                          ELSE IF x \in DOMAIN file THEN file[x] ELSE NoOptions[x]]
  BY DEF Loaded
<1>2. o \in Options /\ NoOptions[o] = ""
  BY OptionKinds DEF NoOptions
<1>3. o \notin named
  BY ReadOwn
<1> QED
  BY <1>1, <1>2, <1>3

(* A configuration that is read from a file, with a key to fall back on:   *)
(* what is set and not superseded counts, and the services can work.       *)
LEMMA ConfigSound ==
    ASSUME machine \in Machines, NEW file, NEW key, ~ Blank(key)
    PROVE  LET c == Loaded(file, machine.environ)
               d == NewFromFile(file, machine.environ, key)
           IN /\ Kept(c, d, Superseded(d))
              /\ \A o \in {"app_key", "timezone", "site_default", "captcha.captcha_type"} :
                    ~ Blank(d[o])
              /\ \A o \in {"locale", "cache.type", "http.body_limit", "admin_notify.email"} :
                    d[o] # ""
              /\ d["captcha.action_limit"] = "" => d["captcha.always"] = "true"
              /\ d["moderator.pending_default"] # "" => d["admin_notify.noise_mode"] = "true"
              /\ d["captcha.action_timeout"] # "" => d["captcha.action_reset"] # ""
              /\ d["email.mail_subject"] # "" => d["admin_notify.email.mail_subject"] # ""
<1>1. PICK c : c = Loaded(file, machine.environ)
  OBVIOUS
<1>2. PICK h : h = historyPatch(c)
  OBVIOUS
<1>3. PICK n : n = normalPatch(h, key)
  OBVIOUS
<1>4. PICK l : l = i18nPatch(n, machine.han)
  OBVIOUS
<1>5. PICK d : d = ipRegionPatch(l, machine.database)
  OBVIOUS
<1>6. NewFromFile(file, machine.environ, key) = d
  BY <1>1, <1>2, <1>3, <1>4, <1>5 DEF NewFromFile
<1>7. machine.environ \in Seq(Variable)
  BY StartupAssumption
<1>8. IsConfig(c)
  BY <1>1, <1>7, LoadedConfig
<1>9. /\ IsConfig(h) /\ Kept(c, h, Section(c) \cup Subject(c))
      /\ \A o \in {"notify", "email.mail_subject_to_admin", "moderator.pending_default"} :
            h[o] = c[o]
      /\ h["admin_notify.email"] # ""
      /\ h["captcha.action_timeout"] # "" => h["captcha.action_reset"] # ""
  BY <1>2, <1>8, HistoryPatched
<1>10. /\ IsConfig(n) /\ Kept(h, n, {"captcha.always"} \cup Noise(h))
       /\ \A o \in {"notify", "email.mail_subject_to_admin", "moderator.pending_default",
                    "admin_notify.email", "captcha.action_timeout",
                    "captcha.action_reset", "locale", "ip_region.enabled"} : n[o] = h[o]
       /\ \A o \in {"app_key", "timezone", "site_default", "captcha.captcha_type"} : ~ Blank(n[o])
       /\ n["cache.type"] # "" /\ n["http.body_limit"] # ""
       /\ n["captcha.action_limit"] = "" => n["captcha.always"] = "true"
       /\ n["moderator.pending_default"] # "" => n["admin_notify.noise_mode"] = "true"
       /\ n["email.mail_subject"] # "" => n["admin_notify.email.mail_subject"] # ""
  BY <1>3, <1>9, NormalPatched
<1>11. IsConfig(l) /\ Same(n, l, {"locale"}) /\ l["locale"] # ""
  BY <1>4, <1>10, LanguagePatched
<1>12. /\ IsConfig(d) /\ Kept(l, d, {"ip_region.enabled"})
       /\ Same(l, d, {"ip_region.enabled", "ip_region.db_path", "ip_region.precision"})
  BY <1>5, <1>11, RegionPatched
<1>13. Same(n, d, {"locale", "ip_region.enabled", "ip_region.db_path", "ip_region.precision"})
  BY <1>11, <1>12 DEF Same
<1>14. \A o \in {"notify", "email.mail_subject_to_admin", "moderator.pending_default",
                 "admin_notify.email", "captcha.action_timeout", "captcha.action_reset",
                 "app_key", "timezone", "site_default", "captcha.captcha_type", "cache.type",
                 "http.body_limit", "captcha.action_limit", "captcha.always",
                 "admin_notify.noise_mode", "email.mail_subject",
                 "admin_notify.email.mail_subject"} : d[o] = n[o]
  BY <1>13, ScalarNames, OptionKinds DEF Same
<1>15. d["locale"] = l["locale"]
  BY <1>12, ScalarNames, OptionKinds DEF Same
<1>16. /\ Section(d) = Section(c) /\ Subject(d) = Subject(c) /\ Noise(d) = Noise(c)
       /\ Noise(h) = Noise(c)
  BY <1>9, <1>10, <1>14 DEF Section, Subject, Noise
<1>17. Superseded(d) = Section(c) \cup Subject(c) \cup Noise(c)
                       \cup {"locale", "ip_region.enabled", "captcha.always"}
  BY <1>16 DEF Superseded, Section, Subject, Noise
<1>18. Kept(c, d, Superseded(d))
  <2>1. SUFFICES ASSUME NEW o \in Scalars, o \notin Superseded(d), ~ Blank(c[o])
                 PROVE  d[o] = c[o]
    BY DEF Kept
  <2>2. h[o] = c[o]
    BY <1>9, <1>17, <2>1 DEF Kept
  <2>3. n[o] = h[o]
    BY <1>10, <1>16, <1>17, <2>1, <2>2 DEF Kept
  <2>4. l[o] = n[o]
    BY <1>11, <1>17, <2>1, OptionKinds DEF Same
  <2> QED
    BY <1>12, <1>17, <2>1, <2>2, <2>3, <2>4 DEF Kept
<1> QED
  BY <1>1, <1>6, <1>9, <1>10, <1>11, <1>14, <1>15, <1>18

-----------------------------------------------------------------------------
(* The invariant of a start.  Explicit says that a work directory counts;  *)
(* Goal is the file a start without the flag of a file ends with, from     *)
(* beginning to end the same unless one is generated.                      *)
Explicit == machine.first /\ machine.workdir
CallDir == IF Explicit THEN "work" ELSE "here"
EndDir == IF Explicit THEN "work" ELSE IF machine.dataHere THEN "here" ELSE "data"
Goal == IF Retrieve(CallDir) # NoFile THEN Retrieve(CallDir) ELSE Retrieve(EndDir)

(* What the states consist of, and how many keys were drawn.               *)
StartupShape ==
    /\ machine \in Machines /\ files \subseteq Places
    /\ start \in {"off", "resolve", "dataDir", "execute", "config", "ready", "failed"}
    /\ cwd \in {"here", "data", "work"} /\ workDir \in {"", "data", "work"}
    /\ loaded \in Places \cup {NoFile}
    /\ drawn \in Nat /\ (genKey = "" \/ ~ Blank(genKey))
    /\ (\E S : signers \in Seq(S)) /\ Len(signers) <= MaxStarts
    /\ start \notin {"off", "ready"} => Len(signers) < MaxStarts
    /\ drawn <= 2 * Len(signers) \/ (start = "failed" /\ drawn <= 2 * Len(signers) + 1)

(* Where a start is, and what it has found so far.                         *)
Stages ==
    /\ start \in {"resolve", "dataDir"} =>
          cwd = "here" /\ workDir = IF Explicit THEN "work" ELSE ""
    /\ start \in {"execute", "config"} => cwd = EndDir
    /\ start = "resolve" /\ machine.config = "" => cfgFile = NoFile
    /\ start \in {"dataDir", "execute", "config"} /\ machine.config = "" =>
          cfgFile = IF Explicit THEN NoFile ELSE Retrieve("here")
    /\ start = "config" /\ machine.config # "" => cfgFile = Flag

(* A file that was generated is the one every later start finds; and every *)
(* start so far read the same app_key.                                     *)
Signed ==
    /\ genKey # "" => machine.config = "" /\ Goal = Generated
    /\ genKey = "" /\ signers # <<>> => machine.config # "" \/ Goal # NoFile
    /\ \A i \in DOMAIN signers :
          /\ signers[i].set = Loaded(Content(Generated, genKey), machine.environ)["app_key"]
          /\ Blank(signers[i].set) \/ signers[i].key = signers[i].set

(* What a start that is done has read, and what it has made of it.         *)
Prepared ==
    /\ start = "ready" /\ machine.config = "" => loaded = Goal
    /\ EnvironWins /\ Usable

StartupInv == StartupShape /\ Stages /\ Signed /\ Prepared

(* A file that is found is one of the places looked at, with a directory.  *)
LEMMA Retrieved ==
    ASSUME NEW dir \in {"here", "data", "work"}, files \subseteq Places
    PROVE  /\ Retrieve(dir) \in files \cup {NoFile}
           /\ Retrieve(dir)[1] # "" \/ Retrieve(dir) = NoFile
           /\ Retrieve(dir) = NoFile => \A i \in 1..4 : Lookup(dir)[i] \notin files
<1> DEFINE there == {i \in 1..4 : Lookup(dir)[i] \in files}
<1>1. CASE there = {}
  BY <1>1 DEF Retrieve
<1>2. CASE there # {}
  <2>1. \E i \in there : \A j \in there : i <= j
    <3>1. there \subseteq 1..4
      OBVIOUS
    <3>2. CASE 1 \in there
      BY <3>1, <3>2
    <3>3. CASE 1 \notin there /\ 2 \in there
      BY <3>1, <3>3
    <3>4. CASE 1 \notin there /\ 2 \notin there /\ 3 \in there
      BY <3>1, <3>4
    <3>5. CASE 1 \notin there /\ 2 \notin there /\ 3 \notin there
      BY <1>2, <3>1, <3>5
    <3> QED
      BY <3>2, <3>3, <3>4, <3>5
  <2>2. PICK k \in there : Retrieve(dir) = Lookup(dir)[k]
    <3>1. PICK i : i = CHOOSE k \in there : \A j \in there : k <= j
      OBVIOUS
    <3>2. i \in there
      BY <2>1, <3>1
    <3>3. Retrieve(dir) = Lookup(dir)[i]
      BY <1>2, <3>1 DEF Retrieve
    <3> QED
      BY <3>2, <3>3
  <2>3. Retrieve(dir) \in files
    BY <2>2
  <2>4. ASSUME NEW p \in Places PROVE p[1] # ""
    <3>1. PICK a \in {"here", "data", "work", "config", "etc"},
               b \in {"artalk.yml", "data/artalk.yml", "custom.yml"} : p = <<a, b>>
      BY DEF Places
    <3> QED
      BY <3>1
  <2>5. NoFile[1] = ""
    BY DEF NoFile
  <2> QED
    BY <2>3, <2>4, <2>5
<1> QED
  BY <1>1, <1>2

(* What is found depends on the files alone.                               *)
LEMMA RetrieveSame ==
    ASSUME files' = files, machine' = machine
    PROVE  /\ \A dir : Retrieve(dir)' = Retrieve(dir)
           /\ Goal' = Goal /\ CallDir' = CallDir /\ EndDir' = EndDir /\ Explicit' = Explicit
           /\ Flag' = Flag
<1>1. \A dir : Retrieve(dir)' = Retrieve(dir)
  BY DEF Retrieve, Lookup
<1>2. CallDir' = CallDir /\ EndDir' = EndDir /\ Explicit' = Explicit /\ Flag' = Flag
  BY DEF CallDir, EndDir, Explicit, Flag
<1>3. Goal' = Goal
  BY <1>1, <1>2 DEF Goal
<1> QED
  BY <1>1, <1>2, <1>3

(* Where nothing is found, a file that is generated is found next.         *)
LEMMA GeneratedFound ==
    ASSUME NEW dir \in {"here", "data", "work"}, files \subseteq Places,
           Retrieve(dir) = NoFile, files' = files \cup {Generated}
    PROVE  Retrieve(dir)' = Generated
<1>1. \A i \in 1..4 : Lookup(dir)[i] \notin files
  BY Retrieved
<1>2. /\ Lookup(dir)[1] # Generated /\ Lookup(dir)[2] # Generated /\ Lookup(dir)[3] = Generated
      /\ Lookup(dir)[4] # Generated
  BY DEF Lookup, Generated
<1>3. \A i \in 1..4 : Lookup(dir)[i] \in files' <=> i = 3
  <2>1. \A i \in 1..4 : i = 1 \/ i = 2 \/ i = 3 \/ i = 4
    OBVIOUS
  <2> QED
    BY <1>1, <1>2, <2>1
<1>4. {i \in 1..4 : Lookup(dir)[i] \in files'} = {3}
  BY <1>3
<1>5. Retrieve(dir)' = IF {i \in 1..4 : Lookup(dir)[i] \in files'} = {} THEN NoFile
                       ELSE Lookup(dir)[CHOOSE k \in {i \in 1..4 : Lookup(dir)[i] \in files'} :
                                \A j \in {i \in 1..4 : Lookup(dir)[i] \in files'} : k <= j]
  BY DEF Retrieve, Lookup
<1>6. (CHOOSE i \in {3} : \A j \in {3} : i <= j) = 3
  OBVIOUS
<1> QED
  BY <1>2, <1>4, <1>5, <1>6

(* Every step keeps the invariant.                                         *)
LEMMA StartupInitInv == StartupInit => StartupInv
<1> SUFFICES ASSUME StartupInit PROVE StartupInv
  OBVIOUS
<1>1. machine \in Machines /\ machine.files \subseteq Places
  BY StartupAssumption DEF StartupInit
<1>2. signers \in Seq({}) /\ Len(signers) = 0 /\ DOMAIN signers = {} /\ signers = <<>>
  <2>1. signers = <<>>
    BY DEF StartupInit
  <2> QED
    BY <2>1, EmptySeq
<1>3. StartupShape
  <2>1. \E S : signers \in Seq(S)
    BY <1>2, Zenon
  <2>2. /\ start = "off" /\ cwd = "here" /\ workDir = "" /\ loaded = NoFile
        /\ drawn = 0 /\ genKey = "" /\ files = machine.files
    BY DEF StartupInit
  <2>3. Len(signers) = 0 /\ MaxStarts \in Nat
    BY <1>2, StartupAssumption, Zenon
  <2>4. Len(signers) <= MaxStarts /\ drawn \in Nat /\ drawn <= 2 * Len(signers)
    <3>1. drawn = 0
      BY <2>2
    <3>2. drawn \in Nat
      BY <3>1
    <3>3. Len(signers) <= MaxStarts
      BY <2>3
    <3>4. drawn <= 2 * Len(signers)
      BY <2>3, <3>1
    <3> QED
      BY <3>2, <3>3, <3>4
  <2> QED
    BY <1>1, <2>1, <2>2, <2>3, <2>4 DEF StartupShape
<1>4. Stages /\ Signed /\ Prepared
  BY <1>2 DEF StartupInit, Stages, Signed, Prepared, EnvironWins, Usable
<1> QED
  BY <1>3, <1>4 DEF StartupInv

(* The steps that leave what was signed.                                   *)
LEMMA SignedStays ==
    ASSUME Signed, files' = files, machine' = machine, genKey' = genKey, signers' = signers
    PROVE  Signed'
<1>1. Goal' = Goal
  BY RetrieveSame
<1>2. Loaded(Content(Generated, genKey), machine.environ)'
      = Loaded(Content(Generated, genKey), machine.environ)
  BY DEF Loaded, Content, Read
<1> QED
  BY <1>1, <1>2 DEF Signed

(* The flags before those of the command are read.                         *)
LEMMA EagerKeeps == ASSUME StartupInv, Eager PROVE StartupInv'
<1>1. Signed'
  BY SignedStays DEF StartupInv, Eager
<1>2. StartupShape'
  BY DEF StartupInv, StartupShape, Eager
<1>3. Explicit' = Explicit
  BY DEF Eager, Explicit
<1>4. Stages'
  BY <1>3 DEF Stages, Eager, Explicit, Flag
<1>5. Prepared'
  BY DEF Prepared, EnvironWins, Usable, Eager
<1> QED
  BY <1>1, <1>2, <1>4, <1>5 DEF StartupInv

(* The file is looked up where the program is called.                      *)
LEMMA ResolveKeeps == ASSUME StartupInv, resolveConfigFileBeforeDataDir PROVE StartupInv'
<1>1. Signed'
  BY SignedStays DEF StartupInv, resolveConfigFileBeforeDataDir
<1>2. StartupShape'
  BY DEF StartupInv, StartupShape, resolveConfigFileBeforeDataDir
<1>3. /\ Explicit' = Explicit /\ \A dir : Retrieve(dir)' = Retrieve(dir)
      /\ machine' = machine /\ cwd' = cwd /\ workDir' = workDir /\ start' = "dataDir"
  BY RetrieveSame DEF resolveConfigFileBeforeDataDir
<1>4. cwd = "here" /\ workDir = IF Explicit THEN "work" ELSE ""
  BY DEF StartupInv, Stages, resolveConfigFileBeforeDataDir
<1>5. ASSUME machine.config = ""
      PROVE  cfgFile' = IF Explicit THEN NoFile ELSE Retrieve("here")
  BY <1>4, <1>5 DEF StartupInv, Stages, resolveConfigFileBeforeDataDir, RetrieveConfigFile
<1>6. Stages'
  BY <1>3, <1>4, <1>5 DEF Stages
<1>7. Prepared'
  BY <1>3 DEF Prepared, EnvironWins, Usable
<1> QED
  BY <1>1, <1>2, <1>6, <1>7 DEF StartupInv

(* The program goes to its data directory.                                 *)
LEMMA DataDirKeeps == ASSUME StartupInv, initDataDir PROVE StartupInv'
<1>1. Signed'
  BY SignedStays DEF StartupInv, initDataDir
<1>2. StartupShape'
  BY DEF StartupInv, StartupShape, initDataDir
<1>3. /\ Explicit' = Explicit /\ EndDir' = EndDir /\ \A dir : Retrieve(dir)' = Retrieve(dir)
      /\ machine' = machine /\ start = "dataDir" /\ start' = "execute" /\ cfgFile' = cfgFile
  BY RetrieveSame DEF initDataDir
<1>4. cwd = "here" /\ workDir = IF Explicit THEN "work" ELSE ""
  BY <1>3 DEF StartupInv, Stages
<1>5. cwd' = EndDir
  BY <1>4 DEF initDataDir, EndDir
<1>6. Stages'
  BY <1>3, <1>5 DEF StartupInv, Stages
<1>7. Prepared'
  BY <1>3 DEF Prepared, EnvironWins, Usable
<1> QED
  BY <1>1, <1>2, <1>6, <1>7 DEF StartupInv

(* The flags are read once more.                                           *)
LEMMA ExecuteKeeps == ASSUME StartupInv, Execute PROVE StartupInv'
<1>1. Signed'
  BY SignedStays DEF StartupInv, Execute
<1>2. StartupShape'
  BY DEF StartupInv, StartupShape, Execute
<1>3. /\ Explicit' = Explicit /\ EndDir' = EndDir /\ Flag' = Flag
      /\ \A dir : Retrieve(dir)' = Retrieve(dir)
      /\ machine' = machine /\ start = "execute" /\ start' = "config" /\ cwd' = cwd
      /\ cfgFile' = IF Flag # NoFile THEN Flag ELSE cfgFile
  BY RetrieveSame DEF Execute
<1>4. machine.config \in {"", "relative", "absolute"}
  BY StartupAssumption DEF StartupInv, StartupShape
<1>5. Flag = NoFile <=> machine.config = ""
  BY <1>4 DEF Flag, NoFile
<1>6. Stages'
  BY <1>3, <1>5 DEF StartupInv, Stages
<1>7. Prepared'
  BY <1>3 DEF Prepared, EnvironWins, Usable
<1> QED
  BY <1>1, <1>2, <1>6, <1>7 DEF StartupInv

(* The program ends.                                                       *)
LEMMA EndsKeeps == ASSUME StartupInv, Ends PROVE StartupInv'
<1>1. Signed'
  BY SignedStays DEF StartupInv, Ends
<1>2. StartupShape'
  BY DEF StartupInv, StartupShape, Ends
<1>3. Stages' /\ Prepared'
  BY DEF Stages, Prepared, EnvironWins, Usable, Ends
<1> QED
  BY <1>1, <1>2, <1>3 DEF StartupInv

(* Without the flag of a file, what getConfig finds is Goal.               *)
LEMMA FoundIsGoal ==
    ASSUME StartupInv, start = "config", machine.config = ""
    PROVE  (IF cfgFile = NoFile THEN RetrieveConfigFile ELSE Within(cwd, cfgFile)) = Goal
<1>1. cwd = EndDir /\ cfgFile = IF Explicit THEN NoFile ELSE Retrieve("here")
  BY DEF StartupInv, Stages
<1>2. Retrieve("here")[1] # "" \/ Retrieve("here") = NoFile
  BY Retrieved DEF StartupInv, StartupShape
<1>3. CASE Explicit
  BY <1>1, <1>3 DEF RetrieveConfigFile, Goal, CallDir, EndDir
<1>4. CASE ~ Explicit
  BY <1>1, <1>2, <1>4 DEF RetrieveConfigFile, Goal, CallDir, Within
<1> QED
  BY <1>3, <1>4

(* The name in a path.                                                     *)
LEMMA SecondOf == ASSUME NEW a, NEW b, NEW p, p = <<a, b>> PROVE p[2] = b
OBVIOUS

(* The flag of a file names another file than the one that is generated.   *)
LEMMA FlagFound ==
    ASSUME StartupInv, start = "config", machine.config # ""
    PROVE  LET found == IF cfgFile = NoFile THEN RetrieveConfigFile ELSE Within(cwd, cfgFile)
           IN found # NoFile /\ found # Generated
<1>1. cfgFile = Flag /\ cwd \in {"here", "data", "work"}
  BY DEF StartupInv, Stages, StartupShape
<1>2. machine.config \in {"relative", "absolute"}
  BY StartupAssumption DEF StartupInv, StartupShape
<1>3. Flag \in {<<"", "custom.yml">>, <<"work", "custom.yml">>}
  BY <1>2 DEF Flag
<1>4. Flag[2] = "custom.yml"
  <2>1. PICK a : Flag = <<a, "custom.yml">>
    BY <1>3
  <2> QED
    BY <2>1, SecondOf
<1>5. NoFile[2] = "" /\ Generated[2] = "artalk.yml"
  BY DEF NoFile, Generated
<1>6. Within(cwd, Flag)[2] = "custom.yml"
  <2>1. CASE Within(cwd, Flag) = Flag
    BY <1>4, <2>1
  <2>2. CASE Within(cwd, Flag) = <<cwd, Flag[2]>>
    BY <1>4, <2>2, SecondOf
  <2> QED
    BY <2>1, <2>2 DEF Within
<1>7. Flag # NoFile /\ Within(cwd, Flag) # NoFile /\ Within(cwd, Flag) # Generated
  BY <1>4, <1>5, <1>6
<1> QED
  BY <1>1, <1>7

(* Where nothing was found, the file that is generated is found from then  *)
(* on.                                                                     *)
LEMMA GoalGenerated ==
    ASSUME files \subseteq Places, Goal = NoFile, files' = files \cup {Generated},
           machine' = machine
    PROVE  Goal' = Generated
<1>1. CallDir \in {"here", "data", "work"} /\ EndDir \in {"here", "data", "work"}
  BY DEF CallDir, EndDir
<1>2. CallDir' = CallDir /\ EndDir' = EndDir
  BY DEF CallDir, EndDir, Explicit
<1>3. Retrieve(CallDir) = NoFile /\ Retrieve(EndDir) = NoFile
  BY DEF Goal
<1>4. PICK a \in {"here", "data", "work"} : a = CallDir
  BY <1>1
<1>5. Retrieve(a)' = Generated
  BY <1>3, <1>4, GeneratedFound
<1>6. Retrieve(CallDir)' = Retrieve(a)'
  BY <1>2, <1>4 DEF Retrieve, Lookup
<1>7. Generated # NoFile
  BY DEF Generated, NoFile
<1> QED
  BY <1>5, <1>6, <1>7 DEF Goal

(* getConfig keeps it: a start that succeeds reads the app_key that the    *)
(* earlier ones have read.                                                 *)
LEMMA ConfigKeeps == ASSUME StartupInv, getConfig PROVE StartupInv'
<1>1. PICK found : found = IF cfgFile = NoFile THEN RetrieveConfigFile ELSE Within(cwd, cfgFile)
  OBVIOUS
<1>2. PICK key : key = IF found = NoFile THEN Key(drawn + 1) ELSE genKey
  OBVIOUS
<1>3. PICK f : f = IF found = NoFile THEN Generated ELSE found
  OBVIOUS
<1>4. PICK n : n = IF found = NoFile THEN drawn + 1 ELSE drawn
  OBVIOUS
<1>5. PICK c : c = Content(f, key)
  OBVIOUS
<1>6. /\ start = "config" /\ cfgFile' = f
      /\ files' = IF found = NoFile THEN files \cup {f} ELSE files
      /\ genKey' = key /\ machine' = machine /\ cwd' = cwd /\ workDir' = workDir
      /\ \/ /\ f \in files' /\ start' = "ready" /\ loaded' = f
            /\ config' = NewFromFile(c, machine.environ, Key(n + 1))
            /\ drawn' = IF config'["app_key"] = Key(n + 1) THEN n + 1 ELSE n
            /\ signers' = Append(signers, [key |-> config'["app_key"],
                                           set |-> Loaded(c, machine.environ)["app_key"]])
         \/ /\ start' = "failed" /\ drawn' = n /\ loaded' = loaded /\ config' = config
            /\ signers' = signers
  BY <1>1, <1>2, <1>3, <1>4, <1>5 DEF getConfig
<1>7. /\ machine \in Machines /\ files \subseteq Places /\ drawn \in Nat
      /\ cwd \in {"here", "data", "work"} /\ workDir \in {"", "data", "work"}
      /\ loaded \in Places \cup {NoFile} /\ (genKey = "" \/ ~ Blank(genKey))
      /\ (\E S : signers \in Seq(S)) /\ Len(signers) < MaxStarts /\ drawn <= 2 * Len(signers)
  BY <1>6 DEF StartupInv, StartupShape
<1>8. PICK S : signers \in Seq(S)
  BY <1>7
<1>9. /\ Len(signers) \in Nat /\ MaxStarts \in Nat
      /\ \A i \in Nat : 1 <= i /\ i <= 2 * MaxStarts + 1 => ~ Blank(Key(i))
  <2>1. /\ MaxStarts \in Nat /\ RandomKeys \in Seq(STRING \ {"", " "})
        /\ Len(RandomKeys) > 2 * MaxStarts
    BY StartupAssumption
  <2>2. Len(signers) \in Nat
    BY <1>8, LenProperties
  <2>3. Len(RandomKeys) \in Nat /\ DOMAIN RandomKeys = 1..Len(RandomKeys)
    BY <2>1, LenProperties
  <2>4. ASSUME NEW i \in Nat, 1 <= i, i <= 2 * MaxStarts + 1
        PROVE  ~ Blank(Key(i))
    <3>1. PICK l \in Nat : l = Len(RandomKeys)
      BY <2>3
    <3>2. PICK m \in Nat : m = MaxStarts
      BY <2>1
    <3>3. l > 2 * m /\ i <= 2 * m + 1
      BY <2>1, <2>4, <3>1, <3>2
    <3>4. i \in 1..l
      BY <2>4, <3>3
    <3>5. RandomKeys[i] \in STRING \ {"", " "}
      BY <2>1, <3>1, <3>4, ElementOfSeq
    <3> QED
      BY <3>5 DEF Key, Blank
  <2> QED
    BY <2>1, <2>2, <2>4
<1>10. /\ n \in Nat /\ n <= drawn + 1 /\ ~ Blank(Key(drawn + 1)) /\ ~ Blank(Key(n + 1))
       /\ n <= 2 * Len(signers) + 1 /\ n + 1 <= 2 * (Len(signers) + 1)
  <2>1. PICK l \in Nat : l = Len(signers)
    BY <1>9
  <2>2. drawn \in Nat /\ l < MaxStarts /\ drawn <= 2 * l
    BY <1>7, <2>1
  <2>3. n \in Nat /\ n <= drawn + 1
    BY <1>4, <2>2
  <2>4. n <= 2 * l + 1 /\ n + 1 <= 2 * (l + 1) /\ n + 1 <= 2 * MaxStarts + 1
        /\ drawn + 1 <= 2 * MaxStarts + 1
    BY <1>9, <2>2, <2>3
  <2>5. /\ n + 1 \in Nat /\ 1 <= n + 1 /\ drawn + 1 \in Nat /\ 1 <= drawn + 1
    BY <2>2, <2>3
  <2>6. ~ Blank(Key(drawn + 1)) /\ ~ Blank(Key(n + 1))
    BY <1>9, <2>4, <2>5
  <2> QED
    BY <2>1, <2>3, <2>4, <2>6
<1>11. key = "" \/ ~ Blank(key)
  BY <1>2, <1>7, <1>10
<1>12. files' \subseteq Places
  <2>1. Generated \in Places
    BY DEF Generated, Places
  <2> QED
    BY <1>3, <1>6, <1>7, <2>1
<1>13. found = NoFile => machine.config = "" /\ Goal = NoFile
  <2>1. CASE machine.config = ""
    BY <1>1, <1>6, <2>1, FoundIsGoal
  <2>2. CASE machine.config # ""
    BY <1>1, <1>6, <2>2, FlagFound
  <2> QED
    BY <2>1, <2>2
<1>14. machine.config = "" => f = Goal'
  <2>1. CASE found = NoFile
    BY <1>3, <1>6, <1>7, <1>13, <2>1, GoalGenerated
  <2>2. CASE found # NoFile
    BY <1>1, <1>3, <1>6, <2>2, FoundIsGoal, RetrieveSame
  <2> QED
    BY <2>1, <2>2
<1>15. /\ genKey' # "" => machine'.config = "" /\ Goal' = Generated
       /\ genKey' = "" => machine'.config # "" \/ Goal' # NoFile
  <2>1. CASE found = NoFile
    <3>1. key # ""
      BY <1>2, <1>10, <2>1 DEF Blank
    <3> QED
      BY <1>3, <1>6, <1>13, <1>14, <2>1, <3>1
  <2>2. CASE found # NoFile
    <3>1. Goal' = Goal /\ genKey' = genKey
      BY <1>2, <1>6, <2>2, RetrieveSame
    <3>2. genKey # "" => machine.config = "" /\ Goal = Generated
      BY DEF StartupInv, Signed
    <3>3. machine.config = "" => Goal # NoFile
      BY <1>1, <1>6, <2>2, FoundIsGoal
    <3> QED
      BY <1>6, <3>1, <3>2, <3>3
  <2> QED
    BY <2>1, <2>2
<1>16. c = Content(Generated, key)
  <2>1. CASE key = ""
    BY <1>5, <2>1 DEF Content
  <2>2. CASE key # ""
    <3>1. f = Generated
      BY <1>6, <1>14, <1>15, <2>2
    <3> QED
      BY <1>5, <3>1
  <2> QED
    BY <2>1, <2>2
<1>17. PICK set : set = Loaded(c, machine.environ)["app_key"]
  OBVIOUS
<1>18. Loaded(Content(Generated, genKey), machine.environ)'["app_key"] = set
  <2>1. Content(Generated, genKey)' = c
    BY <1>6, <1>16 DEF Content
  <2> QED
    BY <1>6, <1>17, <2>1 DEF Loaded, Read
<1>19. ASSUME NEW i \in DOMAIN signers
       PROVE  signers[i].set = set /\ (Blank(set) \/ signers[i].key = set)
  <2>1. /\ signers[i].set = Loaded(Content(Generated, genKey), machine.environ)["app_key"]
        /\ Blank(signers[i].set) \/ signers[i].key = signers[i].set
    BY DEF StartupInv, Signed
  <2>2. signers # <<>>
    BY <1>19
  <2>3. found # NoFile
    <3>1. genKey = "" => machine.config # "" \/ Goal # NoFile
      BY <2>2 DEF StartupInv, Signed
    <3>2. genKey # "" => Goal # NoFile
      <4>1. Generated[1] # NoFile[1]
        BY DEF Generated, NoFile
      <4> QED
        BY <4>1 DEF StartupInv, Signed
    <3> QED
      BY <1>13, <3>1, <3>2
  <2>4. c = Content(Generated, genKey)
    BY <1>2, <1>16, <2>3
  <2> QED
    BY <1>17, <2>1, <2>4
<1>20. StartupShape'
  <2>1. PICK l \in Nat : l = Len(signers)
    BY <1>9
  <2>2. /\ machine' \in Machines /\ files' \subseteq Places /\ start' \in {"ready", "failed"}
        /\ cwd' \in {"here", "data", "work"} /\ workDir' \in {"", "data", "work"}
        /\ loaded' \in Places \cup {NoFile} /\ (genKey' = "" \/ ~ Blank(genKey'))
    BY <1>6, <1>7, <1>11, <1>12
  <2>3. CASE start' = "failed"
    <3>1. signers' = signers /\ drawn' = n
      BY <1>6, <2>3
    <3>2. \E T : signers' \in Seq(T)
      BY <1>7, <3>1, Zenon
    <3>3. Len(signers') < MaxStarts /\ Len(signers') <= MaxStarts
      <4>1. PICK m \in Nat : m = MaxStarts
        BY <1>9
      <4>2. l < m /\ Len(signers') = l
        BY <1>7, <2>1, <3>1, <4>1
      <4> QED
        BY <4>1, <4>2
    <3>4. drawn' \in Nat /\ drawn' <= 2 * Len(signers') + 1
      BY <1>10, <3>1
    <3> QED
      BY <2>2, <2>3, <3>2, <3>3, <3>4 DEF StartupShape, Blank
  <2>4. CASE start' = "ready"
    <3>1. PICK s : signers' = Append(signers, s)
      BY <1>6, <2>4
    <3>2. signers' \in Seq(S \cup {s}) /\ Len(signers') = l + 1
      <4>1. signers \in Seq(S \cup {s}) /\ s \in S \cup {s}
        BY <1>8
      <4> QED
        BY <2>1, <3>1, <4>1, AppendProperties
    <3>3. \E T : signers' \in Seq(T)
      BY <3>2, Zenon
    <3>4. l + 1 <= MaxStarts
      <4>1. PICK m \in Nat : m = MaxStarts
        BY <1>9
      <4>2. l < m
        BY <1>7, <2>1, <4>1
      <4> QED
        BY <4>1, <4>2
    <3>5. drawn' = n \/ drawn' = n + 1
      BY <1>6, <2>4
    <3>6. n \in Nat /\ n + 1 <= 2 * (l + 1) /\ n <= 2 * (l + 1)
      BY <1>10, <2>1
    <3>7. drawn' \in Nat /\ drawn' <= 2 * (l + 1)
      BY <3>5, <3>6
    <3> QED
      BY <2>2, <2>4, <3>2, <3>3, <3>4, <3>7 DEF StartupShape, Blank
  <2> QED
    BY <2>2, <2>3, <2>4
<1>21. Stages'
  BY <1>6 DEF Stages
<1>22. Signed'
  <2>1. ASSUME NEW i \in DOMAIN signers'
        PROVE  signers'[i].set = set /\ (Blank(set) \/ signers'[i].key = set)
    <3>1. CASE signers' = signers
      BY <1>19, <2>1, <3>1
    <3>2. CASE signers' # signers
      <4>1. PICK s : s = [key |-> config'["app_key"], set |-> set]
        OBVIOUS
      <4>2. signers' = Append(signers, s)
        BY <1>6, <1>17, <3>2, <4>1
      <4>3. /\ DOMAIN signers' = 1..(Len(signers) + 1) /\ DOMAIN signers = 1..Len(signers)
            /\ \A j \in 1..Len(signers) : signers'[j] = signers[j]
            /\ signers'[Len(signers) + 1] = s
        <5>1. signers \in Seq(S \cup {s}) /\ s \in S \cup {s}
          BY <1>8
        <5> QED
          BY <1>9, <4>2, <5>1, AppendProperties, LenProperties
      <4>4. Blank(set) \/ config'["app_key"] = set
        <5>1. Kept(Loaded(c, machine.environ), config', Superseded(config'))
          BY <1>6, <1>7, <1>10, <3>2, ConfigSound
        <5>2. "app_key" \in Scalars /\ "app_key" \notin Superseded(config')
          BY ScalarNames DEF Superseded, Replaced
        <5> QED
          BY <1>17, <5>1, <5>2 DEF Kept
      <4>5. CASE i \in 1..Len(signers)
        BY <1>19, <4>3, <4>5
      <4>6. CASE i = Len(signers) + 1
        BY <4>1, <4>3, <4>4, <4>6
      <4> QED
        BY <1>9, <2>1, <4>3, <4>5, <4>6
    <3> QED
      BY <3>1, <3>2
  <2> QED
    BY <1>15, <1>18, <2>1 DEF Signed
<1>23. Prepared'
  <2>1. SUFFICES ASSUME start' = "ready" PROVE Prepared'
    BY DEF Prepared, EnvironWins, Usable
  <2>2. loaded' = f /\ config' = NewFromFile(c, machine.environ, Key(n + 1))
    BY <1>6, <2>1
  <2>3. PICK d : d = NewFromFile(c, machine.environ, Key(n + 1))
    OBVIOUS
  <2>4. /\ Kept(Loaded(c, machine.environ), d, Superseded(d))
        /\ \A o \in {"app_key", "timezone", "site_default", "captcha.captcha_type"} : ~ Blank(d[o])
        /\ \A o \in {"locale", "cache.type", "http.body_limit", "admin_notify.email"} : d[o] # ""
        /\ d["captcha.action_limit"] = "" => d["captcha.always"] = "true"
        /\ d["moderator.pending_default"] # "" => d["admin_notify.noise_mode"] = "true"
        /\ d["captcha.action_timeout"] # "" => d["captcha.action_reset"] # ""
        /\ d["email.mail_subject"] # "" => d["admin_notify.email.mail_subject"] # ""
    BY <1>7, <1>10, <2>3, ConfigSound
  <2>5. Usable'
    BY <2>2, <2>3, <2>4 DEF Usable, Blank
  <2>6. PICK e \in Seq(Variable) : e = machine.environ
    BY <1>7, StartupAssumption
  <2>7. ASSUME NEW p \in DOMAIN Read(e), p[1] \notin Superseded(d), p[1] \in Scalars
        PROVE  Blank(Read(e)[p]) \/ d[p[1]] = Read(e)[p]
    <3>1. Loaded(c, e)[p[1]] = Read(e)[p]
      BY <2>7, LoadedFromEnviron
    <3> QED
      BY <2>4, <2>6, <2>7, <3>1 DEF Kept
  <2>8. EnvironWins'
    <3>1. Read(machine.environ)' = Read(e) /\ Superseded(config)' = Superseded(d)
      BY <1>6, <2>2, <2>3, <2>6 DEF Read, Superseded
    <3>2. config' = d
      BY <2>2, <2>3
    <3> QED
      BY <2>7, <3>1, <3>2 DEF EnvironWins, Blank
  <2> QED
    BY <1>6, <1>14, <2>2, <2>5, <2>8 DEF Prepared
<1> QED
  BY <1>20, <1>21, <1>22, <1>23 DEF StartupInv

(* The invariant holds in every state.                                     *)
LEMMA StartupInvariant == StartupSpec => []StartupInv
<1>1. StartupInv /\ [StartupNext]_startVars => StartupInv'
  <2> SUFFICES ASSUME StartupInv, [StartupNext]_startVars PROVE StartupInv'
    OBVIOUS
  <2>1. CASE Eager
    BY <2>1, EagerKeeps
  <2>2. CASE resolveConfigFileBeforeDataDir
    BY <2>2, ResolveKeeps
  <2>3. CASE initDataDir
    BY <2>3, DataDirKeeps
  <2>4. CASE Execute
    BY <2>4, ExecuteKeeps
  <2>5. CASE getConfig
    BY <2>5, ConfigKeeps
  <2>6. CASE Ends
    BY <2>6, EndsKeeps
  <2>7. CASE UNCHANGED startVars
    <3>1. /\ machine' = machine /\ files' = files /\ start' = start /\ cwd' = cwd
          /\ cfgFile' = cfgFile /\ workDir' = workDir /\ loaded' = loaded /\ config' = config
          /\ drawn' = drawn /\ genKey' = genKey /\ signers' = signers
      BY <2>7 DEF startVars
    <3>2. Signed'
      BY <3>1, SignedStays DEF StartupInv
    <3>3. StartupShape'
      BY <3>1 DEF StartupInv, StartupShape
    <3>4. Stages'
      <4>1. /\ Explicit' = Explicit /\ EndDir' = EndDir /\ Flag' = Flag
            /\ Retrieve("here")' = Retrieve("here")
        BY <3>1, RetrieveSame
      <4>2. Stages
        BY DEF StartupInv
      <4> QED
        BY <3>1, <4>1, <4>2 DEF Stages
    <3>5. Usable' /\ EnvironWins'
      <4>1. Usable /\ EnvironWins
        BY DEF StartupInv, Prepared
      <4>2. Usable'
        BY <3>1, <4>1 DEF Usable
      <4>3. Read(machine.environ)' = Read(machine.environ)
            /\ Superseded(config)' = Superseded(config)
        BY <3>1 DEF Read, Superseded
      <4>4. EnvironWins'
        BY <3>1, <4>1, <4>3 DEF EnvironWins
      <4> QED
        BY <4>2, <4>4
    <3>6. Prepared'
      BY <3>1, <3>5, RetrieveSame DEF StartupInv, Prepared
    <3> QED
      BY <3>2, <3>3, <3>4, <3>6 DEF StartupInv
  <2> QED
    BY <2>1, <2>2, <2>3, <2>4, <2>5, <2>6, <2>7 DEF StartupNext
<1> QED
  BY <1>1, StartupInitInv, PTL DEF StartupSpec

(* Every start reads the file that the directory of the caller offers, the *)
(* environment counts whatever its order and survives the patches, the     *)
(* services can work with what they make, and the key that signs tokens    *)
(* stays (cmd/base.go, env_provider, config/base.go).                      *)
THEOREM StartsSound == StartupSpec => []StartupSound
<1>1. StartupInv => StartupSound
  <2> SUFFICES ASSUME StartupInv PROVE StartupSound
    OBVIOUS
  <2>1. StartupShape /\ Signed /\ EnvironWins /\ Usable
    BY DEF StartupInv, Prepared
  <2>2. PICK S : signers \in Seq(S)
    BY <2>1 DEF StartupShape
  <2>3. Len(signers) \in Nat /\ DOMAIN signers = 1..Len(signers) /\ MaxStarts \in Nat
    BY <2>2, LenProperties, StartupAssumption
  <2>4. StartupTypeOK
    <3>1. PICK l \in Nat : l = Len(signers)
      BY <2>3
    <3>2. PICK m \in Nat : m = MaxStarts
      BY <2>3
    <3>3. drawn \in Nat /\ l <= m /\ (start = "failed" => l < m)
          /\ (drawn <= 2 * l \/ (start = "failed" /\ drawn <= 2 * l + 1))
      BY <2>1, <3>1, <3>2 DEF StartupShape
    <3>4. drawn \in 0..(2 * m)
      BY <3>3
    <3>5. drawn \in 0..(2 * MaxStarts) /\ Len(signers) <= MaxStarts
      BY <3>1, <3>2, <3>3, <3>4
    <3> QED
      BY <2>1, <3>5 DEF StartupTypeOK, StartupShape
  <2>5. FoundHere
    <3>1. SUFFICES ASSUME start = "ready", machine.config = "", Retrieve(CallDir) # NoFile
                   PROVE  loaded = Retrieve(CallDir)
      BY DEF FoundHere, CallDir, Explicit
    <3>2. loaded = Goal
      BY <3>1 DEF StartupInv, Prepared
    <3> QED
      BY <3>1, <3>2 DEF Goal
  <2>6. machine.environ \in Seq(Variable)
    BY <2>1, StartupAssumption DEF StartupShape
  <2>7. OrderFree
    BY <2>6, ReadReversed DEF OrderFree
  <2>8. KeyKept
    <3>1. PICK set : set = Loaded(Content(Generated, genKey), machine.environ)["app_key"]
      OBVIOUS
    <3>2. \A i \in DOMAIN signers :
             signers[i].set = set /\ (Blank(set) \/ signers[i].key = set)
      BY <2>1, <3>1 DEF Signed
    <3>3. \A i, j \in DOMAIN signers :
             signers[i].key # signers[j].key => Blank(signers[i].set) \/ Blank(signers[j].set)
      BY <3>2
    <3>4. ASSUME genKey # "", \A v \in ToSet(machine.environ) : v.option # "app_key"
          PROVE  \A i \in DOMAIN signers : signers[i].key = genKey
      <4>1. \A i \in DOMAIN machine.environ : machine.environ[i].option # "app_key"
        BY <3>4 DEF ToSet
      <4>2. "app_key" \in Scalars
        BY ScalarNames
      <4>3. set = IF "app_key" \in DOMAIN Content(Generated, genKey)
                  THEN Content(Generated, genKey)["app_key"] ELSE ""
        BY <2>6, <3>1, <4>1, <4>2, LoadedFromFile
      <4>4. /\ "app_key" \in DOMAIN Content(Generated, genKey)
            /\ Content(Generated, genKey)["app_key"] = genKey
        BY <3>4 DEF Content
      <4>5. ~ Blank(genKey)
        BY <2>1, <3>4 DEF StartupShape
      <4> QED
        BY <3>2, <4>3, <4>4, <4>5
    <3> QED
      BY <3>3, <3>4 DEF KeyKept
  <2> QED
    BY <2>1, <2>4, <2>5, <2>7, <2>8 DEF StartupSound
<1> QED
  BY <1>1, StartupInvariant, PTL

=============================================================================
