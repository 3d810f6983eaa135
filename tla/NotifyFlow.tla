----------------------------- MODULE NotifyFlow -----------------------------
(***************************************************************************)
(* From a new comment to the mails about it: the job that runs after       *)
(* CommentCreate (anti-spam check, then NotifyPusher.Push), moderators who *)
(* change the pending status, the worker of the email queue, and the       *)
(* recipients who mark notifications as read.  All of them write the row   *)
(* (user, comment) of table notifies, most of them from a copy.            *)
(*                                                                         *)
(* One SQL statement, one find-or-create or one queue operation is a step. *)
(***************************************************************************)
EXTENDS Integers, Sequences, FiniteSets

CONSTANTS
    Users,     \* users
    Nobody,    \* the parent author of a root comment
    Admins,    \* GetAllAdmins: the administrators in the order of the table
    Addrs,     \* the email addresses the users may have
    Confs,     \* the situations to consider
    Mods,      \* concurrent requests of moderators
    MaxEdits,  \* bound on the moderators' requests
    Capacity   \* email.queue.buffer_size

AdminSet == {Admins[i] : i \in DOMAIN Admins}

(* The comment and its parent, who wants mails, the settings; and what     *)
(* happens: how often moderators act, whether statements fail, and whether *)
(* recipients read their notifications.                                    *)
Conf == [author : Users, parent : Users \cup {Nobody}, willing : SUBSET Users,
         addr : Addrs, noise : BOOLEAN, notifyPending : BOOLEAN, adminEmail : BOOLEAN,
         pendingDefault : BOOLEAN, email : BOOLEAN,
         edits : 0..MaxEdits, fails : BOOLEAN, reads : BOOLEAN]

ASSUME NotifyAssumption ==
    /\ Nobody \notin Users /\ Admins \in Seq(Users)
    /\ \A i, j \in DOMAIN Admins : Admins[i] = Admins[j] => i = j
    /\ Addrs \subseteq [Users -> Users] /\ Confs \subseteq Conf
    /\ MaxEdits \in Nat /\ Capacity \in Nat
    /\ "job" \notin Mods

Agents == {"job"} \cup Mods

VARIABLES
    conf,      \* the situation
    pending,   \* column is_pending of the comment
    row,       \* table notifies, one row per user
    agent,     \* the job and the moderators' requests
    edits,     \* requests made by moderators
    queue,     \* EmailQueue.ch
    worker,    \* the queue's worker
    reader,    \* NotifyRead requests
    mails,     \* history: mails queued per user
    sent,      \* history: mails sent per user
    blocked,   \* history: the anti-spam check has blocked the comment
    approved   \* history: a moderator has saved the comment as not pending

vars == <<conf, pending, row, agent, edits, queue, worker, reader,
          mails, sent, blocked, approved>>

Row == [there : BOOLEAN, read : BOOLEAN, emailed : BOOLEAN]
Absent == [there |-> FALSE, read |-> FALSE, emailed |-> FALSE]
NewNotify == [there |-> TRUE, read |-> FALSE, emailed |-> FALSE]

(* nth says whom a mail is for: the administrator of that number, or the   *)
(* parent's author, 0.  pend is the pending flag of the agent's copy of    *)
(* the comment, seen the one that the anti-spam callbacks have read anew.  *)
Agent == [pc : {"new", "check", "block", "mask", "push", "find", "initial", "mail",
                "admins", "multi", "save", "idle", "done"},
          nth : 0..Len(Admins), pend : BOOLEAN, seen : BOOLEAN]

MaxMails == 2 + MaxEdits

TypeOK ==
    /\ conf \in Conf
    /\ pending \in BOOLEAN /\ blocked \in BOOLEAN /\ approved \in BOOLEAN
    /\ row \in [Users -> Row]
    /\ agent \in [Agents -> Agent]
    /\ edits \in 0..MaxEdits
    /\ queue \in Seq(Users) /\ Len(queue) <= Capacity + 1
    /\ worker \in [pc : {"idle", "send", "mark"}, user : Users]
    /\ reader \in [Users -> Row]
    /\ mails \in [Users -> 0..MaxMails] /\ sent \in [Users -> 0..MaxMails]

AnyUser == CHOOSE u \in Users : TRUE

Init ==
    /\ conf \in Confs
    /\ pending = FALSE /\ blocked = FALSE /\ approved = FALSE
    /\ row = [u \in Users |-> Absent]
    /\ agent = [a \in Agents |-> [pc |-> IF a = "job" THEN "new" ELSE "idle",
                                  nth |-> 0, pend |-> FALSE, seen |-> FALSE]]
    /\ edits = 0
    /\ queue = <<>>
    /\ worker = [pc |-> "idle", user |-> AnyUser]
    /\ reader = [u \in Users |-> Absent]
    /\ mails = [u \in Users |-> 0] /\ sent = [u \in Users |-> 0]

AuthorIsAdmin == conf.author \in AdminSet
ParentIsAdmin == conf.parent \in AdminSet
IsRoot == conf.parent = Nobody

Goto(a, pc) == agent' = [agent EXCEPT ![a].pc = pc]

-----------------------------------------------------------------------------
(* The job.                                                                *)

(* CommentCreate: the default pending status; the job gets a copy.         *)
Create ==
    LET held == ~ AuthorIsAdmin /\ conf.pendingDefault IN
    /\ agent["job"].pc = "new"
    /\ pending' = held
    /\ agent' = [agent EXCEPT !["job"].pend = held,
                              !["job"].pc = IF AuthorIsAdmin THEN "push" ELSE "check"]
    /\ UNCHANGED <<conf, row, edits, queue, worker, reader, mails, sent, blocked, approved>>

(* CheckAndBlock: some checker blocks the comment (or fails and counts as  *)
(* blocking), the keyword checker masks words, or all pass.  OnBlockComment*)
(* and OnUpdateComment find the comment anew; the job's copy stays.        *)
Check(r) ==
    /\ agent["job"].pc = "check"
    /\ agent' = [agent EXCEPT
         !["job"].pc = IF r = "pass" \/ (r = "block" /\ pending) THEN "push" ELSE r,
         !["job"].seen = pending]
    /\ blocked' = (blocked \/ r = "block")
    /\ UNCHANGED <<conf, pending, row, edits, queue, worker, reader, mails, sent, approved>>

Block ==
    /\ agent["job"].pc = "block"
    /\ pending' = TRUE
    /\ Goto("job", "push")
    /\ UNCHANGED <<conf, row, edits, queue, worker, reader, mails, sent, blocked, approved>>

Mask ==
    /\ agent["job"].pc = "mask"
    /\ pending' = agent["job"].seen
    /\ Goto("job", "push")
    /\ UNCHANGED <<conf, row, edits, queue, worker, reader, mails, sent, blocked, approved>>

(* checkNeedSendEmailToUser and checkNeedSendEmailToAdmin.                 *)
NeedUser(held) ==
    /\ ~ IsRoot
    /\ conf.author # conf.parent
    /\ ~ held
    /\ conf.parent \in conf.willing
    /\ ParentIsAdmin => conf.adminEmail

NeedAdmin_ParentToo(a, held) ==
    /\ conf.adminEmail
    /\ held => conf.notifyPending
    /\ conf.author # a
    /\ ~ AuthorIsAdmin
    /\ a \in conf.willing
NeedAdmin(a, held) ==
    /\ conf.adminEmail
    /\ held => conf.notifyPending
    /\ conf.author # a
    /\ conf.parent # a
    /\ ~ AuthorIsAdmin
    /\ a \in conf.willing

(* toAddrSent: of the administrators with one address only the first.      *)
FirstOfAddr(a) ==
    \E i \in DOMAIN Admins :
       Admins[i] = a /\ \A j \in 1..(i - 1) : conf.addr[Admins[j]] # conf.addr[a]

(* NotifyPusher.Push decides by the job's copy: first the parent's author, *)
Push ==
    /\ agent["job"].pc = "push"
    /\ Goto("job", IF NeedUser(agent["job"].pend) THEN "find" ELSE "admins")
    /\ UNCHANGED <<conf, pending, row, edits, queue, worker, reader, mails, sent,
                   blocked, approved>>

(* ... then, of a root comment or in noise mode, one administrator after   *)
(* the other.                                                              *)
ToAdmins == IsRoot \/ conf.noise
Chosen(a, held) == FirstOfAddr(a) /\ NeedAdmin(a, held)
NextAdmin ==
    LET i == agent["job"].nth + 1 IN
    /\ agent["job"].pc = "admins"
    /\ IF ToAdmins /\ i <= Len(Admins)
       THEN agent' = [agent EXCEPT !["job"].nth = i,
              !["job"].pc = IF Chosen(Admins[i], agent["job"].pend) THEN "find" ELSE "admins"]
       ELSE Goto("job", "multi")
    /\ UNCHANGED <<conf, pending, row, edits, queue, worker, reader, mails, sent,
                   blocked, approved>>

(* multiPush uses a notify row of the first administrator.                 *)
NeedMulti(held) ==
    /\ ~ AuthorIsAdmin
    /\ held => conf.notifyPending
    /\ conf.noise \/ IsRoot \/ ParentIsAdmin

FindOrNew(u) == IF row[u].there THEN row[u] ELSE NewNotify

MultiPush ==
    /\ agent["job"].pc = "multi"
    /\ row' = IF NeedMulti(agent["job"].pend) /\ Admins # <<>>
              THEN [row EXCEPT ![Head(Admins)] = FindOrNew(Head(Admins))] ELSE row
    /\ Goto("job", "done")
    /\ UNCHANGED <<conf, pending, edits, queue, worker, reader, mails, sent, blocked, approved>>

-----------------------------------------------------------------------------
(* One recipient: FindCreateNotify, NotifySetInitial, AsyncSend; by the    *)
(* job, or by a moderator who stops when the row says emailed.             *)
Recipient(a) == IF agent[a].nth = 0 THEN conf.parent ELSE Admins[agent[a].nth]

FindCreateNotify(a) ==
    /\ agent[a].pc = "find"
    /\ row' = [row EXCEPT ![Recipient(a)] = FindOrNew(Recipient(a))]
    /\ Goto(a, IF a \in Mods /\ FindOrNew(Recipient(a)).emailed THEN "save" ELSE "initial")
    /\ UNCHANGED <<conf, pending, edits, queue, worker, reader, mails, sent, blocked, approved>>

NotifySetInitial(a) ==
    /\ agent[a].pc = "initial"
    /\ row' = [row EXCEPT ![Recipient(a)] =
                 [there |-> TRUE, read |-> FALSE, emailed |-> FALSE]]
    /\ Goto(a, "mail")
    /\ UNCHANGED <<conf, pending, edits, queue, worker, reader, mails, sent, blocked, approved>>

(* The job ignores the error, a moderator's request skips the mail.        *)
NotifySetInitialFails(a) ==
    /\ conf.fails /\ agent[a].pc = "initial"
    /\ Goto(a, IF a = "job" THEN "mail" ELSE "save")
    /\ UNCHANGED <<conf, pending, row, edits, queue, worker, reader, mails, sent,
                   blocked, approved>>

(* The job goes on with the next administrator, a moderator's request with *)
(* the save.                                                               *)
AfterMail(a) == IF a = "job" THEN "admins" ELSE "save"

(* A channel accepts a value if its buffer has room or its receiver waits. *)
HasRoom == Len(queue) < Capacity \/ (queue = <<>> /\ worker.pc = "idle")

AsyncSend_Dropped(a) ==
    /\ agent[a].pc = "mail"
    /\ IF conf.email /\ a = "job"
       THEN /\ HasRoom
            /\ queue' = Append(queue, Recipient(a))
            /\ mails' = [mails EXCEPT ![Recipient(a)] = @ + 1]
       ELSE UNCHANGED <<queue, mails>>
    /\ Goto(a, AfterMail(a))
    /\ UNCHANGED <<conf, pending, row, edits, worker, reader, sent, blocked, approved>>
AsyncSend_Unbounded(a) ==
    /\ agent[a].pc = "mail"
    /\ IF conf.email
       THEN /\ queue' = Append(queue, Recipient(a))
            /\ mails' = [mails EXCEPT ![Recipient(a)] = @ + 1]
       ELSE UNCHANGED <<queue, mails>>
    /\ Goto(a, AfterMail(a))
    /\ UNCHANGED <<conf, pending, row, edits, worker, reader, sent, blocked, approved>>
AsyncSend(a) ==
    /\ agent[a].pc = "mail"
    /\ IF conf.email
       THEN /\ HasRoom
            /\ queue' = Append(queue, Recipient(a))
            /\ mails' = [mails EXCEPT ![Recipient(a)] = @ + 1]
       ELSE UNCHANGED <<queue, mails>>
    /\ Goto(a, AfterMail(a))
    /\ UNCHANGED <<conf, pending, row, edits, worker, reader, sent, blocked, approved>>

-----------------------------------------------------------------------------
(* CommentUpdate by a moderator: renotifyWhenPendingModified comes before  *)
(* the save.                                                               *)
Renotify == ~ IsRoot /\ ~ ParentIsAdmin /\ conf.author # conf.parent

UpdateStart(m, p) ==
    /\ agent[m].pc = "idle" /\ edits < conf.edits
    /\ agent["job"].pc # "new"
    /\ edits' = edits + 1
    /\ agent' = [agent EXCEPT ![m].pend = p,
         ![m].pc = IF pending /\ ~ p /\ Renotify THEN "find" ELSE "save"]
    /\ UNCHANGED <<conf, pending, row, queue, worker, reader, mails, sent, blocked, approved>>

UpdateSave(m) ==
    /\ agent[m].pc = "save"
    /\ pending' = agent[m].pend
    /\ approved' = (approved \/ ~ agent[m].pend)
    /\ Goto(m, "idle")
    /\ UNCHANGED <<conf, row, edits, queue, worker, reader, mails, sent, blocked>>

UpdateSaveFails(m) ==
    /\ conf.fails /\ agent[m].pc = "save"
    /\ Goto(m, "idle")
    /\ UNCHANGED <<conf, pending, row, edits, queue, worker, reader, mails, sent,
                   blocked, approved>>

-----------------------------------------------------------------------------
(* The worker of the queue: handleEmail, then OnSendSuccess saves the copy *)
(* that the mail carries, which NotifySetInitial had set to unread.        *)
Take ==
    /\ worker.pc = "idle" /\ queue # <<>>
    /\ worker' = [pc |-> "send", user |-> Head(queue)]
    /\ queue' = Tail(queue)
    /\ UNCHANGED <<conf, pending, row, agent, edits, reader, mails, sent, blocked, approved>>

Send_AlwaysMark(ok) ==
    /\ worker.pc = "send"
    /\ worker' = [worker EXCEPT !.pc = "mark"]
    /\ sent' = IF ok THEN [sent EXCEPT ![worker.user] = @ + 1] ELSE sent
    /\ UNCHANGED <<conf, pending, row, agent, edits, queue, reader, mails, blocked, approved>>
Send_Requeue(ok) ==
    /\ worker.pc = "send"
    /\ worker' = [worker EXCEPT !.pc = IF ok THEN "mark" ELSE "idle"]
    /\ sent' = IF ok THEN [sent EXCEPT ![worker.user] = @ + 1] ELSE sent
    /\ queue' = IF ok \/ ~ HasRoom THEN queue ELSE Append(queue, worker.user)
    /\ UNCHANGED <<conf, pending, row, agent, edits, reader, mails, blocked, approved>>
Send(ok) ==
    /\ worker.pc = "send"
    /\ worker' = [worker EXCEPT !.pc = IF ok THEN "mark" ELSE "idle"]
    /\ sent' = IF ok THEN [sent EXCEPT ![worker.user] = @ + 1] ELSE sent
    /\ UNCHANGED <<conf, pending, row, agent, edits, queue, reader, mails, blocked, approved>>

NotifySetEmailed ==
    /\ worker.pc = "mark"
    /\ row' = [row EXCEPT ![worker.user] = [there |-> TRUE, read |-> FALSE, emailed |-> TRUE]]
    /\ worker' = [worker EXCEPT !.pc = "idle"]
    /\ UNCHANGED <<conf, pending, agent, edits, queue, reader, mails, sent, blocked, approved>>

(* NotifyRead finds the row and saves its copy; NotifyReadAll is one       *)
(* statement.                                                              *)
ReadFind(u) ==
    /\ conf.reads /\ ~ reader[u].there
    /\ row[u].there /\ ~ row[u].read
    /\ reader' = [reader EXCEPT ![u] = row[u]]
    /\ UNCHANGED <<conf, pending, row, agent, edits, queue, worker, mails, sent,
                   blocked, approved>>

NotifySetRead(u) ==
    /\ reader[u].there
    /\ row' = [row EXCEPT ![u] = [reader[u] EXCEPT !.read = TRUE]]
    /\ reader' = [reader EXCEPT ![u] = Absent]
    /\ UNCHANGED <<conf, pending, agent, edits, queue, worker, mails, sent, blocked, approved>>

NotifyReadAll(u) ==
    /\ conf.reads /\ row[u].there /\ ~ row[u].read
    /\ row' = [row EXCEPT ![u].read = TRUE]
    /\ UNCHANGED <<conf, pending, agent, edits, queue, worker, reader, mails, sent,
                   blocked, approved>>

-----------------------------------------------------------------------------
AgentStep(a) ==
    FindCreateNotify(a) \/ NotifySetInitial(a) \/ NotifySetInitialFails(a) \/ AsyncSend(a)
JobStep ==
    \/ Create \/ (\E r \in {"pass", "block", "mask"} : Check(r)) \/ Block \/ Mask
    \/ Push \/ NextAdmin \/ AgentStep("job") \/ MultiPush
ModStep(m) == UpdateSave(m) \/ UpdateSaveFails(m) \/ AgentStep(m)
WorkerStep == Take \/ (\E ok \in BOOLEAN : Send(ok)) \/ NotifySetEmailed

Next ==
    \/ JobStep
    \/ \E m \in Mods : ModStep(m) \/ \E p \in BOOLEAN : UpdateStart(m, p)
    \/ WorkerStep
    \/ \E u \in Users : ReadFind(u) \/ NotifySetRead(u) \/ NotifyReadAll(u)

(* Goroutines that can run do run: the job, the requests and the worker.   *)
Fairness == WF_vars(JobStep) /\ (\A m \in Mods : WF_vars(ModStep(m))) /\ WF_vars(WorkerStep)

Spec == Init /\ [][Next]_vars /\ Fairness

-----------------------------------------------------------------------------
(* Properties.                                                             *)

Held == agent["job"].pend

(* The row of a user says emailed only when a mail was really sent, also   *)
(* when copies of the row are saved late by readers and moderators.        *)
EmailedMeansSent == \A u \in Users : row[u].emailed => sent[u] > 0

(* One push never mails a user twice, in noise mode either, where the      *)
(* parent's author may be one of the administrators.                       *)
OneMailPerPush == edits = 0 => \A u \in Users : mails[u] <= 1

(* One push never mails two administrators at one address.                 *)
OneMailPerAdminAddress ==
    LET mailed == {u \in AdminSet : mails[u] > 0 /\ u # conf.parent}
    IN Cardinality(mailed) = Cardinality({conf.addr[u] : u \in mailed})

(* Who has turned mails off gets none from a push (renotification does not *)
(* look at the recipient's choice).                                        *)
WillingOnly == edits = 0 => \A u \in Users : mails[u] > 0 => u \in conf.willing

(* When the job is done, every administrator who is to be mailed has got a *)
(* mail, if no two of them share an address.                               *)
AdminsMailed ==
    agent["job"].pc = "done" /\ conf.email /\ ToAdmins
        /\ (\A a, b \in AdminSet : conf.addr[a] = conf.addr[b] => a = b) =>
      \A a \in AdminSet : NeedAdmin(a, Held) => mails[a] > 0

(* A comment is mailed to whom it concerns: not twice, not against their   *)
(* will, not twice to one address, and to all administrators who want it;  *)
(* and its row says emailed only when it was.                              *)
Recipients ==
    /\ TypeOK /\ EmailedMeansSent
    /\ OneMailPerPush /\ OneMailPerAdminAddress /\ WillingOnly /\ AdminsMailed

(* A held reply that a moderator has approved reaches the author of the    *)
(* parent: a mail is queued, unless mail is off or a statement fails.      *)
(* renotifyWhenPendingModified must not be skipped by a row that only      *)
(* looks emailed.                                                          *)
ApprovedIsMailed ==
    (Held /\ approved /\ Renotify /\ conf.email /\ ~ conf.fails)
      ~> (IsRoot \/ mails[conf.parent] > 0)

(* Every queued mail is handled, once: the worker finishes whatever the    *)
(* senders do and does not try a failed mail for ever.                     *)
QueueDrains ==
    (queue # <<>> \/ worker.pc # "idle") ~> (queue = <<>> /\ worker.pc = "idle")

(* The mails that are due are queued, and the mails that are queued sent.  *)
MailsGoOut == ApprovedIsMailed /\ QueueDrains

(* comment_create.go: "if comment is blocked, the message will not be      *)
(* sent" (no moderator in this instance).                                  *)
BlockedNotMailed == blocked /\ ~ IsRoot => mails[conf.parent] = 0
=============================================================================
