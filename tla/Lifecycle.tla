----------------------------- MODULE Lifecycle -----------------------------
(***************************************************************************)
(* The running application (internal/core/base.go): Bootstrap builds the   *)
(* database handle, the cache and the services, ResetBootstrapState takes  *)
(* them down, PUT /settings (setting_apply.go) saves a configuration file  *)
(* and does both, and the end of the process does the second (cmd/base.go).*)
(* Meanwhile notification jobs and the e-mail workers (service_email.go,   *)
(* email/queue.go) go on, through pointers that a restart replaces.  Only  *)
(* Bootstrap holds the mutex.  No handler and no job recovers from a       *)
(* panic, so a nil pointer or a send on a closed channel ends the process. *)
(*                                                                         *)
(* Database handles, caches and queues are numbered in order of creation;  *)
(* the application holds the number of each that it uses, 0 for nil.       *)
(***************************************************************************)
EXTENDS Integers, Sequences, FiniteSets

CONSTANTS
    Yamls,       \* contents of the configuration file
    Empty,       \* the truncated file: all defaults
    Invalid,     \* contents that do not parse
    OtherZone,   \* contents with another time zone than the process has
    NoDatabase,  \* contents whose database cannot be opened
    Cached,      \* contents that enable the cache
    First,       \* what the process was started with
    Admins,      \* concurrent PUT /settings requests
    Main,        \* the process's main goroutine
    Jobs,        \* concurrent notification jobs
    Capacity,    \* email.queue.buffer_size
    MaxApplies,  \* bound: settings requests made
    MaxMails     \* bound: mails pushed

ASSUME ConfAssumption ==
    /\ Empty \in Yamls /\ First \in Yamls
    /\ Invalid \cup OtherZone \cup NoDatabase \cup Cached \subseteq Yamls
    /\ {Empty, First} \cap (Invalid \cup OtherZone \cup NoDatabase) = {}
ASSUME BoundAssumption == Capacity \in Nat /\ MaxApplies \in Nat /\ MaxMails \in Nat
ASSUME NamesAssumption ==
    /\ Main \notin Admins
    /\ Jobs \cap (Admins \cup {Main}) = {}
    /\ {"running", "exited", "worker", "free"} \cap (Admins \cup {Main} \cup Jobs) = {}

Actors == Admins \cup {Main}
Services == {"email", "notify"}

VARIABLES
    file,     \* the configuration file
    conf,     \* app.conf
    lock,     \* core's mutex: who holds it, or "free"
    dao,      \* app.dao
    cache,    \* app.cache
    pusher,   \* NotifyService.pusher: the handle it captured
    queue,    \* EmailService.queue
    dbs,      \* every handle: is it open, and its cache (0: none, -1: nil)
    caches,   \* every cache: is it open
    queues,   \* every queue
    actor,    \* state of the settings requests and of the main goroutine
    job,      \* state of the notification jobs
    up,       \* "running", "exited", or who panicked
    applies,  \* settings requests made so far
    mails,    \* mails handed to a channel so far
    handled,  \* mails the workers are done with
    overlap,  \* history: two actors were active at the same time
    refused,  \* history: a request saved a file and did not apply it
    failed    \* history: a restart returned an error

app == <<conf, lock, dao, cache, pusher, queue>>
objects == <<dbs, caches, queues>>
counts == <<applies, mails, handled>>
histories == <<overlap, refused, failed>>
vars == <<file, app, objects, actor, job, up, counts, histories>>

Pcs == {"idle", "write", "load", "setConf", "dbNil", "dbClose", "cacheNil", "cacheClose",
        "daoNil", "cacheDrop", "dispose", "mux", "closeCh", "closeFlag", "lock",
        "zone", "open", "cache", "adaptor", "sync", "init", "exit"}

TypeOK ==
    /\ file \in Yamls /\ conf \in Yamls
    /\ lock \in Actors \cup {"free"}
    /\ dao \in 0..Len(dbs) /\ cache \in 0..Len(caches)
    /\ pusher \in 0..Len(dbs) /\ queue \in 0..Len(queues)
    /\ dbs \in Seq([open : BOOLEAN, cache : -1..Len(caches)])
    /\ caches \in Seq(BOOLEAN)
    /\ queues \in Seq([ch : Seq(1..MaxMails), open : BOOLEAN, closed : BOOLEAN,
                       mux : Actors \cup {"free"}, work : 0..MaxMails,
                       sent : BOOLEAN, conf : Yamls])
    /\ actor \in [Actors -> [pc : Pcs, yaml : Yamls, todo : SUBSET Services, q : 0..Len(queues)]]
    /\ job \in [Jobs -> [pc : {"idle", "push", "fetch", "check", "send"}, q : 0..Len(queues),
                         steady : BOOLEAN]]
    /\ up \in {"running", "exited", "worker"} \cup Actors \cup Jobs
    /\ applies \in 0..MaxApplies /\ mails \in 0..MaxMails /\ handled \subseteq 1..MaxMails
    /\ overlap \in BOOLEAN /\ refused \in BOOLEAN /\ failed \in BOOLEAN

NewQueue(c) == [ch |-> <<>>, open |-> TRUE, closed |-> FALSE, mux |-> "free",
                work |-> 0, sent |-> FALSE, conf |-> c]
IdleActor == [pc |-> "idle", yaml |-> First, todo |-> {}, q |-> 0]
IdleJob == [pc |-> "idle", q |-> 0, steady |-> FALSE]

(* The state after the first Bootstrap.                                    *)
Init ==
    /\ file = First /\ conf = First /\ lock = "free"
    /\ dbs = <<[open |-> TRUE, cache |-> IF First \in Cached THEN 1 ELSE 0]>>
    /\ caches = IF First \in Cached THEN <<TRUE>> ELSE <<>>
    /\ queues = <<NewQueue(First)>>
    /\ dao = 1 /\ cache = Len(caches) /\ pusher = 1 /\ queue = 1
    /\ actor = [a \in Actors |-> IdleActor] /\ job = [j \in Jobs |-> IdleJob]
    /\ up = "running" /\ applies = 0 /\ mails = 0 /\ handled = {}
    /\ overlap = FALSE /\ refused = FALSE /\ failed = FALSE

Goto(a, pc) == actor' = [actor EXCEPT ![a].pc = pc]
Return(a) == actor' = [actor EXCEPT ![a] = IdleActor]
Panic(p) ==
    /\ up' = p
    /\ UNCHANGED <<file, app, objects, actor, job, counts, histories>>

(* A handle can be queried: not nil, and not through a cache that is nil   *)
(* or was closed (its marshaler is nil then).  A closed database only      *)
(* makes the query fail.                                                   *)
Usable(d) ==
    /\ d # 0
    /\ dbs[d].cache = 0 \/ (dbs[d].cache > 0 /\ caches[dbs[d].cache])

Quiet == \A a \in Actors : actor[a].pc = "idle"

(* A job is steady if it began while nothing was being taken down; the     *)
(* start of a request or of the end of the process revokes that.           *)
Begins(a) ==
    /\ overlap' = (overlap \/ \E b \in Actors \ {a} : actor[b].pc # "idle")
    /\ job' = [j \in Jobs |-> [job[j] EXCEPT !.steady = FALSE]]

-----------------------------------------------------------------------------
(* PUT /settings.  AdminGuard looks the user up first.                     *)
Apply(a, y) ==
    /\ actor[a].pc = "idle" /\ applies < MaxApplies
    /\ actor[Main].pc # "exit"
    /\ \/ Usable(dao)
          /\ file' = Empty
          /\ actor' = [actor EXCEPT ![a] = [IdleActor EXCEPT !.pc = "write", !.yaml = y]]
          /\ applies' = applies + 1
          /\ Begins(a)
          /\ UNCHANGED <<app, objects, up, mails, handled, refused, failed>>
       \/ ~ Usable(dao) /\ Panic(a)

Write(a) ==
    /\ actor[a].pc = "write"
    /\ \/ file' = actor[a].yaml /\ Goto(a, "load") /\ UNCHANGED refused
       \/ Return(a) /\ refused' = TRUE /\ UNCHANGED file
    /\ UNCHANGED <<app, objects, job, up, counts, overlap, failed>>

(* config.NewFromFile reads what the file holds by now.                    *)
Load(a) ==
    /\ actor[a].pc = "load"
    /\ IF file \in Invalid
       THEN Return(a) /\ refused' = TRUE
       ELSE actor' = [actor EXCEPT ![a].pc = "setConf", ![a].yaml = file] /\ UNCHANGED refused
    /\ UNCHANGED <<file, app, objects, job, up, counts, overlap, failed>>

SetConf(a) ==
    /\ actor[a].pc = "setConf"
    /\ conf' = actor[a].yaml
    /\ Goto(a, "dbNil")
    /\ UNCHANGED <<file, lock, dao, cache, pusher, queue, objects, job, up, counts, histories>>

(* The end of the process: OnTerminate, whose first handler resets.        *)
Terminate ==
    /\ actor[Main].pc = "idle"
    /\ Goto(Main, "dbNil")
    /\ Begins(Main)
    /\ UNCHANGED <<file, app, objects, up, counts, refused, failed>>

-----------------------------------------------------------------------------
(* ResetBootstrapState.  app.Dao() and app.Cache() are read for the nil    *)
(* test and read again for the call.                                       *)
DbNil(a) ==
    /\ actor[a].pc = "dbNil"
    /\ Goto(a, IF dao = 0 THEN "cacheNil" ELSE "dbClose")
    /\ UNCHANGED <<file, app, objects, job, up, counts, histories>>

DbClose_LeftOpen(a) ==
    /\ actor[a].pc = "dbClose"
    /\ Goto(a, "cacheNil")
    /\ UNCHANGED <<file, app, objects, job, up, counts, histories>>
DbClose(a) ==
    /\ actor[a].pc = "dbClose"
    /\ \/ dao = 0 /\ Panic(a)
       \/ /\ dao # 0
          /\ dbs' = [dbs EXCEPT ![dao].open = FALSE]
          /\ Goto(a, "cacheNil")
          /\ UNCHANGED <<file, app, caches, queues, job, up, counts, histories>>
       \/ /\ dao # 0
          /\ failed' = TRUE
          /\ IF a = Main THEN Goto(a, "exit") ELSE Return(a)
          /\ UNCHANGED <<file, app, objects, job, up, counts, overlap, refused>>

CacheNil(a) ==
    /\ actor[a].pc = "cacheNil"
    /\ Goto(a, IF cache = 0 THEN "daoNil" ELSE "cacheClose")
    /\ UNCHANGED <<file, app, objects, job, up, counts, histories>>

CacheClose(a) ==
    /\ actor[a].pc = "cacheClose"
    /\ \/ cache = 0 /\ Panic(a)
       \/ /\ cache # 0
          /\ caches' = [caches EXCEPT ![cache] = FALSE]
          /\ Goto(a, "daoNil")
          /\ UNCHANGED <<file, app, dbs, queues, job, up, counts, histories>>

DaoNil(a) ==
    /\ actor[a].pc = "daoNil"
    /\ dao' = 0
    /\ Goto(a, "cacheDrop")
    /\ UNCHANGED <<file, conf, lock, cache, pusher, queue, objects, job, up, counts, histories>>

CacheDrop(a) ==
    /\ actor[a].pc = "cacheDrop"
    /\ cache' = 0
    /\ actor' = [actor EXCEPT ![a].pc = "dispose", ![a].todo = Services]
    /\ UNCHANGED <<file, conf, lock, dao, pusher, queue, objects, job, up, counts, histories>>

(* The services in the order of the map: any order.  The e-mail service    *)
(* closes its queue under the queue's mutex: the channel, then the flag.   *)
DisposeNotify(a) ==
    /\ actor[a].pc = "dispose" /\ "notify" \in actor[a].todo
    /\ pusher' = 0
    /\ actor' = [actor EXCEPT ![a].todo = @ \ {"notify"}]
    /\ UNCHANGED <<file, conf, lock, dao, cache, queue, objects, job, up, counts, histories>>

DisposeEmail(a) ==
    /\ actor[a].pc = "dispose" /\ "email" \in actor[a].todo
    /\ actor' = [actor EXCEPT ![a].todo = @ \ {"email"}, ![a].pc = "mux", ![a].q = queue]
    /\ UNCHANGED <<file, app, objects, job, up, counts, histories>>

CloseMux(a) ==
    LET q == actor[a].q IN
    /\ actor[a].pc = "mux" /\ queues[q].mux = "free"
    /\ IF queues[q].closed THEN Goto(a, "dispose") /\ UNCHANGED queues
       ELSE queues' = [queues EXCEPT ![q].mux = a] /\ Goto(a, "closeCh")
    /\ UNCHANGED <<file, app, dbs, caches, job, up, counts, histories>>

CloseCh(a) ==
    /\ actor[a].pc = "closeCh"
    /\ queues' = [queues EXCEPT ![actor[a].q].open = FALSE]
    /\ Goto(a, "closeFlag")
    /\ UNCHANGED <<file, app, dbs, caches, job, up, counts, histories>>

CloseFlag(a) ==
    /\ actor[a].pc = "closeFlag"
    /\ queues' = [queues EXCEPT ![actor[a].q].closed = TRUE, ![actor[a].q].mux = "free"]
    /\ Goto(a, "dispose")
    /\ UNCHANGED <<file, app, dbs, caches, job, up, counts, histories>>

(* All disposed: a request re-bootstraps, the main goroutine shuts down.   *)
Disposed(a) ==
    /\ actor[a].pc = "dispose" /\ actor[a].todo = {}
    /\ Goto(a, IF a = Main THEN "exit" ELSE "lock")
    /\ UNCHANGED <<file, app, objects, job, up, counts, histories>>

(* fb.Shutdown waits for the requests that are being served, not for jobs  *)
(* and not for the e-mail workers.                                         *)
Exit ==
    /\ actor[Main].pc = "exit"
    /\ \A a \in Admins : actor[a].pc = "idle"
    /\ up' = "exited"
    /\ UNCHANGED <<file, app, objects, actor, job, counts, histories>>

-----------------------------------------------------------------------------
(* Bootstrap, under the mutex.                                             *)
Lock(a) ==
    /\ actor[a].pc = "lock" /\ lock = "free"
    /\ lock' = a
    /\ Goto(a, "zone")
    /\ UNCHANGED <<file, conf, dao, cache, pusher, queue, objects, job, up, counts, histories>>

(* Every return unlocks.                                                   *)
BootFails_KeepsLock(a) ==
    /\ failed' = TRUE
    /\ Return(a)
    /\ UNCHANGED <<file, app, objects, job, up, counts, overlap, refused>>
BootFails(a) ==
    /\ failed' = TRUE /\ lock' = "free"
    /\ Return(a)
    /\ UNCHANGED <<file, conf, dao, cache, pusher, queue, objects, job, up, counts>>
    /\ UNCHANGED <<overlap, refused>>

(* time.Local is set once per process.                                     *)
Zone(a) ==
    /\ actor[a].pc = "zone"
    /\ \/ conf \in OtherZone /\ BootFails(a)
       \/ /\ conf \notin OtherZone
          /\ Goto(a, "open")
          /\ UNCHANGED <<file, app, objects, job, up, counts, histories>>

Open(a) ==
    /\ actor[a].pc = "open"
    /\ \/ dao = 0 /\ conf \in NoDatabase /\ BootFails(a)
       \/ /\ IF dao # 0 THEN UNCHANGED <<dbs, dao>>
             ELSE /\ conf \notin NoDatabase
                  /\ dbs' = Append(dbs, [open |-> TRUE, cache |-> 0])
                  /\ dao' = Len(dbs) + 1
          /\ Goto(a, "cache")
          /\ UNCHANGED <<file, conf, lock, cache, pusher, queue, caches, queues, job, up,
                         counts, histories>>

NewCache(a) ==
    /\ actor[a].pc = "cache"
    /\ IF conf \in Cached
       THEN caches' = Append(caches, TRUE) /\ cache' = Len(caches) + 1 /\ Goto(a, "adaptor")
       ELSE Goto(a, "sync") /\ UNCHANGED <<caches, cache>>
    /\ UNCHANGED <<file, conf, lock, dao, pusher, queue, dbs, queues, job, up, counts, histories>>

SetCache(a) ==
    /\ actor[a].pc = "adaptor"
    /\ \/ dao = 0 /\ Panic(a)
       \/ /\ dao # 0
          /\ dbs' = [dbs EXCEPT ![dao].cache = IF cache = 0 THEN -1 ELSE cache]
          /\ Goto(a, "sync")
          /\ UNCHANGED <<file, app, caches, queues, job, up, counts, histories>>

(* CacheWarmUp and syncFromConf query the handle.                          *)
Sync(a) ==
    /\ actor[a].pc = "sync"
    /\ \/ ~ Usable(dao) /\ Panic(a)
       \/ /\ Usable(dao)
          /\ actor' = [actor EXCEPT ![a].pc = "init", ![a].todo = Services]
          /\ UNCHANGED <<file, app, objects, job, up, counts, histories>>

InitEmail_KeepsQueue(a) ==
    /\ actor[a].pc = "init" /\ "email" \in actor[a].todo
    /\ actor' = [actor EXCEPT ![a].todo = @ \ {"email"}]
    /\ UNCHANGED <<file, app, objects, job, up, counts, histories>>
InitEmail(a) ==
    /\ actor[a].pc = "init" /\ "email" \in actor[a].todo
    /\ queues' = Append(queues, NewQueue(conf))
    /\ queue' = Len(queues) + 1
    /\ actor' = [actor EXCEPT ![a].todo = @ \ {"email"}]
    /\ UNCHANGED <<file, conf, lock, dao, cache, pusher, dbs, caches, job, up, counts, histories>>

InitNotify_Skipped(a) ==
    /\ actor[a].pc = "init" /\ "notify" \in actor[a].todo
    /\ actor' = [actor EXCEPT ![a].todo = @ \ {"notify"}]
    /\ UNCHANGED <<file, app, objects, job, up, counts, histories>>
InitNotify(a) ==
    /\ actor[a].pc = "init" /\ "notify" \in actor[a].todo
    /\ pusher' = dao
    /\ actor' = [actor EXCEPT ![a].todo = @ \ {"notify"}]
    /\ UNCHANGED <<file, conf, lock, dao, cache, queue, objects, job, up, counts, histories>>

Booted(a) ==
    /\ actor[a].pc = "init" /\ actor[a].todo = {}
    /\ lock' = "free"
    /\ Return(a)
    /\ UNCHANGED <<file, conf, dao, cache, pusher, queue, objects, job, up, counts, histories>>

-----------------------------------------------------------------------------
(* A notification job: NotifyService.Push uses the pusher, whose handle    *)
(* finds the receivers; AsyncSend fetches the user through the handle of   *)
(* the application and pushes to its queue.                                *)
JobStart(j) ==
    /\ job[j].pc = "idle" /\ mails < MaxMails
    /\ job' = [job EXCEPT ![j] = [pc |-> "push", q |-> 0, steady |-> Quiet /\ ~ failed]]
    /\ UNCHANGED <<file, app, objects, actor, up, counts, histories>>

JobPush(j) ==
    /\ job[j].pc = "push"
    /\ \/ ~ Usable(pusher) /\ Panic(j)
       \/ /\ Usable(pusher)
          /\ job' = [job EXCEPT ![j].pc = "fetch"]
          /\ UNCHANGED <<file, app, objects, actor, up, counts, histories>>

JobFetch(j) ==
    /\ job[j].pc = "fetch"
    /\ \/ ~ Usable(dao) /\ Panic(j)
       \/ /\ Usable(dao)
          /\ job' = [job EXCEPT ![j].pc = "check", ![j].q = queue]
          /\ UNCHANGED <<file, app, objects, actor, up, counts, histories>>

(* EmailQueue.Push: the test, without the mutex, ...                       *)
PushCheck(j) ==
    /\ job[j].pc = "check"
    /\ job' = [job EXCEPT ![j] = IF queues[job[j].q].closed THEN IdleJob
                                 ELSE [@ EXCEPT !.pc = "send"]]
    /\ UNCHANGED <<file, app, objects, actor, up, counts, histories>>

(* A channel accepts a value if its buffer has room or its receiver waits. *)
HasRoom(q) ==
    \/ Len(queues[q].ch) < Capacity
    \/ queues[q].ch = <<>> /\ queues[q].work = 0

(* ... then the send, which waits while the channel is full.               *)
PushSend(j) ==
    LET q == job[j].q IN
    /\ job[j].pc = "send"
    /\ \/ ~ queues[q].open /\ Panic(j)
       \/ /\ queues[q].open /\ HasRoom(q) /\ mails < MaxMails
          /\ mails' = mails + 1
          /\ queues' = [queues EXCEPT ![q].ch = Append(@, mails + 1)]
          /\ job' = [job EXCEPT ![j] = IdleJob]
          /\ UNCHANGED <<file, app, dbs, caches, actor, up, applies, handled, histories>>

-----------------------------------------------------------------------------
(* The worker of a queue: it receives until the channel is closed and      *)
(* empty, sends, and on success flags the notification.                    *)
Receive_StopsAtClose(q) ==
    /\ queues[q].work = 0 /\ queues[q].ch # <<>> /\ queues[q].open
    /\ queues' = [queues EXCEPT ![q].work = Head(queues[q].ch), ![q].ch = Tail(@)]
    /\ UNCHANGED <<file, app, dbs, caches, actor, job, up, counts, histories>>
Receive(q) ==
    /\ queues[q].work = 0 /\ queues[q].ch # <<>>
    /\ queues' = [queues EXCEPT ![q].work = Head(queues[q].ch), ![q].ch = Tail(@)]
    /\ UNCHANGED <<file, app, dbs, caches, actor, job, up, counts, histories>>

Finish_ClearsFirst(q) ==
    /\ queues' = [queues EXCEPT ![q].work = 0, ![q].sent = FALSE]
    /\ handled' = handled \cup {queues'[q].work}
    /\ UNCHANGED <<file, app, dbs, caches, actor, job, up, applies, mails, histories>>
Finish(q) ==
    /\ queues' = [queues EXCEPT ![q].work = 0, ![q].sent = FALSE]
    /\ handled' = handled \cup {queues[q].work}
    /\ UNCHANGED <<file, app, dbs, caches, actor, job, up, applies, mails, histories>>

SendMail(q) ==
    /\ queues[q].work # 0 /\ ~ queues[q].sent
    /\ \/ /\ queues' = [queues EXCEPT ![q].sent = TRUE]
          /\ UNCHANGED <<file, app, dbs, caches, actor, job, up, counts, histories>>
       \/ Finish(q)

OnSendSuccess(q) ==
    /\ queues[q].sent
    /\ IF dao # 0 THEN Finish(q) ELSE Panic("worker")

-----------------------------------------------------------------------------
Reset(a) ==
    \/ DbNil(a) \/ DbClose(a) \/ CacheNil(a) \/ CacheClose(a) \/ DaoNil(a) \/ CacheDrop(a)
    \/ DisposeNotify(a) \/ DisposeEmail(a) \/ CloseMux(a) \/ CloseCh(a)
    \/ CloseFlag(a) \/ Disposed(a)

Bootstrap(a) ==
    \/ Lock(a) \/ Zone(a) \/ Open(a) \/ NewCache(a) \/ SetCache(a) \/ Sync(a)
    \/ InitEmail(a) \/ InitNotify(a) \/ Booted(a)

Act(a) == Write(a) \/ Load(a) \/ SetConf(a) \/ Reset(a) \/ Bootstrap(a)
Work(q) == q \in 1..Len(queues) /\ (Receive(q) \/ SendMail(q) \/ OnSendSuccess(q))
Push(j) == JobPush(j) \/ JobFetch(j) \/ PushCheck(j) \/ PushSend(j)

QueueIds == 1..(MaxApplies + 1)

Next ==
    /\ up = "running"
    /\ \/ \E a \in Admins, y \in Yamls : Apply(a, y)
       \/ Terminate
       \/ \E a \in Actors : Act(a)
       \/ Exit
       \/ \E j \in Jobs : JobStart(j) \/ Push(j)
       \/ \E q \in QueueIds : Work(q)

(* Goroutines that can run do run.                                         *)
Fairness ==
    /\ \A a \in Actors : WF_vars(up = "running" /\ Act(a))
    /\ \A q \in QueueIds : WF_vars(up = "running" /\ Work(q))

Spec == Init /\ [][Next]_vars /\ Fairness

-----------------------------------------------------------------------------
(* Properties.                                                             *)

(* When no restart runs and none has failed, the application serves:       *)
(* an open database behind a live cache, the pusher on the same handle,    *)
(* and a queue that accepts mail, built from the current configuration.    *)
(* Restarts that overlap, in any order of their steps, end there too.      *)
Serving ==
    up = "running" /\ Quiet /\ ~ failed =>
       /\ Usable(dao) /\ dbs[dao].open
       /\ dbs[dao].cache = cache /\ (cache # 0 <=> conf \in Cached)
       /\ pusher = dao
       /\ queues[queue].open /\ ~ queues[queue].closed /\ queues[queue].conf = conf

(* Restarts that do not overlap leave one open database, one open cache    *)
(* and one open channel: ResetBootstrapState closes what Bootstrap replaces. *)
NoLeak ==
    up = "running" /\ Quiet /\ ~ failed /\ ~ overlap =>
       /\ \A d \in 1..Len(dbs) : dbs[d].open => d = dao
       /\ \A c \in 1..Len(caches) : caches[c] => c = cache
       /\ \A q \in 1..Len(queues) : queues[q].open => q = queue

(* Settings requests that follow one another and succeed leave the         *)
(* application running with what the configuration file holds.             *)
FileApplied == Quiet /\ ~ overlap /\ ~ refused /\ ~ failed => conf = file

(* What restarts that do not overlap leave behind: what the file says, and *)
(* nothing of what was running before.                                     *)
Settled == NoLeak /\ FileApplied

(* Only a restart, the end of the process or a failed restart can make a   *)
(* worker or a request panic, and a notification job only if it was under  *)
(* way when one of these began.                                            *)
PanicsOnlyAroundRestart ==
    /\ up \in Jobs => ~ job[up].steady
    /\ up \in Admins \cup {"worker"} => ~ Quiet \/ failed

(* The application after and during restarts: it serves, nothing leaks,    *)
(* and it panics for no other reason.                                      *)
AppSound == TypeOK /\ Serving /\ Settled /\ PanicsOnlyAroundRestart

(* Every mail that was accepted by a channel is handled, also by the       *)
(* worker of a queue that was closed or replaced, unless the process ends. *)
MailsHandled ==
    \A m \in 1..MaxMails : (mails >= m) ~> (m \in handled \/ up # "running")

(* Every settings request ends: no path through two concurrent restarts    *)
(* blocks on core's mutex or on a queue's.                                 *)
ApplyEnds ==
    \A a \in Admins : (actor[a].pc # "idle") ~> (actor[a].pc = "idle" \/ up # "running")
=============================================================================
