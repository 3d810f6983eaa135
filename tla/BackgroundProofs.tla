-------------------------- MODULE BackgroundProofs --------------------------
(***************************************************************************)
(* The work that goes on in the background: the application during         *)
(* restarts, and the fetches of page titles.                               *)
(***************************************************************************)
EXTENDS Lifecycle, PageFetch, SequenceTheorems, FiniteSetTheorems, TLAPS

(***************************************************************************)
(* Lifecycle, for any number of requests, jobs and queues and any files:   *)
(* however many restarts overlap and wherever they fail, the application   *)
(* serves when they are over; those that do not overlap leave nothing open *)
(* and apply the file; and only a restart makes a goroutine panic.         *)
(***************************************************************************)

-----------------------------------------------------------------------------
(* The invariant.                                                          *)

Pc(a) == actor[a].pc
Todo(a) == actor[a].todo

(* The stages of a restart: an actor will still forget the handle, or the  *)
(* cache; or it does not touch the application; or it bootstraps.          *)
ForgetsDao == {"setConf", "dbNil", "dbClose", "cacheNil", "cacheClose", "daoNil"}
Closes == {"mux", "closeCh", "closeFlag"}
Outside == {"idle", "write", "load"}
Boots == {"zone", "open", "cache", "adaptor", "sync", "init"}

(* Every number is that of an object.                                      *)
Numbered ==
    /\ queue # 0
    /\ \A a \in Actors : Pc(a) \in Closes => actor[a].q # 0
    /\ \A j \in Jobs : job[j].pc \in {"check", "send"} => job[j].q # 0
    /\ \A q \in 1..Len(queues) : queues[q].sent => queues[q].work # 0

(* Whoever bootstraps holds the mutex.                                     *)
LockHeld == \A a \in Actors : Pc(a) \in Boots => lock = a

(* A closed queue has a closed channel.                                    *)
ClosedInOrder ==
    /\ \A q \in 1..Len(queues) : queues[q].closed => ~ queues[q].open
    /\ \A a \in Actors : Pc(a) = "closeFlag" => ~ queues[actor[a].q].open

(* Once nobody will forget the handle, it is open, and without a cache if  *)
(* the configuration has none.                                             *)
HandleFit ==
    ~ failed /\ (\A a \in Actors : Pc(a) \notin ForgetsDao) /\ dao # 0 =>
       /\ dbs[dao].open
       /\ conf \notin Cached =>
             dbs[dao].cache = 0 /\ \A a \in Actors : Pc(a) # "adaptor"

CacheFit ==
    ~ failed /\ (\A a \in Actors : Pc(a) \notin ForgetsDao \cup {"cacheDrop"}) =>
       (conf \notin Cached => cache = 0)

(* What a bootstrap has built, if nobody else is in a restart: the others  *)
(* cannot finish theirs before it, so nobody has been all the while.       *)
CacheBuilt ==
    /\ dao # 0 /\ dbs[dao].cache = cache
    /\ cache # 0 <=> conf \in Cached
    /\ cache # 0 => caches[cache]
QueueBuilt == queues[queue].open /\ ~ queues[queue].closed /\ queues[queue].conf = conf
Built(a) ==
    /\ Pc(a) = "cache" => dao # 0
    /\ Pc(a) = "adaptor" => dao # 0 /\ cache # 0 /\ caches[cache]
    /\ Pc(a) \in {"sync", "init"} => CacheBuilt
    /\ Pc(a) = "init" /\ "notify" \notin Todo(a) => pusher = dao
    /\ Pc(a) = "init" /\ "email" \notin Todo(a) => QueueBuilt
AloneIn(a) == \A b \in Actors \ {a} : Pc(b) \in Outside
BootBuilds == ~ failed => \A a \in Actors : AloneIn(a) => Built(a)

(* When nobody is in a restart the application serves.                     *)
Serves ==
    ~ failed /\ (\A a \in Actors : Pc(a) \in Outside) =>
       CacheBuilt /\ pusher = dao /\ QueueBuilt

(* Without overlap one actor is active at most, and what is open is what   *)
(* the application holds and the actor has not closed yet.                 *)
OneActive == ~ overlap => \A a, b \in Actors : Pc(a) # "idle" /\ Pc(b) # "idle" => a = b

Dbs == {d \in 1..Len(dbs) : dbs[d].open}
Caches == {c \in 1..Len(caches) : caches[c]}
Queues == {q \in 1..Len(queues) : queues[q].open}

DbsLeft(p) ==
    IF p \in {"cacheNil", "cacheClose", "daoNil", "cacheDrop", "dispose", "lock", "zone", "open"}
             \cup Closes
    THEN {} ELSE {dao}
CachesLeft(p) ==
    IF p \in {"daoNil", "cacheDrop", "dispose", "lock", "zone", "open", "cache"} \cup Closes
    THEN {} ELSE {cache}
QueuesLeft(p, t) ==
    IF \/ p = "dispose" /\ "email" \notin t
       \/ p \in {"lock", "zone", "open", "cache", "adaptor", "sync", "closeFlag"}
       \/ p = "init" /\ "email" \in t
    THEN {} ELSE {queue}
(* An actor that closes works on the queue of the application.             *)
Left(a) ==
    /\ Dbs \subseteq DbsLeft(Pc(a))
    /\ Caches \subseteq CachesLeft(Pc(a))
    /\ Queues \subseteq QueuesLeft(Pc(a), Todo(a))
    /\ Pc(a) \in Closes => actor[a].q = queue
    /\ Pc(a) \in {"cacheDrop", "dispose", "lock", "zone", "open"} \cup Closes => dao = 0
    /\ Pc(a) \in {"dispose", "lock", "zone", "open", "cache"} \cup Closes => cache = 0
AloneActive(a) == \A b \in Actors \ {a} : Pc(b) = "idle"
NothingLeft == ~ overlap /\ ~ failed => \A a \in Actors : AloneActive(a) => Left(a)

(* The file is the configuration, or that of the active request to be.     *)
Configured(a) ==
    /\ Pc(a) = "setConf" => actor[a].yaml = file
    /\ Pc(a) \notin {"write", "load", "setConf"} => conf = file
FileFollowed ==
    ~ overlap /\ ~ refused /\ ~ failed => \A a \in Actors : AloneActive(a) => Configured(a)

(* A steady job sees an application that serves, and its present queue.    *)
SteadyJobs ==
    \A j \in Jobs : job[j].steady =>
       /\ Quiet /\ ~ failed
       /\ job[j].pc \in {"check", "send"} => job[j].q = queue

AppInv ==
    /\ TypeOK /\ Numbered /\ LockHeld /\ ClosedInOrder /\ HandleFit /\ CacheFit
    /\ BootBuilds /\ Serves /\ OneActive /\ NothingLeft /\ FileFollowed
    /\ SteadyJobs /\ PanicsOnlyAroundRestart

-----------------------------------------------------------------------------
(* Types.                                                                  *)

DbSet(n) == [open : BOOLEAN, cache : -1..n]
QueueSet == [ch : Seq(1..MaxMails), open : BOOLEAN, closed : BOOLEAN,
             mux : Actors \cup {"free"}, work : 0..MaxMails, sent : BOOLEAN, conf : Yamls]
ActorSet(n) == [pc : Pcs, yaml : Yamls, todo : SUBSET Services, q : 0..n]
JobSet(n) == [pc : {"idle", "push", "fetch", "check", "send"}, q : 0..n, steady : BOOLEAN]
UpSet == {"running", "exited", "worker"} \cup Actors \cup Jobs

(* The conjuncts of the types, by what they are about.                     *)
FieldsOK ==
    /\ file \in Yamls /\ conf \in Yamls /\ lock \in Actors \cup {"free"} /\ up \in UpSet
    /\ applies \in 0..MaxApplies /\ mails \in 0..MaxMails /\ handled \subseteq 1..MaxMails
    /\ overlap \in BOOLEAN /\ refused \in BOOLEAN /\ failed \in BOOLEAN
HoldsOK ==
    /\ dao \in 0..Len(dbs) /\ cache \in 0..Len(caches)
    /\ pusher \in 0..Len(dbs) /\ queue \in 0..Len(queues)
DbsOK == dbs \in Seq(DbSet(Len(caches)))
CachesOK == caches \in Seq(BOOLEAN)
QueuesOK == queues \in Seq(QueueSet)
ActorsOK == actor \in [Actors -> ActorSet(Len(queues))]
JobsOK == job \in [Jobs -> JobSet(Len(queues))]

(* TypeOK, by what its conjuncts are about.                                *)
LEMMA TypeParts ==
    TypeOK <=> /\ FieldsOK /\ HoldsOK /\ DbsOK /\ CachesOK /\ QueuesOK /\ ActorsOK /\ JobsOK
<1> QED
  BY DEF TypeOK, FieldsOK, HoldsOK, DbsOK, CachesOK, QueuesOK, ActorsOK, JobsOK, DbSet, QueueSet,
         ActorSet, JobSet, UpSet

LEMMA TypePartsPrime ==
    TypeOK' <=> /\ FieldsOK' /\ HoldsOK' /\ DbsOK' /\ CachesOK' /\ QueuesOK' /\ ActorsOK'
                /\ JobsOK'
<1> QED
  BY TypeParts, PTL

(* What a step makes of the state of actor a: the others are as they were. *)
Moves(a, p, t, q, y) ==
    /\ actor'[a].pc = p /\ actor'[a].todo = t /\ actor'[a].q = q /\ actor'[a].yaml = y
    /\ \A b \in Actors \ {a} : actor'[b] = actor[b]
Steps(a, p) == Moves(a, p, actor[a].todo, actor[a].q, actor[a].yaml)

(* An actor becomes r; the others stay as they are.                        *)
LEMMA Becomes ==
    ASSUME ActorsOK, NEW a \in Actors, NEW r \in ActorSet(Len(queues)),
           actor' = [actor EXCEPT ![a] = r]
    PROVE  /\ actor' \in [Actors -> ActorSet(Len(queues))]
           /\ Moves(a, r.pc, r.todo, r.q, r.yaml)
<1>1. actor' \in [Actors -> ActorSet(Len(queues))]
  BY DEF ActorsOK
<1>2. actor'[a] = r /\ \A b \in Actors \ {a} : actor'[b] = actor[b]
  BY DEF ActorsOK
<1> QED
  BY <1>1, <1>2 DEF Moves

(* Goto and Return, as moves.                                              *)
LEMMA GotoMoves ==
    ASSUME ActorsOK, NEW a \in Actors, NEW p \in Pcs, Goto(a, p)
    PROVE  actor' \in [Actors -> ActorSet(Len(queues))] /\ Steps(a, p)
<1>1. PICK r : r = [actor[a] EXCEPT !.pc = p]
  OBVIOUS
<1>2. actor[a] \in ActorSet(Len(queues))
  BY DEF ActorsOK
<1>3. /\ r \in ActorSet(Len(queues)) /\ r.pc = p
      /\ r.todo = actor[a].todo /\ r.q = actor[a].q /\ r.yaml = actor[a].yaml
  BY <1>1, <1>2 DEF ActorSet
<1>4. actor' = [actor EXCEPT ![a] = r]
  BY <1>1 DEF Goto
<1> QED
  BY <1>3, <1>4, Becomes DEF Steps

LEMMA ReturnMoves ==
    ASSUME ActorsOK, NEW a \in Actors, Return(a)
    PROVE  actor' \in [Actors -> ActorSet(Len(queues))] /\ Moves(a, "idle", {}, 0, First)
<1>2. IdleActor \in ActorSet(Len(queues))
  BY ConfAssumption DEF IdleActor, ActorSet, Pcs
<1>3. IdleActor.pc = "idle" /\ IdleActor.todo = {} /\ IdleActor.q = 0 /\ IdleActor.yaml = First
  BY DEF IdleActor
<1>4. actor' = [actor EXCEPT ![a] = IdleActor]
  BY DEF Return
<1> QED
  BY <1>2, <1>3, <1>4, Becomes

-----------------------------------------------------------------------------
(* What a step of actor a keeps of each part, whatever else it changes.    *)

LEMMA PcSteps ==
    ASSUME NEW a \in Actors, NEW p, NEW t, NEW q, NEW y, Moves(a, p, t, q, y)
    PROVE  /\ Pc(a)' = p /\ Todo(a)' = t /\ (actor[a].q)' = q /\ (actor[a].yaml)' = y
           /\ \A b \in Actors \ {a} : Pc(b)' = Pc(b) /\ Todo(b)' = Todo(b) /\ actor'[b] = actor[b]
<1> QED
  BY DEF Moves, Pc, Todo

(* Outside of Bootstrap nobody touches the mutex.                          *)
LEMMA LockStep ==
    ASSUME LockHeld, NEW a \in Actors, NEW p, NEW t, NEW q, NEW y, Moves(a, p, t, q, y),
           p \in Boots => Pc(a) \in Boots, lock' = lock
    PROVE  LockHeld'
<1> QED
  BY PcSteps DEF LockHeld

(* Who is active already overlaps with nobody new.                         *)
LEMMA OneStep ==
    ASSUME OneActive, NEW a \in Actors, NEW p, NEW t, NEW q, NEW y, Moves(a, p, t, q, y),
           Pc(a) # "idle", overlap' = overlap
    PROVE  OneActive'
<1> QED
  BY PcSteps DEF OneActive

(* The handle fits while it stays, or will still be forgotten.             *)
LEMMA HandleStep ==
    ASSUME HandleFit, NEW a \in Actors, NEW p, NEW t, NEW q, NEW y, Moves(a, p, t, q, y),
           Pc(a) \in ForgetsDao => p \in ForgetsDao, p # "adaptor",
           failed => failed', UNCHANGED <<conf, dao>>,
           \/ dbs' = dbs
           \/ p \in ForgetsDao
    PROVE  HandleFit'
<1> SUFFICES ASSUME ~ failed', \A b \in Actors : Pc(b)' \notin ForgetsDao, dao' # 0
             PROVE  (/\ dbs[dao].open
                     /\ (conf \notin Cached =>
                          dbs[dao].cache = 0 /\ \A b \in Actors : Pc(b) # "adaptor"))'
  BY DEF HandleFit
<1>1. /\ Pc(a)' = p
      /\ \A b \in Actors \ {a} : Pc(b)' = Pc(b)
  BY PcSteps
<1>2. dbs' = dbs /\ ~ failed /\ dao # 0
  BY <1>1
<1>3. \A b \in Actors : Pc(b) \notin ForgetsDao
  BY <1>1
<1>4. /\ dbs[dao].open
      /\ conf \notin Cached => dbs[dao].cache = 0 /\ \A b \in Actors : Pc(b) # "adaptor"
  BY <1>2, <1>3 DEF HandleFit
<1> QED
  BY <1>1, <1>2, <1>4

(* The cache fits the configuration in the same way.                       *)
LEMMA CacheFitStep ==
    ASSUME CacheFit, NEW a \in Actors, NEW p, NEW t, NEW q, NEW y, Moves(a, p, t, q, y),
           Pc(a) \in ForgetsDao \cup {"cacheDrop"} => p \in ForgetsDao \cup {"cacheDrop"},
           failed => failed', UNCHANGED <<conf, cache>>
    PROVE  CacheFit'
<1> QED
  BY PcSteps DEF CacheFit

(* While one who bootstraps is alone, so he was when he took the mutex.    *)
LEMMA BootStep ==
    ASSUME LockHeld, BootBuilds, NEW a \in Actors, NEW p, NEW t, NEW q, NEW y,
           Moves(a, p, t, q, y),
           Pc(a) \notin Outside,
           \/ p \notin Outside
           \/ failed'
           \/ Pc(a) = "init" /\ p = "idle",
           failed => failed',
           ~ failed' /\ AloneIn(a) => Built(a)'
    PROVE  BootBuilds'
<1> SUFFICES ASSUME ~ failed', NEW b \in Actors, AloneIn(b)'
             PROVE  Built(b)'
  BY DEF BootBuilds
<1>1. /\ Pc(a)' = p
      /\ \A c \in Actors \ {a} : Pc(c)' = Pc(c)
  BY PcSteps
<1>2. CASE b = a
  BY <1>1, <1>2 DEF AloneIn
<1>3. CASE b # a
  <2>1. p \in Outside
    BY <1>1, <1>3 DEF AloneIn
  <2>2. Pc(a) = "init"
    BY <2>1
  <2>3. lock = a /\ Pc(b) \notin Boots
    BY <1>3, <2>2 DEF LockHeld, Boots
  <2>4. Pc(b)' \notin Boots
    BY <1>1, <1>3, <2>3
  <2> QED
    BY <2>4 DEF Built, Boots
<1> QED
  BY <1>2, <1>3

(* While an actor is in a restart, nothing is said of who serves.          *)
LEMMA ServeStep ==
    ASSUME NEW a \in Actors, NEW p, NEW t, NEW q, NEW y, Moves(a, p, t, q, y),
           p \notin Outside \/ failed'
    PROVE  Serves'
<1> QED
  BY PcSteps DEF Serves

(* What is left open depends on the one active actor.                      *)
LEMMA LeftStep ==
    ASSUME OneActive, NEW a \in Actors, NEW p, NEW t, NEW q, NEW y, Moves(a, p, t, q, y),
           Pc(a) # "idle", overlap' = overlap, failed => failed',
           ~ overlap /\ ~ failed' /\ AloneActive(a) => Left(a)'
    PROVE  NothingLeft'
<1> SUFFICES ASSUME ~ overlap', ~ failed', NEW b \in Actors, AloneActive(b)'
             PROVE  Left(b)'
  BY DEF NothingLeft
<1>1. /\ Pc(a)' = p
      /\ \A c \in Actors \ {a} : Pc(c)' = Pc(c)
  BY PcSteps
<1>2. AloneActive(a)
  BY DEF OneActive, AloneActive
<1>3. Left(a)'
  BY <1>2
<1>4. CASE b # a
  <2>1. Pc(b)' = "idle" /\ Pc(a)' = "idle"
    BY <1>1, <1>2, <1>4 DEF AloneActive
  <2> QED
    BY <1>3, <2>1 DEF Left, DbsLeft, CachesLeft, QueuesLeft, Closes
<1> QED
  BY <1>3, <1>4

(* So does what configuration is loaded.                                   *)
LEMMA FollowStep ==
    ASSUME OneActive, NEW a \in Actors, NEW p, NEW t, NEW q, NEW y, Moves(a, p, t, q, y),
           Pc(a) # "idle", overlap' = overlap, failed => failed', refused => refused',
           ~ overlap /\ ~ failed' /\ ~ refused' /\ AloneActive(a) => Configured(a)'
    PROVE  FileFollowed'
<1> SUFFICES ASSUME ~ overlap', ~ failed', ~ refused', NEW b \in Actors, AloneActive(b)'
             PROVE  Configured(b)'
  BY DEF FileFollowed
<1>1. /\ Pc(a)' = p
      /\ \A c \in Actors \ {a} : Pc(c)' = Pc(c)
  BY PcSteps
<1>2. AloneActive(a)
  BY DEF OneActive, AloneActive
<1>3. Configured(a)'
  BY <1>2
<1>4. CASE b # a
  <2>1. Pc(b)' = "idle" /\ Pc(a)' = "idle"
    BY <1>1, <1>2, <1>4 DEF AloneActive
  <2> QED
    BY <1>3, <2>1 DEF Configured
<1> QED
  BY <1>3, <1>4

(* No job is steady while somebody is active.                              *)
LEMMA ActorStep ==
    ASSUME SteadyJobs, NEW a \in Actors, Pc(a) # "idle", up = "running", up' = up, job' = job
    PROVE  SteadyJobs' /\ PanicsOnlyAroundRestart'
<1>1. \A j \in Jobs : ~ job[j].steady
  BY DEF SteadyJobs, Quiet, Pc
<1>2. up' \notin Jobs \cup Admins \cup {"worker"}
  BY NamesAssumption
<1> QED
  BY <1>1, <1>2 DEF SteadyJobs, PanicsOnlyAroundRestart

(* The types of a step that leaves the objects and the jobs alone.         *)
LEMMA TypeStep ==
    ASSUME TypeOK, FieldsOK', HoldsOK', UNCHANGED <<objects, job>>,
           actor' \in [Actors -> ActorSet(Len(queues))]
    PROVE  TypeOK'
<1> QED
  BY TypeParts, TypePartsPrime DEF DbsOK, CachesOK, QueuesOK, ActorsOK, JobsOK, objects

(* The parts that speak of queues and jobs, when neither changes.          *)
LEMMA StillStep ==
    ASSUME AppInv, up = "running", NEW a \in Actors, NEW p, NEW t, NEW q, NEW y,
           Moves(a, p, t, q, y), Pc(a) # "idle",
           p \in Closes => q # 0, p # "closeFlag",
           UNCHANGED <<queue, queues, job, up, overlap>>
    PROVE  /\ Numbered' /\ ClosedInOrder' /\ OneActive' /\ SteadyJobs'
           /\ PanicsOnlyAroundRestart'
<1>1. Numbered'
  BY PcSteps DEF AppInv, Numbered
<1>2. ClosedInOrder'
  BY PcSteps DEF AppInv, ClosedInOrder
<1>3. OneActive'
  BY OneStep DEF AppInv
<1> QED
  BY <1>1, <1>2, <1>3, ActorStep DEF AppInv

(* Steps of a request before it touches the application.                   *)
LEMMA OutsideStep ==
    ASSUME AppInv, NEW a \in Actors, NEW p, NEW t, NEW q, NEW y,
           Moves(a, p, t, q, y), Pc(a) \in Outside,
           p \in Outside \cup {"setConf", "dbNil"},
           UNCHANGED <<app, objects, failed>>
    PROVE  LockHeld' /\ HandleFit' /\ CacheFit' /\ BootBuilds' /\ Serves'
<1>1. /\ Pc(a)' = p
      /\ \A c \in Actors \ {a} : Pc(c)' = Pc(c) /\ Todo(c)' = Todo(c)
  BY PcSteps
<1>2. /\ UNCHANGED <<conf, lock, dao, cache, pusher, queue, dbs, caches, queues, failed>>
      /\ Pc(a) \notin ForgetsDao \cup Boots \cup {"cacheDrop"}
      /\ p \notin Boots \cup {"cacheDrop"}
  BY DEF app, objects, Outside, ForgetsDao, Boots
<1>3. LockHeld'
  BY <1>1, <1>2 DEF AppInv, LockHeld
<1>4. HandleFit'
  BY <1>1, <1>2 DEF AppInv, HandleFit, Boots
<1>5. CacheFit'
  BY <1>1, <1>2 DEF AppInv, CacheFit
<1>6. BootBuilds'
  <2> SUFFICES ASSUME ~ failed', NEW b \in Actors, AloneIn(b)'
               PROVE  Built(b)'
    BY DEF BootBuilds
  <2>1. CASE b = a
    BY <2>1, <1>1, <1>2 DEF Built, Boots
  <2>2. CASE b # a
    <3>1. AloneIn(b)
      BY <1>1, <2>2 DEF AloneIn
    <3>2. Built(b)
      BY <3>1, <1>2 DEF AppInv, BootBuilds
    <3>3. Pc(b)' = Pc(b) /\ Todo(b)' = Todo(b)
      BY <1>1, <2>2
    <3> QED
      BY <3>2, <3>3, <1>2 DEF Built, CacheBuilt, QueueBuilt
  <2> QED
    BY <2>1, <2>2
<1>7. Serves'
  <2>1. (\A b \in Actors : Pc(b)' \in Outside) => \A b \in Actors : Pc(b) \in Outside
    BY <1>1
  <2> QED
    BY <1>2, <2>1 DEF AppInv, Serves, CacheBuilt, QueueBuilt
<1> QED
  BY <1>3, <1>4, <1>5, <1>6, <1>7

(* The first step of a request, and of the end of the process.             *)
LEMMA BeginStep ==
    ASSUME AppInv, up = "running", NEW a \in Actors, NEW p, NEW t, NEW q, NEW y,
           Moves(a, p, t, q, y), Pc(a) = "idle", p \in {"write", "dbNil"},
           p = "dbNil" => file' = file,
           Begins(a), UNCHANGED <<app, objects, up, failed, refused>>
    PROVE  /\ JobsOK' /\ Numbered' /\ ClosedInOrder' /\ OneActive' /\ NothingLeft'
           /\ FileFollowed' /\ SteadyJobs' /\ PanicsOnlyAroundRestart'
<1>1. /\ Pc(a)' = p
      /\ \A c \in Actors \ {a} : Pc(c)' = Pc(c) /\ actor'[c] = actor[c]
  BY PcSteps
<1>2. UNCHANGED <<conf, lock, dao, cache, pusher, queue, dbs, caches, queues>>
  BY DEF app, objects
<1>3. \A j \in Jobs : /\ job'[j] \in JobSet(Len(queues))
                      /\ ~ job'[j].steady /\ job'[j].pc = job[j].pc /\ job'[j].q = job[j].q
  BY TypeParts DEF AppInv, Begins, JobsOK, JobSet
<1>4. JobsOK'
  <2>1. \A j \in Jobs : [job[j] EXCEPT !.steady = FALSE] \in JobSet(Len(queues))
    BY TypeParts DEF AppInv, JobsOK, JobSet
  <2> QED
    BY <2>1, <1>2 DEF JobsOK, Begins
<1>5. Numbered'
  BY <1>1, <1>2, <1>3 DEF AppInv, Numbered, Closes
<1>6. ClosedInOrder'
  BY <1>1, <1>2 DEF AppInv, ClosedInOrder
<1>7. ~ overlap' => ~ overlap /\ \A c \in Actors : Pc(c) = "idle"
  BY DEF Begins, Pc
<1>8. OneActive'
  BY <1>1, <1>7 DEF OneActive
<1>9. NothingLeft'
  <2> SUFFICES ASSUME ~ overlap', ~ failed', NEW b \in Actors, AloneActive(b)'
               PROVE  Left(b)'
    BY DEF NothingLeft
  <2>1. b = a
    BY <1>1 DEF AloneActive
  <2>2. Left(a)
    BY <1>7 DEF AppInv, NothingLeft, AloneActive
  <2> QED
    BY <2>1, <2>2, <1>1, <1>2 DEF Left, DbsLeft, CachesLeft, QueuesLeft, Closes, Dbs, Caches,
                                  Queues
<1>10. FileFollowed'
  <2> SUFFICES ASSUME ~ overlap', ~ failed', ~ refused', NEW b \in Actors, AloneActive(b)'
               PROVE  Configured(b)'
    BY DEF FileFollowed
  <2>1. b = a
    BY <1>1 DEF AloneActive
  <2>2. Configured(a)
    BY <1>7 DEF AppInv, FileFollowed, AloneActive
  <2> QED
    BY <2>1, <2>2, <1>1, <1>2 DEF Configured
<1>11. SteadyJobs' /\ PanicsOnlyAroundRestart'
  <2>1. up' \notin Jobs \cup Admins \cup {"worker"}
    BY NamesAssumption
  <2> QED
    BY <1>3, <2>1 DEF SteadyJobs, PanicsOnlyAroundRestart
<1> QED
  BY <1>4, <1>5, <1>6, <1>8, <1>9, <1>10, <1>11

-----------------------------------------------------------------------------
(* A panic ends the process.                                               *)
LEMMA PanicStep ==
    ASSUME AppInv, NEW p \in UpSet, Panic(p),
           p \in Jobs => ~ job[p].steady,
           p \in Admins \cup {"worker"} => ~ Quiet \/ failed
    PROVE  AppInv'
<1>1. UNCHANGED <<file, conf, lock, dao, cache, pusher, queue, dbs, caches, queues, actor, job,
                  applies, mails, handled, overlap, refused, failed>> /\ up' = p
  BY DEF Panic, app, objects, counts, histories
<1>2. TypeOK'
  BY <1>1, TypeParts, TypePartsPrime DEF AppInv, FieldsOK, HoldsOK, DbsOK, CachesOK, QueuesOK,
     ActorsOK, JobsOK
<1>3. Numbered' /\ LockHeld' /\ ClosedInOrder' /\ HandleFit' /\ CacheFit' /\ OneActive'
  BY <1>1 DEF AppInv, Numbered, LockHeld, ClosedInOrder, HandleFit, CacheFit, OneActive, Pc
<1>4. BootBuilds' /\ Serves'
  BY <1>1 DEF AppInv, BootBuilds, Serves, Built, AloneIn, CacheBuilt, QueueBuilt, Pc, Todo
<1>5. NothingLeft' /\ FileFollowed'
  BY <1>1 DEF AppInv, NothingLeft, FileFollowed, Left, Configured, AloneActive, Dbs, Caches,
     Queues, DbsLeft, CachesLeft, QueuesLeft, Pc, Todo
<1>6. SteadyJobs' /\ PanicsOnlyAroundRestart'
  BY <1>1 DEF AppInv, SteadyJobs, PanicsOnlyAroundRestart, Quiet
<1> QED
  BY <1>2, <1>3, <1>4, <1>5, <1>6 DEF AppInv

(* An active actor may panic.                                              *)
LEMMA ActorPanics ==
    ASSUME AppInv, NEW a \in Actors, Pc(a) # "idle", Panic(a)
    PROVE  AppInv'
<1>1. a \in UpSet /\ a \notin Jobs /\ ~ Quiet
  BY NamesAssumption DEF UpSet, Actors, Quiet, Pc
<1> QED
  BY <1>1, PanicStep

-----------------------------------------------------------------------------
(* Steps that change nothing but where the actor is, and the mutex.        *)

LEMMA PassStep ==
    ASSUME AppInv, up = "running", NEW a \in Actors, NEW p, NEW t, NEW q, NEW y,
           Moves(a, p, t, q, y), actor' \in [Actors -> ActorSet(Len(queues))],
           Pc(a) \notin Outside \cup {"setConf"},
           p \notin Outside \/ failed', p \notin {"write", "load", "setConf"},
           p \in Closes => q # 0, p # "closeFlag", p # "adaptor",
           LockHeld', lock' \in Actors \cup {"free"},
           failed' \in BOOLEAN, failed => failed',
           UNCHANGED <<file, conf, dao, cache, pusher, queue, objects, job, up, counts, overlap,
                       refused>>,
           Pc(a) \in ForgetsDao => p \in ForgetsDao \/ failed',
           Pc(a) = "cacheDrop" => p \in ForgetsDao \cup {"cacheDrop"},
           ~ failed' /\ AloneIn(a) => Built(a)',
           ~ overlap /\ ~ failed' /\ AloneActive(a) => Left(a)'
    PROVE  AppInv'
<1>1. UNCHANGED <<dbs, caches, queues, applies, mails, handled>> /\ Pc(a) # "idle"
  BY DEF objects, counts, Outside
<1>2. TypeOK'
  <2>1. FieldsOK' /\ HoldsOK'
    BY <1>1, TypeParts DEF AppInv, FieldsOK, HoldsOK
  <2> QED
    BY <2>1, TypeStep DEF AppInv
<1>3. Numbered' /\ ClosedInOrder' /\ OneActive' /\ SteadyJobs' /\ PanicsOnlyAroundRestart'
  BY <1>1, StillStep
<1>4. HandleFit'
  <2>1. CASE failed'
    BY <2>1 DEF HandleFit
  <2>2. CASE ~ failed'
    BY <2>2, <1>1, HandleStep DEF AppInv
  <2> QED
    BY <2>1, <2>2
<1>5. CacheFit'
  <2>1. CASE failed'
    BY <2>1 DEF CacheFit
  <2>2. CASE ~ failed'
    BY <2>2, <1>1, CacheFitStep DEF AppInv
  <2> QED
    BY <2>1, <2>2
<1>6. BootBuilds'
  BY BootStep DEF AppInv
<1>7. Serves'
  BY ServeStep
<1>8. NothingLeft'
  BY <1>1, LeftStep DEF AppInv
<1>9. FileFollowed'
  <2>1. /\ Pc(a)' = p
        /\ ~ overlap /\ ~ failed' /\ ~ refused' /\ AloneActive(a) => Configured(a)
    BY PcSteps DEF AppInv, FileFollowed
  <2>2. ~ overlap /\ ~ failed' /\ ~ refused' /\ AloneActive(a) => Configured(a)'
    BY <2>1 DEF Configured, Outside
  <2> QED
    BY <2>2, <1>1, FollowStep DEF AppInv
<1> QED
  BY <1>2, <1>3, <1>4, <1>5, <1>6, <1>7, <1>8, <1>9 DEF AppInv

(* What is left, for an actor that is alone.                               *)
LEMMA LeftNow ==
    ASSUME AppInv, NEW a \in Actors
    PROVE  ~ overlap /\ ~ failed /\ AloneActive(a) => Left(a)
<1> QED
  BY DEF AppInv, NothingLeft

LEMMA FollowNow ==
    ASSUME AppInv, NEW a \in Actors
    PROVE  ~ overlap /\ ~ failed /\ ~ refused /\ AloneActive(a) => Configured(a)
<1> QED
  BY DEF AppInv, FileFollowed

(* A step within a restart, whatever it makes of the application but its   *)
(* queue.                                                                  *)
LEMMA GoStep ==
    ASSUME AppInv, up = "running", NEW a \in Actors, NEW p, NEW t, NEW q, NEW y,
           Moves(a, p, t, q, y), Pc(a) \notin Outside, p \notin Outside,
           p \in Closes => q # 0, p # "closeFlag",
           UNCHANGED <<queue, queues, job, up, overlap, refused, failed>>,
           TypeOK', LockHeld', HandleFit', CacheFit',
           ~ failed' /\ AloneIn(a) => Built(a)',
           ~ overlap /\ ~ failed' /\ AloneActive(a) => Left(a)',
           ~ overlap /\ ~ failed' /\ ~ refused' /\ AloneActive(a) => Configured(a)'
    PROVE  AppInv'
<1>1. Numbered' /\ ClosedInOrder' /\ OneActive' /\ SteadyJobs' /\ PanicsOnlyAroundRestart'
  BY StillStep DEF Outside
<1>2. BootBuilds' /\ Serves'
  BY BootStep, ServeStep DEF AppInv
<1>3. NothingLeft' /\ FileFollowed'
  BY LeftStep, FollowStep DEF AppInv, Outside
<1> QED
  BY <1>1, <1>2, <1>3 DEF AppInv

LEMMA DbNilStep ==
    ASSUME AppInv, up = "running", NEW a \in Actors, DbNil(a)
    PROVE  AppInv'
<1> DEFINE p == IF dao = 0 THEN "cacheNil" ELSE "dbClose"
<1>1. /\ UNCHANGED <<file, conf, lock, dao, cache, pusher, queue, objects, job, up, counts,
                     overlap, refused, failed>>
      /\ UNCHANGED <<dbs, caches, queues>>
      /\ Pc(a) = "dbNil"
  BY DEF DbNil, app, histories, objects, Pc
<1>2. actor' \in [Actors -> ActorSet(Len(queues))] /\ Steps(a, p)
  <2>1. p \in Pcs /\ Goto(a, p)
    BY DEF DbNil, Pcs
  <2> HIDE DEF p
  <2> QED
    BY <2>1, GotoMoves, TypeParts DEF AppInv
<1>3. p \in {"cacheNil", "dbClose"} /\ (p = "cacheNil" => dao = 0)
  OBVIOUS
<1> HIDE DEF p
<1>4. Moves(a, p, Todo(a), actor[a].q, actor[a].yaml)
  BY <1>2 DEF Steps, Todo
<1>5. /\ Pc(a)' = p /\ Todo(a)' = Todo(a) /\ (actor[a].q)' = actor[a].q
  BY <1>4, PcSteps
<1>6. LockHeld'
  BY <1>1, <1>3, <1>4, LockStep DEF AppInv, Boots
<1>7. Built(a)'
  BY <1>3, <1>5 DEF Built
<1>8. ~ overlap /\ ~ failed' /\ AloneActive(a) => Left(a)'
  <2> SUFFICES ASSUME ~ overlap, ~ failed', AloneActive(a)
               PROVE  Left(a)'
    OBVIOUS
  <2>1. Left(a)
    BY <1>1, LeftNow
  <2>2. dao = 0 => Dbs = {}
    BY <2>1, <1>1, TypeParts DEF Left, Dbs, DbsLeft, Closes, AppInv, HoldsOK
  <2> QED
    BY <2>1, <2>2, <1>1, <1>3, <1>5 DEF Left, Dbs, Caches, Queues, DbsLeft, CachesLeft, QueuesLeft,
                                       Closes
<1> QED
  BY <1>1, <1>2, <1>3, <1>4, <1>6, <1>7, <1>8, PassStep, TypeParts
     DEF AppInv, FieldsOK, ForgetsDao, Outside, Closes

LEMMA CacheNilStep ==
    ASSUME AppInv, up = "running", NEW a \in Actors, CacheNil(a)
    PROVE  AppInv'
<1> DEFINE p == IF cache = 0 THEN "daoNil" ELSE "cacheClose"
<1>1. /\ UNCHANGED <<file, conf, lock, dao, cache, pusher, queue, objects, job, up, counts,
                     overlap, refused, failed>>
      /\ UNCHANGED <<dbs, caches, queues>>
      /\ Pc(a) = "cacheNil"
  BY DEF CacheNil, app, histories, objects, Pc
<1>2. actor' \in [Actors -> ActorSet(Len(queues))] /\ Steps(a, p)
  <2>1. p \in Pcs /\ Goto(a, p)
    BY DEF CacheNil, Pcs
  <2> HIDE DEF p
  <2> QED
    BY <2>1, GotoMoves, TypeParts DEF AppInv
<1>3. p \in {"daoNil", "cacheClose"} /\ (p = "daoNil" => cache = 0)
  OBVIOUS
<1> HIDE DEF p
<1>4. Moves(a, p, Todo(a), actor[a].q, actor[a].yaml)
  BY <1>2 DEF Steps, Todo
<1>5. /\ Pc(a)' = p /\ Todo(a)' = Todo(a) /\ (actor[a].q)' = actor[a].q
  BY <1>4, PcSteps
<1>6. LockHeld'
  BY <1>1, <1>3, <1>4, LockStep DEF AppInv, Boots
<1>7. Built(a)'
  BY <1>3, <1>5 DEF Built
<1>8. ~ overlap /\ ~ failed' /\ AloneActive(a) => Left(a)'
  <2> SUFFICES ASSUME ~ overlap, ~ failed', AloneActive(a)
               PROVE  Left(a)'
    OBVIOUS
  <2>1. Left(a)
    BY <1>1, LeftNow
  <2>2. cache = 0 => Caches = {}
    BY <2>1, <1>1, TypeParts DEF Left, Caches, CachesLeft, Closes, AppInv, HoldsOK
  <2> QED
    BY <2>1, <2>2, <1>1, <1>3, <1>5 DEF Left, Dbs, Caches, Queues, DbsLeft, CachesLeft, QueuesLeft,
                                       Closes
<1> QED
  BY <1>1, <1>2, <1>3, <1>4, <1>6, <1>7, <1>8, PassStep, TypeParts
     DEF AppInv, FieldsOK, ForgetsDao, Outside, Closes

(* A restart that ends with an error.                                      *)
LEMMA FailStep ==
    ASSUME AppInv, up = "running", NEW a \in Actors, NEW p \in {"exit", "idle"}, NEW t, NEW q,
           NEW y, Moves(a, p, t, q, y), actor' \in [Actors -> ActorSet(Len(queues))],
           Pc(a) \notin Outside \cup {"setConf"}, failed' = TRUE,
           LockHeld', lock' \in Actors \cup {"free"},
           UNCHANGED <<file, conf, dao, cache, pusher, queue, objects, job, up, counts, overlap,
                       refused>>
    PROVE  AppInv'
<1>1. Pc(a) # "cacheDrop" => AppInv'
  BY PassStep DEF Closes
<1>2. CASE Pc(a) = "cacheDrop"
  <2>1. UNCHANGED <<dbs, caches, queues>> /\ Pc(a) # "idle"
    BY <1>2 DEF objects
  <2>2. TypeOK'
    <3>1. FieldsOK' /\ HoldsOK'
      BY <2>1, TypeParts DEF AppInv, FieldsOK, HoldsOK, counts
    <3> QED
      BY <3>1, TypeStep DEF AppInv
  <2>3. Numbered' /\ ClosedInOrder' /\ OneActive' /\ SteadyJobs' /\ PanicsOnlyAroundRestart'
    BY <2>1, StillStep DEF Closes
  <2> QED
    BY <2>2, <2>3 DEF AppInv, HandleFit, CacheFit, BootBuilds, Serves, NothingLeft, FileFollowed
<1> QED
  BY <1>1, <1>2

LEMMA DbCloseStep ==
    ASSUME AppInv, up = "running", NEW a \in Actors, DbClose(a)
    PROVE  AppInv'
<1>1. Pc(a) = "dbClose"
  BY DEF DbClose, Pc
<1>2. CASE dao = 0 /\ Panic(a)
  BY <1>1, <1>2, ActorPanics
<1>3. CASE /\ failed' = TRUE
           /\ IF a = Main THEN Goto(a, "exit") ELSE Return(a)
           /\ UNCHANGED <<file, app, objects, job, up, counts, overlap, refused>>
  <2>1. UNCHANGED <<file, conf, lock, dao, cache, pusher, queue, objects, job, up, counts, overlap,
                    refused>>
    BY <1>3 DEF app
  <2>2. CASE a = Main
    <3>1. actor' \in [Actors -> ActorSet(Len(queues))] /\ Steps(a, "exit")
      BY <1>3, <2>2, GotoMoves, TypeParts DEF AppInv, Pcs
    <3>2. LockHeld'
      BY <2>1, <3>1, LockStep DEF AppInv, Boots, Steps
    <3> QED
      BY <1>1, <1>3, <2>1, <3>1, <3>2, FailStep, TypeParts DEF Steps, Outside, AppInv, FieldsOK
  <2>3. CASE a # Main
    <3>1. actor' \in [Actors -> ActorSet(Len(queues))] /\ Moves(a, "idle", {}, 0, First)
      BY <1>3, <2>3, ReturnMoves, TypeParts DEF AppInv
    <3>2. LockHeld'
      BY <2>1, <3>1, LockStep DEF AppInv, Boots
    <3> QED
      BY <1>1, <1>3, <2>1, <3>1, <3>2, FailStep, TypeParts DEF Outside, AppInv, FieldsOK
  <2> QED
    BY <2>2, <2>3
<1>4. CASE /\ dao # 0
           /\ dbs' = [dbs EXCEPT ![dao].open = FALSE]
           /\ Goto(a, "cacheNil")
           /\ UNCHANGED <<file, app, caches, queues, job, up, counts, histories>>
  <2>1. /\ UNCHANGED <<file, conf, lock, dao, cache, pusher, queue, caches, queues, job, up,
                       applies, mails, handled, overlap, refused, failed>>
    BY <1>4 DEF app, counts, histories
  <2>2. actor' \in [Actors -> ActorSet(Len(queues))] /\ Steps(a, "cacheNil")
    BY <1>4, GotoMoves, TypeParts DEF AppInv, Pcs
  <2>3. /\ dbs' \in Seq(DbSet(Len(caches))) /\ Len(dbs') = Len(dbs)
        /\ \A d \in 1..Len(dbs) : dbs'[d].open <=> dbs[d].open /\ d # dao
    <3>1. PICK r : r = [dbs[dao] EXCEPT !.open = FALSE]
      OBVIOUS
    <3>2. dao \in 1..Len(dbs) /\ dbs \in Seq(DbSet(Len(caches)))
      BY <1>4, TypeParts DEF AppInv, HoldsOK, DbsOK
    <3>3. dbs[dao] \in DbSet(Len(caches))
      BY <3>2
    <3>4. r \in DbSet(Len(caches)) /\ r.open = FALSE
      BY <3>1, <3>3 DEF DbSet
    <3>5. dbs' = [dbs EXCEPT ![dao] = r]
      BY <1>4, <3>1
    <3> QED
      BY <3>2, <3>4, <3>5, ExceptSeq
  <2>4. Pc(a)' = "cacheNil"
    BY <2>2, PcSteps DEF Steps
  <2>5. TypeOK'
    <3>1. FieldsOK' /\ HoldsOK'
      BY <2>1, <2>3, TypeParts DEF AppInv, FieldsOK, HoldsOK
    <3>2. DbsOK' /\ CachesOK' /\ QueuesOK' /\ ActorsOK' /\ JobsOK'
      BY <2>1, <2>2, <2>3, TypeParts DEF AppInv, DbsOK, CachesOK, QueuesOK, ActorsOK, JobsOK
    <3> QED
      BY <3>1, <3>2, TypePartsPrime
  <2>6. LockHeld' /\ HandleFit' /\ CacheFit'
    BY <1>1, <2>1, <2>2, LockStep, HandleStep, CacheFitStep DEF AppInv, Steps, Boots, ForgetsDao
  <2>7. Built(a)'
    BY <2>4 DEF Built
  <2>8. ~ overlap /\ ~ failed' /\ AloneActive(a) => Left(a)'
    <3> SUFFICES ASSUME ~ overlap, ~ failed', AloneActive(a)
                 PROVE  Left(a)'
      OBVIOUS
    <3>1. Left(a)
      BY <2>1, LeftNow
    <3>2. Dbs' = {}
      BY <1>1, <2>3, <3>1 DEF Left, Dbs, DbsLeft, Closes
    <3> QED
      BY <1>1, <2>1, <2>4, <3>1, <3>2 DEF Left, Caches, Queues, CachesLeft, QueuesLeft, Closes
  <2>9. ~ overlap /\ ~ failed' /\ ~ refused' /\ AloneActive(a) => Configured(a)'
    BY <1>1, <2>1, <2>4, FollowNow DEF Configured
  <2> QED
    BY <1>1, <2>1, <2>2, <2>5, <2>6, <2>7, <2>8, <2>9, GoStep DEF Steps, Outside, Closes
<1> QED
  BY <1>2, <1>3, <1>4 DEF DbClose

LEMMA CacheCloseStep ==
    ASSUME AppInv, up = "running", NEW a \in Actors, CacheClose(a)
    PROVE  AppInv'
<1>1. Pc(a) = "cacheClose"
  BY DEF CacheClose, Pc
<1>2. CASE cache = 0 /\ Panic(a)
  BY <1>1, <1>2, ActorPanics
<1>3. CASE /\ cache # 0
           /\ caches' = [caches EXCEPT ![cache] = FALSE]
           /\ Goto(a, "daoNil")
           /\ UNCHANGED <<file, app, dbs, queues, job, up, counts, histories>>
  <2>1. /\ UNCHANGED <<file, conf, lock, dao, cache, pusher, queue, dbs, queues, job, up,
                       applies, mails, handled, overlap, refused, failed>>
    BY <1>3 DEF app, counts, histories
  <2>2. actor' \in [Actors -> ActorSet(Len(queues))] /\ Steps(a, "daoNil")
    BY <1>3, GotoMoves, TypeParts DEF AppInv, Pcs
  <2>3. /\ caches' \in Seq(BOOLEAN) /\ Len(caches') = Len(caches)
        /\ \A c \in 1..Len(caches) : caches'[c] <=> caches[c] /\ c # cache
    BY <1>3, ExceptSeq, TypeParts DEF AppInv, HoldsOK, CachesOK
  <2>4. Pc(a)' = "daoNil"
    BY <2>2, PcSteps DEF Steps
  <2>5. TypeOK'
    <3>1. FieldsOK' /\ HoldsOK'
      BY <2>1, <2>3, TypeParts DEF AppInv, FieldsOK, HoldsOK
    <3>2. DbsOK' /\ CachesOK' /\ QueuesOK' /\ ActorsOK' /\ JobsOK'
      BY <2>1, <2>2, <2>3, TypeParts DEF AppInv, DbsOK, CachesOK, QueuesOK, ActorsOK, JobsOK
    <3> QED
      BY <3>1, <3>2, TypePartsPrime
  <2>6. LockHeld' /\ HandleFit' /\ CacheFit'
    BY <1>1, <2>1, <2>2, LockStep, HandleStep, CacheFitStep DEF AppInv, Steps, Boots, ForgetsDao
  <2>7. Built(a)'
    BY <2>4 DEF Built
  <2>8. ~ overlap /\ ~ failed' /\ AloneActive(a) => Left(a)'
    <3> SUFFICES ASSUME ~ overlap, ~ failed', AloneActive(a)
                 PROVE  Left(a)'
      OBVIOUS
    <3>1. Left(a)
      BY <2>1, LeftNow
    <3>2. Caches' = {}
      BY <1>1, <2>3, <3>1 DEF Left, Caches, CachesLeft, Closes
    <3> QED
      BY <1>1, <2>1, <2>4, <3>1, <3>2 DEF Left, Dbs, Queues, DbsLeft, QueuesLeft, Closes
  <2>9. ~ overlap /\ ~ failed' /\ ~ refused' /\ AloneActive(a) => Configured(a)'
    BY <1>1, <2>1, <2>4, FollowNow DEF Configured
  <2> QED
    BY <1>1, <2>1, <2>2, <2>5, <2>6, <2>7, <2>8, <2>9, GoStep DEF Steps, Outside, Closes
<1> QED
  BY <1>2, <1>3 DEF CacheClose

LEMMA SetConfStep ==
    ASSUME AppInv, up = "running", NEW a \in Actors, SetConf(a)
    PROVE  AppInv'
<1>1. /\ UNCHANGED <<file, lock, dao, cache, pusher, queue, objects, job, up, counts, histories>>
      /\ UNCHANGED <<dbs, caches, queues, applies, mails, handled, overlap, refused, failed>>
      /\ conf' = actor[a].yaml /\ Pc(a) = "setConf"
  BY DEF SetConf, objects, counts, histories, Pc
<1>2. actor' \in [Actors -> ActorSet(Len(queues))] /\ Steps(a, "dbNil")
  BY GotoMoves, TypeParts DEF AppInv, SetConf, Pcs
<1>3. Pc(a)' = "dbNil" /\ \A b \in Actors \ {a} : Pc(b)' = Pc(b)
  BY <1>2, PcSteps DEF Steps
<1>4. TypeOK'
  <2>1. conf' \in Yamls
    BY <1>1, TypeParts DEF AppInv, ActorsOK, ActorSet
  <2>2. FieldsOK' /\ HoldsOK'
    BY <1>1, <2>1, TypeParts DEF AppInv, FieldsOK, HoldsOK
  <2> QED
    BY <1>1, <1>2, <2>2, TypeStep DEF AppInv
<1>5. LockHeld'
  BY <1>1, <1>2, LockStep DEF AppInv, Steps, Boots
<1>6. HandleFit' /\ CacheFit'
  BY <1>3 DEF HandleFit, CacheFit, ForgetsDao
<1>7. Built(a)'
  BY <1>3 DEF Built
<1>8. ~ overlap /\ ~ failed' /\ AloneActive(a) => Left(a)'
  <2> SUFFICES ASSUME ~ overlap, ~ failed', AloneActive(a)
               PROVE  Left(a)'
    OBVIOUS
  <2>1. Left(a)
    BY <1>1, LeftNow
  <2> QED
    BY <1>1, <1>3, <2>1 DEF Left, Dbs, Caches, Queues, DbsLeft, CachesLeft, QueuesLeft, Closes
<1>9. ~ overlap /\ ~ failed' /\ ~ refused' /\ AloneActive(a) => Configured(a)'
  BY <1>1, <1>3, FollowNow DEF Configured
<1> QED
  BY <1>1, <1>2, <1>4, <1>5, <1>6, <1>7, <1>8, <1>9, GoStep DEF Steps, Outside, Closes

LEMMA DaoNilStep ==
    ASSUME AppInv, up = "running", NEW a \in Actors, DaoNil(a)
    PROVE  AppInv'
<1>1. /\ UNCHANGED <<file, conf, lock, cache, pusher, queue, objects, job, up, counts, histories>>
      /\ UNCHANGED <<dbs, caches, queues, applies, mails, handled, overlap, refused, failed>>
      /\ dao' = 0 /\ Pc(a) = "daoNil"
  BY DEF DaoNil, objects, counts, histories, Pc
<1>2. actor' \in [Actors -> ActorSet(Len(queues))] /\ Steps(a, "cacheDrop")
  BY GotoMoves, TypeParts DEF AppInv, DaoNil, Pcs
<1>3. Pc(a)' = "cacheDrop" /\ \A b \in Actors \ {a} : Pc(b)' = Pc(b)
  BY <1>2, PcSteps DEF Steps
<1>4. TypeOK'
  <2>1. FieldsOK' /\ HoldsOK'
    BY <1>1, TypeParts DEF AppInv, FieldsOK, HoldsOK, DbsOK
  <2> QED
    BY <1>1, <1>2, <2>1, TypeStep DEF AppInv
<1>5. LockHeld'
  BY <1>1, <1>2, LockStep DEF AppInv, Steps, Boots
<1>6. HandleFit' /\ CacheFit'
  BY <1>1, <1>2, CacheFitStep DEF AppInv, HandleFit, Steps
<1>7. Built(a)'
  BY <1>3 DEF Built
<1>8. ~ overlap /\ ~ failed' /\ AloneActive(a) => Left(a)'
  <2> SUFFICES ASSUME ~ overlap, ~ failed', AloneActive(a)
               PROVE  Left(a)'
    OBVIOUS
  <2>1. Left(a)
    BY <1>1, LeftNow
  <2> QED
    BY <1>1, <1>3, <2>1 DEF Left, Dbs, Caches, Queues, DbsLeft, CachesLeft, QueuesLeft, Closes
<1>9. ~ overlap /\ ~ failed' /\ ~ refused' /\ AloneActive(a) => Configured(a)'
  BY <1>1, <1>3, FollowNow DEF Configured
<1> QED
  BY <1>1, <1>2, <1>4, <1>5, <1>6, <1>7, <1>8, <1>9, GoStep DEF Steps, Outside, Closes

(* The services are disposed, or made, one after the other.                *)
LEMMA TodoMoves ==
    ASSUME ActorsOK, NEW a \in Actors, NEW p \in Pcs, NEW t \in SUBSET Services,
           \/ actor' = [actor EXCEPT ![a].pc = p, ![a].todo = t]
           \/ p = Pc(a) /\ actor' = [actor EXCEPT ![a].todo = t]
    PROVE  /\ actor' \in [Actors -> ActorSet(Len(queues))]
           /\ Moves(a, p, t, actor[a].q, actor[a].yaml)
<1>1. actor[a] \in ActorSet(Len(queues))
  BY DEF ActorsOK
<1>2. CASE actor' = [actor EXCEPT ![a].pc = p, ![a].todo = t]
  <2>1. PICK r : r = [actor[a] EXCEPT !.pc = p, !.todo = t]
    OBVIOUS
  <2>2. /\ r \in ActorSet(Len(queues)) /\ r.pc = p
        /\ r.todo = t /\ r.q = actor[a].q /\ r.yaml = actor[a].yaml
    BY <1>1, <2>1 DEF ActorSet
  <2>3. actor' = [actor EXCEPT ![a] = r]
    BY <1>2, <2>1 DEF ActorsOK
  <2> QED
    BY <2>2, <2>3, Becomes
<1>3. CASE p = Pc(a) /\ actor' = [actor EXCEPT ![a].todo = t]
  <2>1. PICK r : r = [actor[a] EXCEPT !.todo = t]
    OBVIOUS
  <2>2. /\ r \in ActorSet(Len(queues)) /\ r.pc = p
        /\ r.todo = t /\ r.q = actor[a].q /\ r.yaml = actor[a].yaml
    BY <1>1, <1>3, <2>1 DEF ActorSet, Pc
  <2>3. actor' = [actor EXCEPT ![a] = r]
    BY <1>3, <2>1
  <2> QED
    BY <2>2, <2>3, Becomes
<1> QED
  BY <1>2, <1>3

LEMMA CacheDropStep ==
    ASSUME AppInv, up = "running", NEW a \in Actors, CacheDrop(a)
    PROVE  AppInv'
<1>1. /\ UNCHANGED <<file, conf, lock, dao, pusher, queue, objects, job, up, counts, histories>>
      /\ UNCHANGED <<dbs, caches, queues, applies, mails, handled, overlap, refused, failed>>
      /\ cache' = 0 /\ Pc(a) = "cacheDrop"
  BY DEF CacheDrop, objects, counts, histories, Pc
<1>2. /\ actor' \in [Actors -> ActorSet(Len(queues))]
      /\ Moves(a, "dispose", Services, actor[a].q, actor[a].yaml)
  BY TodoMoves, TypeParts DEF AppInv, CacheDrop, Pcs, Services
<1>3. /\ Pc(a)' = "dispose" /\ Todo(a)' = Services
      /\ \A b \in Actors \ {a} : Pc(b)' = Pc(b)
  BY <1>2, PcSteps
<1>4. TypeOK'
  <2>1. FieldsOK' /\ HoldsOK'
    BY <1>1, TypeParts DEF AppInv, FieldsOK, HoldsOK, CachesOK
  <2> QED
    BY <1>1, <1>2, <2>1, TypeStep DEF AppInv
<1>5. LockHeld'
  BY <1>1, <1>2, LockStep DEF AppInv, Boots
<1>6. HandleFit' /\ CacheFit'
  BY <1>1, <1>2, HandleStep DEF AppInv, CacheFit, ForgetsDao
<1>7. Built(a)'
  BY <1>3 DEF Built
<1>8. ~ overlap /\ ~ failed' /\ AloneActive(a) => Left(a)'
  <2> SUFFICES ASSUME ~ overlap, ~ failed', AloneActive(a)
               PROVE  Left(a)'
    OBVIOUS
  <2>1. Left(a)
    BY <1>1, LeftNow
  <2> QED
    BY <1>1, <1>3, <2>1 DEF Left, Dbs, Caches, Queues, DbsLeft, CachesLeft, QueuesLeft, Closes,
                             Services
<1>9. ~ overlap /\ ~ failed' /\ ~ refused' /\ AloneActive(a) => Configured(a)'
  BY <1>1, <1>3, FollowNow DEF Configured
<1> QED
  BY <1>1, <1>2, <1>4, <1>5, <1>6, <1>7, <1>8, <1>9, GoStep DEF Outside, Closes

LEMMA DisposeNotifyStep ==
    ASSUME AppInv, up = "running", NEW a \in Actors, DisposeNotify(a)
    PROVE  AppInv'
<1>1. /\ UNCHANGED <<file, conf, lock, dao, cache, queue, objects, job, up, counts, histories>>
      /\ UNCHANGED <<dbs, caches, queues, applies, mails, handled, overlap, refused, failed>>
      /\ pusher' = 0 /\ Pc(a) = "dispose"
  BY DEF DisposeNotify, objects, counts, histories, Pc
<1> DEFINE t == Todo(a) \ {"notify"}
<1>2. /\ actor' \in [Actors -> ActorSet(Len(queues))]
      /\ Moves(a, "dispose", t, actor[a].q, actor[a].yaml)
  <2>1. t \in SUBSET Services /\ actor' = [actor EXCEPT ![a].todo = t]
    BY TypeParts DEF AppInv, ActorsOK, ActorSet, Todo, DisposeNotify
  <2> HIDE DEF t
  <2> QED
    BY <1>1, <2>1, TodoMoves, TypeParts DEF AppInv, Pcs
<1>3. /\ Pc(a)' = "dispose" /\ Todo(a)' = t
      /\ \A b \in Actors \ {a} : Pc(b)' = Pc(b)
  BY <1>2, PcSteps
<1>4. TypeOK'
  <2>1. FieldsOK' /\ HoldsOK'
    BY <1>1, TypeParts DEF AppInv, FieldsOK, HoldsOK, DbsOK
  <2> QED
    BY <1>1, <1>2, <2>1, TypeStep DEF AppInv
<1>5. LockHeld'
  BY <1>1, <1>2, LockStep DEF AppInv, Boots
<1>6. HandleFit' /\ CacheFit'
  BY <1>1, <1>2, HandleStep, CacheFitStep DEF AppInv, ForgetsDao
<1>7. Built(a)'
  BY <1>3 DEF Built
<1>8. ~ overlap /\ ~ failed' /\ AloneActive(a) => Left(a)'
  <2> SUFFICES ASSUME ~ overlap, ~ failed', AloneActive(a)
               PROVE  Left(a)'
    OBVIOUS
  <2>1. Left(a)
    BY <1>1, LeftNow
  <2>2. "email" \in t <=> "email" \in Todo(a)
    OBVIOUS
  <2> HIDE DEF t
  <2> QED
    BY <1>1, <1>3, <2>1, <2>2 DEF Left, Dbs, Caches, Queues, DbsLeft, CachesLeft, QueuesLeft, Closes
<1>9. ~ overlap /\ ~ failed' /\ ~ refused' /\ AloneActive(a) => Configured(a)'
  BY <1>1, <1>3, FollowNow DEF Configured
<1> HIDE DEF t
<1> QED
  BY <1>1, <1>2, <1>4, <1>5, <1>6, <1>7, <1>8, <1>9, GoStep DEF Outside, Closes

LEMMA DisposeEmailStep ==
    ASSUME AppInv, up = "running", NEW a \in Actors, DisposeEmail(a)
    PROVE  AppInv'
<1>1. /\ UNCHANGED <<file, conf, lock, dao, cache, pusher, queue, objects, job, up, counts,
                     overlap, refused, failed>>
      /\ UNCHANGED <<dbs, caches, queues>>
      /\ Pc(a) = "dispose" /\ "email" \in Todo(a)
  BY DEF DisposeEmail, app, histories, objects, Pc, Todo
<1> DEFINE t == Todo(a) \ {"email"}
<1>2. /\ actor' \in [Actors -> ActorSet(Len(queues))]
      /\ Moves(a, "mux", t, queue, actor[a].yaml)
  <2>1. PICK r : r = [actor[a] EXCEPT !.todo = t, !.pc = "mux", !.q = queue]
    OBVIOUS
  <2>2. actor[a] \in ActorSet(Len(queues)) /\ t \in SUBSET Services /\ queue \in 0..Len(queues)
    BY TypeParts DEF AppInv, ActorsOK, ActorSet, Todo, HoldsOK
  <2>3. actor' = [actor EXCEPT ![a] = r]
    BY <2>1, <2>2, TypeParts DEF DisposeEmail, Todo, ActorsOK, AppInv
  <2> HIDE DEF t
  <2>4. /\ r \in ActorSet(Len(queues)) /\ r.pc = "mux"
        /\ r.todo = t /\ r.q = queue /\ r.yaml = actor[a].yaml
    BY <2>1, <2>2 DEF ActorSet, Pcs
  <2> QED
    BY <2>3, <2>4, Becomes, TypeParts DEF AppInv
<1> HIDE DEF t
<1>3. /\ Pc(a)' = "mux" /\ Todo(a)' = t /\ (actor[a].q)' = queue
      /\ \A b \in Actors \ {a} : Pc(b)' = Pc(b)
  BY <1>2, PcSteps
<1>4. LockHeld'
  BY <1>1, <1>2, LockStep DEF AppInv, Boots
<1>5. Built(a)'
  BY <1>3 DEF Built
<1>6. ~ overlap /\ ~ failed' /\ AloneActive(a) => Left(a)'
  <2> SUFFICES ASSUME ~ overlap, ~ failed', AloneActive(a)
               PROVE  Left(a)'
    OBVIOUS
  <2>1. Left(a)
    BY <1>1, LeftNow
  <2> QED
    BY <1>1, <1>3, <2>1 DEF Left, Dbs, Caches, Queues, DbsLeft, CachesLeft, QueuesLeft, Closes
<1>7. queue # 0
  BY DEF AppInv, Numbered
<1> QED
  BY <1>1, <1>2, <1>4, <1>5, <1>6, <1>7, PassStep, TypeParts
     DEF AppInv, FieldsOK, ForgetsDao, Outside, Closes

LEMMA DisposedStep ==
    ASSUME AppInv, up = "running", NEW a \in Actors, Disposed(a)
    PROVE  AppInv'
<1>1. /\ UNCHANGED <<file, conf, lock, dao, cache, pusher, queue, objects, job, up, counts,
                     overlap, refused, failed>>
      /\ UNCHANGED <<dbs, caches, queues>>
      /\ Pc(a) = "dispose" /\ Todo(a) = {}
  BY DEF Disposed, app, histories, objects, Pc, Todo
<1>2. PICK p \in {"exit", "lock"} : actor' \in [Actors -> ActorSet(Len(queues))] /\ Steps(a, p)
  <2>1. PICK p \in {"exit", "lock"} : Goto(a, p)
    BY DEF Disposed
  <2>2. p \in Pcs
    BY DEF Pcs
  <2> QED
    BY <2>1, <2>2, GotoMoves, TypeParts DEF AppInv
<1>3. /\ Pc(a)' = p /\ Todo(a)' = Todo(a) /\ (actor[a].q)' = actor[a].q
      /\ \A b \in Actors \ {a} : Pc(b)' = Pc(b)
  BY <1>2, PcSteps DEF Steps, Todo
<1>4. LockHeld'
  BY <1>1, <1>2, LockStep DEF AppInv, Boots, Steps
<1>5. Built(a)'
  BY <1>3 DEF Built
<1>6. ~ overlap /\ ~ failed' /\ AloneActive(a) => Left(a)'
  <2> SUFFICES ASSUME ~ overlap, ~ failed', AloneActive(a)
               PROVE  Left(a)'
    OBVIOUS
  <2>1. Left(a)
    BY <1>1, LeftNow
  <2> QED
    BY <1>1, <1>3, <2>1 DEF Left, Dbs, Caches, Queues, DbsLeft, CachesLeft, QueuesLeft, Closes
<1> QED
  BY <1>1, <1>2, <1>4, <1>5, <1>6, PassStep, TypeParts
     DEF AppInv, FieldsOK, ForgetsDao, Outside, Closes, Steps

-----------------------------------------------------------------------------
(* The queue is closed: the channel, then the flag.                        *)

(* A step on one queue; the mails that wait in it are not its matter.      *)
LEMMA QueuePut ==
    ASSUME QueuesOK, NEW i \in 1..Len(queues), NEW r \in QueueSet,
           queues' = [queues EXCEPT ![i] = r]
    PROVE  /\ queues' \in Seq(QueueSet) /\ Len(queues') = Len(queues)
           /\ queues'[i] = r /\ \A j \in 1..Len(queues) : j # i => queues'[j] = queues[j]
<1>1. queues \in Seq(QueueSet)
  BY DEF QueuesOK
<1> HIDE DEF QueueSet
<1> QED
  BY <1>1, ExceptSeq

LEMMA CloseStep ==
    ASSUME AppInv, up = "running", NEW a \in Actors, NEW p \in {"closeCh", "closeFlag", "dispose"},
           Goto(a, p), Pc(a) \in Closes, NEW r \in QueueSet,
           queues' = [queues EXCEPT ![actor[a].q] = r],
           UNCHANGED <<file, app, dbs, caches, job, up, counts, histories>>,
           r.sent = queues[actor[a].q].sent /\ r.work = queues[actor[a].q].work,
           r.open => queues[actor[a].q].open, r.closed => ~ r.open,
           p \in {"closeFlag", "dispose"} => ~ r.open
    PROVE  AppInv'
<1> DEFINE k == actor[a].q
<1>1. /\ UNCHANGED <<file, conf, lock, dao, cache, pusher, queue, dbs, caches, job, up,
                     applies, mails, handled, overlap, refused, failed>>
  BY DEF app, counts, histories
<1>2. actor' \in [Actors -> ActorSet(Len(queues))] /\ Steps(a, p)
  <2>1. p \in Pcs
    BY DEF Pcs
  <2> QED
    BY <2>1, GotoMoves, TypeParts DEF AppInv
<1>3. k \in 1..Len(queues)
  BY TypeParts DEF AppInv, Numbered, ActorsOK, ActorSet
<1>4. /\ queues' \in Seq(QueueSet) /\ Len(queues') = Len(queues)
      /\ queues'[k] = r /\ \A j \in 1..Len(queues) : j # k => queues'[j] = queues[j]
  BY <1>3, QueuePut, TypeParts DEF AppInv
<1> HIDE DEF k
<1>5. /\ Pc(a)' = p /\ Todo(a)' = Todo(a) /\ (actor[a].q)' = actor[a].q
      /\ \A b \in Actors \ {a} : Pc(b)' = Pc(b) /\ actor'[b] = actor[b]
  BY <1>2, PcSteps DEF Steps, Todo
<1>6. TypeOK'
  <2>1. FieldsOK' /\ HoldsOK'
    BY <1>1, <1>4, TypeParts DEF AppInv, FieldsOK, HoldsOK
  <2>2. DbsOK' /\ CachesOK' /\ QueuesOK' /\ ActorsOK' /\ JobsOK'
    BY <1>1, <1>2, <1>4, TypeParts DEF AppInv, DbsOK, CachesOK, QueuesOK, ActorsOK, JobsOK
  <2> QED
    BY <2>1, <2>2, TypePartsPrime
<1>7. Numbered'
  <2>1. \A j \in 1..Len(queues) :
           queues'[j].sent = queues[j].sent /\ queues'[j].work = queues[j].work
    BY <1>4 DEF k
  <2>2. actor[a].q # 0
    BY DEF AppInv, Numbered
  <2> QED
    BY <1>1, <1>4, <1>5, <2>1, <2>2 DEF AppInv, Numbered
<1>8. ClosedInOrder'
  <2>1. \A j \in 1..Len(queues) : /\ queues'[j].closed => ~ queues'[j].open
                                  /\ queues'[j].open => queues[j].open
    BY <1>4 DEF k, AppInv, ClosedInOrder
  <2>2. \A b \in Actors : Pc(b) \in Closes => actor[b].q \in 1..Len(queues)
    BY TypeParts DEF AppInv, Numbered, ActorsOK, ActorSet
  <2>3. \A b \in Actors \ {a} : Pc(b) = "closeFlag" => ~ queues'[actor[b].q].open
    BY <2>1, <2>2 DEF AppInv, ClosedInOrder, Closes
  <2>4. p = "closeFlag" => ~ queues'[actor[a].q].open
    BY <1>4 DEF k
  <2> QED
    BY <1>4, <1>5, <2>1, <2>3, <2>4 DEF ClosedInOrder
<1>9. Pc(a) # "idle" /\ Pc(a) \notin Outside
  BY DEF Closes, Outside
<1>10. LockHeld' /\ OneActive' /\ HandleFit' /\ CacheFit' /\ SteadyJobs' /\ PanicsOnlyAroundRestart'
  BY <1>1, <1>2, <1>9, LockStep, OneStep, HandleStep, CacheFitStep, ActorStep
     DEF AppInv, Steps, Boots, Closes, ForgetsDao
<1>11. BootBuilds' /\ Serves'
  <2>1. p \notin Outside
    BY DEF Outside
  <2>2. Built(a)'
    BY <1>5 DEF Built
  <2> QED
    BY <1>1, <1>2, <1>9, <2>1, <2>2, BootStep, ServeStep DEF AppInv, Steps
<1>12. ~ overlap /\ ~ failed' /\ AloneActive(a) => Left(a)'
  <2> SUFFICES ASSUME ~ overlap, ~ failed', AloneActive(a)
               PROVE  Left(a)'
    OBVIOUS
  <2>1. Left(a)
    BY <1>1, LeftNow
  <2>2. k = queue /\ dao = 0 /\ cache = 0
    BY <2>1 DEF Left, k
  <2>3. Queues' \subseteq Queues
    BY <1>4 DEF k, Queues
  <2>4. Queues \subseteq {queue}
    BY <2>1 DEF Left, QueuesLeft
  <2>5. p \in {"closeFlag", "dispose"} => Queues' = {}
    BY <1>4, <2>2, <2>3, <2>4 DEF Queues
  <2>6. Dbs = {} /\ Caches = {}
    BY <2>1 DEF Left, DbsLeft, CachesLeft, Closes
  <2>7. Dbs' = {} /\ Caches' = {}
    BY <1>1, <2>6 DEF Dbs, Caches
  <2> QED
    BY <1>1, <1>5, <2>2, <2>3, <2>4, <2>5, <2>7 DEF Left, QueuesLeft, k
<1>13. ~ overlap /\ ~ failed' /\ ~ refused' /\ AloneActive(a) => Configured(a)'
  BY <1>1, <1>5, FollowNow DEF Configured, Closes
<1>14. NothingLeft' /\ FileFollowed'
  BY <1>1, <1>2, <1>9, <1>12, <1>13, LeftStep, FollowStep DEF AppInv, Steps
<1> QED
  BY <1>6, <1>7, <1>8, <1>10, <1>11, <1>14 DEF AppInv

LEMMA CloseMuxStep ==
    ASSUME AppInv, up = "running", NEW a \in Actors, CloseMux(a)
    PROVE  AppInv'
<1> DEFINE k == actor[a].q
<1>1. /\ Pc(a) = "mux" /\ Pc(a) \in Closes
      /\ UNCHANGED <<file, app, dbs, caches, job, up, counts, histories>>
  BY DEF CloseMux, Pc, Closes
<1>2. k \in 1..Len(queues) /\ queues \in Seq(QueueSet)
  BY <1>1, TypeParts DEF AppInv, Numbered, ActorsOK, ActorSet, QueuesOK
<1>3. queues[k] \in QueueSet
  BY <1>2
<1>4. CASE queues[k].closed
  <2>1. Goto(a, "dispose") /\ queues' = queues
    BY <1>4 DEF CloseMux
  <2>2. queues' = [queues EXCEPT ![k] = queues[k]]
    BY <2>1, <1>2
  <2>3. ~ queues[k].open
    BY <1>2, <1>4 DEF AppInv, ClosedInOrder
  <2> QED
    BY <1>1, <1>3, <2>1, <2>2, <2>3, CloseStep
<1>5. CASE ~ queues[k].closed
  <2>1. Goto(a, "closeCh") /\ queues' = [queues EXCEPT ![k].mux = a]
    BY <1>5 DEF CloseMux
  <2>2. PICK r : r = [queues[k] EXCEPT !.mux = a]
    OBVIOUS
  <2>3. queues' = [queues EXCEPT ![k] = r]
    BY <2>1, <2>2
  <2>4. /\ r \in QueueSet /\ r.sent = queues[k].sent /\ r.work = queues[k].work
        /\ r.open = queues[k].open /\ r.closed = queues[k].closed
    BY <1>3, <2>2 DEF QueueSet
  <2> QED
    BY <1>1, <1>5, <2>1, <2>3, <2>4, CloseStep
<1> QED
  BY <1>4, <1>5

LEMMA CloseChStep ==
    ASSUME AppInv, up = "running", NEW a \in Actors, CloseCh(a)
    PROVE  AppInv'
<1> DEFINE k == actor[a].q
<1>1. /\ Pc(a) = "closeCh" /\ Pc(a) \in Closes
      /\ Goto(a, "closeFlag") /\ queues' = [queues EXCEPT ![k].open = FALSE]
      /\ UNCHANGED <<file, app, dbs, caches, job, up, counts, histories>>
  BY DEF CloseCh, Pc, Closes
<1>2. k \in 1..Len(queues) /\ queues \in Seq(QueueSet)
  BY <1>1, TypeParts DEF AppInv, Numbered, ActorsOK, ActorSet, QueuesOK
<1>3. queues[k] \in QueueSet
  BY <1>2
<1>4. PICK r : r = [queues[k] EXCEPT !.open = FALSE]
  OBVIOUS
<1>5. queues' = [queues EXCEPT ![k] = r]
  BY <1>1, <1>4
<1>6. /\ r \in QueueSet /\ r.sent = queues[k].sent /\ r.work = queues[k].work
      /\ r.open = FALSE /\ r.closed = queues[k].closed
  BY <1>3, <1>4 DEF QueueSet
<1> QED
  BY <1>1, <1>5, <1>6, CloseStep

LEMMA CloseFlagStep ==
    ASSUME AppInv, up = "running", NEW a \in Actors, CloseFlag(a)
    PROVE  AppInv'
<1> DEFINE k == actor[a].q
<1>1. /\ Pc(a) = "closeFlag" /\ Pc(a) \in Closes
      /\ Goto(a, "dispose") /\ queues' = [queues EXCEPT ![k].closed = TRUE, ![k].mux = "free"]
      /\ UNCHANGED <<file, app, dbs, caches, job, up, counts, histories>>
  BY DEF CloseFlag, Pc, Closes
<1>2. k \in 1..Len(queues) /\ queues \in Seq(QueueSet)
  BY <1>1, TypeParts DEF AppInv, Numbered, ActorsOK, ActorSet, QueuesOK
<1>3. queues[k] \in QueueSet /\ ~ queues[k].open
  BY <1>1, <1>2 DEF AppInv, ClosedInOrder
<1>4. PICK r : r = [queues[k] EXCEPT !.closed = TRUE, !.mux = "free"]
  OBVIOUS
<1>5. queues' = [queues EXCEPT ![k] = r]
  <2> HIDE DEF k
  <2> QED
    BY <1>1, <1>2, <1>4
<1>6. /\ r \in QueueSet /\ r.sent = queues[k].sent /\ r.work = queues[k].work
      /\ r.open = queues[k].open
  BY <1>3, <1>4 DEF QueueSet
<1> QED
  BY <1>1, <1>3, <1>5, <1>6, CloseStep

-----------------------------------------------------------------------------
(* Bootstrap.                                                              *)

LEMMA LockTaken ==
    ASSUME AppInv, up = "running", NEW a \in Actors, Lock(a)
    PROVE  AppInv'
<1>1. /\ UNCHANGED <<file, conf, dao, cache, pusher, queue, objects, job, up, counts,
                     overlap, refused, failed>>
      /\ UNCHANGED <<dbs, caches, queues>>
      /\ Pc(a) = "lock" /\ lock = "free" /\ lock' = a
  BY DEF Lock, histories, objects, Pc
<1>2. actor' \in [Actors -> ActorSet(Len(queues))] /\ Steps(a, "zone")
  BY GotoMoves, TypeParts DEF AppInv, Lock, Pcs
<1>3. /\ Pc(a)' = "zone" /\ Todo(a)' = Todo(a) /\ (actor[a].q)' = actor[a].q
      /\ \A b \in Actors \ {a} : Pc(b)' = Pc(b)
  BY <1>2, PcSteps DEF Steps, Todo
<1>4. LockHeld'
  <2>1. "free" \notin Actors
    BY NamesAssumption DEF Actors
  <2> QED
    BY <1>1, <1>3, <2>1 DEF AppInv, LockHeld
<1>5. Built(a)'
  BY <1>3 DEF Built
<1>6. ~ overlap /\ ~ failed' /\ AloneActive(a) => Left(a)'
  <2> SUFFICES ASSUME ~ overlap, ~ failed', AloneActive(a)
               PROVE  Left(a)'
    OBVIOUS
  <2>1. Left(a)
    BY <1>1, LeftNow
  <2> QED
    BY <1>1, <1>3, <2>1 DEF Left, Dbs, Caches, Queues, DbsLeft, CachesLeft, QueuesLeft, Closes
<1> QED
  BY <1>1, <1>2, <1>4, <1>5, <1>6, PassStep, TypeParts
     DEF AppInv, FieldsOK, ForgetsDao, Outside, Closes, Steps

(* Who bootstraps and fails lets go of the mutex.                          *)
LEMMA BootFailsStep ==
    ASSUME AppInv, up = "running", NEW a \in Actors, Pc(a) \in Boots, BootFails(a)
    PROVE  AppInv'
<1>1. /\ UNCHANGED <<file, conf, dao, cache, pusher, queue, objects, job, up, counts, overlap,
                     refused>>
      /\ failed' = TRUE /\ lock' = "free" /\ Return(a)
  BY DEF BootFails
<1>2. actor' \in [Actors -> ActorSet(Len(queues))] /\ Moves(a, "idle", {}, 0, First)
  BY <1>1, ReturnMoves, TypeParts DEF AppInv
<1>3. LockHeld'
  BY <1>2, PcSteps DEF AppInv, LockHeld, Boots
<1> QED
  BY <1>1, <1>2, <1>3, FailStep DEF Boots, Outside

LEMMA ZoneStep ==
    ASSUME AppInv, up = "running", NEW a \in Actors, Zone(a)
    PROVE  AppInv'
<1>1. Pc(a) = "zone"
  BY DEF Zone, Pc
<1>2. CASE BootFails(a)
  BY <1>1, <1>2, BootFailsStep DEF Boots
<1>3. CASE Goto(a, "open") /\ UNCHANGED <<file, app, objects, job, up, counts, histories>>
  <2>1. /\ UNCHANGED <<file, conf, lock, dao, cache, pusher, queue, objects, job, up, counts,
                       overlap, refused, failed>>
        /\ UNCHANGED <<dbs, caches, queues>>
    BY <1>3 DEF app, histories, objects
  <2>2. actor' \in [Actors -> ActorSet(Len(queues))] /\ Steps(a, "open")
    BY <1>3, GotoMoves, TypeParts DEF AppInv, Pcs
  <2>3. Pc(a)' = "open" /\ Todo(a)' = Todo(a)
    BY <2>2, PcSteps DEF Steps, Todo
  <2>4. LockHeld'
    BY <1>1, <2>1, <2>2, LockStep DEF AppInv, Boots, Steps
  <2>5. Built(a)'
    BY <2>3 DEF Built
  <2>6. ~ overlap /\ ~ failed' /\ AloneActive(a) => Left(a)'
    BY <1>1, <2>1, <2>3, LeftNow DEF Left, Dbs, Caches, Queues, DbsLeft, CachesLeft, QueuesLeft,
                                     Closes
  <2> QED
    BY <1>1, <2>1, <2>2, <2>4, <2>5, <2>6, PassStep, TypeParts
       DEF AppInv, FieldsOK, ForgetsDao, Outside, Closes, Steps
<1> QED
  BY <1>2, <1>3 DEF Zone

(* What is known of an actor that bootstraps alone.                        *)
LEMMA AloneNow ==
    ASSUME AppInv, NEW a \in Actors, ~ failed, AloneIn(a), Pc(a) \in Boots
    PROVE  /\ Built(a)
           /\ dao # 0 => dbs[dao].open
           /\ dao # 0 /\ conf \notin Cached => dbs[dao].cache = 0 /\ Pc(a) # "adaptor"
           /\ conf \notin Cached => cache = 0
<1>1. \A b \in Actors : Pc(b) \notin ForgetsDao \cup {"cacheDrop"}
  BY DEF AloneIn, Outside, Boots, ForgetsDao
<1> QED
  BY <1>1 DEF AppInv, BootBuilds, HandleFit, CacheFit

LEMMA OpenStep ==
    ASSUME AppInv, up = "running", NEW a \in Actors, Open(a)
    PROVE  AppInv'
<1>1. Pc(a) = "open" /\ Pc(a) \in Boots
  BY DEF Open, Pc, Boots
<1>2. CASE BootFails(a)
  BY <1>1, <1>2, BootFailsStep
<1>3. CASE /\ IF dao # 0 THEN UNCHANGED <<dbs, dao>>
              ELSE /\ conf \notin NoDatabase
                   /\ dbs' = Append(dbs, [open |-> TRUE, cache |-> 0])
                   /\ dao' = Len(dbs) + 1
           /\ Goto(a, "cache")
           /\ UNCHANGED <<file, conf, lock, cache, pusher, queue, caches, queues, job, up,
                          counts, histories>>
  <2>1. /\ UNCHANGED <<file, conf, lock, cache, pusher, queue, caches, queues, job, up,
                       applies, mails, handled, overlap, refused, failed>>
    BY <1>3 DEF counts, histories
  <2>2. actor' \in [Actors -> ActorSet(Len(queues))] /\ Steps(a, "cache")
    BY <1>3, GotoMoves, TypeParts DEF AppInv, Pcs
  <2>3. /\ Pc(a)' = "cache" /\ Todo(a)' = Todo(a)
        /\ \A b \in Actors \ {a} : Pc(b)' = Pc(b)
    BY <2>2, PcSteps DEF Steps, Todo
  <2>4. dbs \in Seq(DbSet(Len(caches))) /\ dao \in 0..Len(dbs) /\ Len(caches) \in Nat
    BY TypeParts DEF AppInv, DbsOK, HoldsOK, CachesOK
  <2>5. /\ dbs' \in Seq(DbSet(Len(caches))) /\ Len(dbs) \in Nat /\ Len(dbs') >= Len(dbs)
        /\ dao' \in 1..Len(dbs')
        /\ dao # 0 => dbs' = dbs /\ dao' = dao
        /\ dao = 0 => /\ Len(dbs') = Len(dbs) + 1 /\ dao' = Len(dbs) + 1
                      /\ \A d \in 1..Len(dbs) : dbs'[d] = dbs[d]
                      /\ dbs'[dao'].open /\ dbs'[dao'].cache = 0
    <3>1. CASE dao # 0
      BY <1>3, <2>4, <3>1
    <3>2. CASE dao = 0
      <4>1. PICK r : r = [open |-> TRUE, cache |-> 0]
        OBVIOUS
      <4>2. r \in DbSet(Len(caches)) /\ r.open /\ r.cache = 0
        BY <2>4, <4>1 DEF DbSet
      <4>3. dbs' = Append(dbs, r) /\ dao' = Len(dbs) + 1
        BY <1>3, <3>2, <4>1
      <4> HIDE DEF DbSet
      <4> QED
        BY <2>4, <3>2, <4>2, <4>3, AppendProperties
    <3> QED
      BY <3>1, <3>2
  <2>6. TypeOK'
    <3>1. FieldsOK' /\ HoldsOK'
      BY <2>1, <2>5, TypeParts DEF AppInv, FieldsOK, HoldsOK
    <3>2. DbsOK' /\ CachesOK' /\ QueuesOK' /\ ActorsOK' /\ JobsOK'
      BY <2>1, <2>2, <2>5, TypeParts DEF AppInv, DbsOK, CachesOK, QueuesOK, ActorsOK, JobsOK
    <3> QED
      BY <3>1, <3>2, TypePartsPrime
  <2>7. LockHeld' /\ CacheFit'
    BY <1>1, <2>1, <2>2, LockStep, CacheFitStep DEF AppInv, Steps, Boots, ForgetsDao
  <2>8. HandleFit'
    <3>1. \A b \in Actors : Pc(b) = "adaptor" => b = a
      BY <1>1 DEF AppInv, LockHeld, Boots
    <3>2. \A b \in Actors : Pc(b)' # "adaptor"
      BY <1>1, <2>3, <3>1
    <3>3. (\A b \in Actors : Pc(b)' \notin ForgetsDao) => \A b \in Actors : Pc(b) \notin ForgetsDao
      BY <1>1, <2>3 DEF ForgetsDao
    <3> QED
      BY <2>1, <2>5, <3>2, <3>3 DEF AppInv, HandleFit
  <2>9. Built(a)'
    BY <2>3, <2>5 DEF Built
  <2>10. ~ overlap /\ ~ failed' /\ AloneActive(a) => Left(a)'
    <3> SUFFICES ASSUME ~ overlap, ~ failed', AloneActive(a)
                 PROVE  Left(a)'
      OBVIOUS
    <3>1. Left(a)
      BY <2>1, LeftNow
    <3>2. dao = 0 /\ cache = 0 /\ Dbs = {} /\ Caches = {} /\ Queues = {}
      BY <1>1, <3>1 DEF Left, DbsLeft, CachesLeft, QueuesLeft
    <3>3. Dbs' \subseteq {dao'}
      BY <2>5, <3>2 DEF Dbs
    <3>4. Caches' = {} /\ Queues' = {}
      BY <2>1, <3>2 DEF Caches, Queues
    <3> QED
      BY <2>1, <2>3, <3>2, <3>3, <3>4 DEF Left, DbsLeft, CachesLeft, QueuesLeft, Closes
  <2>11. ~ overlap /\ ~ failed' /\ ~ refused' /\ AloneActive(a) => Configured(a)'
    BY <1>1, <2>1, <2>3, FollowNow DEF Configured
  <2> QED
    BY <1>1, <2>1, <2>2, <2>6, <2>7, <2>8, <2>9, <2>10, <2>11, GoStep DEF Steps, Outside, Closes
<1> QED
  BY <1>2, <1>3 DEF Open

LEMMA NewCacheStep ==
    ASSUME AppInv, up = "running", NEW a \in Actors, NewCache(a)
    PROVE  AppInv'
<1>1. /\ Pc(a) = "cache" /\ Pc(a) \in Boots
      /\ UNCHANGED <<file, conf, lock, dao, pusher, queue, dbs, queues, job, up,
                     applies, mails, handled, overlap, refused, failed>>
  BY DEF NewCache, Pc, Boots, counts, histories
<1>2. /\ caches \in Seq(BOOLEAN) /\ dbs \in Seq(DbSet(Len(caches))) /\ Len(caches) \in Nat
      /\ cache \in 0..Len(caches)
  BY TypeParts DEF AppInv, DbsOK, HoldsOK, CachesOK
<1>3. PICK p \in {"adaptor", "sync"} :
        /\ Goto(a, p)
        /\ p = "adaptor" <=> conf \in Cached
        /\ p = "adaptor" => caches' = Append(caches, TRUE) /\ cache' = Len(caches) + 1
        /\ p = "sync" => UNCHANGED <<caches, cache>>
  <2>1. CASE conf \in Cached
    BY <2>1 DEF NewCache
  <2>2. CASE conf \notin Cached
    BY <2>2 DEF NewCache
  <2> QED
    BY <2>1, <2>2
<1>4. actor' \in [Actors -> ActorSet(Len(queues))] /\ Steps(a, p)
  <2>1. p \in Pcs
    BY DEF Pcs
  <2> QED
    BY <1>3, <2>1, GotoMoves, TypeParts DEF AppInv
<1>5. /\ Pc(a)' = p /\ Todo(a)' = Todo(a)
      /\ \A b \in Actors \ {a} : Pc(b)' = Pc(b)
  BY <1>4, PcSteps DEF Steps, Todo
<1>6. /\ caches' \in Seq(BOOLEAN) /\ Len(caches') \in Nat /\ Len(caches') >= Len(caches)
      /\ cache' \in 0..Len(caches')
      /\ p = "adaptor" => /\ Len(caches') = Len(caches) + 1 /\ cache' = Len(caches) + 1
                          /\ \A c \in 1..Len(caches) : caches'[c] = caches[c]
                          /\ caches'[cache']
  <2>1. CASE p = "sync"
    BY <1>2, <1>3, <2>1
  <2>2. CASE p = "adaptor"
    <3>1. PICK n \in BOOLEAN : n = TRUE
      OBVIOUS
    <3>2. caches' = Append(caches, n) /\ cache' = Len(caches) + 1
      BY <1>3, <2>2, <3>1
    <3>3. /\ caches' \in Seq(BOOLEAN) /\ Len(caches') = Len(caches) + 1
          /\ \A c \in 1..Len(caches) : caches'[c] = caches[c]
          /\ caches'[Len(caches) + 1] = n
      BY <1>2, <3>2, AppendProperties
    <3> QED
      BY <1>2, <2>2, <3>1, <3>2, <3>3
  <2> QED
    BY <2>1, <2>2
<1>7. TypeOK'
  <2>1. FieldsOK' /\ HoldsOK'
    BY <1>1, <1>6, TypeParts DEF AppInv, FieldsOK, HoldsOK
  <2>2. dbs \in Seq(DbSet(Len(caches')))
    <3>1. DbSet(Len(caches)) \subseteq DbSet(Len(caches'))
      BY <1>2, <1>6 DEF DbSet
    <3> HIDE DEF DbSet
    <3>2. dbs \in [1..Len(dbs) -> DbSet(Len(caches))] /\ Len(dbs) \in Nat
      BY <1>2
    <3>3. dbs \in [1..Len(dbs) -> DbSet(Len(caches'))]
      BY <3>1, <3>2
    <3> QED
      BY <3>2, <3>3
  <2>3. DbsOK' /\ CachesOK' /\ QueuesOK' /\ ActorsOK' /\ JobsOK'
    BY <1>1, <1>4, <1>6, <2>2, TypeParts DEF AppInv, DbsOK, CachesOK, QueuesOK, ActorsOK, JobsOK
  <2> QED
    BY <2>1, <2>3, TypePartsPrime
<1>8. LockHeld'
  BY <1>1, <1>4, LockStep DEF AppInv, Steps, Boots
<1>9. CacheFit'
  <2>1. (\A b \in Actors : Pc(b)' \notin ForgetsDao \cup {"cacheDrop"})
          => \A b \in Actors : Pc(b) \notin ForgetsDao \cup {"cacheDrop"}
    BY <1>1, <1>5 DEF ForgetsDao
  <2> QED
    BY <1>1, <1>3, <2>1 DEF AppInv, CacheFit
<1>10. HandleFit'
  <2>1. \A b \in Actors : Pc(b) \in {"adaptor", "cache"} => b = a
    BY <1>1 DEF AppInv, LockHeld, Boots
  <2>2. \A b \in Actors : Pc(b)' = "adaptor" => b = a /\ conf \in Cached
    BY <1>1, <1>3, <1>5, <2>1
  <2>3. (\A b \in Actors : Pc(b)' \notin ForgetsDao) => \A b \in Actors : Pc(b) \notin ForgetsDao
    BY <1>1, <1>5 DEF ForgetsDao
  <2> QED
    BY <1>1, <2>2, <2>3 DEF AppInv, HandleFit
<1>11. ~ failed' /\ AloneIn(a) => Built(a)'
  <2> SUFFICES ASSUME ~ failed', AloneIn(a)
               PROVE  Built(a)'
    OBVIOUS
  <2>1. /\ dao # 0
        /\ conf \notin Cached => dbs[dao].cache = 0 /\ cache = 0
    BY <1>1, AloneNow DEF Built
  <2>2. CASE p = "adaptor"
    BY <1>1, <1>2, <1>5, <1>6, <2>1, <2>2 DEF Built
  <2>3. CASE p = "sync"
    BY <1>1, <1>3, <1>5, <2>1, <2>3 DEF Built, CacheBuilt
  <2> QED
    BY <2>2, <2>3
<1>12. ~ overlap /\ ~ failed' /\ AloneActive(a) => Left(a)'
  <2> SUFFICES ASSUME ~ overlap, ~ failed', AloneActive(a)
               PROVE  Left(a)'
    OBVIOUS
  <2>1. Left(a)
    BY <1>1, LeftNow
  <2>2. Dbs \subseteq {dao} /\ Caches = {} /\ Queues = {}
    BY <1>1, <2>1 DEF Left, DbsLeft, CachesLeft, QueuesLeft, Closes
  <2>3. Dbs' \subseteq {dao'} /\ Queues' = {}
    BY <1>1, <2>2 DEF Dbs, Queues
  <2>4. Caches' \subseteq {cache'}
    <3>1. CASE p = "sync"
      BY <1>3, <2>2, <3>1 DEF Caches
    <3>2. CASE p = "adaptor"
      BY <1>2, <1>6, <2>2, <3>2 DEF Caches
    <3> QED
      BY <3>1, <3>2
  <2> QED
    BY <1>5, <2>3, <2>4 DEF Left, DbsLeft, CachesLeft, QueuesLeft, Closes
<1>13. ~ overlap /\ ~ failed' /\ ~ refused' /\ AloneActive(a) => Configured(a)'
  BY <1>1, <1>5, FollowNow DEF Configured
<1> QED
  BY <1>1, <1>4, <1>7, <1>8, <1>9, <1>10, <1>11, <1>12, <1>13, GoStep
     DEF Steps, Outside, Closes

LEMMA SetCacheStep ==
    ASSUME AppInv, up = "running", NEW a \in Actors, SetCache(a)
    PROVE  AppInv'
<1>1. Pc(a) = "adaptor" /\ Pc(a) \in Boots
  BY DEF SetCache, Pc, Boots
<1>2. CASE dao = 0 /\ Panic(a)
  BY <1>1, <1>2, ActorPanics
<1>3. CASE /\ dao # 0
           /\ dbs' = [dbs EXCEPT ![dao].cache = IF cache = 0 THEN -1 ELSE cache]
           /\ Goto(a, "sync")
           /\ UNCHANGED <<file, app, caches, queues, job, up, counts, histories>>
  <2>1. /\ UNCHANGED <<file, conf, lock, dao, cache, pusher, queue, caches, queues, job, up,
                       applies, mails, handled, overlap, refused, failed>>
    BY <1>3 DEF app, counts, histories
  <2>2. actor' \in [Actors -> ActorSet(Len(queues))] /\ Steps(a, "sync")
    BY <1>3, GotoMoves, TypeParts DEF AppInv, Pcs
  <2>3. /\ Pc(a)' = "sync" /\ Todo(a)' = Todo(a)
        /\ \A b \in Actors \ {a} : Pc(b)' = Pc(b)
    BY <2>2, PcSteps DEF Steps, Todo
  <2>4. /\ dbs \in Seq(DbSet(Len(caches))) /\ dao \in 1..Len(dbs) /\ Len(caches) \in Nat
        /\ cache \in 0..Len(caches)
    BY <1>3, TypeParts DEF AppInv, DbsOK, HoldsOK, CachesOK
  <2>5. /\ dbs' \in Seq(DbSet(Len(caches))) /\ Len(dbs') = Len(dbs)
        /\ \A d \in 1..Len(dbs) : dbs'[d].open = dbs[d].open
        /\ cache # 0 => dbs'[dao].cache = cache
    <3>1. PICK c : c = IF cache = 0 THEN -1 ELSE cache
      OBVIOUS
    <3>2. PICK r : r = [dbs[dao] EXCEPT !.cache = c]
      OBVIOUS
    <3>3. dbs[dao] \in DbSet(Len(caches))
      BY <2>4
    <3>4. c \in -1..Len(caches) /\ (cache # 0 => c = cache)
      BY <2>4, <3>1
    <3>5. r \in DbSet(Len(caches)) /\ r.open = dbs[dao].open /\ r.cache = c
      BY <3>2, <3>3, <3>4 DEF DbSet
    <3>6. dbs' = [dbs EXCEPT ![dao] = r]
      BY <1>3, <3>1, <3>2
    <3> HIDE DEF DbSet
    <3> QED
      BY <2>4, <3>4, <3>5, <3>6, ExceptSeq
  <2>6. TypeOK'
    <3>1. FieldsOK' /\ HoldsOK'
      BY <2>1, <2>5, TypeParts DEF AppInv, FieldsOK, HoldsOK
    <3>2. DbsOK' /\ CachesOK' /\ QueuesOK' /\ ActorsOK' /\ JobsOK'
      BY <2>1, <2>2, <2>5, TypeParts DEF AppInv, DbsOK, CachesOK, QueuesOK, ActorsOK, JobsOK
    <3> QED
      BY <3>1, <3>2, TypePartsPrime
  <2>7. LockHeld' /\ CacheFit'
    BY <1>1, <2>1, <2>2, LockStep, CacheFitStep DEF AppInv, Steps, Boots, ForgetsDao
  <2>8. HandleFit'
    <3>1. (\A b \in Actors : Pc(b)' \notin ForgetsDao) => \A b \in Actors : Pc(b) \notin ForgetsDao
      BY <1>1, <2>3 DEF ForgetsDao
    <3>2. ~ failed /\ (\A b \in Actors : Pc(b) \notin ForgetsDao) =>
            conf \in Cached /\ dbs[dao].open
      BY <1>1, <1>3 DEF AppInv, HandleFit
    <3> QED
      BY <2>1, <2>4, <2>5, <3>1, <3>2 DEF HandleFit
  <2>9. ~ failed' /\ AloneIn(a) => Built(a)'
    <3> SUFFICES ASSUME ~ failed', AloneIn(a)
                 PROVE  Built(a)'
      OBVIOUS
    <3>1. Built(a) /\ conf \in Cached
      BY <1>1, <1>3, <2>1, AloneNow
    <3>2. dao # 0 /\ cache # 0 /\ caches[cache]
      BY <1>1, <3>1 DEF Built
    <3> QED
      BY <2>1, <2>3, <2>5, <3>1, <3>2 DEF Built, CacheBuilt
  <2>10. ~ overlap /\ ~ failed' /\ AloneActive(a) => Left(a)'
    <3> SUFFICES ASSUME ~ overlap, ~ failed', AloneActive(a)
                 PROVE  Left(a)'
      OBVIOUS
    <3>1. Left(a)
      BY <2>1, LeftNow
    <3>2. Dbs' = Dbs
      BY <2>5 DEF Dbs
    <3> QED
      BY <1>1, <2>1, <2>3, <3>1, <3>2 DEF Left, Caches, Queues, DbsLeft, CachesLeft, QueuesLeft,
                                         Closes
  <2>11. ~ overlap /\ ~ failed' /\ ~ refused' /\ AloneActive(a) => Configured(a)'
    BY <1>1, <2>1, <2>3, FollowNow DEF Configured
  <2> QED
    BY <1>1, <2>1, <2>2, <2>6, <2>7, <2>8, <2>9, <2>10, <2>11, GoStep DEF Steps, Outside, Closes
<1> QED
  BY <1>2, <1>3 DEF SetCache

LEMMA SyncStep ==
    ASSUME AppInv, up = "running", NEW a \in Actors, Sync(a)
    PROVE  AppInv'
<1>1. Pc(a) = "sync" /\ Pc(a) \in Boots
  BY DEF Sync, Pc, Boots
<1>2. CASE Panic(a)
  BY <1>1, <1>2, ActorPanics
<1>3. CASE /\ actor' = [actor EXCEPT ![a].pc = "init", ![a].todo = Services]
           /\ UNCHANGED <<file, app, objects, job, up, counts, histories>>
  <2>1. /\ UNCHANGED <<file, conf, lock, dao, cache, pusher, queue, objects, job, up, counts,
                       overlap, refused, failed>>
        /\ UNCHANGED <<dbs, caches, queues>>
    BY <1>3 DEF app, histories, objects
  <2>2. /\ actor' \in [Actors -> ActorSet(Len(queues))]
        /\ Moves(a, "init", Services, actor[a].q, actor[a].yaml)
    BY <1>3, TodoMoves, TypeParts DEF AppInv, Pcs, Services
  <2>3. Pc(a)' = "init" /\ Todo(a)' = Services
    BY <2>2, PcSteps
  <2>4. LockHeld'
    BY <1>1, <2>1, <2>2, LockStep DEF AppInv, Boots
  <2>5. ~ failed' /\ AloneIn(a) => Built(a)'
    BY <1>1, <2>1, <2>3, AloneNow DEF Built, CacheBuilt, Services
  <2>6. ~ overlap /\ ~ failed' /\ AloneActive(a) => Left(a)'
    BY <1>1, <2>1, <2>3, LeftNow DEF Left, Dbs, Caches, Queues, DbsLeft, CachesLeft, QueuesLeft,
                                     Closes, Services
  <2> QED
    BY <1>1, <2>1, <2>2, <2>4, <2>5, <2>6, PassStep, TypeParts
       DEF AppInv, FieldsOK, ForgetsDao, Outside, Closes
<1> QED
  BY <1>2, <1>3 DEF Sync

LEMMA InitEmailStep ==
    ASSUME AppInv, up = "running", NEW a \in Actors, InitEmail(a)
    PROVE  AppInv'
<1>1. /\ Pc(a) = "init" /\ Pc(a) \in Boots /\ "email" \in Todo(a)
      /\ UNCHANGED <<file, conf, lock, dao, cache, pusher, dbs, caches, job, up,
                     applies, mails, handled, overlap, refused, failed>>
      /\ queues' = Append(queues, NewQueue(conf)) /\ queue' = Len(queues) + 1
  BY DEF InitEmail, Pc, Todo, Boots, counts, histories
<1> DEFINE t == Todo(a) \ {"email"}
<1>2. /\ actor' \in [Actors -> ActorSet(Len(queues))]
      /\ Moves(a, "init", t, actor[a].q, actor[a].yaml)
  <2>1. t \in SUBSET Services /\ actor' = [actor EXCEPT ![a].todo = t]
    BY TypeParts DEF AppInv, ActorsOK, ActorSet, Todo, InitEmail
  <2> HIDE DEF t
  <2> QED
    BY <1>1, <2>1, TodoMoves, TypeParts DEF AppInv, Pcs
<1>3. /\ Pc(a)' = "init" /\ Todo(a)' = t /\ (actor[a].q)' = actor[a].q
      /\ \A b \in Actors \ {a} : Pc(b)' = Pc(b) /\ actor'[b] = actor[b]
  BY <1>2, PcSteps
<1>4. "email" \notin t /\ ("notify" \in t <=> "notify" \in Todo(a))
  OBVIOUS
<1> HIDE DEF t
<1>5. /\ queues' \in Seq(QueueSet) /\ Len(queues) \in Nat /\ Len(queues') = Len(queues) + 1
      /\ \A j \in 1..Len(queues) : queues'[j] = queues[j]
      /\ queues'[queue'] = NewQueue(conf)
      /\ NewQueue(conf).open /\ ~ NewQueue(conf).closed /\ NewQueue(conf).conf = conf
      /\ ~ NewQueue(conf).sent
  <2>1. PICK r : r = NewQueue(conf)
    OBVIOUS
  <2>2. conf \in Yamls /\ queues \in Seq(QueueSet)
    BY TypeParts DEF AppInv, FieldsOK, QueuesOK
  <2>3. 0 \in 0..MaxMails /\ << >> \in Seq(1..MaxMails)
    BY BoundAssumption
  <2>4. /\ r \in QueueSet
        /\ r.open /\ ~ r.closed /\ r.conf = conf /\ ~ r.sent
    BY <2>1, <2>2, <2>3 DEF NewQueue, QueueSet
  <2> HIDE DEF QueueSet
  <2>5. queues' = Append(queues, r)
    BY <1>1, <2>1
  <2>6. /\ queues' \in Seq(QueueSet) /\ Len(queues) \in Nat /\ Len(queues') = Len(queues) + 1
        /\ \A j \in 1..Len(queues) : queues'[j] = queues[j]
        /\ queues'[Len(queues) + 1] = r
    BY <2>2, <2>4, <2>5, AppendProperties
  <2> QED
    BY <1>1, <2>1, <2>4, <2>6
<1>6. TypeOK'
  <2>1. FieldsOK' /\ HoldsOK'
    BY <1>1, <1>5, TypeParts DEF AppInv, FieldsOK, HoldsOK
  <2>2. /\ ActorSet(Len(queues)) \subseteq ActorSet(Len(queues'))
        /\ JobSet(Len(queues)) \subseteq JobSet(Len(queues'))
    BY <1>5 DEF ActorSet, JobSet
  <2>3. ActorsOK' /\ JobsOK'
    <3>1. job \in [Jobs -> JobSet(Len(queues))]
      BY TypeParts DEF AppInv, JobsOK
    <3> HIDE DEF ActorSet, JobSet
    <3> QED
      BY <1>1, <1>2, <2>2, <3>1 DEF ActorsOK, JobsOK
  <2>4. DbsOK' /\ CachesOK' /\ QueuesOK'
    BY <1>1, <1>5, TypeParts DEF AppInv, DbsOK, CachesOK, QueuesOK
  <2> QED
    BY <2>1, <2>3, <2>4, TypePartsPrime
<1>7. Numbered'
  <2>1. \A j \in 1..Len(queues') : queues'[j].sent => queues'[j].work # 0
    BY <1>1, <1>5 DEF AppInv, Numbered
  <2> QED
    BY <1>1, <1>3, <1>5, <2>1 DEF AppInv, Numbered, Closes
<1>8. ClosedInOrder'
  <2>1. \A j \in 1..Len(queues') : queues'[j].closed => ~ queues'[j].open
    BY <1>1, <1>5 DEF AppInv, ClosedInOrder
  <2>2. \A b \in Actors : Pc(b) \in Closes => actor[b].q \in 1..Len(queues)
    BY TypeParts DEF AppInv, Numbered, ActorsOK, ActorSet
  <2>3. \A b \in Actors : Pc(b)' = "closeFlag" =>
           b # a /\ Pc(b) = "closeFlag" /\ actor'[b].q = actor[b].q
    BY <1>3
  <2>4. \A b \in Actors : Pc(b)' = "closeFlag" => ~ queues'[actor'[b].q].open
    BY <1>5, <2>2, <2>3 DEF AppInv, ClosedInOrder, Closes
  <2> QED
    BY <2>1, <2>4 DEF ClosedInOrder
<1>9. Pc(a) # "idle" /\ Pc(a) \notin Outside
  BY <1>1 DEF Outside
<1>10. LockHeld' /\ OneActive' /\ HandleFit' /\ CacheFit' /\ SteadyJobs' /\ PanicsOnlyAroundRestart'
  BY <1>1, <1>2, <1>9, LockStep, OneStep, HandleStep, CacheFitStep, ActorStep
     DEF AppInv, Boots, ForgetsDao
<1>11. BootBuilds' /\ Serves'
  <2>1. ~ failed' /\ AloneIn(a) => Built(a)'
    <3> SUFFICES ASSUME ~ failed', AloneIn(a)
                 PROVE  Built(a)'
      OBVIOUS
    <3>1. Built(a)
      BY <1>1, AloneNow
    <3>2. QueueBuilt'
      BY <1>1, <1>5 DEF QueueBuilt
    <3>3. CacheBuilt' /\ ("notify" \notin t => pusher' = dao')
      BY <1>1, <1>4, <3>1 DEF Built, CacheBuilt
    <3> QED
      BY <1>3, <3>2, <3>3 DEF Built
  <2> QED
    BY <1>1, <1>2, <1>9, <2>1, BootStep, ServeStep DEF AppInv, Outside
<1>12. ~ overlap /\ ~ failed' /\ AloneActive(a) => Left(a)'
  <2> SUFFICES ASSUME ~ overlap, ~ failed', AloneActive(a)
               PROVE  Left(a)'
    OBVIOUS
  <2>1. Left(a)
    BY <1>1, LeftNow
  <2>2. Queues = {} /\ Dbs \subseteq {dao} /\ Caches \subseteq {cache}
    BY <1>1, <2>1 DEF Left, DbsLeft, CachesLeft, QueuesLeft, Closes
  <2>3. Queues' \subseteq {queue'}
    BY <1>1, <1>5, <2>2 DEF Queues
  <2>4. Dbs' \subseteq {dao'} /\ Caches' \subseteq {cache'}
    BY <1>1, <2>2 DEF Dbs, Caches
  <2> QED
    BY <1>3, <1>4, <2>3, <2>4 DEF Left, DbsLeft, CachesLeft, QueuesLeft, Closes
<1>13. ~ overlap /\ ~ failed' /\ ~ refused' /\ AloneActive(a) => Configured(a)'
  BY <1>1, <1>3, FollowNow DEF Configured
<1>14. NothingLeft' /\ FileFollowed'
  BY <1>1, <1>2, <1>9, <1>12, <1>13, LeftStep, FollowStep DEF AppInv
<1> QED
  BY <1>6, <1>7, <1>8, <1>10, <1>11, <1>14 DEF AppInv

LEMMA InitNotifyStep ==
    ASSUME AppInv, up = "running", NEW a \in Actors, InitNotify(a)
    PROVE  AppInv'
<1>1. /\ UNCHANGED <<file, conf, lock, dao, cache, queue, objects, job, up, counts, histories>>
      /\ UNCHANGED <<dbs, caches, queues, applies, mails, handled, overlap, refused, failed>>
      /\ pusher' = dao /\ Pc(a) = "init" /\ Pc(a) \in Boots
  BY DEF InitNotify, objects, counts, histories, Pc, Boots
<1> DEFINE t == Todo(a) \ {"notify"}
<1>2. /\ actor' \in [Actors -> ActorSet(Len(queues))]
      /\ Moves(a, "init", t, actor[a].q, actor[a].yaml)
  <2>1. t \in SUBSET Services /\ actor' = [actor EXCEPT ![a].todo = t]
    BY TypeParts DEF AppInv, ActorsOK, ActorSet, Todo, InitNotify
  <2> HIDE DEF t
  <2> QED
    BY <1>1, <2>1, TodoMoves, TypeParts DEF AppInv, Pcs
<1>3. /\ Pc(a)' = "init" /\ Todo(a)' = t
      /\ \A b \in Actors \ {a} : Pc(b)' = Pc(b)
  BY <1>2, PcSteps
<1>4. "email" \in t <=> "email" \in Todo(a)
  OBVIOUS
<1> HIDE DEF t
<1>5. TypeOK'
  <2>1. FieldsOK' /\ HoldsOK'
    BY <1>1, TypeParts DEF AppInv, FieldsOK, HoldsOK
  <2> QED
    BY <1>1, <1>2, <2>1, TypeStep DEF AppInv
<1>6. LockHeld' /\ HandleFit' /\ CacheFit'
  BY <1>1, <1>2, LockStep, HandleStep, CacheFitStep DEF AppInv, Boots, ForgetsDao
<1>7. ~ failed' /\ AloneIn(a) => Built(a)'
  BY <1>1, <1>3, <1>4, AloneNow DEF Built, CacheBuilt, QueueBuilt
<1>8. ~ overlap /\ ~ failed' /\ AloneActive(a) => Left(a)'
  BY <1>1, <1>3, <1>4, LeftNow DEF Left, Dbs, Caches, Queues, DbsLeft, CachesLeft, QueuesLeft,
                                   Closes
<1>9. ~ overlap /\ ~ failed' /\ ~ refused' /\ AloneActive(a) => Configured(a)'
  BY <1>1, <1>3, FollowNow DEF Configured
<1> QED
  BY <1>1, <1>2, <1>5, <1>6, <1>7, <1>8, <1>9, GoStep DEF Outside, Closes

(* The end of a restart: what it has built serves, if nobody else is in    *)
(* one.                                                                    *)
LEMMA BootedStep ==
    ASSUME AppInv, up = "running", NEW a \in Actors, Booted(a)
    PROVE  AppInv'
<1>1. /\ UNCHANGED <<file, conf, dao, cache, pusher, queue, objects, job, up, counts, histories>>
      /\ UNCHANGED <<dbs, caches, queues, applies, mails, handled, overlap, refused, failed>>
      /\ Pc(a) = "init" /\ Todo(a) = {} /\ lock' = "free" /\ Return(a)
  BY DEF Booted, objects, counts, histories, Pc, Todo
<1>2. actor' \in [Actors -> ActorSet(Len(queues))] /\ Moves(a, "idle", {}, 0, First)
  BY <1>1, ReturnMoves, TypeParts DEF AppInv
<1>3. /\ Pc(a)' = "idle" /\ Todo(a)' = {}
      /\ \A b \in Actors \ {a} : Pc(b)' = Pc(b)
  BY <1>2, PcSteps
<1>4. TypeOK'
  <2>1. FieldsOK' /\ HoldsOK'
    BY <1>1, TypeParts DEF AppInv, FieldsOK, HoldsOK
  <2> QED
    BY <1>1, <1>2, <2>1, TypeStep DEF AppInv
<1>5. LockHeld'
  BY <1>1, <1>3 DEF AppInv, LockHeld, Boots
<1>6. HandleFit' /\ CacheFit'
  BY <1>1, <1>2, HandleStep, CacheFitStep DEF AppInv, ForgetsDao
<1>7. Numbered' /\ ClosedInOrder' /\ OneActive' /\ SteadyJobs' /\ PanicsOnlyAroundRestart'
  BY <1>1, <1>2, StillStep DEF Closes
<1>8. BootBuilds'
  BY <1>1, <1>2, <1>3, BootStep DEF AppInv, Outside, Built
<1>9. Serves'
  <2> SUFFICES ASSUME ~ failed', \A b \in Actors : Pc(b)' \in Outside
               PROVE  (CacheBuilt /\ pusher = dao /\ QueueBuilt)'
    BY DEF Serves
  <2>1. AloneIn(a)
    BY <1>3 DEF AloneIn
  <2>2. Built(a)
    BY <1>1, <2>1, AloneNow DEF Boots
  <2> QED
    BY <1>1, <2>2 DEF Built, CacheBuilt, QueueBuilt
<1>10. ~ overlap /\ ~ failed' /\ AloneActive(a) => Left(a)'
  BY <1>1, <1>3, LeftNow DEF Left, Dbs, Caches, Queues, DbsLeft, CachesLeft, QueuesLeft, Closes
<1>11. ~ overlap /\ ~ failed' /\ ~ refused' /\ AloneActive(a) => Configured(a)'
  BY <1>1, <1>3, FollowNow DEF Configured
<1>12. NothingLeft' /\ FileFollowed'
  BY <1>1, <1>2, <1>10, <1>11, LeftStep, FollowStep DEF AppInv
<1> QED
  BY <1>4, <1>5, <1>6, <1>7, <1>8, <1>9, <1>12 DEF AppInv

-----------------------------------------------------------------------------
(* Requests before they touch the application, and the end of the process. *)

(* While nobody is active and no restart has failed, it serves.            *)
LEMMA ServingNow ==
    ASSUME AppInv, Quiet, ~ failed
    PROVE  /\ CacheBuilt /\ pusher = dao /\ QueueBuilt
           /\ Usable(dao) /\ dbs[dao].open
<1>1. \A a \in Actors : Pc(a) = "idle"
  BY DEF Quiet, Pc
<1>2. CacheBuilt /\ pusher = dao /\ QueueBuilt
  BY <1>1 DEF AppInv, Serves, Outside
<1>3. cache \in 0..Len(caches)
  BY TypeParts DEF AppInv, HoldsOK
<1>4. Usable(dao)
  BY <1>2, <1>3 DEF CacheBuilt, Usable
<1>5. dbs[dao].open
  BY <1>1, <1>2 DEF AppInv, HandleFit, CacheBuilt, ForgetsDao
<1> QED
  BY <1>2, <1>4, <1>5

(* A request begins, or finds no handle and panics.                        *)
LEMMA ApplyStep ==
    ASSUME AppInv, up = "running", NEW a \in Admins, NEW y \in Yamls, Apply(a, y)
    PROVE  AppInv'
<1>1. a \in Actors /\ Pc(a) = "idle"
  BY DEF Apply, Actors, Pc
<1>2. CASE ~ Usable(dao) /\ Panic(a)
  <2>1. a \in UpSet /\ a \notin Jobs
    BY <1>1, NamesAssumption DEF UpSet
  <2> QED
    BY <1>2, <2>1, ServingNow, PanicStep
<1>3. CASE /\ file' = Empty
           /\ actor' = [actor EXCEPT ![a] = [IdleActor EXCEPT !.pc = "write", !.yaml = y]]
           /\ applies' = applies + 1
           /\ Begins(a)
           /\ UNCHANGED <<app, objects, up, mails, handled, refused, failed>>
  <2>1. PICK r : r = [IdleActor EXCEPT !.pc = "write", !.yaml = y]
    OBVIOUS
  <2>2. /\ r \in ActorSet(Len(queues)) /\ r.pc = "write" /\ r.todo = {} /\ r.q = 0
        /\ r.yaml = y
    <3>1. PICK i : i = IdleActor
      OBVIOUS
    <3>2. i \in ActorSet(Len(queues)) /\ i.todo = {} /\ i.q = 0
      BY <3>1, ConfAssumption DEF IdleActor, ActorSet, Pcs
    <3>3. r = [i EXCEPT !.pc = "write", !.yaml = y]
      BY <2>1, <3>1
    <3> QED
      BY <3>2, <3>3 DEF ActorSet, Pcs
  <2>3. actor' \in [Actors -> ActorSet(Len(queues))] /\ Moves(a, "write", {}, 0, y)
    BY <1>1, <1>3, <2>1, <2>2, Becomes, TypeParts DEF AppInv
  <2>4. /\ JobsOK' /\ Numbered' /\ ClosedInOrder' /\ OneActive' /\ NothingLeft'
        /\ FileFollowed' /\ SteadyJobs' /\ PanicsOnlyAroundRestart'
    BY <1>1, <1>3, <2>3, BeginStep
  <2>5. LockHeld' /\ HandleFit' /\ CacheFit' /\ BootBuilds' /\ Serves'
    BY <1>1, <1>3, <2>3, OutsideStep DEF Outside
  <2>6. UNCHANGED <<conf, lock, dao, cache, pusher, queue, dbs, caches, queues>>
    BY <1>3 DEF app, objects
  <2>7. FieldsOK'
    <3>1. applies' \in 0..MaxApplies
      BY <1>3, TypeParts, BoundAssumption DEF AppInv, FieldsOK, Apply
    <3>2. overlap' \in BOOLEAN /\ file' \in Yamls
      BY <1>3, TypeParts, ConfAssumption DEF AppInv, FieldsOK, Begins
    <3> QED
      BY <1>3, <2>6, <3>1, <3>2, TypeParts DEF AppInv, FieldsOK
  <2>8. HoldsOK' /\ DbsOK' /\ CachesOK' /\ QueuesOK' /\ ActorsOK'
    BY <2>3, <2>6, TypeParts DEF AppInv, HoldsOK, DbsOK, CachesOK, QueuesOK, ActorsOK
  <2>9. TypeOK'
    BY <2>4, <2>7, <2>8, TypePartsPrime
  <2> QED
    BY <2>4, <2>5, <2>9 DEF AppInv
<1> QED
  BY <1>2, <1>3 DEF Apply

(* The main goroutine begins to reset.                                     *)
LEMMA TerminateStep ==
    ASSUME AppInv, up = "running", Terminate
    PROVE  AppInv'
<1>1. Main \in Actors /\ Pc(Main) = "idle"
  BY DEF Terminate, Actors, Pc
<1>2. actor' \in [Actors -> ActorSet(Len(queues))] /\ Steps(Main, "dbNil")
  BY <1>1, GotoMoves, TypeParts DEF AppInv, Terminate, Pcs
<1>3. /\ Begins(Main)
      /\ UNCHANGED <<file, conf, lock, dao, cache, pusher, queue, dbs, caches, queues, up, applies,
                     mails, handled, refused, failed>>
      /\ UNCHANGED <<app, objects>>
  BY DEF Terminate, app, objects, counts
<1>4. /\ JobsOK' /\ Numbered' /\ ClosedInOrder' /\ OneActive' /\ NothingLeft'
      /\ FileFollowed' /\ SteadyJobs' /\ PanicsOnlyAroundRestart'
  BY <1>1, <1>2, <1>3, BeginStep DEF Steps
<1>5. LockHeld' /\ HandleFit' /\ CacheFit' /\ BootBuilds' /\ Serves'
  BY <1>1, <1>2, <1>3, OutsideStep DEF Outside, Steps
<1>6. TypeOK'
  <2>1. overlap' \in BOOLEAN
    BY <1>3, TypeParts DEF AppInv, FieldsOK, Begins
  <2>2. FieldsOK'
    BY <1>3, <2>1, TypeParts DEF AppInv, FieldsOK
  <2>3. HoldsOK' /\ DbsOK' /\ CachesOK' /\ QueuesOK' /\ ActorsOK'
    BY <1>2, <1>3, TypeParts DEF AppInv, HoldsOK, DbsOK, CachesOK, QueuesOK, ActorsOK
  <2> QED
    BY <1>4, <2>2, <2>3, TypePartsPrime
<1> QED
  BY <1>4, <1>5, <1>6 DEF AppInv

(* A request goes on to apply what the file holds, or ends.                *)
LEMMA SaveStep ==
    ASSUME AppInv, up = "running", NEW a \in Actors, NEW p, NEW t, NEW q, NEW y,
           Moves(a, p, t, q, y), actor' \in [Actors -> ActorSet(Len(queues))],
           Pc(a) \in {"write", "load"}, p \in {"idle", "load", "setConf"},
           file' \in Yamls, refused' \in BOOLEAN, refused => refused',
           p = "idle" => refused', p = "setConf" => y = file',
           UNCHANGED <<app, objects, job, up, counts, overlap, failed>>
    PROVE  AppInv'
<1>1. /\ UNCHANGED <<conf, lock, dao, cache, pusher, queue, dbs, caches, queues, applies,
                     mails, handled>>
      /\ Pc(a) # "idle"
  BY DEF app, objects, counts
<1>2. /\ Pc(a)' = p /\ (actor[a].yaml)' = y
      /\ \A b \in Actors \ {a} : Pc(b)' = Pc(b)
  BY PcSteps
<1>3. TypeOK'
  <2>1. FieldsOK' /\ HoldsOK'
    BY <1>1, TypeParts DEF AppInv, FieldsOK, HoldsOK
  <2> QED
    BY <2>1, TypeStep DEF AppInv
<1>4. Numbered' /\ ClosedInOrder' /\ OneActive' /\ SteadyJobs' /\ PanicsOnlyAroundRestart'
  BY <1>1, StillStep DEF Closes
<1>5. LockHeld' /\ HandleFit' /\ CacheFit' /\ BootBuilds' /\ Serves'
  BY OutsideStep DEF Outside
<1>6. ~ overlap /\ ~ failed' /\ AloneActive(a) => Left(a)'
  BY <1>1, <1>2, LeftNow DEF Left, Dbs, Caches, Queues, DbsLeft, CachesLeft, QueuesLeft, Closes
<1>7. ~ overlap /\ ~ failed' /\ ~ refused' /\ AloneActive(a) => Configured(a)'
  BY <1>2 DEF Configured
<1>8. NothingLeft' /\ FileFollowed'
  BY <1>1, <1>6, <1>7, LeftStep, FollowStep DEF AppInv
<1> QED
  BY <1>3, <1>4, <1>5, <1>8 DEF AppInv

LEMMA WriteStep ==
    ASSUME AppInv, up = "running", NEW a \in Actors, Write(a)
    PROVE  AppInv'
<1>1. /\ Pc(a) = "write" /\ file \in Yamls /\ actor[a].yaml \in Yamls /\ refused \in BOOLEAN
      /\ UNCHANGED <<app, objects, job, up, counts, overlap, failed>>
  BY TypeParts DEF AppInv, FieldsOK, ActorsOK, ActorSet, Write, Pc
<1>2. CASE file' = actor[a].yaml /\ Goto(a, "load") /\ UNCHANGED refused
  <2>1. actor' \in [Actors -> ActorSet(Len(queues))] /\ Steps(a, "load")
    BY <1>2, GotoMoves, TypeParts DEF AppInv, Pcs
  <2> QED
    BY <1>1, <1>2, <2>1, SaveStep DEF Steps
<1>3. CASE Return(a) /\ refused' = TRUE /\ UNCHANGED file
  <2>1. actor' \in [Actors -> ActorSet(Len(queues))] /\ Moves(a, "idle", {}, 0, First)
    BY <1>3, ReturnMoves, TypeParts DEF AppInv
  <2> QED
    BY <1>1, <1>3, <2>1, SaveStep
<1> QED
  BY <1>2, <1>3 DEF Write

LEMMA LoadStep ==
    ASSUME AppInv, up = "running", NEW a \in Actors, Load(a)
    PROVE  AppInv'
<1>1. /\ Pc(a) = "load" /\ file \in Yamls /\ refused \in BOOLEAN /\ file' = file
      /\ UNCHANGED <<app, objects, job, up, counts, overlap, failed>>
  BY TypeParts DEF AppInv, FieldsOK, Load, Pc
<1>2. CASE file \in Invalid
  <2>1. Return(a) /\ refused' = TRUE
    BY <1>2 DEF Load
  <2>2. actor' \in [Actors -> ActorSet(Len(queues))] /\ Moves(a, "idle", {}, 0, First)
    BY <2>1, ReturnMoves, TypeParts DEF AppInv
  <2> QED
    BY <1>1, <2>1, <2>2, SaveStep
<1>3. CASE file \notin Invalid
  <2>1. /\ actor' = [actor EXCEPT ![a].pc = "setConf", ![a].yaml = file]
        /\ refused' = refused
    BY <1>3 DEF Load
  <2>2. PICK r : r = [actor[a] EXCEPT !.pc = "setConf", !.yaml = file]
    OBVIOUS
  <2>3. actor[a] \in ActorSet(Len(queues))
    BY TypeParts DEF AppInv, ActorsOK
  <2>4. /\ r \in ActorSet(Len(queues)) /\ r.pc = "setConf" /\ r.yaml = file
        /\ r.todo = actor[a].todo /\ r.q = actor[a].q
    BY <1>1, <2>2, <2>3 DEF ActorSet, Pcs
  <2>5. actor' = [actor EXCEPT ![a] = r]
    BY <2>1, <2>2, TypeParts DEF AppInv, ActorsOK
  <2>6. /\ actor' \in [Actors -> ActorSet(Len(queues))]
        /\ Moves(a, "setConf", actor[a].todo, actor[a].q, file)
    BY <2>4, <2>5, Becomes, TypeParts DEF AppInv
  <2> QED
    BY <1>1, <2>1, <2>6, SaveStep
<1> QED
  BY <1>2, <1>3

-----------------------------------------------------------------------------
(* Jobs and workers: nobody's restart moves.                               *)

(* What a restart sees of the queues.                                      *)
Alike ==
    /\ Len(queues') = Len(queues)
    /\ \A q \in 1..Len(queues) : /\ queues'[q].open = queues[q].open
                                 /\ queues'[q].closed = queues[q].closed
                                 /\ queues'[q].conf = queues[q].conf

LEMMA BackgroundStep ==
    ASSUME AppInv, Alike,
           UNCHANGED <<file, app, dbs, caches, actor, applies, histories>>
    PROVE  /\ LockHeld' /\ ClosedInOrder' /\ HandleFit' /\ CacheFit' /\ BootBuilds' /\ Serves'
           /\ OneActive' /\ NothingLeft' /\ FileFollowed'
<1>1. UNCHANGED <<conf, lock, dao, cache, pusher, queue, overlap, refused, failed>>
  BY DEF app, histories
<1>2. \A a \in Actors : Pc(a)' = Pc(a) /\ Todo(a)' = Todo(a)
  BY DEF Pc, Todo
<1>3. LockHeld' /\ HandleFit' /\ CacheFit' /\ OneActive'
  BY <1>1, <1>2 DEF AppInv, LockHeld, HandleFit, CacheFit, OneActive
<1>4. ClosedInOrder'
  <2>1. \A a \in Actors : Pc(a) = "closeFlag" => actor[a].q \in 1..Len(queues)
    BY TypeParts DEF AppInv, Numbered, ActorsOK, ActorSet, Closes
  <2> QED
    BY <1>2, <2>1 DEF AppInv, ClosedInOrder, Alike
<1>5. queue \in 1..Len(queues)
  BY TypeParts DEF AppInv, Numbered, HoldsOK
<1>6. QueueBuilt' <=> QueueBuilt
  BY <1>1, <1>5 DEF QueueBuilt, Alike
<1>7. CacheBuilt' <=> CacheBuilt
  BY <1>1 DEF CacheBuilt
<1>8. BootBuilds'
  <2>1. \A a \in Actors : (Built(a)' <=> Built(a)) /\ (AloneIn(a)' <=> AloneIn(a))
    BY <1>1, <1>2, <1>6, <1>7 DEF Built, AloneIn
  <2> QED
    BY <1>1, <2>1 DEF AppInv, BootBuilds
<1>9. Serves'
  BY <1>1, <1>2, <1>6, <1>7 DEF AppInv, Serves
<1>10. NothingLeft'
  <2>1. Dbs' = Dbs /\ Caches' = Caches /\ Queues' = Queues
    BY DEF Dbs, Caches, Queues, Alike
  <2>2. \A a \in Actors : (Left(a)' <=> Left(a)) /\ (AloneActive(a)' <=> AloneActive(a))
    BY <1>1, <1>2, <2>1 DEF Left, AloneActive, DbsLeft, CachesLeft, QueuesLeft
  <2> QED
    BY <1>1, <2>2 DEF AppInv, NothingLeft
<1>11. FileFollowed'
  BY <1>1, <1>2 DEF AppInv, FileFollowed, Configured, AloneActive
<1> QED
  BY <1>3, <1>4, <1>8, <1>9, <1>10, <1>11

LEMMA SameAlike ==
    ASSUME queues' = queues
    PROVE  Alike
<1> QED
  BY DEF Alike

(* A job goes on, and stays steady if it was.                              *)
LEMMA JobStep ==
    ASSUME AppInv, up = "running", NEW j \in Jobs, NEW r \in JobSet(Len(queues)),
           job' = [job EXCEPT ![j] = r],
           r.pc \in {"check", "send"} => r.q # 0,
           r.steady => /\ Quiet /\ ~ failed
                       /\ r.pc \in {"check", "send"} => r.q = queue,
           UNCHANGED <<file, app, objects, actor, up, counts, histories>>
    PROVE  AppInv'
<1>1. UNCHANGED <<conf, lock, dao, cache, pusher, queue, dbs, caches, queues, applies, mails,
                  handled, overlap, refused, failed>>
  BY DEF app, objects, counts, histories
<1>2. /\ job' \in [Jobs -> JobSet(Len(queues))] /\ job'[j] = r
      /\ \A i \in Jobs \ {j} : job'[i] = job[i]
  BY TypeParts DEF AppInv, JobsOK
<1>3. TypeOK'
  BY <1>1, <1>2, TypeParts, TypePartsPrime DEF AppInv, FieldsOK, HoldsOK, DbsOK, CachesOK,
     QueuesOK, ActorsOK, JobsOK
<1>4. Numbered'
  <2>1. \A a \in Actors : Pc(a)' = Pc(a)
    BY DEF Pc
  <2> QED
    BY <1>1, <1>2, <2>1 DEF AppInv, Numbered
<1>5. SteadyJobs'
  BY <1>1, <1>2 DEF AppInv, SteadyJobs, Quiet
<1>6. PanicsOnlyAroundRestart'
  <2>1. up' \notin Jobs \cup Admins \cup {"worker"}
    BY NamesAssumption
  <2> QED
    BY <2>1 DEF PanicsOnlyAroundRestart
<1> QED
  BY <1>1, <1>3, <1>4, <1>5, <1>6, SameAlike, BackgroundStep DEF AppInv

LEMMA JobPanics ==
    ASSUME AppInv, NEW j \in Jobs, Panic(j), ~ job[j].steady
    PROVE  AppInv'
<1>1. j \in UpSet /\ j \notin Admins \cup {"worker"}
  BY NamesAssumption DEF UpSet
<1> QED
  BY <1>1, PanicStep

LEMMA JobStartStep ==
    ASSUME AppInv, up = "running", NEW j \in Jobs, JobStart(j)
    PROVE  AppInv'
<1>1. PICK b \in BOOLEAN : b = (Quiet /\ ~ failed)
  OBVIOUS
<1>2. PICK r : r = [pc |-> "push", q |-> 0, steady |-> b]
  OBVIOUS
<1>3. /\ job' = [job EXCEPT ![j] = r]
      /\ UNCHANGED <<file, app, objects, actor, up, counts, histories>>
  BY <1>1, <1>2 DEF JobStart
<1>4. r \in JobSet(Len(queues)) /\ r.pc = "push" /\ r.steady = b
  BY <1>2 DEF JobSet
<1> QED
  BY <1>1, <1>3, <1>4, JobStep

(* A steady job finds the application serving.                             *)
LEMMA SteadyNow ==
    ASSUME AppInv, NEW j \in Jobs, job[j].steady
    PROVE  /\ Quiet /\ ~ failed /\ Usable(dao) /\ Usable(pusher)
           /\ job[j].pc \in {"check", "send"} => job[j].q = queue
           /\ queues[queue].open
<1>1. Quiet /\ ~ failed /\ (job[j].pc \in {"check", "send"} => job[j].q = queue)
  BY DEF AppInv, SteadyJobs
<1> QED
  BY <1>1, ServingNow DEF QueueBuilt

LEMMA JobPushStep ==
    ASSUME AppInv, up = "running", NEW j \in Jobs, JobPush(j)
    PROVE  AppInv'
<1>1. CASE ~ Usable(pusher) /\ Panic(j)
  BY <1>1, SteadyNow, JobPanics
<1>2. CASE /\ job' = [job EXCEPT ![j].pc = "fetch"]
           /\ UNCHANGED <<file, app, objects, actor, up, counts, histories>>
  <2>1. PICK r : r = [job[j] EXCEPT !.pc = "fetch"]
    OBVIOUS
  <2>2. job[j] \in JobSet(Len(queues))
    BY TypeParts DEF AppInv, JobsOK
  <2>3. r \in JobSet(Len(queues)) /\ r.pc = "fetch" /\ r.steady = job[j].steady
    BY <2>1, <2>2 DEF JobSet
  <2>4. job' = [job EXCEPT ![j] = r]
    BY <1>2, <2>1
  <2> QED
    BY <1>2, <2>3, <2>4, SteadyNow, JobStep
<1> QED
  BY <1>1, <1>2 DEF JobPush

LEMMA JobFetchStep ==
    ASSUME AppInv, up = "running", NEW j \in Jobs, JobFetch(j)
    PROVE  AppInv'
<1>1. CASE ~ Usable(dao) /\ Panic(j)
  BY <1>1, SteadyNow, JobPanics
<1>2. CASE /\ job' = [job EXCEPT ![j].pc = "check", ![j].q = queue]
           /\ UNCHANGED <<file, app, objects, actor, up, counts, histories>>
  <2>1. PICK r : r = [job[j] EXCEPT !.pc = "check", !.q = queue]
    OBVIOUS
  <2>2. job[j] \in JobSet(Len(queues)) /\ queue \in 0..Len(queues) /\ queue # 0
    BY TypeParts DEF AppInv, JobsOK, HoldsOK, Numbered
  <2>3. /\ r \in JobSet(Len(queues)) /\ r.pc = "check" /\ r.q = queue
        /\ r.steady = job[j].steady
    BY <2>1, <2>2 DEF JobSet
  <2>4. job' = [job EXCEPT ![j] = r]
    BY <1>2, <2>1, TypeParts DEF AppInv, JobsOK
  <2> QED
    BY <1>2, <2>2, <2>3, <2>4, SteadyNow, JobStep
<1> QED
  BY <1>1, <1>2 DEF JobFetch

LEMMA PushCheckStep ==
    ASSUME AppInv, up = "running", NEW j \in Jobs, PushCheck(j)
    PROVE  AppInv'
<1>1. /\ job[j].pc = "check" /\ UNCHANGED <<file, app, objects, actor, up, counts, histories>>
      /\ job[j] \in JobSet(Len(queues)) /\ job[j].q # 0
  BY TypeParts DEF AppInv, JobsOK, Numbered, PushCheck
<1>2. CASE queues[job[j].q].closed
  <2>1. PICK r : r = IdleJob
    OBVIOUS
  <2>2. job' = [job EXCEPT ![j] = r]
    BY <1>2, <2>1 DEF PushCheck
  <2>3. r \in JobSet(Len(queues)) /\ r.pc = "idle" /\ ~ r.steady
    BY <2>1 DEF IdleJob, JobSet
  <2> QED
    BY <1>1, <2>2, <2>3, JobStep
<1>3. CASE ~ queues[job[j].q].closed
  <2>1. PICK r : r = [job[j] EXCEPT !.pc = "send"]
    OBVIOUS
  <2>2. job' = [job EXCEPT ![j] = r]
    BY <1>3, <2>1 DEF PushCheck
  <2>3. /\ r \in JobSet(Len(queues)) /\ r.pc = "send" /\ r.q = job[j].q
        /\ r.steady = job[j].steady
    BY <1>1, <2>1 DEF JobSet
  <2> QED
    BY <1>1, <2>2, <2>3, SteadyNow, JobStep
<1> QED
  BY <1>2, <1>3

(* A step on one queue that a restart does not see.                        *)
LEMMA WorkStep ==
    ASSUME AppInv, up = "running", NEW q \in 1..Len(queues), NEW r \in QueueSet,
           queues' = [queues EXCEPT ![q] = r],
           r.open = queues[q].open, r.closed = queues[q].closed, r.conf = queues[q].conf,
           r.sent => r.work # 0,
           job' \in [Jobs -> JobSet(Len(queues))],
           \A j \in Jobs : job'[j] = job[j] \/ (job'[j].pc = "idle" /\ ~ job'[j].steady),
           mails' \in 0..MaxMails, handled' \subseteq 1..MaxMails,
           UNCHANGED <<file, app, dbs, caches, actor, up, applies, histories>>
    PROVE  AppInv'
<1>1. UNCHANGED <<conf, lock, dao, cache, pusher, queue, overlap, refused, failed>>
  BY DEF app, histories
<1>2. /\ queues' \in Seq(QueueSet) /\ Len(queues') = Len(queues)
      /\ queues'[q] = r /\ \A i \in 1..Len(queues) : i # q => queues'[i] = queues[i]
  BY QueuePut, TypeParts DEF AppInv
<1>3. Alike
  BY <1>2 DEF Alike
<1>4. TypeOK'
  <2>1. FieldsOK' /\ HoldsOK'
    BY <1>1, <1>2, TypeParts DEF AppInv, FieldsOK, HoldsOK
  <2>2. DbsOK' /\ CachesOK' /\ QueuesOK' /\ ActorsOK' /\ JobsOK'
    BY <1>2, TypeParts DEF AppInv, DbsOK, CachesOK, QueuesOK, ActorsOK, JobsOK
  <2> QED
    BY <2>1, <2>2, TypePartsPrime
<1>5. Numbered'
  <2>1. \A i \in 1..Len(queues)' : (queues[i].sent)' => (queues[i].work)' # 0
    BY <1>2 DEF AppInv, Numbered
  <2>2. \A a \in Actors : Pc(a)' = Pc(a)
    BY DEF Pc
  <2>3. \A j \in Jobs : (job[j].pc)' \in {"check", "send"} => (job[j].q)' # 0
    BY DEF AppInv, Numbered
  <2> QED
    BY <1>1, <2>1, <2>2, <2>3 DEF AppInv, Numbered
<1>6. SteadyJobs'
  BY <1>1 DEF AppInv, SteadyJobs, Quiet
<1>7. PanicsOnlyAroundRestart'
  <2>1. up' \notin Jobs \cup Admins \cup {"worker"}
    BY NamesAssumption
  <2> QED
    BY <2>1 DEF PanicsOnlyAroundRestart
<1> QED
  BY <1>3, <1>4, <1>5, <1>6, <1>7, BackgroundStep DEF AppInv

(* The queue of a job that sends exists.                                   *)
LEMMA PushSendStep ==
    ASSUME AppInv, up = "running", NEW j \in Jobs, PushSend(j)
    PROVE  AppInv'
<1>1. /\ job[j].pc = "send" /\ job[j] \in JobSet(Len(queues)) /\ job[j].q # 0
  BY TypeParts DEF AppInv, JobsOK, Numbered, PushSend
<1>2. PICK q : q = job[j].q
  OBVIOUS
<1>3. q \in 1..Len(queues)
  BY <1>1, <1>2 DEF JobSet
<1>4. CASE ~ queues[q].open /\ Panic(j)
  <2>1. ~ job[j].steady
    BY <1>1, <1>2, <1>4, SteadyNow
  <2> QED
    BY <1>4, <2>1, JobPanics
<1>5. CASE /\ queues[q].open /\ HasRoom(q) /\ mails < MaxMails
           /\ mails' = mails + 1
           /\ queues' = [queues EXCEPT ![q].ch = Append(@, mails + 1)]
           /\ job' = [job EXCEPT ![j] = IdleJob]
           /\ UNCHANGED <<file, app, dbs, caches, actor, up, applies, handled, histories>>
  <2>1. mails' \in 1..MaxMails /\ handled' \subseteq 1..MaxMails
    BY <1>5, TypeParts, BoundAssumption DEF AppInv, FieldsOK
  <2>2. queues[q] \in QueueSet
    BY <1>3, TypeParts DEF AppInv, QueuesOK
  <2>3. PICK c : c = Append(queues[q].ch, mails + 1)
    OBVIOUS
  <2>4. c \in Seq(1..MaxMails)
    BY <1>5, <2>1, <2>2, <2>3 DEF QueueSet
  <2>5. PICK r : r = [queues[q] EXCEPT !.ch = c]
    OBVIOUS
  <2>6. /\ r \in QueueSet /\ r.open = queues[q].open /\ r.closed = queues[q].closed
        /\ r.conf = queues[q].conf /\ r.sent = queues[q].sent /\ r.work = queues[q].work
    BY <2>2, <2>4, <2>5 DEF QueueSet
  <2>7. queues' = [queues EXCEPT ![q] = r]
    BY <1>5, <2>3, <2>5
  <2>8. r.sent => r.work # 0
    BY <1>3, <2>6 DEF AppInv, Numbered
  <2>9. PICK i : i = IdleJob
    OBVIOUS
  <2>10. i \in JobSet(Len(queues)) /\ i.pc = "idle" /\ ~ i.steady
    BY <2>9 DEF IdleJob, JobSet
  <2>11. /\ job' \in [Jobs -> JobSet(Len(queues))]
         /\ \A k \in Jobs : job'[k] = job[k] \/ (job'[k].pc = "idle" /\ ~ job'[k].steady)
    BY <1>5, <2>9, <2>10, TypeParts DEF AppInv, JobsOK
  <2>12. mails' \in 0..MaxMails
    BY <2>1
  <2> QED
    BY <1>3, <1>5, <2>1, <2>6, <2>7, <2>8, <2>11, <2>12, WorkStep
<1> QED
  BY <1>2, <1>4, <1>5 DEF PushSend

LEMMA ReceiveStep ==
    ASSUME AppInv, up = "running", NEW q \in 1..Len(queues), Receive(q)
    PROVE  AppInv'
<1>1. /\ queues[q].work = 0 /\ queues[q].ch # <<>>
      /\ queues' = [queues EXCEPT ![q].work = Head(queues[q].ch), ![q].ch = Tail(@)]
      /\ UNCHANGED <<file, app, dbs, caches, actor, job, up, counts, histories>>
  BY DEF Receive
<1>2. queues[q] \in QueueSet
  BY TypeParts DEF AppInv, QueuesOK
<1>3. PICK c : c = queues[q].ch
  OBVIOUS
<1>4. c \in Seq(1..MaxMails) /\ c # <<>>
  BY <1>1, <1>2, <1>3 DEF QueueSet
<1>5. PICK w : w = Head(c)
  OBVIOUS
<1>6. w \in 0..MaxMails /\ w # 0 /\ Tail(c) \in Seq(1..MaxMails)
  <2>1. w \in 1..MaxMails /\ Tail(c) \in Seq(1..MaxMails)
    BY <1>4, <1>5, HeadTailProperties
  <2> QED
    BY <2>1
<1>10. PICK t : t = Tail(c)
  OBVIOUS
<1>11. PICK r : r = [queues[q] EXCEPT !.work = w, !.ch = t]
  OBVIOUS
<1>7. /\ r \in QueueSet /\ r.open = queues[q].open /\ r.closed = queues[q].closed
      /\ r.conf = queues[q].conf /\ r.work # 0
  BY <1>2, <1>6, <1>10, <1>11 DEF QueueSet
<1>8. queues' = [queues EXCEPT ![q] = r]
  BY <1>1, <1>3, <1>5, <1>10, <1>11, TypeParts DEF AppInv, QueuesOK
<1>9. /\ UNCHANGED <<applies, mails, handled>>
      /\ mails \in 0..MaxMails /\ handled \subseteq 1..MaxMails
      /\ job \in [Jobs -> JobSet(Len(queues))]
  BY <1>1, TypeParts DEF AppInv, FieldsOK, JobsOK, counts
<1> QED
  BY <1>1, <1>7, <1>8, <1>9, WorkStep

(* A worker is done with the mail it has.                                  *)
LEMMA FinishStep ==
    ASSUME AppInv, up = "running", NEW q \in 1..Len(queues), queues[q].work # 0, Finish(q)
    PROVE  AppInv'
<1>1. /\ queues' = [queues EXCEPT ![q].work = 0, ![q].sent = FALSE]
      /\ handled' = handled \cup {queues[q].work}
      /\ UNCHANGED <<file, app, dbs, caches, actor, job, up, applies, mails, histories>>
  BY DEF Finish
<1>2. queues[q] \in QueueSet
  BY TypeParts DEF AppInv, QueuesOK
<1>3. PICK r : r = [queues[q] EXCEPT !.work = 0, !.sent = FALSE]
  OBVIOUS
<1>4. /\ r \in QueueSet /\ r.open = queues[q].open /\ r.closed = queues[q].closed
      /\ r.conf = queues[q].conf /\ ~ r.sent
  <2>1. 0 \in 0..MaxMails
    BY BoundAssumption
  <2> QED
    BY <1>2, <1>3, <2>1 DEF QueueSet
<1>5. queues' = [queues EXCEPT ![q] = r]
  BY <1>1, <1>3, TypeParts DEF AppInv, QueuesOK
<1>6. /\ mails' \in 0..MaxMails /\ handled' \subseteq 1..MaxMails
      /\ job' \in [Jobs -> JobSet(Len(queues))] /\ job' = job
  BY <1>1, <1>2, TypeParts, BoundAssumption DEF AppInv, FieldsOK, JobsOK, QueueSet
<1> QED
  BY <1>1, <1>4, <1>5, <1>6, WorkStep

LEMMA SendMailStep ==
    ASSUME AppInv, up = "running", NEW q \in 1..Len(queues), SendMail(q)
    PROVE  AppInv'
<1>1. queues[q].work # 0
  BY DEF SendMail
<1>2. CASE Finish(q)
  BY <1>1, <1>2, FinishStep
<1>3. CASE /\ queues' = [queues EXCEPT ![q].sent = TRUE]
           /\ UNCHANGED <<file, app, dbs, caches, actor, job, up, counts, histories>>
  <2>1. queues[q] \in QueueSet
    BY TypeParts DEF AppInv, QueuesOK
  <2>2. PICK r : r = [queues[q] EXCEPT !.sent = TRUE]
    OBVIOUS
  <2>3. /\ r \in QueueSet /\ r.open = queues[q].open /\ r.closed = queues[q].closed
        /\ r.conf = queues[q].conf /\ r.work # 0
    BY <1>1, <2>1, <2>2 DEF QueueSet
  <2>4. queues' = [queues EXCEPT ![q] = r]
    BY <1>3, <2>2
  <2>5. /\ UNCHANGED <<applies, mails, handled>>
        /\ mails \in 0..MaxMails /\ handled \subseteq 1..MaxMails
        /\ job \in [Jobs -> JobSet(Len(queues))]
    BY <1>3, TypeParts DEF AppInv, FieldsOK, JobsOK, counts
  <2> QED
    BY <1>3, <2>3, <2>4, <2>5, WorkStep
<1> QED
  BY <1>2, <1>3 DEF SendMail

LEMMA OnSendSuccessStep ==
    ASSUME AppInv, up = "running", NEW q \in 1..Len(queues), OnSendSuccess(q)
    PROVE  AppInv'
<1>1. queues[q].sent /\ queues[q].work # 0
  BY DEF AppInv, Numbered, OnSendSuccess
<1>2. CASE dao # 0
  BY <1>1, <1>2, FinishStep DEF OnSendSuccess
<1>3. CASE dao = 0
  <2>1. Panic("worker")
    BY <1>3 DEF OnSendSuccess
  <2>2. "worker" \in UpSet /\ "worker" \notin Jobs
    BY NamesAssumption DEF UpSet
  <2>3. ~ Quiet \/ failed
    BY <1>3, ServingNow DEF CacheBuilt
  <2> QED
    BY <2>1, <2>2, <2>3, PanicStep
<1> QED
  BY <1>2, <1>3

-----------------------------------------------------------------------------
(* The end of the process.                                                 *)

LEMMA ExitStep ==
    ASSUME AppInv, Exit
    PROVE  AppInv'
<1>1. /\ up' = "exited"
      /\ UNCHANGED <<file, app, objects, actor, job, counts, histories>>
  BY DEF Exit
<1>2. "exited" \in UpSet /\ "exited" \notin Jobs \cup Admins \cup {"worker"}
  BY NamesAssumption DEF UpSet
<1>3. Panic("exited")
  BY <1>1 DEF Panic
<1> QED
  BY <1>2, <1>3, PanicStep

LEMMA StutterStep ==
    ASSUME AppInv, UNCHANGED vars
    PROVE  AppInv'
<1>1. /\ UNCHANGED <<file, dbs, caches, queues, actor, job, up, applies, mails, handled>>
      /\ UNCHANGED <<app, histories>>
      /\ UNCHANGED <<conf, lock, dao, cache, pusher, queue, overlap, refused, failed>>
  BY DEF vars, objects, counts, histories, app
<1>2. TypeOK'
  BY <1>1, TypeParts, TypePartsPrime DEF AppInv, FieldsOK, HoldsOK, DbsOK, CachesOK, QueuesOK,
     ActorsOK, JobsOK
<1>3. Numbered' /\ SteadyJobs' /\ PanicsOnlyAroundRestart'
  BY <1>1 DEF AppInv, Numbered, SteadyJobs, PanicsOnlyAroundRestart, Quiet, Pc
<1> QED
  BY <1>1, <1>2, <1>3, SameAlike, BackgroundStep DEF AppInv

-----------------------------------------------------------------------------
(* Every step keeps the invariant.                                         *)

LEMMA ActStep ==
    ASSUME AppInv, up = "running", NEW a \in Actors, Act(a)
    PROVE  AppInv'
<1>1. CASE Reset(a)
  BY <1>1, DbNilStep, DbCloseStep, CacheNilStep, CacheCloseStep, DaoNilStep, CacheDropStep,
     DisposeNotifyStep, DisposeEmailStep, CloseMuxStep, CloseChStep, CloseFlagStep, DisposedStep
     DEF Reset
<1>2. CASE Bootstrap(a)
  BY <1>2, LockTaken, ZoneStep, OpenStep, NewCacheStep, SetCacheStep, SyncStep, InitEmailStep,
     InitNotifyStep, BootedStep DEF Bootstrap
<1> QED
  BY <1>1, <1>2, WriteStep, LoadStep, SetConfStep DEF Act

LEMMA NextStep ==
    ASSUME AppInv, [Next]_vars
    PROVE  AppInv'
<1>1. CASE UNCHANGED vars
  BY <1>1, StutterStep
<1>2. CASE Next
  <2>1. up = "running"
    BY <1>2 DEF Next
  <2>2. ASSUME NEW j \in Jobs, JobStart(j) \/ Push(j)
        PROVE  AppInv'
    BY <2>1, <2>2, JobStartStep, JobPushStep, JobFetchStep, PushCheckStep, PushSendStep DEF Push
  <2>3. ASSUME NEW q \in QueueIds, Work(q)
        PROVE  AppInv'
    BY <2>1, <2>3, ReceiveStep, SendMailStep, OnSendSuccessStep DEF Work
  <2> QED
    BY <1>2, <2>1, <2>2, <2>3, ApplyStep, TerminateStep, ActStep, ExitStep DEF Next
<1> QED
  BY <1>1, <1>2

(* The first bootstrap establishes the invariant.                          *)
LEMMA InitHolds ==
    ASSUME Init
    PROVE  AppInv
<1>1. /\ actor = [a \in Actors |-> IdleActor] /\ job = [j \in Jobs |-> IdleJob]
      /\ file = First /\ conf = First /\ lock = "free" /\ up = "running"
      /\ dao = 1 /\ cache = Len(caches) /\ pusher = 1 /\ queue = 1
      /\ dbs = <<[open |-> TRUE, cache |-> IF First \in Cached THEN 1 ELSE 0]>>
      /\ caches = IF First \in Cached THEN <<TRUE>> ELSE <<>>
      /\ queues = <<NewQueue(First)>>
      /\ applies = 0 /\ mails = 0 /\ handled = {}
      /\ ~ overlap /\ ~ refused /\ ~ failed
      /\ overlap \in BOOLEAN /\ refused \in BOOLEAN /\ failed \in BOOLEAN
  BY DEF Init
<1>2. \A a \in Actors : Pc(a) = "idle" /\ actor[a].q = 0
  BY <1>1 DEF Pc, IdleActor
<1>3. \A j \in Jobs : job[j].pc = "idle" /\ ~ job[j].steady
  BY <1>1 DEF IdleJob
<1>4. PICK n : n = NewQueue(First)
  OBVIOUS
<1>5. /\ n \in QueueSet /\ n.open /\ ~ n.closed /\ ~ n.sent /\ n.conf = First
  BY <1>4, ConfAssumption, BoundAssumption DEF NewQueue, QueueSet
<1>6. queues = <<n>> /\ Len(queues) = 1 /\ queues[1] = n
  BY <1>1, <1>4
<1>7. /\ Len(caches) = IF First \in Cached THEN 1 ELSE 0
      /\ caches \in Seq(BOOLEAN) /\ \A c \in 1..Len(caches) : caches[c] = TRUE
  <2>1. CASE First \in Cached
    <3>1. PICK b \in BOOLEAN : b = TRUE
      OBVIOUS
    <3>2. caches = <<b>>
      BY <1>1, <2>1, <3>1
    <3>3. caches \in Seq(BOOLEAN)
      BY <3>2
    <3>4. Len(caches) = 1 /\ caches[1] = b
      BY <3>2
    <3>5. \A c \in 1..Len(caches) : c = 1
      BY <3>4
    <3>6. \A c \in 1..Len(caches) : caches[c] = TRUE
      BY <3>1, <3>4, <3>5
    <3> QED
      BY <2>1, <3>3, <3>4, <3>6
  <2>2. CASE First \notin Cached
    <3>1. caches = <<>>
      BY <1>1, <2>2
    <3> QED
      BY <2>2, <3>1
  <2> QED
    BY <2>1, <2>2
<1>8. PICK d : d = [open |-> TRUE, cache |-> IF First \in Cached THEN 1 ELSE 0]
  OBVIOUS
<1>9. d \in DbSet(Len(caches)) /\ d.open = TRUE /\ d.cache = cache
  BY <1>1, <1>7, <1>8 DEF DbSet
<1>10. dbs = <<d>> /\ Len(dbs) = 1 /\ dbs[1] = d
  BY <1>1, <1>8
<1>11. TypeOK
  <2>1. FieldsOK
    BY <1>1, ConfAssumption, BoundAssumption DEF FieldsOK, UpSet
  <2>2. HoldsOK /\ CachesOK
    BY <1>1, <1>6, <1>7, <1>10 DEF HoldsOK, CachesOK
  <2>3. DbsOK
    <3> HIDE DEF DbSet
    <3> QED
      BY <1>9, <1>10 DEF DbsOK
  <2>4. QueuesOK
    <3> HIDE DEF QueueSet
    <3> QED
      BY <1>5, <1>6 DEF QueuesOK
  <2>5. ActorsOK
    BY <1>1, <1>6, ConfAssumption DEF ActorsOK, ActorSet, IdleActor, Pcs
  <2>6. JobsOK
    BY <1>1, <1>6 DEF JobsOK, JobSet, IdleJob
  <2> QED
    BY <2>1, <2>2, <2>3, <2>4, <2>5, <2>6, TypeParts
<1>12. CacheBuilt
  BY <1>1, <1>7, <1>9, <1>10 DEF CacheBuilt
<1>13. QueueBuilt
  BY <1>1, <1>5, <1>6 DEF QueueBuilt
<1>14. Numbered /\ LockHeld /\ ClosedInOrder
  BY <1>1, <1>2, <1>3, <1>5, <1>6 DEF Numbered, LockHeld, ClosedInOrder, Closes, Boots
<1>15. HandleFit /\ CacheFit
  BY <1>1, <1>2, <1>7, <1>9, <1>10 DEF HandleFit, CacheFit
<1>16. Serves /\ BootBuilds
  BY <1>1, <1>2, <1>12, <1>13 DEF Serves, BootBuilds, Built
<1>17. OneActive /\ FileFollowed /\ SteadyJobs
  BY <1>1, <1>2, <1>3 DEF OneActive, FileFollowed, Configured, SteadyJobs
<1>18. NothingLeft
  BY <1>1, <1>2, <1>6, <1>7, <1>10
     DEF NothingLeft, Left, Dbs, Caches, Queues, DbsLeft, CachesLeft, QueuesLeft, Closes
<1>19. PanicsOnlyAroundRestart
  BY <1>1, NamesAssumption DEF PanicsOnlyAroundRestart
<1> QED
  BY <1>11, <1>14, <1>15, <1>16, <1>17, <1>18, <1>19 DEF AppInv

(* The invariant implies that the application is sound.                    *)
LEMMA InvSound ==
    ASSUME AppInv
    PROVE  AppSound
<1>1. Serving
  BY ServingNow DEF Serving, CacheBuilt, QueueBuilt
<1>2. ASSUME Quiet
      PROVE  /\ \A a \in Actors : Pc(a) = "idle"
             /\ Main \in Actors /\ AloneActive(Main)
  BY <1>2 DEF Quiet, Pc, Actors, AloneActive
<1>3. NoLeak
  <2> SUFFICES ASSUME Quiet, ~ failed, ~ overlap
               PROVE  /\ Dbs \subseteq {dao} /\ Caches \subseteq {cache} /\ Queues \subseteq {queue}
    BY DEF NoLeak, Dbs, Caches, Queues
  <2>1. Left(Main) /\ Pc(Main) = "idle"
    BY <1>2 DEF AppInv, NothingLeft
  <2> QED
    BY <2>1 DEF Left, DbsLeft, CachesLeft, QueuesLeft, Closes
<1>4. FileApplied
  BY <1>2 DEF FileApplied, AppInv, FileFollowed, Configured
<1> QED
  BY <1>1, <1>3, <1>4 DEF AppInv, AppSound, Settled

(* Whatever settings requests, jobs, mail workers and the end of the       *)
(* process do at the same time: with no restart under way and none failed  *)
(* the application serves with its present configuration; restarts that    *)
(* do not overlap leave nothing open and apply the file; and nothing       *)
(* panics but around a restart.                                            *)
THEOREM ApplicationSound == Spec => []AppSound
<1>1. Init => AppInv
  BY InitHolds
<1>2. AppInv /\ [Next]_vars => AppInv'
  BY NextStep
<1>3. AppInv => AppSound
  BY InvSound
<1> QED
  BY <1>1, <1>2, <1>3, PTL DEF Spec

-----------------------------------------------------------------------------
(***************************************************************************)
(* Proofs about module PageFetch, for any number of fetches, pages and     *)
(* origins and any limits: its type invariant, that redirects lead only to *)
(* trusted origins and the status of the batch is true (FetchSound), and   *)
(* that the limiter implements what FetchSlots promises.                   *)
(*                                                                         *)
(* The invariant adds to FetchSound what the limiter relies on: the set of *)
(* active pages is the set of pages that automatic fetches really fetch,   *)
(* no two of them fetch the same one, and there are never too many.        *)
(***************************************************************************)

(* What began a fetch tells where it can be.                               *)
AtKind == \A w \in Fetchers : /\ at[w] = "acquire" => fetchKind[w] = "auto"
                              /\ at[w] \in {"list", "next"} => fetchKind[w] = "batch"

OneEach == \A v, w \in Fetchers : Holding(v) /\ Holding(w) /\ page[v] = page[w] => v = w
Limited == active = Held /\ OneEach /\ Cardinality(active) <= MaxConcurrent

-----------------------------------------------------------------------------
(* Types                                                                   *)

(* Every step keeps the variables in their types.                          *)
LEMMA FetchTypeStep ==
    ASSUME FetchTypeOK, [FetchNext]_fetchVars
    PROVE  FetchTypeOK'
<1>0. IsFiniteSet(URLs) /\ MaxEdits \in Nat /\ Interval \in Nat /\ Timeout \in Nat
    BY FetchAssumption
<1> USE <1>0 DEF FetchTypeOK, Places
<1>1. ASSUME NEW w \in Fetchers, Forget(w), active' \subseteq URLs, UNCHANGED <<done, total, todo>>,
             running' \in BOOLEAN
      PROVE  FetchTypeOK'
    BY <1>1 DEF Forget, GoesTo
<1>2. ASSUME NEW w \in Fetchers, NEW titled \in BOOLEAN, Ends(w, titled)
      PROVE  FetchTypeOK'
    <2>1. CASE release(w, titled)
        BY <1>1, <2>1 DEF release, status
    <2>2. CASE Forget(w) /\ UNCHANGED <<active, status, todo>>
        BY <1>1, <2>2 DEF status
    <2>3. CASE progress(w, titled)
        BY <2>3 DEF progress, GoesTo, fetch
    <2> QED BY <1>2, <2>1, <2>2, <2>3 DEF Ends
<1>3. ASSUME NEW w \in Fetchers, NEW u \in URLs, fetchPageFromURL(w, u),
             active' \subseteq URLs, wait' \in 0..Interval, UNCHANGED status, todo' \subseteq URLs,
             fetchKind' \in [Fetchers -> {"auto", "manual", "batch"}]
      PROVE  FetchTypeOK'
    <2>1. trusted \subseteq Origins
        BY FetchAssumption
    <2> QED BY <1>3, <2>1 DEF fetchPageFromURL, GoesTo, status
<1>4. ASSUME NEW w \in Fetchers, Own(w)
      PROVE  FetchTypeOK'
    <2>1. CASE acquire(w) /\ Busy(page[w])
        BY <1>1, <2>1 DEF acquire, status
    <2>2. CASE acquire(w) /\ ~ Busy(page[w])
        BY <1>3, <2>2 DEF acquire
    <2>3. CASE Fails(w)
        BY <1>2, <2>3 DEF Fails
    <2>4. CASE NextPage(w)
        <3>1. CASE todo = {} /\ finish(w)
            BY <1>1, <3>1 DEF finish
        <3>2. ASSUME NEW u \in todo, todo' = todo \ {u}, fetchPageFromURL(w, u),
                     UNCHANGED <<active, wait, status, fetchKind>>
              PROVE  FetchTypeOK'
            BY <1>3, <3>2
        <3> QED BY <2>4, <3>1, <3>2 DEF NextPage
    <2>5. CASE ListPages(w, URLs)
        <3>1. Cardinality(URLs) \in Nat
            BY FS_CardinalityType
        <3> QED BY <2>5, <3>1 DEF ListPages, GoesTo, fetch
    <2>6. CASE ListFails(w)
        BY <1>1, <2>6 DEF ListFails, finish
    <2> QED BY <1>4, <2>1, <2>2, <2>3, <2>4, <2>5, <2>6 DEF Own
<1>5. ASSUME NEW w \in Fetchers, Answered(w)
      PROVE  FetchTypeOK'
    <2>1. CASE Answer(w)
        BY <1>2, <2>1 DEF Answer
    <2>2. ASSUME NEW u \in URLs, checkRedirect(w, u)
          PROVE  FetchTypeOK'
        <3>1. CASE Ends(w, FALSE)
            BY <1>2, <3>1
        <3>2. CASE ~ Ends(w, FALSE)
            <4>1. /\ hops' = [hops EXCEPT ![w] = @ + 1] /\ asks' = [asks EXCEPT ![w] = u]
                  /\ UNCHANGED <<trusted, edits, active, wait, running, done, total, at, fetchKind,
                                 page, origins, left, todo>>
                BY <2>2, <3>2 DEF checkRedirect, status
            <4> QED BY <4>1
        <3> QED BY <3>1, <3>2
    <2>3. ASSUME NEW u \in URLs, ListPages(w, {u})
          PROVE  FetchTypeOK'
        <3>1. Cardinality({u}) \in Nat
            BY FS_Singleton
        <3> QED BY <2>3, <3>1 DEF ListPages, GoesTo, fetch
    <2> QED BY <1>5, <2>1, <2>2, <2>3 DEF Answered
<1>6. ASSUME NEW w \in Fetchers, Sends(w)
      PROVE  FetchTypeOK'
    <2>1. CASE PageFetchAll(w)
        BY <2>1 DEF PageFetchAll, start, GoesTo, Is, fetch
    <2>2. ASSUME NEW u \in URLs, TryFetchPageFromURL(w, u)
          PROVE  FetchTypeOK'
        BY <2>2 DEF TryFetchPageFromURL, GoesTo, Is, status
    <2>3. ASSUME NEW u \in URLs, PageFetchOne(w, u)
          PROVE  FetchTypeOK'
        BY <1>3, <2>3 DEF PageFetchOne, Is
    <2> QED BY <1>6, <2>1, <2>2, <2>3 DEF Sends
<1>7. ASSUME NEW S \in OriginSets, EditOrigins(S)
      PROVE  FetchTypeOK'
    BY <1>7 DEF EditOrigins, status, fetch
<1>8. CASE FetchTick
    BY <1>8 DEF FetchTick, Less, status
<1>9. CASE UNCHANGED fetchVars
    BY <1>9 DEF fetchVars, status, fetch
<1> QED BY <1>4, <1>5, <1>6, <1>7, <1>8, <1>9 DEF FetchNext

-----------------------------------------------------------------------------
(* The limiter.  A step leaves every place where it is (Stays), begins an  *)
(* automatic fetch (Gets), ends one (Loses), or concerns no fetch (Rests). *)

Others(w) == \A v \in Fetchers \ {w} : /\ at'[v] = at[v] /\ fetchKind'[v] = fetchKind[v]
                                       /\ page'[v] = page[v]
Sent(w) == fetchKind'[w] = "auto" /\ at'[w] = "sent"
Stays(w) == /\ Others(w) /\ active' = active /\ wait' = wait
            /\ Sent(w) <=> Holding(w)
            /\ Holding(w) => page'[w] = page[w]
Gets(w) == /\ Others(w) /\ ~ Busy(page[w]) /\ page'[w] = page[w]
           /\ active' = active \cup {page[w]} /\ wait' = Interval
           /\ ~ Holding(w) /\ Sent(w)
Loses(w) == /\ Others(w) /\ Holding(w) /\ ~ Sent(w)
            /\ active' = active \ {page[w]} /\ wait' = wait
Rests == UNCHANGED <<at, fetchKind, page, active>> /\ wait' \in {wait, Less(wait)}

(* What the end of a fetch does to the limiter.                            *)
LEMMA EndsEffect ==
    ASSUME FetchTypeOK, NEW w \in Fetchers, at[w] = "sent", NEW titled \in BOOLEAN,
           Ends(w, titled)
    PROVE  (Stays(w) \/ Loses(w)) /\ (AtKind => AtKind')
<1> USE DEF FetchTypeOK, Others, Sent, Stays, Loses, Holding, AtKind, GoesTo
<1>1. CASE fetchKind[w] = "auto" /\ release(w, titled)
    BY <1>1 DEF release, Forget
<1>2. CASE fetchKind[w] = "manual" /\ Forget(w) /\ UNCHANGED <<active, status, todo>>
    BY <1>2 DEF Forget
<1>3. CASE fetchKind[w] = "batch" /\ progress(w, titled)
    BY <1>3 DEF progress
<1> QED BY <1>1, <1>2, <1>3 DEF Ends

(* What every step does to it.                                             *)
LEMMA StepEffect ==
    ASSUME FetchTypeOK, AtKind, [FetchNext]_fetchVars
    PROVE  /\ Rests \/ \E w \in Fetchers : Stays(w) \/ Gets(w) \/ Loses(w)
           /\ AtKind'
<1> USE DEF FetchTypeOK, Others, Sent, Stays, Gets, Loses, Rests, Holding, AtKind, GoesTo, Is
<1>1. ASSUME NEW w \in Fetchers, Own(w)
      PROVE  (Stays(w) \/ Gets(w) \/ Loses(w)) /\ AtKind'
    <2>1. CASE acquire(w) /\ Busy(page[w])
        BY <2>1 DEF acquire, Forget
    <2>2. CASE acquire(w) /\ ~ Busy(page[w])
        BY <2>2 DEF acquire, fetchPageFromURL
    <2>3. CASE Fails(w)
        BY <2>3, EndsEffect DEF Fails
    <2>4. CASE NextPage(w)
        BY <2>4 DEF NextPage, finish, Forget, fetchPageFromURL
    <2>5. CASE ListPages(w, URLs)
        BY <2>5 DEF ListPages
    <2>6. CASE ListFails(w)
        BY <2>6 DEF ListFails, finish, Forget
    <2> QED BY <1>1, <2>1, <2>2, <2>3, <2>4, <2>5, <2>6 DEF Own
<1>2. ASSUME NEW w \in Fetchers, Answered(w)
      PROVE  (Stays(w) \/ Gets(w) \/ Loses(w)) /\ AtKind'
    <2>1. CASE Answer(w)
        BY <2>1, EndsEffect DEF Answer, Asked
    <2>2. ASSUME NEW u \in URLs, checkRedirect(w, u)
          PROVE  (Stays(w) \/ Loses(w)) /\ AtKind'
        <3>1. CASE Ends(w, FALSE)
            BY <2>2, <3>1, EndsEffect DEF checkRedirect, Asked
        <3>2. CASE ~ Ends(w, FALSE)
            <4>1. UNCHANGED <<at, fetchKind, page, active, wait>>
                BY <2>2, <3>2 DEF checkRedirect
            <4> QED BY <4>1
        <3> QED BY <3>1, <3>2
    <2>3. ASSUME NEW u \in URLs, ListPages(w, {u})
          PROVE  Stays(w) /\ AtKind'
        BY <2>3 DEF ListPages
    <2> QED BY <1>2, <2>1, <2>2, <2>3 DEF Answered
<1>3. ASSUME NEW w \in Fetchers, Sends(w)
      PROVE  Stays(w) /\ AtKind'
    <2>1. CASE PageFetchAll(w)
        BY <2>1 DEF PageFetchAll
    <2>2. ASSUME NEW u \in URLs, TryFetchPageFromURL(w, u)
          PROVE  Stays(w) /\ AtKind'
        BY <2>2 DEF TryFetchPageFromURL
    <2>3. ASSUME NEW u \in URLs, PageFetchOne(w, u)
          PROVE  Stays(w) /\ AtKind'
        BY <2>3 DEF PageFetchOne, fetchPageFromURL
    <2> QED BY <1>3, <2>1, <2>2, <2>3 DEF Sends
<1>4. ASSUME NEW S \in OriginSets, EditOrigins(S)
      PROVE  Rests /\ AtKind'
    BY <1>4 DEF EditOrigins
<1>5. CASE FetchTick
    BY <1>5 DEF FetchTick
<1>6. CASE UNCHANGED fetchVars
    BY <1>6 DEF fetchVars
<1> QED BY <1>1, <1>2, <1>3, <1>4, <1>5, <1>6 DEF FetchNext

(* The pages that are really fetched change as the set of active ones.     *)
LEMMA HeldStep ==
    ASSUME FetchTypeOK, Limited, NEW w \in Fetchers
    PROVE  /\ Stays(w) => Held' = Held /\ OneEach'
           /\ Gets(w) => Held' = Held \cup {page[w]} /\ OneEach'
           /\ Loses(w) => Held' = Held \ {page[w]} /\ OneEach'
<1>1. \A v \in Fetchers \ {w} : Others(w) => (Holding(v)' <=> Holding(v)) /\ page'[v] = page[v]
    BY DEF Others, Holding
<1>2. Holding(w)' <=> Sent(w)
    BY DEF Holding, Sent
<1>3. \A u : u \in Held <=> \E v \in Fetchers : Holding(v) /\ page[v] = u
    BY DEF Held
<1>4. \A u : u \in Held' <=> \E v \in Fetchers : Holding(v)' /\ page'[v] = u
    BY DEF Held
<1>5. CASE Stays(w)
    <2>1. \A v \in Fetchers : (Holding(v)' <=> Holding(v)) /\ (Holding(v) => page'[v] = page[v])
        BY <1>1, <1>2, <1>5 DEF Stays
    <2>2. Held' = Held
        BY <1>3, <1>4, <2>1
    <2>3. OneEach'
        BY <2>1 DEF Limited, OneEach
    <2> QED BY <2>2, <2>3, <1>5, <1>2 DEF Stays, Gets, Loses
<1>6. CASE Gets(w)
    <2>1. page[w] \notin Held
        BY <1>6 DEF Gets, Busy, Limited
    <2>2. Held' = Held \cup {page[w]}
        BY <1>1, <1>2, <1>3, <1>4, <1>6 DEF Gets
    <2>3. OneEach'
        BY <1>1, <1>2, <1>3, <1>6, <2>1 DEF Gets, Limited, OneEach
    <2> QED BY <2>2, <2>3, <1>6 DEF Stays, Gets, Loses
<1>7. CASE Loses(w)
    <2>1. \A v \in Fetchers : Holding(v)' <=> Holding(v) /\ v # w
        BY <1>1, <1>2, <1>7 DEF Loses
    <2>2. Held' = Held \ {page[w]}
        BY <1>1, <1>3, <1>4, <1>7, <2>1 DEF Loses, Limited, OneEach
    <2>3. OneEach'
        BY <1>1, <2>1, <1>7 DEF Loses, Limited, OneEach
    <2> QED BY <2>2, <2>3, <1>7 DEF Stays, Gets, Loses
<1> QED BY <1>5, <1>6, <1>7

(* The set of active pages is exact, and bounded.                          *)
LEMMA LimitedStep ==
    ASSUME FetchTypeOK, AtKind, Limited, [FetchNext]_fetchVars
    PROVE  Limited'
<1>0. IsFiniteSet(active) /\ MaxConcurrent \in Nat
    BY FetchAssumption, FS_Subset DEF FetchTypeOK
<1>1. CASE Rests
    <2>1. \A w \in Fetchers : Holding(w)' <=> Holding(w)
        BY <1>1 DEF Rests, Holding
    <2>2. Held' = Held
        BY <1>1, <2>1 DEF Rests, Held
    <2>3. OneEach'
        BY <1>1, <2>1 DEF Rests, Limited, OneEach
    <2> QED BY <1>1, <2>2, <2>3 DEF Rests, Limited
<1>2. ASSUME NEW w \in Fetchers, Stays(w)
      PROVE  Limited'
    BY <1>2, HeldStep DEF Stays, Limited
<1>3. ASSUME NEW w \in Fetchers, Gets(w)
      PROVE  Limited'
    <2>1. Cardinality(active) < MaxConcurrent
        BY <1>0, <1>3, FS_CardinalityType DEF Gets, Busy
    <2>2. page[w] \notin active
        BY <1>3 DEF Gets, Busy
    <2>3. Cardinality(active') <= MaxConcurrent
        <3>1. Cardinality(active \cup {page[w]}) = Cardinality(active) + 1
            BY <1>0, <2>2, FS_AddElement, Zenon
        <3>2. Cardinality(active) \in Nat
            BY <1>0, FS_CardinalityType
        <3> QED BY <1>0, <1>3, <2>1, <3>1, <3>2 DEF Gets
    <2> QED BY <1>3, <2>3, HeldStep DEF Gets, Limited
<1>4. ASSUME NEW w \in Fetchers, Loses(w)
      PROVE  Limited'
    <2>1. Cardinality(active \ {page[w]}) <= Cardinality(active)
        BY <1>0, FS_Subset
    <2>2. Cardinality(active') <= MaxConcurrent
        <3>1. IsFiniteSet(active \ {page[w]})
            BY <1>0, FS_Subset
        <3>2. Cardinality(active \ {page[w]}) \in Nat /\ Cardinality(active) \in Nat
            BY <1>0, <3>1, FS_CardinalityType
        <3> QED BY <1>0, <1>4, <2>1, <3>2 DEF Loses, Limited
    <2> QED BY <1>4, <2>2, HeldStep DEF Loses, Limited
<1>5. Rests \/ \E w \in Fetchers : Stays(w) \/ Gets(w) \/ Loses(w)
    BY StepEffect
<1> QED BY <1>1, <1>2, <1>3, <1>4, <1>5

(* Every step of the code is one of FetchSlots, or changes nothing there.  *)
LEMMA SlotsStep ==
    ASSUME FetchTypeOK, AtKind, Limited, [FetchNext]_fetchVars
    PROVE  [Slots!Next]_<<Held, Interval - wait>>
<1>0. /\ IsFiniteSet(active) /\ Cardinality(active) \in Nat /\ MaxConcurrent \in Nat
      /\ Interval \in Nat /\ wait \in 0..Interval
    BY FetchAssumption, FS_Subset, FS_CardinalityType DEF FetchTypeOK
<1>1. CASE Rests
    <2>1. Held' = Held
        BY <1>1 DEF Rests, Held, Holding
    <2>2. CASE wait' = wait
        BY <2>1, <2>2
    <2>3. CASE wait' = Less(wait) /\ wait # 0
        <3>1. Slots!Pass
            BY <1>0, <2>1, <2>3 DEF Slots!Pass, Less
        <3> QED BY <3>1 DEF Slots!Next
    <2>4. wait' = wait \/ (wait' = Less(wait) /\ wait # 0)
        BY <1>0, <1>1 DEF Rests, Less
    <2> QED BY <2>2, <2>3, <2>4
<1>2. ASSUME NEW w \in Fetchers, Stays(w)
      PROVE  UNCHANGED <<Held, Interval - wait>>
    BY <1>2, HeldStep DEF Stays
<1>3. ASSUME NEW w \in Fetchers, Gets(w)
      PROVE  Slots!Next
    <2>1. wait = 0 /\ Cardinality(active) < MaxConcurrent /\ page[w] \in URLs \ active
        BY <1>0, <1>3 DEF Gets, Busy, FetchTypeOK
    <2>2. Slots!Cardinality(active) = Cardinality(active)
        BY DEF Slots!Cardinality, Cardinality
    <2>3. Slots!Start(page[w])
        BY <1>0, <1>3, <2>1, <2>2, HeldStep DEF Slots!Start, Gets, Limited
    <2> QED BY <2>1, <2>3 DEF Slots!Next
<1>4. ASSUME NEW w \in Fetchers, Loses(w)
      PROVE  Slots!Next
    <2>1. page[w] \in Held /\ page[w] \in URLs
        BY <1>4 DEF Loses, Held, FetchTypeOK
    <2>2. Slots!Stop(page[w])
        BY <1>4, <2>1, HeldStep DEF Slots!Stop, Loses
    <2> QED BY <2>1, <2>2 DEF Slots!Next
<1>5. Rests \/ \E w \in Fetchers : Stays(w) \/ Gets(w) \/ Loses(w)
    BY StepEffect
<1> QED BY <1>1, <1>2, <1>3, <1>4, <1>5

-----------------------------------------------------------------------------
(* Redirects and the batch                                                 *)

(* A redirect is followed only after its check, within the budget.         *)
LEMMA TrustedStep ==
    ASSUME FetchTypeOK, OnlyTrusted, [FetchNext]_fetchVars
    PROVE  OnlyTrusted'
<1>0. MaxRedirects \in Nat
    BY FetchAssumption
<1> USE DEF FetchTypeOK, OnlyTrusted, GoesTo, Is, checkPageURL
<1>1. ASSUME NEW w \in Fetchers, Forget(w)
      PROVE  OnlyTrusted'
    BY <1>1 DEF Forget
<1>2. ASSUME NEW w \in Fetchers, NEW titled \in BOOLEAN, Ends(w, titled)
      PROVE  OnlyTrusted'
    <2>1. CASE progress(w, titled)
        BY <2>1 DEF progress, fetch
    <2> QED BY <1>1, <1>2, <2>1 DEF Ends, release
<1>3. ASSUME NEW w \in Fetchers, NEW u \in URLs, fetchPageFromURL(w, u)
      PROVE  OnlyTrusted'
    BY <1>3 DEF fetchPageFromURL
<1>4. ASSUME NEW w \in Fetchers, NEW S, ListPages(w, S)
      PROVE  OnlyTrusted'
    BY <1>4 DEF ListPages, fetch
<1>5. ASSUME NEW w \in Fetchers, Own(w)
      PROVE  OnlyTrusted'
    <2>1. CASE acquire(w)
        BY <1>1, <1>3, <2>1 DEF acquire
    <2>2. CASE Fails(w)
        BY <1>2, <2>2 DEF Fails
    <2>3. CASE NextPage(w)
        BY <1>1, <1>3, <2>3 DEF NextPage, finish
    <2>4. CASE ListFails(w)
        BY <1>1, <2>4 DEF ListFails, finish
    <2> QED BY <1>4, <1>5, <2>1, <2>2, <2>3, <2>4 DEF Own
<1>6. ASSUME NEW w \in Fetchers, Answered(w)
      PROVE  OnlyTrusted'
    <2>1. CASE Answer(w)
        BY <1>2, <2>1 DEF Answer
    <2>2. ASSUME NEW u \in URLs, checkRedirect(w, u)
          PROVE  OnlyTrusted'
        <3>1. CASE Ends(w, FALSE)
            BY <1>2, <3>1
        <3>2. CASE ~ Ends(w, FALSE)
            <4>1. ~ (hops[w] + 1 > MaxRedirects \/ ~ checkPageURL(u, origins[w]))
                BY <2>2, <3>2 DEF checkRedirect
            <4>2. /\ hops' = [hops EXCEPT ![w] = @ + 1] /\ asks' = [asks EXCEPT ![w] = u]
                  /\ UNCHANGED <<at, origins>>
                BY <2>2, <4>1 DEF checkRedirect
            <4>3. hops[w] + 1 <= MaxRedirects
                BY <1>0, <4>1
            <4> QED BY <4>1, <4>2, <4>3
        <3> QED BY <3>1, <3>2
    <2> QED BY <1>4, <1>6, <2>1, <2>2 DEF Answered
<1>7. ASSUME NEW w \in Fetchers, Sends(w)
      PROVE  OnlyTrusted'
    <2>1. CASE PageFetchAll(w)
        BY <2>1 DEF PageFetchAll, fetch
    <2>2. ASSUME NEW u \in URLs, TryFetchPageFromURL(w, u)
          PROVE  OnlyTrusted'
        BY <2>2 DEF TryFetchPageFromURL
    <2>3. ASSUME NEW u \in URLs, PageFetchOne(w, u)
          PROVE  OnlyTrusted'
        BY <1>3, <2>3 DEF PageFetchOne
    <2> QED BY <1>7, <2>1, <2>2, <2>3 DEF Sends
<1>8. ASSUME NEW S \in OriginSets, EditOrigins(S)
      PROVE  OnlyTrusted'
    BY <1>8 DEF EditOrigins, fetch
<1>9. CASE FetchTick
    BY <1>9 DEF FetchTick
<1>10. CASE UNCHANGED fetchVars
    BY <1>10 DEF fetchVars, fetch
<1> QED BY <1>5, <1>6, <1>7, <1>8, <1>9, <1>10 DEF FetchNext

(* A step of a fetch that is none of the batch's, or that leaves the batch *)
(* where it is.                                                            *)
Batch(w) == fetchKind[w] = "batch" /\ at[w] # "idle"
BatchNext(w) == fetchKind'[w] = "batch" /\ at'[w] # "idle"
Apart(w) == /\ Others(w) /\ UNCHANGED <<running, done, total, todo>>
            /\ BatchNext(w) <=> Batch(w)
            /\ Batch(w) => at'[w] = at[w]

(* The status in terms of fetches.                                         *)
Counted(w) == done + Cardinality(todo) + (IF at[w] = "sent" THEN 1 ELSE 0) <= total
StatusHolds ==
    /\ \A v, w \in Fetchers : Batch(v) /\ Batch(w) => v = w
    /\ running <=> \E w \in Fetchers : Batch(w)
    /\ \A w \in Fetchers : Batch(w) /\ at[w] # "list" => Counted(w)

LEMMA StatusIs == FetchTypeOK => (StatusTrue <=> StatusHolds)
<1> SUFFICES ASSUME FetchTypeOK PROVE StatusTrue <=> StatusHolds
    OBVIOUS
<1>1. \A w : w \in Batches <=> w \in Fetchers /\ Batch(w)
    BY DEF Batches, Batch
<1>2. (running = (Batches # {})) <=> (running <=> \E w \in Fetchers : Batch(w))
    <2>1. Batches # {} <=> \E w \in Fetchers : Batch(w)
        BY <1>1
    <2>2. running \in BOOLEAN
        BY DEF FetchTypeOK
    <2> QED BY <2>1, <2>2
<1>3. (\A v, w \in Batches : v = w)
      <=> \A v, w \in Fetchers : Batch(v) /\ Batch(w) => v = w
    BY <1>1
<1>4. (\A w \in Batches : at[w] # "list" =>
          done + Cardinality(todo) + (IF at[w] = "sent" THEN 1 ELSE 0) <= total)
      <=> \A w \in Fetchers : Batch(w) /\ at[w] # "list" => Counted(w)
    BY <1>1 DEF Counted
<1> QED BY <1>2, <1>3, <1>4 DEF StatusTrue, StatusHolds

LEMMA ApartStep ==
    ASSUME FetchTypeOK, StatusHolds, NEW w \in Fetchers, Apart(w)
    PROVE  StatusHolds'
<1>1. \A v \in Fetchers : (Batch(v)' <=> Batch(v)) /\ (Batch(v) => at'[v] = at[v])
    BY DEF Apart, Others, Batch, BatchNext
<1>2. \A v \in Fetchers : Batch(v) => (Counted(v)' <=> Counted(v))
    BY <1>1 DEF Apart, Counted
<1> QED BY <1>1, <1>2 DEF StatusHolds, Apart

(* A step of the batch itself, which goes on.                              *)
LEMMA GoesOnStep ==
    ASSUME FetchTypeOK, StatusHolds, NEW w \in Fetchers, Batch(w), BatchNext(w), Others(w),
           running' = running, Counted(w)'
    PROVE  StatusHolds'
<1>1. \A v \in Fetchers : (Batch(v)' <=> Batch(v)) /\ (Batch(v) => v = w)
    BY DEF Others, Batch, BatchNext, StatusHolds
<1> QED BY <1>1 DEF StatusHolds

(* The status is true after every step.                                    *)
LEMMA StatusStep ==
    ASSUME FetchTypeOK, AtKind, StatusHolds, [FetchNext]_fetchVars
    PROVE  StatusHolds'
<1>0. IsFiniteSet(todo) /\ Cardinality(todo) \in Nat
    BY FetchAssumption, FS_Subset, FS_CardinalityType DEF FetchTypeOK
<1> USE DEF FetchTypeOK, GoesTo, Is
<1>1. ASSUME NEW w \in Fetchers, NEW titled \in BOOLEAN, at[w] = "sent", Ends(w, titled)
      PROVE  StatusHolds'
    <2>1. CASE fetchKind[w] = "auto" /\ release(w, titled)
        <3>1. Apart(w)
            BY <2>1 DEF release, Forget, status, Apart, Others, Batch, BatchNext
        <3> QED BY <3>1, ApartStep
    <2>2. CASE fetchKind[w] = "manual" /\ Forget(w) /\ UNCHANGED <<active, status, todo>>
        <3>1. Apart(w)
            BY <2>2 DEF Forget, status, Apart, Others, Batch, BatchNext
        <3> QED BY <3>1, ApartStep
    <2>3. CASE fetchKind[w] = "batch" /\ progress(w, titled)
        <3>1. Batch(w) /\ BatchNext(w) /\ Others(w) /\ running' = running
            BY <1>1, <2>3 DEF progress, Batch, BatchNext, Others
        <3>2. Counted(w)
            BY <1>1, <3>1 DEF StatusHolds
        <3>3. Counted(w)'
            BY <1>0, <1>1, <2>3, <3>2 DEF progress, Counted
        <3> QED BY <3>1, <3>3, GoesOnStep
    <2> QED BY <1>1, <2>1, <2>2, <2>3 DEF Ends
<1>2. ASSUME NEW w \in Fetchers, Batch(w), finish(w)
      PROVE  StatusHolds'
    <2>1. \A v \in Fetchers : ~ Batch(v)'
        BY <1>2 DEF finish, Forget, Batch, StatusHolds
    <2> QED BY <1>2, <2>1 DEF StatusHolds, finish
<1>3. ASSUME NEW w \in Fetchers, NEW S \in SUBSET URLs, ListPages(w, S)
      PROVE  StatusHolds'
    <2>1. Batch(w) /\ BatchNext(w) /\ Others(w) /\ running' = running
        BY <1>3 DEF ListPages, AtKind, Batch, BatchNext, Others
    <2>2. Cardinality(S) \in Nat
        BY FetchAssumption, FS_Subset, FS_CardinalityType
    <2>3. Counted(w)'
        BY <1>3, <2>2 DEF ListPages, Counted
    <2> QED BY <2>1, <2>3, GoesOnStep
<1>4. ASSUME NEW w \in Fetchers, Own(w)
      PROVE  StatusHolds'
    <2>1. CASE acquire(w)
        <3>1. Apart(w)
            BY <2>1 DEF acquire, Forget, fetchPageFromURL, status, Apart, Others, Batch, BatchNext,
                        AtKind
        <3> QED BY <3>1, ApartStep
    <2>2. CASE Fails(w)
        BY <1>1, <2>2 DEF Fails
    <2>3. CASE NextPage(w)
        <3>1. Batch(w) /\ Counted(w)
            BY <2>3 DEF NextPage, AtKind, Batch, StatusHolds
        <3>2. ASSUME NEW u \in todo, todo' = todo \ {u}, fetchPageFromURL(w, u),
                     UNCHANGED <<active, wait, status, fetchKind>>
              PROVE  StatusHolds'
            <4>1. BatchNext(w) /\ Others(w) /\ running' = running
                BY <3>1, <3>2 DEF fetchPageFromURL, status, Batch, BatchNext, Others
            <4>2. Cardinality(todo \ {u}) = Cardinality(todo) - 1
                BY <1>0, FS_RemoveElement
            <4>3. Counted(w)'
                BY <1>0, <2>3, <3>1, <3>2, <4>2 DEF NextPage, fetchPageFromURL, status, Counted
            <4> QED BY <3>1, <4>1, <4>3, GoesOnStep
        <3> QED BY <1>2, <2>3, <3>1, <3>2 DEF NextPage
    <2>4. CASE ListFails(w)
        <3>1. Batch(w)
            BY <2>4 DEF ListFails, AtKind, Batch
        <3> QED BY <1>2, <2>4, <3>1 DEF ListFails
    <2> QED BY <1>3, <1>4, <2>1, <2>2, <2>3, <2>4 DEF Own
<1>5. ASSUME NEW w \in Fetchers, Answered(w)
      PROVE  StatusHolds'
    <2>1. CASE Answer(w)
        BY <1>1, <2>1 DEF Answer, Asked
    <2>2. ASSUME NEW u \in URLs, checkRedirect(w, u)
          PROVE  StatusHolds'
        <3>1. CASE Ends(w, FALSE)
            BY <1>1, <2>2, <3>1 DEF checkRedirect, Asked
        <3>2. CASE ~ Ends(w, FALSE)
            <4>1. UNCHANGED <<running, done, total, todo, at, fetchKind, page>>
                BY <2>2, <3>2 DEF checkRedirect, status
            <4>2. Apart(w)
                BY <4>1 DEF Apart, Others, Batch, BatchNext
            <4> QED BY <4>2, ApartStep
        <3> QED BY <3>1, <3>2
    <2>3. ASSUME NEW u \in URLs, ListPages(w, {u})
          PROVE  StatusHolds'
        BY <1>3, <2>3
    <2> QED BY <1>5, <2>1, <2>2, <2>3 DEF Answered
<1>6. ASSUME NEW w \in Fetchers, Sends(w)
      PROVE  StatusHolds'
    <2>1. CASE PageFetchAll(w)
        <3>1. ~ running /\ running' = TRUE /\ \A v \in Fetchers : ~ Batch(v)
            BY <2>1 DEF PageFetchAll, start, StatusHolds
        <3>2. \A v \in Fetchers : Batch(v)' <=> v = w
            BY <2>1, <3>1 DEF PageFetchAll, Batch
        <3>3. at'[w] = "list"
            BY <2>1 DEF PageFetchAll
        <3> QED BY <3>1, <3>2, <3>3 DEF StatusHolds
    <2>2. ASSUME NEW u \in URLs, TryFetchPageFromURL(w, u)
          PROVE  StatusHolds'
        <3>1. Apart(w)
            BY <2>2 DEF TryFetchPageFromURL, status, Apart, Others, Batch, BatchNext
        <3> QED BY <3>1, ApartStep
    <2>3. ASSUME NEW u \in URLs, PageFetchOne(w, u)
          PROVE  StatusHolds'
        <3>1. Apart(w)
            BY <2>3 DEF PageFetchOne, fetchPageFromURL, status, Apart, Others, Batch, BatchNext
        <3> QED BY <3>1, ApartStep
    <2> QED BY <1>6, <2>1, <2>2, <2>3 DEF Sends
<1>7. ASSUME UNCHANGED <<running, done, total, todo, at, fetchKind>>
      PROVE  StatusHolds'
    <2>1. \A v \in Fetchers : (Batch(v)' <=> Batch(v)) /\ (Counted(v)' <=> Counted(v))
        BY <1>7 DEF Batch, Counted
    <2> QED BY <1>7, <2>1 DEF StatusHolds
<1>8. ASSUME NEW S \in OriginSets, EditOrigins(S)
      PROVE  StatusHolds'
    BY <1>7, <1>8 DEF EditOrigins, status
<1>9. CASE FetchTick
    BY <1>7, <1>9 DEF FetchTick, status
<1>10. CASE UNCHANGED fetchVars
    BY <1>7, <1>10 DEF fetchVars, status
<1> QED BY <1>4, <1>5, <1>6, <1>8, <1>9, <1>10 DEF FetchNext

-----------------------------------------------------------------------------
(* Theorems                                                                *)

Safe == FetchTypeOK /\ AtKind /\ Limited /\ OnlyTrusted /\ StatusHolds

LEMMA SafeInit == FetchInit /\ URLs # {} => Safe
<1> SUFFICES ASSUME FetchInit, URLs # {} PROVE Safe
    OBVIOUS
<1>2. FetchTypeOK
    <2> DEFINE first == CHOOSE u \in URLs : TRUE
    <2>1. first \in URLs
        OBVIOUS
    <2>2. page = [w \in Fetchers |-> first] /\ asks = page
        BY DEF FetchInit
    <2> HIDE DEF first
    <2>3. page \in [Fetchers -> URLs] /\ asks \in [Fetchers -> URLs]
        BY <2>1, <2>2
    <2>4. edits \in 0..MaxEdits /\ wait \in 0..Interval /\ done \in Nat /\ total \in Nat
        BY FetchAssumption DEF FetchInit
    <2>7. trusted \in OriginSets /\ active \subseteq URLs /\ todo \subseteq URLs
        BY DEF FetchInit
    <2>8. running \in BOOLEAN
        BY DEF FetchInit
    <2>5. /\ at \in [Fetchers -> Places]
          /\ fetchKind \in [Fetchers -> {"auto", "manual", "batch"}]
        BY DEF FetchInit, Places
    <2>6. /\ origins \in [Fetchers -> SUBSET Origins]
          /\ hops \in [Fetchers -> Nat] /\ left \in [Fetchers -> 0..Timeout]
        BY FetchAssumption DEF FetchInit
    <2> QED BY <2>3, <2>4, <2>5, <2>6, <2>7, <2>8 DEF FetchTypeOK
<1>3. AtKind /\ OnlyTrusted
    BY DEF FetchInit, AtKind, OnlyTrusted
<1>5. StatusHolds
    <2>1. running = FALSE /\ \A w \in Fetchers : ~ Batch(w)
        BY DEF FetchInit, Batch
    <2> QED BY <2>1 DEF StatusHolds
<1>4. Limited
    <2>1. Held = {} /\ OneEach
        BY DEF FetchInit, Held, Holding, OneEach
    <2> QED BY <2>1, FS_EmptySet, FetchAssumption DEF FetchInit, Limited
<1> QED BY <1>2, <1>3, <1>4, <1>5 DEF Safe

LEMMA SafeStep == Safe /\ [FetchNext]_fetchVars => Safe'
BY FetchTypeStep, StepEffect, LimitedStep, TrustedStep, StatusStep DEF Safe

(* Whatever servers answer and however fetches of all three kinds overlap: *)
(* redirects lead only to origins that were trusted when the fetch began,  *)
(* and the status of the batch is true (page_fetch.go, page_fetch_all.go). *)
THEOREM FetchCorrect == URLs # {} => (FetchSpec => []FetchSound)
<1> SUFFICES ASSUME URLs # {} PROVE FetchSpec => []FetchSound
    OBVIOUS
<1>1. FetchInit => Safe
    BY SafeInit
<1>2. Safe => FetchSound
    BY StatusIs DEF Safe, FetchSound
<1> QED BY <1>1, <1>2, SafeStep, PTL DEF FetchSpec

(* The limiter of automatic fetches implements FetchSlots: at most         *)
(* MaxConcurrent at a time, one of a URL, whose starts keep the interval   *)
(* (the comment above pageFetchLimiter, page_fetch.go:122-128).            *)
THEOREM SlotsRefined == URLs # {} => (FetchSpec => SlotsKept)
<1> SUFFICES ASSUME URLs # {} PROVE FetchSpec => SlotsKept
    OBVIOUS
<1>1. FetchInit => Safe
    BY SafeInit
<1>2. FetchInit => Slots!Init
    BY FetchAssumption DEF FetchInit, Slots!Init, Held, Holding
<1>3. Safe /\ [FetchNext]_fetchVars => [Slots!Next]_<<Held, Interval - wait>>
    BY SlotsStep DEF Safe
<1> QED BY <1>1, <1>2, <1>3, SafeStep, PTL DEF FetchSpec, SlotsKept, Slots!Spec
=============================================================================
