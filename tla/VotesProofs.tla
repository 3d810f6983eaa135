---------------------------- MODULE VotesProofs ----------------------------
(***************************************************************************)
(* Two arguments about votes, and one about the moderation of comments.    *)
(*                                                                         *)
(* No client votes twice on a target: from its first statement to its      *)
(* commit a vote holds the lock of the target, so nobody else can add a    *)
(* vote on it, and what it has found there of its client stays everything  *)
(* there is.                                                               *)
(*                                                                         *)
(* The counters are right: the same lock keeps what a vote has counted     *)
(* true until it commits, and a sync that nobody disturbs leaves behind it *)
(* only rows that match.                                                   *)
(*                                                                         *)
(* Masking leaves no keyword: it starts from the content, only puts stars  *)
(* over letters, and no keyword has a star, so a keyword that is there     *)
(* after all of them was there before any, and has been masked in turn.    *)
(* What the check makes of a comment follows from the list of checkers     *)
(* that are left, which says whether the keywords have had their turn.     *)
(***************************************************************************)
EXTENDS Votes, AntiSpam, FiniteSetTheorems, SequenceTheorems, WellFoundedInduction, TLAPS

-----------------------------------------------------------------------------
(* Requests are records, and steps set fields of them.                     *)

Request(pc, target, ip, choice, copy, found, todo) ==
    [pc |-> pc, target |-> target, ip |-> ip, choice |-> choice, copy |-> copy,
     found |-> found, todo |-> todo]

Whole(r) == r = Request(r.pc, r.target, r.ip, r.choice, r.copy, r.found, r.todo)

Shape ==
    /\ proc = [p \in Procs |-> proc[p]] /\ \A p \in Procs : Whole(proc[p])
    /\ lock = [t \in Targets |-> lock[t]]

(* A step of p that makes it r and leaves the other requests alone.        *)
Moves(p, r) ==
    /\ proc' = [q \in Procs |-> proc'[q]] /\ \A q \in Procs : Whole(proc'[q])
    /\ \A q \in Procs : q # p => proc'[q] = proc[q]
    /\ proc'[p] = r

(* Setting one field of a request.                                         *)
SetPc(s, x) == [s EXCEPT !.pc = x]
SetTarget(s, x) == [s EXCEPT !.target = x]
SetIp(s, x) == [s EXCEPT !.ip = x]
SetChoice(s, x) == [s EXCEPT !.choice = x]
SetCopy(s, x) == [s EXCEPT !.copy = x]
SetFound(s, x) == [s EXCEPT !.found = x]
SetTodo(s, x) == [s EXCEPT !.todo = x]

(* Setting one field leaves the others.                                    *)
LEMMA SetFields ==
    ASSUME NEW pc, NEW target, NEW ip, NEW choice, NEW copy, NEW found, NEW todo, NEW x
    PROVE  LET s == Request(pc, target, ip, choice, copy, found, todo)
           IN  /\ SetPc(s, x) = Request(x, target, ip, choice, copy, found, todo)
               /\ SetTarget(s, x) = Request(pc, x, ip, choice, copy, found, todo)
               /\ SetIp(s, x) = Request(pc, target, x, choice, copy, found, todo)
               /\ SetChoice(s, x) = Request(pc, target, ip, x, copy, found, todo)
               /\ SetCopy(s, x) = Request(pc, target, ip, choice, x, found, todo)
               /\ SetFound(s, x) = Request(pc, target, ip, choice, copy, x, todo)
               /\ SetTodo(s, x) = Request(pc, target, ip, choice, copy, found, x)
BY DEF SetPc, SetTarget, SetIp, SetChoice, SetCopy, SetFound, SetTodo, Request

(* The fields of a request are what it was made of.                        *)
LEMMA Fields ==
    ASSUME NEW a, NEW b, NEW c, NEW d, NEW e, NEW f, NEW g
    PROVE  LET r == Request(a, b, c, d, e, f, g)
           IN  /\ Whole(r)
               /\ r.pc = a /\ r.target = b /\ r.ip = c /\ r.choice = d /\ r.copy = e
               /\ r.found = f /\ r.todo = g
BY DEF Whole, Request

(* A request between two statements is a whole one.                        *)
LEMMA IdleForm ==
    /\ Idle = Request("idle", Idle.target, Idle.ip, "up", NoCopy, {}, {})
    /\ Whole(Idle)
BY DEF Idle, Whole, Request

(* Replacing the record of one request.                                    *)
Becomes(p, r) == proc' = [proc EXCEPT ![p] = r]

(* Replacing a request by a whole one is a step of it alone.               *)
LEMMA BecomesMoves ==
    ASSUME Shape, NEW p \in Procs, NEW r, Whole(r), Becomes(p, r)
    PROVE  Moves(p, r)
BY DEF Shape, Moves, Becomes

(* Going on to another place.                                              *)
LEMMA GotoForm ==
    ASSUME Shape, NEW p \in Procs, NEW x, Goto(p, x), NEW s, s = proc[p]
    PROVE  Moves(p, Request(x, s.target, s.ip, s.choice, s.copy, s.found, s.todo))
<1>1. s = Request(s.pc, s.target, s.ip, s.choice, s.copy, s.found, s.todo)
    BY DEF Shape, Whole
<1>2. Becomes(p, SetPc(s, x))
    BY DEF Goto, Becomes, SetPc
<1> QED BY <1>1, <1>2, SetFields, Fields, BecomesMoves

(* Coming back.                                                            *)
LEMMA ReturnForm ==
    ASSUME Shape, NEW p \in Procs, Return(p)
    PROVE  Moves(p, Idle)
<1>1. Becomes(p, Idle)
    BY DEF Return, Becomes
<1> QED BY <1>1, IdleForm, BecomesMoves

-----------------------------------------------------------------------------
(* What the actions make of a request.                                     *)

(* A vote begins.                                                          *)
LEMMA VoteStartForm ==
    ASSUME Shape, NEW p \in Procs, NEW t, NEW i, NEW c, VoteStart(p, t, i, c)
    PROVE  Moves(p, Request("lock", t, i, c, NoCopy, {}, {}))
<1>1. Becomes(p, SetChoice(SetIp(SetTarget(SetPc(Idle, "lock"), t), i), c))
    BY DEF VoteStart, Becomes, SetPc, SetTarget, SetIp, SetChoice
<1>2. SetPc(Idle, "lock") = Request("lock", Idle.target, Idle.ip, "up", NoCopy, {}, {})
    BY IdleForm, SetFields
<1>3. SetTarget(SetPc(Idle, "lock"), t) = Request("lock", t, Idle.ip, "up", NoCopy, {}, {})
    BY <1>2, SetFields
<1>4. SetIp(SetTarget(SetPc(Idle, "lock"), t), i) = Request("lock", t, i, "up", NoCopy, {}, {})
    BY <1>3, SetFields
<1> QED BY <1>1, <1>4, SetFields, Fields, BecomesMoves

(* It has the lock and the row.                                            *)
LEMMA VoteLockForm ==
    ASSUME Shape, NEW p \in Procs, NEW s, s = proc[p], VoteLock(p), row[s.target].alive
    PROVE  Moves(p, Request("find", s.target, s.ip, s.choice, row, s.found, s.todo))
<1>1. Becomes(p, SetCopy(SetPc(s, "find"), row))
    BY DEF VoteLock, Becomes, SetPc, SetCopy
<1>2. SetPc(s, "find") = Request("find", s.target, s.ip, s.choice, s.copy, s.found, s.todo)
    BY SetFields DEF Shape, Whole
<1> QED BY <1>1, <1>2, SetFields, Fields, BecomesMoves

(* What a vote finds: the votes of its client on its target.               *)
Mine(s) == {v \in votes : v.target = s.target /\ v.ip = s.ip}

(* It has found what its client voted before.                              *)
LEMMA VoteFindForm ==
    ASSUME Shape, NEW p \in Procs, NEW s, s = proc[p], VoteFind(p)
    PROVE  Moves(p, Request("write", s.target, s.ip, s.choice, s.copy, Mine(s), s.todo))
<1>1. Becomes(p, SetFound(SetPc(s, "write"), Mine(s)))
    BY DEF VoteFind, Becomes, SetPc, SetFound, Mine
<1>2. SetPc(s, "write") = Request("write", s.target, s.ip, s.choice, s.copy, s.found, s.todo)
    BY SetFields DEF Shape, Whole
<1> QED BY <1>1, <1>2, SetFields, Fields, BecomesMoves

(* The votes as they will be when p commits now.                           *)
After(p) == (votes \ proc[p].found) \cup NewVotes(p)

(* It has counted.                                                         *)
LEMMA VoteWriteForm ==
    ASSUME Shape, NEW p \in Procs, NEW s, s = proc[p], VoteWrite(p)
    PROVE  Moves(p, Request("commit", s.target, s.ip, s.choice,
                            Recount(s.copy, s.target, After(p)), s.found, s.todo))
<1>1. Becomes(p, SetCopy(SetPc(s, "commit"), Recount(s.copy, s.target, After(p))))
    BY DEF VoteWrite, Becomes, SetPc, SetCopy, After
<1>2. SetPc(s, "commit") = Request("commit", s.target, s.ip, s.choice, s.copy, s.found, s.todo)
    BY SetFields DEF Shape, Whole
<1> QED BY <1>1, <1>2, SetFields, Fields, BecomesMoves

(* It has committed and only has the cache to write.                       *)
LEMMA VoteCommitForm ==
    ASSUME Shape, NEW p \in Procs, NEW s, s = proc[p], VoteCommit(p)
    PROVE  Moves(p, Request("cache", s.target, Idle.ip, "up", s.copy, {}, {}))
<1>1. Becomes(p, SetCopy(SetTarget(SetPc(Idle, "cache"), s.target), s.copy))
    BY DEF VoteCommit, Becomes, SetPc, SetTarget, SetCopy
<1>2. SetPc(Idle, "cache") = Request("cache", Idle.target, Idle.ip, "up", NoCopy, {}, {})
    BY IdleForm, SetFields
<1>3. SetTarget(SetPc(Idle, "cache"), s.target) =
         Request("cache", s.target, Idle.ip, "up", NoCopy, {}, {})
    BY <1>2, SetFields
<1> QED BY <1>1, <1>3, SetFields, Fields, BecomesMoves

(* The row an edit is going to save.                                       *)
Edited(t, x) == [FindComment(t) EXCEPT !.text = x]
WithRow(c, t, r) == [c EXCEPT ![t] = r]

(* An edit holds its new row.                                              *)
LEMMA EditStartForm ==
    ASSUME Shape, NEW p \in Procs, NEW s, s = proc[p], NEW t, NEW x, EditStart(p, t, x)
    PROVE  Moves(p, Request("edit", t, s.ip, s.choice, WithRow(s.copy, t, Edited(t, x)),
                            s.found, s.todo))
<1> DEFINE q == [[s EXCEPT !.pc = "edit"] EXCEPT !.target = t]
<1>1. q = Request("edit", t, s.ip, s.choice, s.copy, s.found, s.todo)
    <2>1. SetPc(s, "edit") = Request("edit", s.target, s.ip, s.choice, s.copy, s.found, s.todo)
        BY SetFields DEF Shape, Whole
    <2>2. SetTarget(SetPc(s, "edit"), t) =
             Request("edit", t, s.ip, s.choice, s.copy, s.found, s.todo)
        BY <2>1, SetFields
    <2> QED BY <2>2 DEF SetPc, SetTarget
<1>2. q.copy = s.copy
    BY <1>1 DEF Request
<1>3. Becomes(p, [q EXCEPT !.copy = [q.copy EXCEPT ![t] = Edited(t, x)]])
    BY DEF EditStart, Becomes, Edited
<1> HIDE DEF q
<1>4. Becomes(p, SetCopy(q, WithRow(s.copy, t, Edited(t, x))))
    BY <1>2, <1>3 DEF SetCopy, WithRow
<1> QED BY <1>1, <1>4, SetFields, Fields, BecomesMoves

(* The rows a sync is going to visit.                                      *)
Alive == {t \in Targets : row[t].alive}

(* A sync has loaded the rows.                                             *)
LEMMA SyncStartForm ==
    ASSUME Shape, NEW p \in Procs, NEW s, s = proc[p], SyncStart(p)
    PROVE  Moves(p, Request("up", s.target, s.ip, s.choice, row, s.found, Alive))
<1>1. Becomes(p, SetTodo(SetCopy(SetPc(s, "up"), row), Alive))
    BY DEF SyncStart, Becomes, SetPc, SetCopy, SetTodo, Alive
<1>2. SetPc(s, "up") = Request("up", s.target, s.ip, s.choice, s.copy, s.found, s.todo)
    BY SetFields DEF Shape, Whole
<1>3. SetCopy(SetPc(s, "up"), row) =
         Request("up", s.target, s.ip, s.choice, row, s.found, s.todo)
    BY <1>2, SetFields
<1> QED BY <1>1, <1>3, SetFields, Fields, BecomesMoves

(* The copy with one counter set.                                          *)
WithUp(c, t, n) == [c EXCEPT ![t].up = n]
WithDown(c, t, n) == [c EXCEPT ![t].down = n]

(* It is at its next row, or has been at all of them.                      *)
LEMMA SyncUpForm ==
    ASSUME Shape, NEW p \in Procs, NEW s, s = proc[p], SyncUp(p)
    PROVE  \/ s.todo = {} /\ Goto(p, "done")
           \/ \E t \in s.todo :
                Moves(p, Request("down", t, s.ip, s.choice,
                            WithUp(s.copy, t, GetVoteNum(votes, t, "up")), s.found,
                            s.todo \ {t}))
<1>1. ASSUME NEW t \in s.todo,
             proc' = [proc EXCEPT ![p].pc = "down", ![p].target = t,
                        ![p].todo = proc[p].todo \ {t},
                        ![p].copy = [proc[p].copy EXCEPT ![t].up = GetVoteNum(votes, t, "up")]]
      PROVE  Moves(p, Request("down", t, s.ip, s.choice,
                         WithUp(s.copy, t, GetVoteNum(votes, t, "up")), s.found, s.todo \ {t}))
    <2>1. Becomes(p, SetCopy(SetTodo(SetTarget(SetPc(s, "down"), t), s.todo \ {t}),
                             WithUp(s.copy, t, GetVoteNum(votes, t, "up"))))
        BY <1>1 DEF WithUp, SetPc, SetTarget, SetTodo, SetCopy, Becomes
    <2>2. SetPc(s, "down") = Request("down", s.target, s.ip, s.choice, s.copy, s.found, s.todo)
        BY SetFields DEF Shape, Whole
    <2>3. SetTarget(SetPc(s, "down"), t) =
             Request("down", t, s.ip, s.choice, s.copy, s.found, s.todo)
        BY <2>2, SetFields
    <2>4. SetTodo(SetTarget(SetPc(s, "down"), t), s.todo \ {t}) =
             Request("down", t, s.ip, s.choice, s.copy, s.found, s.todo \ {t})
        BY <2>3, SetFields
    <2> QED BY <2>1, <2>4, SetFields, Fields, BecomesMoves
<1> QED BY <1>1 DEF SyncUp

(* It has both counts of the row.                                          *)
LEMMA SyncDownForm ==
    ASSUME Shape, NEW p \in Procs, NEW s, s = proc[p], SyncDown(p)
    PROVE  Moves(p, Request("save", s.target, s.ip, s.choice,
                       WithDown(s.copy, s.target, GetVoteNum(votes, s.target, "down")),
                       s.found, s.todo))
<1>1. Becomes(p, SetCopy(SetPc(s, "save"),
                         WithDown(s.copy, s.target, GetVoteNum(votes, s.target, "down"))))
    BY DEF SyncDown, WithDown, Becomes, SetPc, SetCopy
<1>2. SetPc(s, "save") = Request("save", s.target, s.ip, s.choice, s.copy, s.found, s.todo)
    BY SetFields DEF Shape, Whole
<1> QED BY <1>1, <1>2, SetFields, Fields, BecomesMoves

(* A deletion begins.                                                      *)
LEMMA DelStartForm ==
    ASSUME Shape, NEW p \in Procs, NEW s, s = proc[p], NEW t, DelStart(p, t)
    PROVE  Moves(p, Request("delVotes", t, s.ip, s.choice, s.copy, s.found, s.todo))
<1>1. Becomes(p, SetTarget(SetPc(s, "delVotes"), t))
    BY DEF DelStart, Becomes, SetPc, SetTarget
<1>2. SetPc(s, "delVotes") =
         Request("delVotes", s.target, s.ip, s.choice, s.copy, s.found, s.todo)
    BY SetFields DEF Shape, Whole
<1> QED BY <1>1, <1>2, SetFields, Fields, BecomesMoves

-----------------------------------------------------------------------------
(* One vote of a client on a target.                                       *)

Inside == {"find", "write", "commit"}

Aimed == \A p \in Voters : proc[p].pc \in {"lock"} \cup Inside => proc[p].target \in Targets
LockHeld == \A p \in Voters : proc[p].pc \in Inside => lock[proc[p].target] = p
FoundAll ==
    \A p \in Voters : proc[p].pc \in {"write", "commit"} =>
        \A v \in votes : v.target = proc[p].target /\ v.ip = proc[p].ip => v \in proc[p].found

VoteInv == Shape /\ Aimed /\ LockHeld /\ FoundAll /\ OneVotePerIP

(* A step of a request that is outside of a vote after it and adds no vote. *)
LEMMA AsideStep ==
    ASSUME VoteInv, NEW p \in Procs, NEW r, Moves(p, r), lock' = lock, votes' \subseteq votes,
           \/ r.pc \notin {"lock"} \cup Inside
           \/ r.pc = "lock" /\ r.target \in Targets
    PROVE  VoteInv'
<1>1. Voters \subseteq Procs
    BY DEF Procs
<1>2. Shape'
    BY DEF VoteInv, Shape, Moves
<1>3. Aimed' /\ LockHeld' /\ FoundAll'
    BY <1>1 DEF VoteInv, Aimed, LockHeld, FoundAll, Moves, Inside
<1>4. OneVotePerIP'
    BY DEF VoteInv, OneVotePerIP
<1> QED BY <1>2, <1>3, <1>4 DEF VoteInv

(* SELECT ... FOR UPDATE takes a free lock.                                *)
LEMMA LockStep ==
    ASSUME VoteInv, NEW p \in Voters, VoteLock(p)
    PROVE  VoteInv'
<1> PICK s : s = proc[p]
    OBVIOUS
<1> PICK t : t = s.target
    OBVIOUS
<1>1. p \in Procs /\ Voters \subseteq Procs /\ Shape
    BY DEF Procs, VoteInv
<1>2. t \in Targets /\ lock[t] = Free /\ votes' = votes
    BY DEF VoteInv, Aimed, VoteLock
<1>3. CASE ~ row[t].alive
    <2>1. Return(p) /\ lock' = lock
        BY <1>3 DEF VoteLock
    <2>2. Idle.pc = "idle"
        BY DEF Idle
    <2> QED BY <1>1, <1>2, <2>1, <2>2, ReturnForm, AsideStep DEF Inside
<1>4. CASE row[t].alive
    <2> DEFINE r == Request("find", t, s.ip, s.choice, row, s.found, s.todo)
    <2>1. r.pc = "find" /\ r.target = t
        BY Fields
    <2>2. lock' = [lock EXCEPT ![t] = p]
        BY <1>4 DEF VoteLock
    <2>3. Moves(p, r)
        BY <1>1, <1>4, VoteLockForm
    <2> HIDE DEF r
    <2>4. /\ lock' = [u \in Targets |-> lock'[u]] /\ lock'[t] = p
          /\ \A u \in Targets : u # t => lock'[u] = lock[u]
        BY <1>2, <2>2 DEF VoteInv, Shape
    <2>5. Shape'
        BY <2>3, <2>4 DEF Shape, Moves
    <2>6. Aimed'
        BY <1>1, <1>2, <2>1, <2>3 DEF VoteInv, Aimed, Moves
    <2>7. LockHeld'
        <3> SUFFICES ASSUME NEW q \in Voters, proc'[q].pc \in Inside
                     PROVE  lock'[proc'[q].target] = q
            BY DEF LockHeld
        <3>1. CASE q = p
            BY <2>1, <2>3, <2>4, <3>1 DEF Moves
        <3>2. CASE q # p
            <4>1. proc'[q] = proc[q] /\ proc[q].pc \in Inside
                BY <1>1, <2>3, <3>2 DEF Moves
            <4>2. lock[proc[q].target] = q /\ proc[q].target \in Targets
                BY <4>1 DEF VoteInv, LockHeld, Aimed
            <4>3. proc[q].target # t
                BY <1>2, <4>2, VotesAssumption
            <4> QED BY <2>4, <4>1, <4>2, <4>3
        <3> QED BY <3>1, <3>2
    <2>8. FoundAll'
        BY <1>1, <1>2, <2>1, <2>3 DEF VoteInv, FoundAll, Moves
    <2>9. OneVotePerIP'
        BY <1>2 DEF VoteInv, OneVotePerIP
    <2> QED BY <2>5, <2>6, <2>7, <2>8, <2>9 DEF VoteInv
<1> QED BY <1>3, <1>4

(* A step inside a vote that keeps the lock and writes nothing yet.        *)
LEMMA InsideStep ==
    ASSUME VoteInv, NEW p \in Voters, NEW r, Moves(p, r), lock' = lock, votes' = votes,
           proc[p].pc \in Inside, r.target = proc[p].target,
           r.pc \in {"write", "commit"},
           \A v \in votes : v.target = proc[p].target /\ v.ip = r.ip => v \in r.found
    PROVE  VoteInv'
<1>1. Voters \subseteq Procs
    BY DEF Procs
<1>2. Shape'
    BY DEF VoteInv, Shape, Moves
<1>3. Aimed' /\ LockHeld'
    BY <1>1 DEF VoteInv, Aimed, LockHeld, Moves, Inside
<1>4. FoundAll'
    BY <1>1 DEF VoteInv, FoundAll, Moves
<1>5. OneVotePerIP'
    BY DEF VoteInv, OneVotePerIP
<1> QED BY <1>2, <1>3, <1>4, <1>5 DEF VoteInv

(* The votes of the client are found.                                      *)
LEMMA FindStep ==
    ASSUME VoteInv, NEW p \in Voters, VoteFind(p)
    PROVE  VoteInv'
<1> PICK s : s = proc[p]
    OBVIOUS
<1> DEFINE r == Request("write", s.target, s.ip, s.choice, s.copy, Mine(s), s.todo)
<1>1. p \in Procs /\ Shape
    BY DEF Procs, VoteInv
<1>2. r.pc = "write" /\ r.found = Mine(s) /\ r.target = s.target /\ r.ip = s.ip
    BY Fields
<1>3. Moves(p, r)
    BY <1>1, VoteFindForm
<1> HIDE DEF r
<1>4. \A v \in votes : v.target = s.target /\ v.ip = r.ip => v \in r.found
    BY <1>2 DEF Mine
<1> QED BY <1>2, <1>3, <1>4, InsideStep DEF VoteFind, Inside

(* The counts are taken, nothing is visible to others yet.                 *)
LEMMA WriteStep ==
    ASSUME VoteInv, NEW p \in Voters, VoteWrite(p)
    PROVE  VoteInv'
<1> PICK s : s = proc[p]
    OBVIOUS
<1> DEFINE r == Request("commit", s.target, s.ip, s.choice,
                        Recount(s.copy, s.target, After(p)), s.found, s.todo)
<1>1. p \in Procs /\ Shape
    BY DEF Procs, VoteInv
<1>2. r.pc = "commit" /\ r.found = s.found /\ r.target = s.target /\ r.ip = s.ip
    BY Fields
<1>3. Moves(p, r)
    BY <1>1, VoteWriteForm
<1> HIDE DEF r
<1>4. \A v \in votes : v.target = s.target /\ v.ip = r.ip => v \in r.found
    BY <1>2 DEF VoteInv, FoundAll, VoteWrite
<1> QED BY <1>2, <1>3, <1>4, InsideStep DEF VoteWrite, Inside

(* A request that leaves a vote gives back the lock; votes on other        *)
(* targets go on.                                                          *)
LEMMA UnlockStep ==
    ASSUME VoteInv, NEW p \in Voters, NEW r, Moves(p, r), r.pc \notin {"lock"} \cup Inside,
           NEW t \in Targets, lock[t] = p, lock' = [lock EXCEPT ![t] = Free],
           \A v \in votes' : v \in votes \/ v.target = t
    PROVE  Shape' /\ Aimed' /\ LockHeld' /\ FoundAll'
<1>1. Voters \subseteq Procs
    BY DEF Procs
<1>2. /\ lock' = [u \in Targets |-> lock'[u]]
      /\ \A u \in Targets : u # t => lock'[u] = lock[u]
    BY DEF VoteInv, Shape
<1>3. Shape'
    BY <1>2 DEF Shape, Moves
<1>4. ASSUME NEW q \in Voters, proc'[q].pc \in {"lock"} \cup Inside
      PROVE  q # p /\ proc'[q] = proc[q]
    BY <1>1, <1>4 DEF Moves
<1>5. ASSUME NEW q \in Voters, proc'[q].pc \in Inside
      PROVE  /\ proc'[q] = proc[q] /\ proc[q].pc \in Inside
             /\ proc[q].target \in Targets /\ proc[q].target # t
             /\ lock[proc[q].target] = q
    BY <1>4, <1>5 DEF VoteInv, Aimed, LockHeld
<1>6. Aimed'
    BY <1>4 DEF VoteInv, Aimed
<1>7. LockHeld'
    BY <1>2, <1>5 DEF LockHeld
<1>8. FoundAll'
    <2> SUFFICES ASSUME NEW q \in Voters, proc'[q].pc \in {"write", "commit"},
                        NEW v \in votes', v.target = proc'[q].target, v.ip = proc'[q].ip
                 PROVE  v \in proc'[q].found
        BY DEF FoundAll
    <2>1. proc'[q] = proc[q] /\ proc[q].target # t
        BY <1>5 DEF Inside
    <2>2. v \in votes
        BY <2>1
    <2> QED BY <2>1, <2>2 DEF VoteInv, FoundAll
<1> QED BY <1>3, <1>6, <1>7, <1>8

(* The new vote is the only one of its client on its target.               *)
LEMMA CommitStep ==
    ASSUME VoteInv, NEW p \in Voters, VoteCommit(p)
    PROVE  VoteInv'
<1> PICK s : s = proc[p]
    OBVIOUS
<1> PICK t : t = s.target
    OBVIOUS
<1> DEFINE r == Request("cache", t, Idle.ip, "up", s.copy, {}, {})
<1>1. p \in Procs /\ Shape
    BY DEF Procs, VoteInv
<1>2. /\ t \in Targets /\ lock[t] = p
      /\ \A v \in votes : v.target = t /\ v.ip = s.ip => v \in s.found
    BY DEF VoteInv, Aimed, LockHeld, FoundAll, VoteCommit, Inside
<1>3. Moves(p, r) /\ r.pc = "cache"
    BY <1>1, VoteCommitForm, Fields
<1> HIDE DEF r
<1>4. NewVotes(p) \subseteq OneVote(p)
    BY DEF NewVotes
<1>5. \A v \in NewVotes(p) : v.target = t /\ v.ip = s.ip
    BY <1>4 DEF OneVote
<1>6. \A v, w \in NewVotes(p) : v = w
    BY <1>4 DEF OneVote
<1>7. \A v \in votes \ s.found : ~ (v.target = t /\ v.ip = s.ip)
    BY <1>2
<1>8. votes' = (votes \ s.found) \cup NewVotes(p) /\ lock' = [lock EXCEPT ![t] = Free]
    BY DEF VoteCommit
<1>9. OneVotePerIP'
    <2> SUFFICES ASSUME NEW v \in votes', NEW w \in votes', v.target = w.target, v.ip = w.ip
                 PROVE  v = w
        BY DEF OneVotePerIP
    <2>1. CASE v \in NewVotes(p) /\ w \in NewVotes(p)
        BY <1>6, <2>1
    <2>2. CASE v \in votes \ s.found /\ w \in votes \ s.found
        BY <2>2 DEF VoteInv, OneVotePerIP
    <2>3. CASE v \in NewVotes(p) /\ w \in votes \ s.found
        BY <1>5, <1>7, <2>3
    <2>4. CASE v \in votes \ s.found /\ w \in NewVotes(p)
        BY <1>5, <1>7, <2>4
    <2> QED BY <1>8, <2>1, <2>2, <2>3, <2>4
<1>10. \A v \in votes' : v \in votes \/ v.target = t
    BY <1>5, <1>8
<1> QED BY <1>2, <1>3, <1>8, <1>9, <1>10, UnlockStep DEF VoteInv, Inside

(* A vote that fails leaves nothing behind.                                *)
LEMMA RollbackStep ==
    ASSUME VoteInv, NEW p \in Voters, VoteRollback(p)
    PROVE  VoteInv'
<1> PICK t : t = proc[p].target
    OBVIOUS
<1>1. p \in Procs /\ Shape
    BY DEF Procs, VoteInv
<1>2. t \in Targets /\ lock[t] = p /\ votes' = votes /\ lock' = [lock EXCEPT ![t] = Free]
    BY DEF VoteInv, Aimed, LockHeld, VoteRollback, Inside
<1>3. Moves(p, Idle) /\ Idle.pc = "idle"
    BY <1>1, ReturnForm DEF VoteRollback, Idle
<1>4. OneVotePerIP'
    BY <1>2 DEF VoteInv, OneVotePerIP
<1>5. \A v \in votes' : v \in votes \/ v.target = t
    BY <1>2
<1> QED BY <1>2, <1>3, <1>4, <1>5, UnlockStep DEF VoteInv, Inside

(* Steps that only go on to another place outside of a vote, or return.    *)
LEMMA LeaveStep ==
    ASSUME VoteInv, NEW p \in Procs, lock' = lock, votes' \subseteq votes,
           Return(p) \/ \E x : Goto(p, x) /\ x \notin {"lock"} \cup Inside
    PROVE  VoteInv'
<1>0. Shape
    BY DEF VoteInv
<1>1. CASE Return(p)
    BY <1>0, <1>1, ReturnForm, AsideStep DEF Inside, Idle
<1>2. ASSUME NEW x, Goto(p, x), x \notin {"lock"} \cup Inside PROVE VoteInv'
    <2> PICK s : s = proc[p]
        OBVIOUS
    <2>1. Moves(p, Request(x, s.target, s.ip, s.choice, s.copy, s.found, s.todo))
        BY <1>0, <1>2, GotoForm
    <2> QED BY <1>2, <2>1, Fields, AsideStep
<1> QED BY <1>1, <1>2

(* CommentCacheSave writes neither votes nor locks.                        *)
LEMMA CacheStep ==
    ASSUME VoteInv, NEW p \in Procs, CacheSave(p)
    PROVE  VoteInv'
<1>1. lock' = lock /\ votes' = votes /\ (Goto(p, "up") \/ Return(p))
    BY DEF CacheSave
<1> QED BY <1>1, LeaveStep DEF Inside

(* Steps that change a request outside of a vote and write no vote.        *)
LEMMA OutsideSteps ==
    ASSUME VoteInv, NEW p \in Procs,
           \/ \E t \in Targets, i \in IPs, c \in VoteChoices : VoteStart(p, t, i, c)
           \/ \E t \in Targets, x \in Texts : EditStart(p, t, x)
           \/ SyncStart(p) \/ SyncUp(p) \/ SyncDown(p)
           \/ \E t \in Targets : DelStart(p, t)
    PROVE  VoteInv'
<1> PICK s : s = proc[p]
    OBVIOUS
<1>0. Shape
    BY DEF VoteInv
<1>1. ASSUME NEW t \in Targets, NEW i \in IPs, NEW c \in VoteChoices, VoteStart(p, t, i, c)
      PROVE  VoteInv'
    <2> DEFINE r == Request("lock", t, i, c, NoCopy, {}, {})
    <2>1. Moves(p, r) /\ r.pc = "lock" /\ r.target = t
        BY <1>0, <1>1, VoteStartForm, Fields
    <2> HIDE DEF r
    <2> QED BY <1>1, <2>1, AsideStep DEF VoteStart
<1>2. ASSUME NEW t \in Targets, NEW x \in Texts, EditStart(p, t, x)
      PROVE  VoteInv'
    <2> DEFINE r == Request("edit", t, s.ip, s.choice, WithRow(s.copy, t, Edited(t, x)),
                            s.found, s.todo)
    <2>1. Moves(p, r) /\ r.pc = "edit"
        BY <1>0, <1>2, EditStartForm, Fields
    <2> HIDE DEF r
    <2> QED BY <1>2, <2>1, AsideStep DEF EditStart, Inside
<1>3. CASE SyncStart(p)
    <2> DEFINE r == Request("up", s.target, s.ip, s.choice, row, s.found, Alive)
    <2>1. Moves(p, r) /\ r.pc = "up"
        BY <1>0, <1>3, SyncStartForm, Fields
    <2> HIDE DEF r
    <2> QED BY <1>3, <2>1, AsideStep DEF SyncStart, Inside
<1>4. CASE SyncUp(p)
    <2>0. lock' = lock /\ votes' = votes
        BY <1>4 DEF SyncUp
    <2>1. ASSUME Goto(p, "done") PROVE VoteInv'
        BY <2>0, <2>1, LeaveStep DEF Inside
    <2>2. ASSUME NEW t, NEW c, NEW d,
                 Moves(p, Request("down", t, s.ip, s.choice, c, s.found, d))
          PROVE  VoteInv'
        <3> DEFINE r == Request("down", t, s.ip, s.choice, c, s.found, d)
        <3>1. Moves(p, r) /\ r.pc = "down"
            BY <2>2, Fields
        <3> HIDE DEF r
        <3> QED BY <2>0, <3>1, AsideStep DEF Inside
    <2> QED BY <1>0, <1>4, <2>1, <2>2, SyncUpForm
<1>5. CASE SyncDown(p)
    <2> DEFINE c == WithDown(s.copy, s.target, GetVoteNum(votes, s.target, "down"))
               r == Request("save", s.target, s.ip, s.choice, c, s.found, s.todo)
    <2>1. Moves(p, r) /\ r.pc = "save"
        BY <1>0, <1>5, SyncDownForm, Fields
    <2> HIDE DEF r
    <2> QED BY <1>5, <2>1, AsideStep DEF SyncDown, Inside
<1>6. ASSUME NEW t \in Targets, DelStart(p, t) PROVE VoteInv'
    <2> DEFINE r == Request("delVotes", t, s.ip, s.choice, s.copy, s.found, s.todo)
    <2>1. Moves(p, r) /\ r.pc = "delVotes"
        BY <1>0, <1>6, DelStartForm, Fields
    <2> HIDE DEF r
    <2> QED BY <1>6, <2>1, AsideStep DEF DelStart, Inside
<1> QED BY <1>1, <1>2, <1>3, <1>4, <1>5, <1>6

(* Steps that write a row or end a request outside of a vote.              *)
LEMMA WriterSteps ==
    ASSUME VoteInv, NEW p \in Procs,
           \/ SyncSave(p) \/ SyncEnd(p) \/ EditSave(p) \/ SaveFails(p)
           \/ DelVotes(p) \/ DelRow(p) \/ DelCache(p) \/ DelFail(p)
    PROVE  VoteInv'
<1>1. lock' = lock /\ votes' \subseteq votes
    BY DEF SyncSave, SyncEnd, EditSave, SaveFails, DelVotes, DelRow, DelCache, DelFail
<1>2. Return(p) \/ \E x \in {"cache", "delRow", "delCache"} : Goto(p, x)
    BY DEF SyncSave, SyncEnd, EditSave, SaveFails, DelVotes, DelRow, DelCache, DelFail
<1> QED BY <1>1, <1>2, LeaveStep DEF Inside

(* Nobody votes yet.                                                       *)
LEMMA VoteInvInit == Init => VoteInv
<1> SUFFICES ASSUME Init PROVE VoteInv
    OBVIOUS
<1>1. Whole(Idle) /\ Idle.pc = "idle"
    BY IdleForm DEF Idle
<1>2. \A p \in Procs : proc[p] = Idle
    BY DEF Init
<1>3. Shape
    BY <1>1, <1>2 DEF Init, Shape
<1>4. Aimed /\ LockHeld /\ FoundAll
    BY <1>1, <1>2 DEF Aimed, LockHeld, FoundAll, Inside, Procs
<1> QED BY <1>3, <1>4 DEF Init, VoteInv, OneVotePerIP

(* One case per action, grouped by who takes it.                           *)
LEMMA VoteInvStep == VoteInv /\ [Next]_vars => VoteInv'
<1> SUFFICES ASSUME VoteInv, [Next]_vars PROVE VoteInv'
    OBVIOUS
<1>1. CASE UNCHANGED vars
    BY <1>1 DEF vars, VoteInv, Shape, Whole, Aimed, LockHeld, FoundAll, OneVotePerIP
<1>2. ASSUME NEW p \in Voters, VoterStep(p) PROVE VoteInv'
    BY <1>2, LockStep, FindStep, WriteStep, CommitStep, RollbackStep, CacheStep
       DEF VoterStep, Procs
<1>3. ASSUME NEW p \in Procs, SyncStep(p) \/ EditStep(p) \/ DelStep(p) PROVE VoteInv'
    BY <1>3, CacheStep, OutsideSteps, WriterSteps DEF SyncStep, EditStep, DelStep
<1>4. Voters \subseteq Procs /\ Syncers \subseteq Procs /\ Editors \subseteq Procs
      /\ Deleters \subseteq Procs
    BY DEF Procs
<1> QED BY <1>1, <1>2, <1>3, <1>4, OutsideSteps DEF Next

(* However many clients vote at the same time, whatever rolls back and     *)
(* whoever syncs, edits or deletes meanwhile: the table holds at most one  *)
(* vote of a client on a target (vote.go, updateVote).                     *)
THEOREM VotesOnce == Spec => []OneVotePerIP
<1>1. VoteInv => OneVotePerIP
    BY DEF VoteInv
<1> QED BY <1>1, VoteInvInit, VoteInvStep, PTL DEF Spec

-----------------------------------------------------------------------------
(* Types.                                                                  *)

Places == {"idle", "lock", "find", "write", "commit", "cache", "edit", "up", "down", "save",
           "done", "delVotes", "delRow", "delCache"}

(* A request made of typed fields is typed, and the other way round.       *)
LEMMA RequestType ==
    ASSUME NEW pc \in Places, NEW target \in Targets, NEW ip \in IPs,
           NEW choice \in VoteChoices, NEW copy \in [Targets -> Row],
           NEW found \in SUBSET Vote, NEW todo \in SUBSET Targets
    PROVE  Request(pc, target, ip, choice, copy, found, todo) \in Proc
BY DEF Request, Proc, Places

(* The fields of a typed request.                                          *)
LEMMA ProcFields ==
    ASSUME NEW s \in Proc
    PROVE  /\ Whole(s)
           /\ s.pc \in Places /\ s.target \in Targets /\ s.ip \in IPs
           /\ s.choice \in VoteChoices /\ s.copy \in [Targets -> Row]
           /\ s.found \in SUBSET Vote /\ s.todo \in SUBSET Targets
BY DEF Proc, Places, Whole, Request

(* The zero values.                                                        *)
LEMMA ZeroTypes == NoRow \in Row /\ NoCopy \in [Targets -> Row] /\ Idle \in Proc
<1>1. NoRow \in Row
    <2> PICK x : x = CHOOSE y \in Texts : TRUE
        OBVIOUS
    <2>1. x \in Texts
        BY VotesAssumption
    <2>2. [alive |-> FALSE, up |-> 0, down |-> 0, text |-> x] \in Row
        BY <2>1 DEF Row
    <2> QED BY <2>2 DEF NoRow
<1>2. NoCopy \in [Targets -> Row]
    BY <1>1 DEF NoCopy
<1>3. Idle.target \in Targets /\ Idle.ip \in IPs
    BY VotesAssumption DEF Idle
<1>4. Request("idle", Idle.target, Idle.ip, "up", NoCopy, {}, {}) \in Proc
    BY <1>2, <1>3, RequestType DEF Places, VoteChoices
<1> QED BY <1>1, <1>2, <1>4, IdleForm

(* Setting one counter of one row.                                         *)
LEMMA CounterSet ==
    ASSUME NEW c \in [Targets -> Row], NEW t \in Targets, NEW n \in Nat
    PROVE  /\ WithUp(c, t, n) \in [Targets -> Row]
           /\ WithUp(c, t, n)[t].up = n
           /\ WithUp(c, t, n)[t].down = c[t].down
           /\ WithUp(c, t, n)[t].alive = c[t].alive
           /\ \A u \in Targets : u # t => WithUp(c, t, n)[u] = c[u]
           /\ WithDown(c, t, n) \in [Targets -> Row]
           /\ WithDown(c, t, n)[t].down = n
           /\ WithDown(c, t, n)[t].up = c[t].up
           /\ WithDown(c, t, n)[t].alive = c[t].alive
           /\ \A u \in Targets : u # t => WithDown(c, t, n)[u] = c[u]
<1>1. c[t] \in Row
    OBVIOUS
<1>2. /\ [c[t] EXCEPT !.up = n] \in Row /\ [c[t] EXCEPT !.up = n].up = n
      /\ [c[t] EXCEPT !.up = n].down = c[t].down
      /\ [c[t] EXCEPT !.up = n].alive = c[t].alive
    BY <1>1 DEF Row
<1>3. /\ [c[t] EXCEPT !.down = n] \in Row /\ [c[t] EXCEPT !.down = n].down = n
      /\ [c[t] EXCEPT !.down = n].up = c[t].up
      /\ [c[t] EXCEPT !.down = n].alive = c[t].alive
    BY <1>1 DEF Row
<1>4. /\ WithUp(c, t, n) = [c EXCEPT ![t] = [c[t] EXCEPT !.up = n]]
      /\ WithDown(c, t, n) = [c EXCEPT ![t] = [c[t] EXCEPT !.down = n]]
    BY DEF WithUp, WithDown
<1> DEFINE a == [c[t] EXCEPT !.up = n]
           b == [c[t] EXCEPT !.down = n]
<1>5. /\ a \in Row /\ a.up = n /\ a.down = c[t].down /\ a.alive = c[t].alive
      /\ b \in Row /\ b.down = n /\ b.up = c[t].up /\ b.alive = c[t].alive
      /\ WithUp(c, t, n) = [c EXCEPT ![t] = a] /\ WithDown(c, t, n) = [c EXCEPT ![t] = b]
    BY <1>2, <1>3, <1>4
<1> HIDE DEF a, b
<1> QED BY <1>5

(* Both counters of one row.                                               *)
WithBoth(c, t, m, n) == WithDown(WithUp(c, t, m), t, n)

(* Both are set and nothing else is.                                       *)
LEMMA BothSet ==
    ASSUME NEW c \in [Targets -> Row], NEW t \in Targets, NEW m \in Nat, NEW n \in Nat
    PROVE  /\ WithBoth(c, t, m, n) \in [Targets -> Row]
           /\ WithBoth(c, t, m, n)[t].up = m /\ WithBoth(c, t, m, n)[t].down = n
           /\ WithBoth(c, t, m, n)[t].alive = c[t].alive
           /\ \A u \in Targets : u # t => WithBoth(c, t, m, n)[u] = c[u]
<1> DEFINE w == WithUp(c, t, m)
<1>1. /\ w \in [Targets -> Row] /\ w[t].up = m /\ w[t].alive = c[t].alive
      /\ \A u \in Targets : u # t => w[u] = c[u]
    BY CounterSet
<1>2. WithBoth(c, t, m, n) = WithDown(w, t, n)
    BY DEF WithBoth
<1> HIDE DEF w
<1>3. /\ WithDown(w, t, n) \in [Targets -> Row]
      /\ WithDown(w, t, n)[t].down = n /\ WithDown(w, t, n)[t].up = w[t].up
      /\ WithDown(w, t, n)[t].alive = w[t].alive
      /\ \A u \in Targets : u # t => WithDown(w, t, n)[u] = w[u]
    BY <1>1, CounterSet
<1> QED BY <1>1, <1>2, <1>3

(* Replacing one row.                                                      *)
LEMMA RowSet ==
    ASSUME NEW c \in [Targets -> Row], NEW t \in Targets, NEW r \in Row
    PROVE  /\ WithRow(c, t, r) \in [Targets -> Row] /\ WithRow(c, t, r)[t] = r
           /\ \A u \in Targets : u # t => WithRow(c, t, r)[u] = c[u]
BY DEF WithRow

(* What is counted is finite.                                              *)
LEMMA CountType ==
    ASSUME NEW vs, IsFiniteSet(vs), NEW t, NEW c
    PROVE  GetVoteNum(vs, t, c) \in Nat
<1> DEFINE some == {v \in vs : v.target = t /\ v.type = c}
<1>1. IsFiniteSet(some)
    BY FS_Subset
<1>2. Cardinality(some) \in Nat
    BY <1>1, FS_CardinalityType
<1> QED BY <1>2 DEF GetVoteNum

(* A vote inserts at most one row, under an id that is free.               *)
New(p) == [id |-> CHOOSE i \in FreshIds : TRUE, target |-> proc[p].target,
           ip |-> proc[p].ip, type |-> proc[p].choice]
TakesBack(p) == \E v \in proc[p].found :
                   v.type = proc[p].choice /\ \A w \in proc[p].found : v.id <= w.id

(* What is inserted is new, on the target, for the choice.                 *)
LEMMA NewVote ==
    ASSUME TypeOK, NEW p \in Procs, FreshIds # {}
    PROVE  /\ NewVotes(p) = IF TakesBack(p) THEN {} ELSE {New(p)}
           /\ New(p) \in Vote /\ New(p) \notin votes
           /\ New(p).target = proc[p].target /\ New(p).type = proc[p].choice
<1>1. NewVotes(p) = IF TakesBack(p) THEN {} ELSE {New(p)}
    BY DEF NewVotes, OneVote, TakesBack, New
<1> PICK i : i = CHOOSE j \in FreshIds : TRUE
    OBVIOUS
<1>2. i \in FreshIds
    OBVIOUS
<1>3. i \in 1..MaxVotes /\ \A v \in votes : v.id # i
    BY <1>2 DEF FreshIds
<1>4. proc[p] \in Proc
    BY DEF TypeOK
<1>5. New(p) = [id |-> i, target |-> proc[p].target, ip |-> proc[p].ip,
                type |-> proc[p].choice]
    BY DEF New
<1>6. New(p) \in Vote /\ New(p).id = i
    BY <1>3, <1>4, <1>5, ProcFields DEF Vote
<1> QED BY <1>1, <1>3, <1>5, <1>6

(* The votes after a commit are typed and finitely many.                   *)
LEMMA AfterType ==
    ASSUME TypeOK, IsFiniteSet(votes), NEW p \in Procs, FreshIds # {}
    PROVE  After(p) \subseteq Vote /\ IsFiniteSet(After(p))
<1>1. IsFiniteSet(votes \ proc[p].found)
    BY FS_Subset
<1>2. IsFiniteSet(NewVotes(p)) /\ NewVotes(p) \subseteq Vote
    <2>1. CASE TakesBack(p)
        BY <2>1, NewVote, FS_EmptySet
    <2>2. CASE ~ TakesBack(p)
        <3>1. NewVotes(p) = {New(p)} /\ New(p) \in Vote
            BY <2>2, NewVote
        <3> HIDE DEF New
        <3>2. IsFiniteSet({New(p)})
            BY FS_Singleton
        <3> QED BY <3>1, <3>2
    <2> QED BY <2>1, <2>2
<1>3. IsFiniteSet((votes \ proc[p].found) \cup NewVotes(p))
    BY <1>1, <1>2, FS_Union
<1> QED BY <1>2, <1>3 DEF After, TypeOK

(* Reading through the cache, editing.                                     *)
LEMMA EditedType ==
    ASSUME TypeOK, NEW t \in Targets, NEW x \in Texts
    PROVE  Edited(t, x) \in Row
<1>1. FindComment(t) \in Row
    BY DEF FindComment, TypeOK
<1> PICK r \in Row : r = FindComment(t)
    BY <1>1
<1>2. [r EXCEPT !.text = x] \in Row
    BY DEF Row
<1> QED BY <1>2 DEF Edited

(* The counts of a vote, and its two updates of the row.                   *)
LEMMA RecountForm ==
    ASSUME NEW c \in [Targets -> Row], NEW t \in Targets, NEW vs
    PROVE  Recount(c, t, vs) = WithBoth(c, t, GetVoteNum(vs, t, "up"), GetVoteNum(vs, t, "down"))
<1> PICK m, n : m = GetVoteNum(vs, t, "up") /\ n = GetVoteNum(vs, t, "down")
    OBVIOUS
<1>1. Recount(c, t, vs) = [c EXCEPT ![t].up = m, ![t].down = n]
    BY DEF Recount
<1> QED BY <1>1 DEF WithBoth, WithUp, WithDown

(* The commit sets both counters.                                          *)
LEMMA CommitRow ==
    ASSUME NEW p, VoteCommit(p), NEW s, s = proc[p]
    PROVE  row' = WithBoth(row, s.target, s.copy[s.target].up, s.copy[s.target].down)
<1> PICK t, m, n : t = s.target /\ m = s.copy[t].up /\ n = s.copy[t].down
    OBVIOUS
<1>1. row' = [row EXCEPT ![t].up = m, ![t].down = n]
    BY DEF VoteCommit
<1> QED BY <1>1 DEF WithBoth, WithUp, WithDown

-----------------------------------------------------------------------------
(* Type correctness.                                                       *)

TypeInv == TypeOK /\ IsFiniteSet(votes)

(* Typed requests are whole.                                               *)
LEMMA TypeShape == TypeOK => Shape
<1> SUFFICES ASSUME TypeOK PROVE Shape
    OBVIOUS
<1>1. \A p \in Procs : Whole(proc[p])
    BY ProcFields DEF TypeOK
<1> QED BY <1>1 DEF TypeOK, Shape

(* A step that makes p a typed request and touches no variable but the     *)
(* histories.                                                              *)
LEMMA MoveType ==
    ASSUME TypeInv, NEW p \in Procs, NEW r \in Proc, Moves(p, r)
    PROVE  proc' \in [Procs -> Proc]
<1>1. \A q \in Procs : proc'[q] \in Proc
    BY DEF Moves, TypeInv, TypeOK
<1> QED BY <1>1 DEF Moves

(* A request that has only gone on.                                        *)
LEMMA GotoType ==
    ASSUME TypeInv, NEW p \in Procs, NEW x \in Places, Goto(p, x)
    PROVE  proc' \in [Procs -> Proc]
<1> PICK s : s = proc[p]
    OBVIOUS
<1>1. s \in Proc
    BY DEF TypeInv, TypeOK
<1> DEFINE r == Request(x, s.target, s.ip, s.choice, s.copy, s.found, s.todo)
<1>2. r \in Proc
    BY <1>1, ProcFields, RequestType
<1>3. Moves(p, r)
    BY TypeShape, GotoForm DEF TypeInv
<1> HIDE DEF r
<1> QED BY <1>2, <1>3, MoveType

(* A request that has come back.                                           *)
LEMMA ReturnType ==
    ASSUME TypeInv, NEW p \in Procs, Return(p)
    PROVE  proc' \in [Procs -> Proc]
BY TypeShape, ReturnForm, ZeroTypes, MoveType DEF TypeInv

(* The history of calm stays typed, whoever writes.                        *)
LEMMA HistoryType ==
    ASSUME TypeInv
    PROVE  /\ NoneCalm => calm' \in [Syncers -> BOOLEAN]
           /\ \A p : Disturb(p) => calm' \in [Syncers -> BOOLEAN]
<1>1. NoneCalm => calm' \in [Syncers -> BOOLEAN]
    BY DEF NoneCalm
<1>2. ASSUME NEW p, Disturb(p) PROVE calm' \in [Syncers -> BOOLEAN]
    <2>1. \A q \in Syncers : (q = p /\ calm[q]) \in BOOLEAN
        OBVIOUS
    <2> QED BY <1>2, <2>1 DEF Disturb
<1> QED BY <1>1, <1>2

(* The statements of a vote.                                               *)
LEMMA VoteTypes ==
    ASSUME TypeInv, NEW p \in Voters,
           \/ \E t \in Targets, i \in IPs, c \in VoteChoices : VoteStart(p, t, i, c)
           \/ VoteLock(p) \/ VoteFind(p) \/ VoteWrite(p) \/ VoteRollback(p)
    PROVE  TypeInv'
<1> PICK s : s = proc[p]
    OBVIOUS
<1>1. p \in Procs /\ Shape
    BY TypeShape DEF Procs, TypeInv
<1>2. s \in Proc /\ row \in [Targets -> Row]
    BY <1>1 DEF TypeInv, TypeOK
<1>3. /\ s.target \in Targets /\ s.ip \in IPs /\ s.choice \in VoteChoices
      /\ s.copy \in [Targets -> Row] /\ s.found \in SUBSET Vote /\ s.todo \in SUBSET Targets
    BY <1>2, ProcFields
<1>4. ASSUME proc' \in [Procs -> Proc], lock' \in [Targets -> Voters \cup {Free}],
             UNCHANGED <<row, votes, cache, calm, clean>>
      PROVE  TypeInv'
    BY <1>4 DEF TypeInv, TypeOK
<1>5. ASSUME NEW t \in Targets, NEW i \in IPs, NEW c \in VoteChoices, VoteStart(p, t, i, c)
      PROVE  TypeInv'
    <2>1. Request("lock", t, i, c, NoCopy, {}, {}) \in Proc
        BY ZeroTypes, RequestType DEF Places
    <2>2. proc' \in [Procs -> Proc]
        BY <1>1, <1>5, <2>1, VoteStartForm, MoveType
    <2> QED BY <1>4, <1>5, <2>2 DEF VoteStart, TypeInv, TypeOK
<1>6. CASE VoteLock(p)
    <2>1. CASE row[s.target].alive
        <3>1. Request("find", s.target, s.ip, s.choice, row, s.found, s.todo) \in Proc
            BY <1>2, <1>3, RequestType DEF Places
        <3>2. proc' \in [Procs -> Proc]
            BY <1>1, <1>6, <2>1, <3>1, VoteLockForm, MoveType
        <3>3. lock' \in [Targets -> Voters \cup {Free}]
            BY <1>6, <2>1 DEF VoteLock, TypeInv, TypeOK
        <3> QED BY <1>4, <1>6, <3>2, <3>3 DEF VoteLock
    <2>2. CASE ~ row[s.target].alive
        <3>1. Return(p) /\ UNCHANGED lock
            BY <1>6, <2>2 DEF VoteLock
        <3> QED BY <1>1, <1>4, <1>6, <3>1, ReturnType DEF VoteLock, TypeInv, TypeOK
    <2> QED BY <2>1, <2>2
<1>7. CASE VoteFind(p)
    <2>1. Mine(s) \in SUBSET Vote
        BY DEF Mine, TypeInv, TypeOK
    <2>2. Request("write", s.target, s.ip, s.choice, s.copy, Mine(s), s.todo) \in Proc
        BY <1>3, <2>1, RequestType DEF Places
    <2>3. proc' \in [Procs -> Proc]
        BY <1>1, <1>7, <2>2, VoteFindForm, MoveType
    <2> QED BY <1>4, <1>7, <2>3 DEF VoteFind, TypeInv, TypeOK
<1>8. CASE VoteWrite(p)
    <2>1. IsFiniteSet(After(p))
        BY <1>1, <1>8, AfterType DEF VoteWrite, TypeInv
    <2>2. Recount(s.copy, s.target, After(p)) \in [Targets -> Row]
        <3> PICK m, n : /\ m = GetVoteNum(After(p), s.target, "up")
                        /\ n = GetVoteNum(After(p), s.target, "down")
            OBVIOUS
        <3>1. m \in Nat /\ n \in Nat
            BY <2>1, CountType
        <3>2. Recount(s.copy, s.target, After(p)) = WithBoth(s.copy, s.target, m, n)
            BY <1>3, RecountForm
        <3>3. WithBoth(s.copy, s.target, m, n) \in [Targets -> Row]
            BY ONLY <1>3, <3>1, BothSet
        <3> QED BY <3>2, <3>3
    <2>3. Request("commit", s.target, s.ip, s.choice, Recount(s.copy, s.target, After(p)),
                  s.found, s.todo) \in Proc
        BY <1>3, <2>2, RequestType DEF Places
    <2>4. proc' \in [Procs -> Proc]
        BY <1>1, <1>8, <2>3, VoteWriteForm, MoveType
    <2> QED BY <1>4, <1>8, <2>4 DEF VoteWrite, TypeInv, TypeOK
<1>9. CASE VoteRollback(p)
    <2>1. lock' \in [Targets -> Voters \cup {Free}]
        BY <1>9 DEF VoteRollback, TypeInv, TypeOK
    <2> QED BY <1>1, <1>4, <1>9, <2>1, ReturnType DEF VoteRollback
<1> QED BY <1>5, <1>6, <1>7, <1>8, <1>9

(* A vote commits.                                                         *)
LEMMA CommitType ==
    ASSUME TypeInv, NEW p \in Voters, VoteCommit(p)
    PROVE  TypeInv'
<1> PICK s : s = proc[p]
    OBVIOUS
<1>1. p \in Procs /\ Shape
    BY TypeShape DEF Procs, TypeInv
<1>2. s \in Proc
    BY <1>1 DEF TypeInv, TypeOK
<1>3. s.target \in Targets /\ s.copy \in [Targets -> Row]
    BY <1>2, ProcFields
<1>4. votes' \subseteq Vote /\ IsFiniteSet(votes')
    BY <1>1, AfterType DEF VoteCommit, After, TypeInv
<1>5. row' \in [Targets -> Row]
    <2> PICK m, n : m = s.copy[s.target].up /\ n = s.copy[s.target].down
        OBVIOUS
    <2>1. m \in Nat /\ n \in Nat
        BY <1>3 DEF Row
    <2>2. row' = WithBoth(row, s.target, m, n)
        BY CommitRow
    <2>3. row \in [Targets -> Row]
        BY DEF TypeInv, TypeOK
    <2>4. WithBoth(row, s.target, m, n) \in [Targets -> Row]
        BY <1>3, <2>1, <2>3, BothSet
    <2> QED BY <2>2, <2>4
<1>6. Request("cache", s.target, Idle.ip, "up", s.copy, {}, {}) \in Proc
    <2>1. Idle.ip \in IPs
        BY ZeroTypes, ProcFields
    <2> QED BY <1>3, <2>1, RequestType DEF Places, VoteChoices
<1>7. proc' \in [Procs -> Proc]
    BY <1>1, <1>6, VoteCommitForm, MoveType
<1>8. lock' \in [Targets -> Voters \cup {Free}] /\ cache' = cache /\ clean' = clean
    BY DEF VoteCommit, TypeInv, TypeOK
<1>9. calm' \in [Syncers -> BOOLEAN]
    BY HistoryType DEF VoteCommit
<1> QED BY <1>4, <1>5, <1>7, <1>8, <1>9 DEF TypeInv, TypeOK

(* The statements of the other requests.                                   *)
LEMMA OtherTypes ==
    ASSUME TypeInv, NEW p \in Procs,
           \/ CacheSave(p)
           \/ \E t \in Targets, x \in Texts : EditStart(p, t, x)
           \/ SyncStart(p) /\ p \in Syncers
           \/ SyncUp(p) \/ SyncDown(p) \/ SyncEnd(p)
           \/ \E t \in Targets : DelStart(p, t)
           \/ DelCache(p) \/ DelFail(p)
    PROVE  TypeInv'
<1> PICK s : s = proc[p]
    OBVIOUS
<1>1. Shape
    BY TypeShape DEF TypeInv
<1>2. s \in Proc /\ row \in [Targets -> Row]
    BY DEF TypeInv, TypeOK
<1>3. /\ s.target \in Targets /\ s.ip \in IPs /\ s.choice \in VoteChoices
      /\ s.copy \in [Targets -> Row] /\ s.found \in SUBSET Vote /\ s.todo \in SUBSET Targets
    BY <1>2, ProcFields
<1>4. ASSUME proc' \in [Procs -> Proc], UNCHANGED <<row, votes, lock, clean>>,
             cache' \in [Targets -> Row], calm' \in [Syncers -> BOOLEAN]
      PROVE  TypeInv'
    BY <1>4 DEF TypeInv, TypeOK
<1>5. ASSUME proc' \in [Procs -> Proc], UNCHANGED <<row, votes, cache, lock, calm, clean>>
      PROVE  TypeInv'
    BY <1>5 DEF TypeInv, TypeOK
<1>6. CASE CacheSave(p)
    <2>1. s.copy[s.target] \in Row
        BY <1>3
    <2>2. cache' = [cache EXCEPT ![s.target] = s.copy[s.target]]
        BY <1>6 DEF CacheSave
    <2>3. cache' \in [Targets -> Row]
        BY <2>1, <2>2 DEF TypeInv, TypeOK
    <2>4. "up" \in Places
        BY DEF Places
    <2>5. proc' \in [Procs -> Proc]
        BY <1>6, <2>4, GotoType, ReturnType DEF CacheSave
    <2>6. calm' \in [Syncers -> BOOLEAN] /\ UNCHANGED <<row, votes, lock, clean>>
        BY <1>6 DEF CacheSave, TypeInv, TypeOK
    <2> QED BY <1>4, <2>3, <2>5, <2>6
<1>7. ASSUME NEW t \in Targets, NEW x \in Texts, EditStart(p, t, x)
      PROVE  TypeInv'
    <2>1. WithRow(s.copy, t, Edited(t, x)) \in [Targets -> Row]
        BY <1>3, EditedType, RowSet DEF TypeInv
    <2>2. Request("edit", t, s.ip, s.choice, WithRow(s.copy, t, Edited(t, x)), s.found, s.todo)
             \in Proc
        BY <1>3, <2>1, RequestType DEF Places
    <2>3. proc' \in [Procs -> Proc]
        BY <1>1, <1>7, <2>2, EditStartForm, MoveType
    <2> QED BY <1>5, <1>7, <2>3 DEF EditStart
<1>8. CASE SyncStart(p) /\ p \in Syncers
    <2>1. Alive \in SUBSET Targets
        BY DEF Alive
    <2>2. Request("up", s.target, s.ip, s.choice, row, s.found, Alive) \in Proc
        BY <1>2, <1>3, <2>1, RequestType DEF Places
    <2>3. proc' \in [Procs -> Proc]
        BY <1>1, <1>8, <2>2, SyncStartForm, MoveType
    <2>4. calm' \in [Syncers -> BOOLEAN]
        BY <1>8 DEF SyncStart, TypeInv, TypeOK
    <2>5. cache' \in [Targets -> Row]
        BY <1>8 DEF SyncStart, TypeInv, TypeOK
    <2> QED BY <1>4, <1>8, <2>3, <2>4, <2>5 DEF SyncStart
<1>9. CASE SyncUp(p)
    <2>0. UNCHANGED <<row, votes, cache, lock, calm, clean>>
        BY <1>9 DEF SyncUp
    <2>1. CASE s.todo = {} /\ Goto(p, "done")
        <3>1. "done" \in Places
            BY DEF Places
        <3>2. proc' \in [Procs -> Proc]
            BY <2>1, <3>1, GotoType
        <3> QED BY <1>5, <2>0, <3>2
    <2>2. ASSUME NEW t \in s.todo,
                 Moves(p, Request("down", t, s.ip, s.choice,
                             WithUp(s.copy, t, GetVoteNum(votes, t, "up")), s.found,
                             s.todo \ {t}))
          PROVE  TypeInv'
        <3>1. t \in Targets /\ s.todo \ {t} \in SUBSET Targets
            BY <1>3
        <3>2. WithUp(s.copy, t, GetVoteNum(votes, t, "up")) \in [Targets -> Row]
            BY <1>3, <3>1, CountType, CounterSet DEF TypeInv
        <3>3. Request("down", t, s.ip, s.choice,
                      WithUp(s.copy, t, GetVoteNum(votes, t, "up")), s.found, s.todo \ {t})
                 \in Proc
            BY <1>3, <3>1, <3>2, RequestType DEF Places
        <3>4. proc' \in [Procs -> Proc]
            BY <2>2, <3>3, MoveType
        <3> QED BY <1>5, <2>0, <3>4
    <2> QED BY <1>1, <1>9, <2>1, <2>2, SyncUpForm
<1>10. CASE SyncDown(p)
    <2>1. WithDown(s.copy, s.target, GetVoteNum(votes, s.target, "down")) \in [Targets -> Row]
        BY <1>3, CountType, CounterSet DEF TypeInv
    <2>2. Request("save", s.target, s.ip, s.choice,
                  WithDown(s.copy, s.target, GetVoteNum(votes, s.target, "down")),
                  s.found, s.todo) \in Proc
        BY <1>3, <2>1, RequestType DEF Places
    <2>3. proc' \in [Procs -> Proc]
        BY <1>1, <1>10, <2>2, SyncDownForm, MoveType
    <2> QED BY <1>5, <1>10, <2>3 DEF SyncDown
<1>11. CASE SyncEnd(p) \/ DelFail(p)
    BY <1>5, <1>11, ReturnType DEF SyncEnd, DelFail
<1>12. ASSUME NEW t \in Targets, DelStart(p, t)
       PROVE  TypeInv'
    <2>1. Request("delVotes", t, s.ip, s.choice, s.copy, s.found, s.todo) \in Proc
        BY <1>3, RequestType DEF Places
    <2>2. proc' \in [Procs -> Proc]
        BY <1>1, <1>12, <2>1, DelStartForm, MoveType
    <2> QED BY <1>5, <1>12, <2>2 DEF DelStart
<1>13. CASE DelCache(p)
    <2>1. cache' \in [Targets -> Row]
        BY <1>13, ZeroTypes DEF DelCache, TypeInv, TypeOK
    <2>2. proc' \in [Procs -> Proc]
        BY <1>13, ReturnType DEF DelCache
    <2>3. calm' \in [Syncers -> BOOLEAN] /\ UNCHANGED <<row, votes, lock, clean>>
        BY <1>13 DEF DelCache, TypeInv, TypeOK
    <2> QED BY <1>4, <2>1, <2>2, <2>3
<1> QED BY <1>6, <1>7, <1>8, <1>9, <1>10, <1>11, <1>12, <1>13

(* The row a save writes.                                                  *)
LEMMA SavedRow ==
    ASSUME TypeOK, NEW p \in Procs, NEW s, s = proc[p], SaveRow(p, s.target)
    PROVE  /\ row' = WithRow(row, s.target, s.copy[s.target])
           /\ s.target \in Targets /\ s.copy[s.target] \in Row
           /\ row' \in [Targets -> Row]
<1>1. s \in Proc
    BY DEF TypeOK
<1>2. s.target \in Targets /\ s.copy[s.target] \in Row
    BY <1>1, ProcFields
<1>3. row' = WithRow(row, s.target, s.copy[s.target])
    BY DEF SaveRow, WithRow
<1> QED BY <1>2, <1>3, RowSet DEF TypeOK

(* The statements of other writers.                                        *)
LEMMA WriterTypes ==
    ASSUME TypeInv, NEW p \in Procs,
           SyncSave(p) \/ EditSave(p) \/ DelVotes(p) \/ DelRow(p)
    PROVE  TypeInv'
<1> PICK s : s = proc[p]
    OBVIOUS
<1>1. s \in Proc /\ s.target \in Targets
    BY ProcFields DEF TypeInv, TypeOK
<1>2. {"cache", "delRow", "delCache"} \subseteq Places
    BY DEF Places
<1>3. proc' \in [Procs -> Proc]
    BY <1>2, GotoType DEF SyncSave, EditSave, DelVotes, DelRow
<1>4. calm' \in [Syncers -> BOOLEAN]
    BY HistoryType DEF SyncSave, EditSave, DelVotes, DelRow
<1>5. clean' = FALSE /\ lock' = lock /\ cache' = cache
    BY DEF SyncSave, EditSave, DelVotes, DelRow
<1>6. CASE SyncSave(p) \/ EditSave(p)
    <2>1. row' \in [Targets -> Row] /\ votes' = votes
        BY <1>6, SavedRow DEF SyncSave, EditSave, TypeInv
    <2> QED BY <1>3, <1>4, <1>5, <2>1 DEF TypeInv, TypeOK
<1>7. CASE DelVotes(p)
    <2>1. votes' \subseteq votes /\ row' = row
        BY <1>7 DEF DelVotes
    <2>2. votes' \subseteq Vote /\ IsFiniteSet(votes')
        BY <2>1, FS_Subset DEF TypeInv, TypeOK
    <2> QED BY <1>3, <1>4, <1>5, <2>1, <2>2 DEF TypeInv, TypeOK
<1>8. CASE DelRow(p)
    <2>1. row' \in [Targets -> Row] /\ votes' = votes
        BY <1>8, ZeroTypes DEF DelRow, TypeInv, TypeOK
    <2> QED BY <1>3, <1>4, <1>5, <2>1 DEF TypeInv, TypeOK
<1> QED BY <1>6, <1>7, <1>8

(* A save that fails: the request goes on to the cache.                    *)
LEMMA SaveFailTypes ==
    ASSUME TypeInv, NEW p \in Procs, SaveFails(p)
    PROVE  TypeInv'
<1>1. "cache" \in Places
    BY DEF Places
<1>2. proc' \in [Procs -> Proc]
    BY <1>1, GotoType DEF SaveFails
<1>3. calm' \in [Syncers -> BOOLEAN]
    BY DEF SaveFails
<1>4. UNCHANGED <<row, votes, cache, lock, clean>>
    BY DEF SaveFails
<1> QED BY <1>2, <1>3, <1>4 DEF TypeInv, TypeOK

(* The program starts typed.                                               *)
LEMMA TypeInit == Init => TypeInv
<1> SUFFICES ASSUME Init PROVE TypeInv
    OBVIOUS
<1>1. [NoRow EXCEPT !.alive = TRUE] \in Row
    <2> PICK r \in Row : r = NoRow
        BY ZeroTypes
    <2>1. [r EXCEPT !.alive = TRUE] \in Row
        BY DEF Row
    <2> QED BY <2>1
<1>2. IsFiniteSet(votes) /\ votes \subseteq Vote
    BY FS_EmptySet DEF Init
<1> QED BY <1>1, <1>2, ZeroTypes DEF Init, TypeInv, TypeOK

(* One case per group of statements.                                       *)
LEMMA TypeStep == TypeInv /\ [Next]_vars => TypeInv'
<1> SUFFICES ASSUME TypeInv, [Next]_vars PROVE TypeInv'
    OBVIOUS
<1>1. CASE UNCHANGED vars
    BY <1>1 DEF vars, TypeInv, TypeOK
<1>2. Voters \subseteq Procs /\ Syncers \subseteq Procs /\ Editors \subseteq Procs
      /\ Deleters \subseteq Procs
    BY DEF Procs
<1>3. ASSUME NEW p \in Voters, VoterStep(p) PROVE TypeInv'
    BY <1>2, <1>3, VoteTypes, CommitType, OtherTypes DEF VoterStep
<1>4. ASSUME NEW p \in Procs, SyncStep(p) \/ EditStep(p) \/ DelStep(p) PROVE TypeInv'
    BY <1>4, OtherTypes, WriterTypes, SaveFailTypes DEF SyncStep, EditStep, DelStep
<1> QED BY <1>1, <1>2, <1>3, <1>4, VoteTypes, OtherTypes DEF Next

-----------------------------------------------------------------------------
(* The counters.                                                           *)

RowMatches(t, rows, vs) ==
    rows[t].up = GetVoteNum(vs, t, "up") /\ rows[t].down = GetVoteNum(vs, t, "down")
AllRowsMatch(rows, vs) == \A t \in Targets : rows[t].alive => RowMatches(t, rows, vs)

(* What a vote will leave of the votes vs for choice x on its target.      *)
Undoes(s) == \E v \in s.found : v.type = s.choice /\ \A w \in s.found : v.id <= w.id
Kept(s, x, vs) == {v \in vs \ s.found : v.target = s.target /\ v.type = x}
Counted(s, x, vs) ==
    Cardinality(Kept(s, x, vs)) + IF ~ Undoes(s) /\ s.choice = x THEN 1 ELSE 0

(* A vote has found only votes on its target, and while only votes write,  *)
(* what it has counted is what its commit will leave.                      *)
VoteCounts(s, vs, cl) ==
    /\ s.pc \in {"write", "commit"} => \A v \in s.found : v.target = s.target
    /\ (cl /\ s.pc = "commit") =>
         /\ s.copy[s.target].up = Counted(s, "up", vs)
         /\ s.copy[s.target].down = Counted(s, "down", vs)

(* A sync nobody has disturbed: the rows it has been at match, but for the *)
(* one it is at, whose counts so far are right.                            *)
SyncCounts(s, rows, vs) ==
    /\ s.pc \in {"up", "down", "save", "cache", "done"} =>
         \A u \in Targets :
            \/ ~ rows[u].alive
            \/ u \in s.todo
            \/ s.pc \in {"down", "save"} /\ u = s.target
            \/ RowMatches(u, rows, vs)
    /\ s.pc \in {"down", "save"} => s.copy[s.target].up = GetVoteNum(vs, s.target, "up")
    /\ s.pc = "save" => s.copy[s.target].down = GetVoteNum(vs, s.target, "down")
    /\ s.pc = "done" => s.todo = {}

VotesCounted == \A p \in Voters : VoteCounts(proc[p], votes, clean)
SyncsCounted == \A p \in Syncers : calm[p] => SyncCounts(proc[p], row, votes)
OnlyVotesCount == clean => AllRowsMatch(row, votes)

CountInv == TypeInv /\ VoteInv /\ VotesCounted /\ SyncsCounted /\ OnlyVotesCount

(* The counts of the votes as p is going to leave them.                    *)
LEMMA AfterCount ==
    ASSUME TypeInv, NEW p \in Procs, FreshIds # {}, NEW s, s = proc[p], NEW x
    PROVE  GetVoteNum(After(p), s.target, x) = Counted(s, x, votes)
<1> PICK k : k = Kept(s, x, votes)
    OBVIOUS
<1> PICK n : n = New(p)
    OBVIOUS
<1>1. IsFiniteSet(k) /\ n \notin k
    <2>1. k \subseteq votes
        BY DEF Kept
    <2>2. n \notin votes
        BY NewVote DEF TypeInv
    <2> QED BY <2>1, <2>2, FS_Subset DEF TypeInv
<1>2. n.target = s.target /\ n.type = s.choice
    BY NewVote DEF TypeInv
<1>3. TakesBack(p) <=> Undoes(s)
    BY DEF TakesBack, Undoes
<1>4. GetVoteNum(After(p), s.target, x) =
         Cardinality({v \in After(p) : v.target = s.target /\ v.type = x})
    BY DEF GetVoteNum
<1>5. CASE Undoes(s)
    <2>1. After(p) = votes \ s.found
        BY <1>3, <1>5, NewVote DEF After, TypeInv
    <2>2. {v \in After(p) : v.target = s.target /\ v.type = x} = k
        BY <2>1 DEF Kept
    <2>3. Cardinality(k) \in Nat
        BY <1>1, FS_CardinalityType
    <2>4. Counted(s, x, votes) = Cardinality(k) + 0
        BY <1>5 DEF Counted
    <2>5. Cardinality(k) + 0 = Cardinality(k)
        BY <2>3
    <2> QED BY <1>4, <2>2, <2>4, <2>5
<1>6. CASE ~ Undoes(s)
    <2>1. After(p) = (votes \ s.found) \cup {n}
        BY <1>3, <1>6, NewVote DEF After, TypeInv
    <2>2. CASE s.choice = x
        <3>1. {v \in After(p) : v.target = s.target /\ v.type = x} = k \cup {n}
            BY <1>2, <2>1, <2>2 DEF Kept
        <3>2. Cardinality(k \cup {n}) = Cardinality(k) + 1
            BY <1>1, FS_AddElement
        <3> QED BY <1>4, <1>6, <2>2, <3>1, <3>2 DEF Counted
    <2>3. CASE s.choice # x
        <3>1. {v \in After(p) : v.target = s.target /\ v.type = x} = k
            BY <1>2, <2>1, <2>3 DEF Kept
        <3>2. Cardinality(k) \in Nat
            BY <1>1, FS_CardinalityType
        <3>3. Counted(s, x, votes) = Cardinality(k) + 0
            BY <1>6, <2>3 DEF Counted
        <3>4. Cardinality(k) + 0 = Cardinality(k)
            BY <3>2
        <3> QED BY <1>4, <3>1, <3>3, <3>4
    <2> QED BY <2>2, <2>3
<1> QED BY <1>5, <1>6

(* A vote counts by its target, its choice and what it has found.          *)
LEMMA SameCounted ==
    ASSUME NEW s, NEW r, r.found = s.found, r.target = s.target, r.choice = s.choice
    PROVE  \A x, vs : Counted(r, x, vs) = Counted(s, x, vs)
<1> SUFFICES ASSUME NEW x, NEW vs PROVE Counted(r, x, vs) = Counted(s, x, vs)
    OBVIOUS
<1>1. Kept(r, x, vs) = Kept(s, x, vs)
    BY DEF Kept
<1>2. Undoes(r) <=> Undoes(s)
    BY DEF Undoes
<1> QED BY <1>1, <1>2 DEF Counted

(* Nothing changes for other targets.                                      *)
LEMMA AfterOthers ==
    ASSUME TypeInv, NEW p \in Procs, FreshIds # {}, NEW s, s = proc[p],
           \A v \in s.found : v.target = s.target
    PROVE  \A v : v.target # s.target => (v \in After(p) <=> v \in votes)
<1>1. NewVotes(p) \subseteq {New(p)} /\ New(p).target = s.target
    BY NewVote DEF TypeInv
<1> QED BY <1>1 DEF After

(* Votes that agree on a target count the same on it.                      *)
LEMMA CountOthers ==
    ASSUME NEW t, NEW x, NEW vs, NEW ws,
           \A v : v.target = t => (v \in vs <=> v \in ws)
    PROVE  GetVoteNum(vs, t, x) = GetVoteNum(ws, t, x)
<1>1. {v \in vs : v.target = t /\ v.type = x} = {v \in ws : v.target = t /\ v.type = x}
    OBVIOUS
<1> QED BY <1>1 DEF GetVoteNum

(* A step that writes neither rows nor votes: what p has done is counted   *)
(* if its new request is.                                                  *)
LEMMA QuietStep ==
    ASSUME CountInv, NEW p \in Procs, NEW r, Moves(p, r),
           UNCHANGED <<row, votes, clean>>,
           p \in Voters => VoteCounts(r, votes, clean),
           p \in Syncers /\ calm'[p] => SyncCounts(r, row, votes),
           \A q \in Syncers : q # p => (calm'[q] => calm[q])
    PROVE  VotesCounted' /\ SyncsCounted' /\ OnlyVotesCount'
<1>1. Voters \subseteq Procs /\ Syncers \subseteq Procs
    BY DEF Procs
<1>2. VotesCounted'
    <2> SUFFICES ASSUME NEW q \in Voters PROVE VoteCounts(proc'[q], votes, clean)
        BY DEF VotesCounted
    <2> QED BY <1>1 DEF CountInv, VotesCounted, Moves
<1>3. SyncsCounted'
    <2> SUFFICES ASSUME NEW q \in Syncers, calm'[q] PROVE SyncCounts(proc'[q], row, votes)
        BY DEF SyncsCounted
    <2> QED BY <1>1 DEF CountInv, SyncsCounted, Moves
<1>4. OnlyVotesCount'
    BY DEF CountInv, OnlyVotesCount
<1> QED BY <1>2, <1>3, <1>4

(* A request at a place where nothing is claimed of it.                    *)
LEMMA NothingClaimed ==
    ASSUME NEW r, NEW rows, NEW vs, NEW cl
    PROVE  /\ r.pc \notin {"write", "commit"} => VoteCounts(r, vs, cl)
           /\ r.pc \notin {"up", "down", "save", "cache", "done"} => SyncCounts(r, rows, vs)
BY DEF VoteCounts, SyncCounts

(* The statements of a vote before its commit.                             *)
LEMMA VoteCountSteps ==
    ASSUME CountInv, NEW p \in Voters,
           \/ \E t \in Targets, i \in IPs, c \in VoteChoices : VoteStart(p, t, i, c)
           \/ VoteLock(p) \/ VoteFind(p) \/ VoteWrite(p) \/ VoteRollback(p)
    PROVE  VotesCounted' /\ SyncsCounted' /\ OnlyVotesCount'
<1> PICK s : s = proc[p]
    OBVIOUS
<1>1. p \in Procs /\ Shape /\ TypeInv
    BY TypeShape DEF Procs, CountInv, TypeInv
<1>2. UNCHANGED <<row, votes, calm, clean>>
    BY DEF VoteStart, VoteLock, VoteFind, VoteWrite, VoteRollback
<1>3. s \in Proc
    BY <1>1 DEF TypeInv, TypeOK
<1>4. ASSUME NEW r, Moves(p, r), VoteCounts(r, votes, clean), SyncCounts(r, row, votes)
      PROVE  VotesCounted' /\ SyncsCounted' /\ OnlyVotesCount'
    BY <1>1, <1>2, <1>4, QuietStep
<1>5. ASSUME Return(p) PROVE VotesCounted' /\ SyncsCounted' /\ OnlyVotesCount'
    <2>1. Moves(p, Idle) /\ Idle.pc = "idle"
        BY <1>1, <1>5, ReturnForm DEF Idle
    <2> QED BY <1>4, <2>1, NothingClaimed
<1>6. ASSUME NEW t \in Targets, NEW i \in IPs, NEW c \in VoteChoices, VoteStart(p, t, i, c)
      PROVE  VotesCounted' /\ SyncsCounted' /\ OnlyVotesCount'
    <2> PICK r : r = Request("lock", t, i, c, NoCopy, {}, {})
        OBVIOUS
    <2>1. Moves(p, r) /\ r.pc = "lock"
        BY <1>1, <1>6, VoteStartForm, Fields
    <2> QED BY <1>4, <2>1, NothingClaimed
<1>7. CASE VoteLock(p)
    <2>1. CASE row[s.target].alive
        <3> PICK r : r = Request("find", s.target, s.ip, s.choice, row, s.found, s.todo)
            OBVIOUS
        <3>1. Moves(p, r) /\ r.pc = "find"
            BY <1>1, <1>7, <2>1, VoteLockForm, Fields
        <3> QED BY <1>4, <3>1, NothingClaimed
    <2>2. CASE ~ row[s.target].alive
        BY <1>5, <1>7, <2>2 DEF VoteLock
    <2> QED BY <2>1, <2>2
<1>8. CASE VoteFind(p)
    <2> PICK r : r = Request("write", s.target, s.ip, s.choice, s.copy, Mine(s), s.todo)
        OBVIOUS
    <2>1. Moves(p, r) /\ r.pc = "write" /\ r.found = Mine(s) /\ r.target = s.target
        BY <1>1, <1>8, VoteFindForm, Fields
    <2>2. VoteCounts(r, votes, clean)
        BY <2>1 DEF VoteCounts, Mine
    <2> QED BY <1>4, <2>1, <2>2, NothingClaimed
<1>9. CASE VoteWrite(p)
    <2> PICK t, vs : t = s.target /\ vs = After(p)
        OBVIOUS
    <2> PICK c : c = Recount(s.copy, t, vs)
        OBVIOUS
    <2> PICK r : r = Request("commit", t, s.ip, s.choice, c, s.found, s.todo)
        OBVIOUS
    <2>1. /\ Moves(p, r) /\ r.pc = "commit" /\ r.found = s.found /\ r.target = t
          /\ r.choice = s.choice /\ r.copy = c
        BY <1>1, <1>9, VoteWriteForm, Fields
    <2>2. t \in Targets /\ s.copy \in [Targets -> Row]
        BY <1>3, ProcFields
    <2>3. FreshIds # {} /\ s.pc = "write"
        BY <1>9 DEF VoteWrite
    <2>4. \A x : GetVoteNum(vs, t, x) = Counted(s, x, votes)
        BY <1>1, <2>3, AfterCount
    <2>5. \A x : Counted(r, x, votes) = Counted(s, x, votes)
        BY <2>1, SameCounted
    <2>6. c[t].up = GetVoteNum(vs, t, "up") /\ c[t].down = GetVoteNum(vs, t, "down")
        <3> PICK m, n : m = GetVoteNum(vs, t, "up") /\ n = GetVoteNum(vs, t, "down")
            OBVIOUS
        <3>1. c = WithBoth(s.copy, t, m, n)
            BY <2>2, RecountForm
        <3>2. IsFiniteSet(vs)
            BY <1>1, <2>3, AfterType DEF TypeInv
        <3>3. m \in Nat /\ n \in Nat
            BY <3>2, CountType
        <3> QED BY <2>2, <3>1, <3>3, BothSet
    <2>7. \A v \in r.found : v.target = r.target
        BY <2>1, <2>3 DEF CountInv, VotesCounted, VoteCounts
    <2>8. /\ r.copy[r.target].up = Counted(r, "up", votes)
          /\ r.copy[r.target].down = Counted(r, "down", votes)
        <3>1. c[t].up = Counted(s, "up", votes) /\ c[t].down = Counted(s, "down", votes)
            BY <2>4, <2>6
        <3>2. /\ Counted(r, "up", votes) = Counted(s, "up", votes)
              /\ Counted(r, "down", votes) = Counted(s, "down", votes)
            BY <2>5
        <3>3. r.copy = c /\ r.target = t
            BY <2>1
        <3> QED BY ONLY <3>1, <3>2, <3>3
    <2>9. VoteCounts(r, votes, clean)
        BY <2>7, <2>8 DEF VoteCounts
    <2> QED BY <1>4, <2>1, <2>9, NothingClaimed
<1>10. CASE VoteRollback(p)
    BY <1>5, <1>10 DEF VoteRollback
<1> QED BY <1>6, <1>7, <1>8, <1>9, <1>10

(* A vote commits: its target matches, everybody else keeps what they had. *)
LEMMA CommitCounts ==
    ASSUME CountInv, NEW p \in Voters, VoteCommit(p)
    PROVE  VotesCounted' /\ SyncsCounted' /\ OnlyVotesCount'
<1> PICK s : s = proc[p]
    OBVIOUS
<1> PICK t, m, n : t = s.target /\ m = s.copy[t].up /\ n = s.copy[t].down
    OBVIOUS
<1>1. p \in Procs /\ Voters \subseteq Procs /\ Shape /\ TypeInv /\ VoteInv
    BY TypeShape DEF Procs, CountInv, TypeInv
<1>2. s \in Proc /\ s.pc = "commit" /\ FreshIds # {}
    BY <1>1 DEF TypeInv, TypeOK, VoteCommit
<1>3. t \in Targets /\ s.copy \in [Targets -> Row] /\ m \in Nat /\ n \in Nat
    <2>1. t \in Targets /\ s.copy \in [Targets -> Row]
        BY <1>2, ProcFields
    <2>2. s.copy[t] \in Row
        BY <2>1
    <2> QED BY <2>1, <2>2 DEF Row
<1>4. /\ row' \in [Targets -> Row] /\ row'[t].up = m /\ row'[t].down = n
      /\ row'[t].alive = row[t].alive /\ \A u \in Targets : u # t => row'[u] = row[u]
    <2>1. row' = WithBoth(row, t, m, n) /\ row \in [Targets -> Row]
        BY <1>1, CommitRow DEF TypeInv, TypeOK
    <2> PICK c : c = row
        OBVIOUS
    <2>2. c \in [Targets -> Row] /\ t \in Targets /\ m \in Nat /\ n \in Nat
        BY <1>3, <2>1
    <2>3. /\ WithBoth(c, t, m, n) \in [Targets -> Row]
          /\ WithBoth(c, t, m, n)[t].up = m /\ WithBoth(c, t, m, n)[t].down = n
          /\ WithBoth(c, t, m, n)[t].alive = c[t].alive
          /\ \A u \in Targets : u # t => WithBoth(c, t, m, n)[u] = c[u]
        BY ONLY <2>2, BothSet
    <2> QED BY <2>1, <2>3
<1>5. votes' = After(p) /\ clean' = clean
    BY DEF VoteCommit, After
<1>6. \A v \in s.found : v.target = t
    BY <1>2 DEF CountInv, VotesCounted, VoteCounts
<1>7. \A v : v.target # t => (v \in votes' <=> v \in votes)
    BY <1>1, <1>2, <1>5, <1>6, AfterOthers
<1> PICK r : r = Request("cache", t, Idle.ip, "up", s.copy, {}, {})
    OBVIOUS
<1>8. Moves(p, r) /\ r.pc = "cache"
    BY <1>1, VoteCommitForm, Fields
<1>9. VotesCounted'
    <2> SUFFICES ASSUME NEW q \in Voters PROVE VoteCounts(proc'[q], votes', clean)
        BY <1>5 DEF VotesCounted
    <2>1. CASE q = p
        BY <1>8, <2>1, NothingClaimed DEF Moves
    <2>2. CASE q # p
        <3> PICK o : o = proc[q]
            OBVIOUS
        <3>1. proc'[q] = o /\ VoteCounts(o, votes, clean)
            BY <1>1, <1>8, <2>2 DEF Moves, CountInv, VotesCounted
        <3>2. CASE o.pc \notin {"write", "commit"}
            BY <3>1, <3>2, NothingClaimed
        <3>3. CASE o.pc \in {"write", "commit"}
            <4>1. lock[o.target] = q /\ lock[t] = p
                BY <1>1, <1>2, <3>3 DEF VoteInv, LockHeld, Inside
            <4>2. o.target # t
                BY <2>2, <4>1
            <4>3. ASSUME NEW x PROVE Counted(o, x, votes') = Counted(o, x, votes)
                <5>1. Kept(o, x, votes') = Kept(o, x, votes)
                    BY <1>7, <4>2 DEF Kept
                <5> QED BY <5>1 DEF Counted
            <4> QED BY <3>1, <4>3 DEF VoteCounts
        <3> QED BY <3>2, <3>3
    <2> QED BY <2>1, <2>2
<1>10. SyncsCounted'
    BY DEF VoteCommit, NoneCalm, SyncsCounted
<1>11. OnlyVotesCount'
    <2> SUFFICES ASSUME clean, NEW u \in Targets, row'[u].alive
                 PROVE  RowMatches(u, row', votes')
        BY <1>5 DEF OnlyVotesCount, AllRowsMatch
    <2>1. CASE u = t
        <3>1. m = Counted(s, "up", votes) /\ n = Counted(s, "down", votes)
            BY <1>2 DEF CountInv, VotesCounted, VoteCounts
        <3>2. GetVoteNum(votes', t, "up") = m /\ GetVoteNum(votes', t, "down") = n
            BY <1>1, <1>2, <1>5, <3>1, AfterCount
        <3> QED BY <1>4, <2>1, <3>2 DEF RowMatches
    <2>2. CASE u # t
        <3>1. RowMatches(u, row, votes) /\ row'[u] = row[u]
            BY <1>4, <2>2 DEF CountInv, OnlyVotesCount, AllRowsMatch
        <3>2. \A x : GetVoteNum(votes', u, x) = GetVoteNum(votes, u, x)
            BY <1>7, <2>2, CountOthers
        <3> QED BY <3>1, <3>2 DEF RowMatches
    <2> QED BY <2>1, <2>2
<1> QED BY <1>9, <1>10, <1>11

(* Requests that neither vote nor sync make no claim.                      *)
LEMMA QuietSteps ==
    ASSUME CountInv, NEW p \in Procs,
           \/ \E t \in Targets, x \in Texts : EditStart(p, t, x)
           \/ \E t \in Targets : DelStart(p, t)
           \/ DelCache(p) \/ DelFail(p) \/ SyncEnd(p)
    PROVE  VotesCounted' /\ SyncsCounted' /\ OnlyVotesCount'
<1> PICK s : s = proc[p]
    OBVIOUS
<1>1. Shape
    BY DEF CountInv, VoteInv
<1>2. UNCHANGED <<row, votes, calm, clean>>
    BY DEF EditStart, DelStart, DelCache, DelFail, SyncEnd
<1>3. ASSUME NEW r, Moves(p, r), r.pc \in {"idle", "edit", "delVotes"}
      PROVE  VotesCounted' /\ SyncsCounted' /\ OnlyVotesCount'
    <2>1. VoteCounts(r, votes, clean) /\ SyncCounts(r, row, votes)
        BY <1>3, NothingClaimed
    <2> QED BY <1>2, <1>3, <2>1, QuietStep
<1>4. CASE DelCache(p) \/ DelFail(p) \/ SyncEnd(p)
    <2>1. Return(p)
        BY <1>4 DEF DelCache, DelFail, SyncEnd
    <2>2. Moves(p, Idle) /\ Idle.pc = "idle"
        BY <1>1, <2>1, ReturnForm DEF Idle
    <2> QED BY <1>3, <2>2
<1>5. ASSUME NEW t \in Targets, NEW x \in Texts, EditStart(p, t, x)
      PROVE  VotesCounted' /\ SyncsCounted' /\ OnlyVotesCount'
    <2> PICK r : r = Request("edit", t, s.ip, s.choice, WithRow(s.copy, t, Edited(t, x)),
                             s.found, s.todo)
        OBVIOUS
    <2>1. Moves(p, r) /\ r.pc = "edit"
        BY <1>1, <1>5, EditStartForm, Fields
    <2> QED BY <1>3, <2>1
<1>6. ASSUME NEW t \in Targets, DelStart(p, t)
      PROVE  VotesCounted' /\ SyncsCounted' /\ OnlyVotesCount'
    <2> PICK r : r = Request("delVotes", t, s.ip, s.choice, s.copy, s.found, s.todo)
        OBVIOUS
    <2>1. Moves(p, r) /\ r.pc = "delVotes"
        BY <1>1, <1>6, DelStartForm, Fields
    <2> QED BY <1>3, <2>1
<1> QED BY <1>4, <1>5, <1>6

(* The cache is written: a sync goes on to its next row.                   *)
LEMMA CacheCounts ==
    ASSUME CountInv, NEW p \in Procs, CacheSave(p)
    PROVE  VotesCounted' /\ SyncsCounted' /\ OnlyVotesCount'
<1> PICK s : s = proc[p]
    OBVIOUS
<1>1. Shape
    BY DEF CountInv, VoteInv
<1>2. UNCHANGED <<row, votes, calm, clean>> /\ s.pc = "cache"
    BY DEF CacheSave
<1>3. CASE Return(p)
    <2>1. Moves(p, Idle) /\ Idle.pc = "idle"
        BY <1>1, <1>3, ReturnForm DEF Idle
    <2>2. VoteCounts(Idle, votes, clean) /\ SyncCounts(Idle, row, votes)
        BY <2>1, NothingClaimed
    <2> QED BY <1>2, <2>1, <2>2, QuietStep
<1>4. CASE p \in Syncers /\ Goto(p, "up")
    <2> PICK r : r = Request("up", s.target, s.ip, s.choice, s.copy, s.found, s.todo)
        OBVIOUS
    <2>1. Moves(p, r) /\ r.pc = "up" /\ r.todo = s.todo
        BY <1>1, <1>4, GotoForm, Fields
    <2>2. VoteCounts(r, votes, clean)
        BY <2>1, NothingClaimed
    <2>3. ASSUME calm'[p] PROVE SyncCounts(r, row, votes)
        <3>1. SyncCounts(s, row, votes)
            BY <1>2, <1>4, <2>3 DEF CountInv, SyncsCounted
        <3> QED BY <1>2, <2>1, <3>1 DEF SyncCounts
    <2> QED BY <1>2, <2>1, <2>2, <2>3, QuietStep
<1> QED BY <1>3, <1>4 DEF CacheSave

(* A sync loads the rows and counts.                                       *)
LEMMA SyncCountSteps ==
    ASSUME CountInv, NEW p \in Syncers, SyncStart(p) \/ SyncUp(p) \/ SyncDown(p)
    PROVE  VotesCounted' /\ SyncsCounted' /\ OnlyVotesCount'
<1> PICK s : s = proc[p]
    OBVIOUS
<1>1. Shape /\ p \in Procs
    BY DEF CountInv, VoteInv, Procs
<1>2. UNCHANGED <<row, votes, clean>>
    BY DEF SyncStart, SyncUp, SyncDown
<1>3. s \in Proc
    BY <1>1 DEF CountInv, TypeInv, TypeOK
<1>4. s.target \in Targets /\ s.copy \in [Targets -> Row] /\ s.todo \in SUBSET Targets
    BY <1>3, ProcFields
<1>5. \A q \in Syncers : q # p => (calm'[q] => calm[q])
    BY DEF SyncStart, SyncUp, SyncDown, CountInv, TypeInv, TypeOK
<1>6. \A t, x : GetVoteNum(votes, t, x) \in Nat
    BY CountType DEF CountInv, TypeInv
<1>7. CASE SyncStart(p)
    <2> PICK r : r = Request("up", s.target, s.ip, s.choice, row, s.found, Alive)
        OBVIOUS
    <2>1. Moves(p, r) /\ r.pc = "up" /\ r.todo = Alive
        BY <1>1, <1>7, SyncStartForm, Fields
    <2>2. SyncCounts(r, row, votes)
        BY <2>1 DEF SyncCounts, Alive
    <2> QED BY <1>1, <1>2, <1>5, <2>1, <2>2, QuietStep, NothingClaimed
<1>8. CASE SyncUp(p)
    <2>0. calm' = calm /\ s.pc = "up"
        BY <1>8 DEF SyncUp
    <2>1. CASE s.todo = {} /\ Goto(p, "done")
        <3> PICK r : r = Request("done", s.target, s.ip, s.choice, s.copy, s.found, s.todo)
            OBVIOUS
        <3>0. Moves(p, r)
            BY <1>1, <2>1, GotoForm
        <3>1. Moves(p, r) /\ r.pc = "done" /\ r.todo = {}
            BY <2>1, <3>0, Fields
        <3>2. ASSUME calm'[p] PROVE SyncCounts(r, row, votes)
            <4>1. SyncCounts(s, row, votes)
                BY <2>0, <3>2 DEF CountInv, SyncsCounted
            <4> QED BY <2>0, <2>1, <3>1, <4>1 DEF SyncCounts
        <3> QED BY <1>1, <1>2, <1>5, <3>1, <3>2, QuietStep, NothingClaimed
    <2>2. ASSUME NEW t \in s.todo,
                 Moves(p, Request("down", t, s.ip, s.choice,
                             WithUp(s.copy, t, GetVoteNum(votes, t, "up")), s.found,
                             s.todo \ {t}))
          PROVE  VotesCounted' /\ SyncsCounted' /\ OnlyVotesCount'
        <3> PICK n : n = GetVoteNum(votes, t, "up")
            OBVIOUS
        <3> PICK r : r = Request("down", t, s.ip, s.choice, WithUp(s.copy, t, n), s.found,
                                 s.todo \ {t})
            OBVIOUS
        <3>1. /\ Moves(p, r) /\ r.pc = "down" /\ r.target = t /\ r.todo = s.todo \ {t}
              /\ r.copy = WithUp(s.copy, t, n)
            BY <2>2, Fields
        <3>2. t \in Targets /\ n \in Nat
            BY <1>4, <1>6
        <3>3. WithUp(s.copy, t, n)[t].up = n
            BY ONLY <1>4, <3>2, CounterSet
        <3>4. ASSUME calm'[p] PROVE SyncCounts(r, row, votes)
            <4>1. SyncCounts(s, row, votes)
                BY <2>0, <3>4 DEF CountInv, SyncsCounted
            <4> QED BY <2>0, <3>1, <3>3, <4>1 DEF SyncCounts
        <3> QED BY <1>1, <1>2, <1>5, <3>1, <3>4, QuietStep, NothingClaimed
    <2> QED BY <1>1, <1>8, <2>1, <2>2, SyncUpForm
<1>9. CASE SyncDown(p)
    <2>0. calm' = calm /\ s.pc = "down"
        BY <1>9 DEF SyncDown
    <2> PICK t, n : t = s.target /\ n = GetVoteNum(votes, t, "down")
        OBVIOUS
    <2> PICK r : r = Request("save", t, s.ip, s.choice, WithDown(s.copy, t, n), s.found, s.todo)
        OBVIOUS
    <2>1. /\ Moves(p, r) /\ r.pc = "save" /\ r.target = t /\ r.todo = s.todo
          /\ r.copy = WithDown(s.copy, t, n)
        BY <1>1, <1>9, SyncDownForm, Fields
    <2>2. t \in Targets /\ n \in Nat /\ s.copy \in [Targets -> Row]
        BY <1>4, <1>6
    <2>3. WithDown(s.copy, t, n)[t].down = n /\ WithDown(s.copy, t, n)[t].up = s.copy[t].up
        BY ONLY <2>2, CounterSet
    <2>4. ASSUME calm'[p] PROVE SyncCounts(r, row, votes)
        <3>1. SyncCounts(s, row, votes)
            BY <2>0, <2>4 DEF CountInv, SyncsCounted
        <3>2. s.copy[t].up = GetVoteNum(votes, t, "up")
            BY <2>0, <3>1 DEF SyncCounts
        <3>3. /\ r.copy[r.target].up = GetVoteNum(votes, r.target, "up")
              /\ r.copy[r.target].down = GetVoteNum(votes, r.target, "down")
            BY <2>1, <2>3, <3>2
        <3>4. ASSUME NEW u \in Targets
              PROVE  ~ row[u].alive \/ u \in r.todo \/ u = r.target \/ RowMatches(u, row, votes)
            BY <2>0, <2>1, <3>1 DEF SyncCounts
        <3>5. r.pc = "save"
            BY <2>1
        <3> QED BY ONLY <3>3, <3>4, <3>5 DEF SyncCounts
    <2> QED BY <1>1, <1>2, <1>5, <2>1, <2>4, QuietStep, NothingClaimed
<1> QED BY <1>7, <1>8, <1>9

(* Somebody else than a vote writes: only the sync that wrote stays calm.  *)
LEMMA WriterFrame ==
    ASSUME CountInv, NEW p \in Procs, NEW r, Moves(p, r), clean' = FALSE,
           r.pc \notin {"write", "commit"},
           \A q \in Syncers : calm'[q] => q = p /\ SyncCounts(r, row', votes')
    PROVE  VotesCounted' /\ SyncsCounted' /\ OnlyVotesCount'
<1>1. Voters \subseteq Procs /\ Syncers \subseteq Procs
    BY DEF Procs
<1>2. VotesCounted'
    <2> SUFFICES ASSUME NEW q \in Voters PROVE VoteCounts(proc'[q], votes', FALSE)
        BY DEF VotesCounted
    <2>1. CASE q = p
        BY <2>1, NothingClaimed DEF Moves
    <2>2. CASE q # p
        <3>1. proc'[q] = proc[q] /\ VoteCounts(proc[q], votes, clean)
            BY <1>1, <2>2 DEF Moves, CountInv, VotesCounted
        <3> QED BY <3>1 DEF VoteCounts
    <2> QED BY <2>1, <2>2
<1>3. SyncsCounted'
    BY DEF SyncsCounted, Moves
<1>4. OnlyVotesCount'
    BY DEF OnlyVotesCount
<1> QED BY <1>2, <1>3, <1>4

(* A sync saves the row it has counted: that row matches now.              *)
LEMMA SaveCounts ==
    ASSUME CountInv, NEW p \in Syncers, SyncSave(p)
    PROVE  VotesCounted' /\ SyncsCounted' /\ OnlyVotesCount'
<1> PICK s : s = proc[p]
    OBVIOUS
<1> PICK t : t = s.target
    OBVIOUS
<1> PICK r : r = Request("cache", t, s.ip, s.choice, s.copy, s.found, s.todo)
    OBVIOUS
<1>1. p \in Procs /\ Shape /\ TypeOK
    BY DEF Procs, CountInv, VoteInv, TypeInv
<1>2. /\ votes' = votes /\ clean' = FALSE /\ Disturb(p) /\ s.pc = "save"
      /\ SaveRow(p, t) /\ Goto(p, "cache")
    BY DEF SyncSave
<1>3. Moves(p, r) /\ r.pc = "cache" /\ r.todo = s.todo
    BY <1>1, <1>2, GotoForm, Fields
<1>4. /\ row' = WithRow(row, t, s.copy[t]) /\ t \in Targets /\ s.copy[t] \in Row
      /\ row \in [Targets -> Row]
    BY <1>1, <1>2, SavedRow DEF TypeOK
<1>5. row'[t] = s.copy[t] /\ \A u \in Targets : u # t => row'[u] = row[u]
    BY <1>4 DEF WithRow
<1>6. ASSUME NEW q \in Syncers, calm'[q]
      PROVE  q = p /\ SyncCounts(r, row', votes')
    <2>1. q = p /\ calm[p]
        BY <1>2, <1>6 DEF Disturb
    <2>2. SyncCounts(s, row, votes)
        BY <2>1 DEF CountInv, SyncsCounted
    <2>3. ASSUME NEW u \in Targets
          PROVE  ~ row'[u].alive \/ u \in r.todo \/ RowMatches(u, row', votes')
        <3>1. CASE u = t
            <4>1. /\ s.copy[t].up = GetVoteNum(votes, t, "up")
                  /\ s.copy[t].down = GetVoteNum(votes, t, "down")
                BY <1>2, <2>2 DEF SyncCounts
            <4> QED BY <1>2, <1>5, <3>1, <4>1 DEF RowMatches
        <3>2. CASE u # t
            <4>1. ~ row[u].alive \/ u \in s.todo \/ RowMatches(u, row, votes)
                BY <1>2, <2>2, <3>2 DEF SyncCounts
            <4> QED BY <1>2, <1>3, <1>5, <3>2, <4>1 DEF RowMatches
        <3> QED BY <3>1, <3>2
    <2>4. SyncCounts(r, row', votes')
        BY <1>3, <2>3 DEF SyncCounts
    <2> QED BY <2>1, <2>4
<1> QED BY <1>1, <1>2, <1>3, <1>6, WriterFrame

(* An edit saves, a deletion deletes: no sync is calm any more.            *)
LEMMA OverwriteCounts ==
    ASSUME CountInv, NEW p \in Procs, EditSave(p) \/ DelVotes(p) \/ DelRow(p)
    PROVE  VotesCounted' /\ SyncsCounted' /\ OnlyVotesCount'
<1> PICK s : s = proc[p]
    OBVIOUS
<1>1. Shape
    BY DEF CountInv, VoteInv
<1>2. clean' = FALSE /\ \A q \in Syncers : ~ calm'[q]
    BY DEF EditSave, DelVotes, DelRow, NoneCalm
<1>3. \E x \in {"cache", "delRow", "delCache"} : Goto(p, x)
    BY DEF EditSave, DelVotes, DelRow
<1> PICK x \in {"cache", "delRow", "delCache"} : Goto(p, x)
    BY <1>3
<1> PICK r : r = Request(x, s.target, s.ip, s.choice, s.copy, s.found, s.todo)
    OBVIOUS
<1>4. Moves(p, r) /\ r.pc \notin {"write", "commit"}
    BY <1>1, GotoForm, Fields
<1> QED BY <1>2, <1>4, WriterFrame

(* A save fails: a sync is not calm any more.                              *)
LEMMA SaveFailCounts ==
    ASSUME CountInv, NEW p \in Procs, SaveFails(p)
    PROVE  VotesCounted' /\ SyncsCounted' /\ OnlyVotesCount'
<1> PICK s : s = proc[p]
    OBVIOUS
<1>1. Shape
    BY DEF CountInv, VoteInv
<1>2. /\ UNCHANGED <<row, votes, clean>> /\ Goto(p, "cache")
      /\ \A q \in Syncers : calm'[q] => q # p /\ calm[q]
    BY DEF SaveFails
<1> PICK r : r = Request("cache", s.target, s.ip, s.choice, s.copy, s.found, s.todo)
    OBVIOUS
<1>3. Moves(p, r) /\ r.pc = "cache"
    BY <1>1, <1>2, GotoForm, Fields
<1>4. VoteCounts(r, votes, clean)
    BY <1>3, NothingClaimed
<1> QED BY <1>2, <1>3, <1>4, QuietStep

(* Nothing is counted at the start.                                        *)
LEMMA CountInit == Init => VotesCounted /\ SyncsCounted /\ OnlyVotesCount
<1> SUFFICES ASSUME Init PROVE VotesCounted /\ SyncsCounted /\ OnlyVotesCount
    OBVIOUS
<1>1. \A p \in Procs : proc[p] = Idle
    BY DEF Init
<1>2. Idle.pc = "idle"
    BY DEF Idle
<1>3. VotesCounted
    BY <1>1, <1>2, NothingClaimed DEF VotesCounted, Procs
<1>4. SyncsCounted
    BY <1>1, <1>2, NothingClaimed DEF SyncsCounted, Procs
<1>5. OnlyVotesCount
    <2> SUFFICES ASSUME NEW t \in Targets PROVE RowMatches(t, row, votes)
        BY DEF OnlyVotesCount, AllRowsMatch
    <2>1. row[t].up = 0 /\ row[t].down = 0
        BY DEF Init, NoRow
    <2>2. ASSUME NEW x PROVE GetVoteNum(votes, t, x) = 0
        <3>1. {v \in votes : v.target = t /\ v.type = x} = {}
            BY DEF Init
        <3> QED BY <3>1, FS_EmptySet DEF GetVoteNum
    <2> QED BY <2>1, <2>2 DEF RowMatches
<1> QED BY <1>3, <1>4, <1>5

(* One case per action.                                                    *)
LEMMA CountStep == CountInv /\ [Next]_vars => CountInv'
<1> SUFFICES ASSUME CountInv, [Next]_vars PROVE CountInv'
    OBVIOUS
<1>1. TypeInv' /\ VoteInv'
    BY TypeStep, VoteInvStep DEF CountInv
<1>2. Voters \subseteq Procs /\ Syncers \subseteq Procs /\ Editors \subseteq Procs
      /\ Deleters \subseteq Procs
    BY DEF Procs
<1> DEFINE Good == VotesCounted' /\ SyncsCounted' /\ OnlyVotesCount'
<1>3. ASSUME UNCHANGED vars PROVE Good
    BY <1>3 DEF vars, CountInv, VotesCounted, SyncsCounted, OnlyVotesCount
<1>4. ASSUME NEW p \in Voters, VoterStep(p) PROVE Good
    BY <1>2, <1>4, VoteCountSteps, CommitCounts, CacheCounts DEF VoterStep
<1>5. ASSUME NEW p \in Syncers, SyncStart(p) \/ SyncStep(p) PROVE Good
    BY <1>2, <1>5, SyncCountSteps, SaveCounts, SaveFailCounts, CacheCounts, QuietSteps
    DEF SyncStep
<1>6. ASSUME NEW p \in Procs, EditStep(p) \/ DelStep(p) PROVE Good
    BY <1>6, OverwriteCounts, SaveFailCounts, CacheCounts, QuietSteps DEF EditStep, DelStep
<1>7. ASSUME Next PROVE Good
    BY <1>2, <1>4, <1>5, <1>6, <1>7, VoteCountSteps, QuietSteps DEF Next
<1> QED BY <1>1, <1>3, <1>7 DEF CountInv

(* The invariant says what the runs check.                                 *)
LEMMA CountsFollow == CountInv => CountsRight
<1> SUFFICES ASSUME CountInv PROVE CountsRight
    OBVIOUS
<1>1. AllRowsMatch(row, votes) <=> AllMatch
    BY DEF AllRowsMatch, AllMatch, RowMatches, Matches
<1>2. CountsMatch
    BY <1>1 DEF CountInv, OnlyVotesCount, CountsMatch
<1>3. SyncRepairs
    <2> SUFFICES ASSUME NEW p \in Syncers, proc[p].pc = "done", calm[p]
                 PROVE  AllRowsMatch(row, votes)
        BY <1>1 DEF SyncRepairs
    <2>1. SyncCounts(proc[p], row, votes)
        BY DEF CountInv, SyncsCounted
    <2> QED BY <2>1 DEF SyncCounts, AllRowsMatch
<1> QED BY <1>2, <1>3 DEF CountsRight, CountInv, TypeInv

(* Under votes alone the counters of every row equal its votes at every    *)
(* moment, and a sync during which nobody else writes leaves every counter *)
(* right, however many requests run (vote.go, updateVote; sync.go).        *)
THEOREM CountsAlwaysRight == Spec => []CountsRight
<1>1. Init => CountInv
    BY TypeInit, VoteInvInit, CountInit DEF CountInv
<1> QED BY <1>1, CountStep, CountsFollow, PTL DEF Spec

-----------------------------------------------------------------------------
(* What masking the keywords of a comment leaves of it.                    *)

(* A set of numbers that is not empty has a least element.                 *)
LEMMA LeastNumber ==
    ASSUME NEW S, S \subseteq Nat, S # {}
    PROVE  \E i \in S : \A j \in S : i <= j
<1> DEFINE less == {ss \in Nat \X Nat : ss[1] < ss[2]}
<1>1. \A x, y \in Nat : <<x, y>> \in less <=> x < y
  OBVIOUS
<1>2. IsWellFoundedOn(less, Nat)
  BY NatLessThanWellFounded DEF OpToRel
<1> HIDE DEF less
<1>3. PICK i \in S : \A j \in S : <<j, i>> \notin less
  BY <1>2, WFMin
<1>4. \A j \in S : i <= j
  <2> SUFFICES ASSUME NEW j \in S PROVE i <= j
    OBVIOUS
  <2>1. i \in Nat /\ j \in Nat
    OBVIOUS
  <2>2. ~ (j < i)
    BY <1>1, <1>3, <2>1
  <2> QED
    BY <2>1, <2>2
<1> QED
  BY <1>4

(* A set with 0 and the successors of its numbers has all numbers.         *)
LEMMA AllNumbers ==
    ASSUME NEW S, 0 \in S, \A n \in Nat : n \in S => n + 1 \in S
    PROVE  Nat \subseteq S
<1> SUFFICES ASSUME Nat \ S # {} PROVE FALSE
  OBVIOUS
<1>1. PICK i \in Nat \ S : \A j \in Nat \ S : i <= j
  <2>1. Nat \ S \subseteq Nat
    OBVIOUS
  <2> QED
    BY <2>1, LeastNumber
<1>2. i # 0 /\ i - 1 \in Nat /\ (i - 1) + 1 = i
  OBVIOUS
<1>3. i - 1 \in S
  BY <1>1, <1>2
<1> QED
  BY <1>1, <1>2, <1>3

(* A keyword is never blank.                                               *)
Word == Seq(Letters) \ {<<>>}

(* What Replace makes of the letters from i on, f having the rest.         *)
ReplaceAt(s, k, to, f, i) ==
    IF i > Len(s) THEN <<>>
    ELSE IF At(s, k, i) THEN Repeat(to, Len(k)) \o f[i + Len(k)]
    ELSE <<s[i]>> \o f[i + 1]

(* The function that Replace takes from position to position is there.     *)
LEMMA ReplaceThere ==
    ASSUME NEW s, NEW k, NEW to, Len(s) \in Nat, Len(k) \in Nat, Len(k) # 0
    PROVE  \E f : f = [i \in 1..(Len(s) + Len(k)) |-> ReplaceAt(s, k, to, f, i)]
<1>1. PICK n \in Nat : n = Len(s) + Len(k)
  OBVIOUS
<1> DEFINE From(m) == (n - m + 1)..n
           S == {m \in Nat : m <= n => \E f : f = [i \in From(m) |-> ReplaceAt(s, k, to, f, i)]}
<1>2. 0 \in S
  <2>1. From(0) = {}
    OBVIOUS
  <2>2. \E f : f = [i \in {} |-> ReplaceAt(s, k, to, f, i)]
    <3>1. PICK g : g = [i \in {} |-> 0]
      OBVIOUS
    <3>2. g = [i \in {} |-> ReplaceAt(s, k, to, g, i)]
      BY <3>1
    <3> QED
      BY <3>2
  <2> QED
    BY <2>1, <2>2
<1>3. ASSUME NEW m \in Nat, m \in S PROVE m + 1 \in S
  <2> SUFFICES ASSUME m + 1 <= n
               PROVE  \E f : f = [i \in From(m + 1) |-> ReplaceAt(s, k, to, f, i)]
    OBVIOUS
  <2>1. PICK f : f = [i \in From(m) |-> ReplaceAt(s, k, to, f, i)]
    BY <1>3
  <2>2. PICK b \in 1..n : b = n - m
    OBVIOUS
  <2>3. From(m + 1) = b..n /\ From(m) = (b + 1)..n
    BY <2>2
  <2>4. PICK x : x = ReplaceAt(s, k, to, f, b)
    OBVIOUS
  <2>5. PICK g : g = [i \in b..n |-> IF i = b THEN x ELSE f[i]]
    OBVIOUS
  <2>6. \A i \in (b + 1)..n : g[i] = f[i]
    BY <2>5
  <2>7. ASSUME NEW i \in b..n PROVE ReplaceAt(s, k, to, g, i) = ReplaceAt(s, k, to, f, i)
    <3>1. CASE i > Len(s)
      BY <3>1 DEF ReplaceAt
    <3>2. CASE i <= Len(s) /\ At(s, k, i)
      <4>1. i + Len(k) \in (b + 1)..n
        BY <1>1, <3>2 DEF At
      <4>2. g[i + Len(k)] = f[i + Len(k)]
        BY <2>6, <4>1
      <4> QED
        BY <3>2, <4>2 DEF ReplaceAt
    <3>3. CASE i <= Len(s) /\ ~ At(s, k, i)
      <4>1. i + 1 \in (b + 1)..n
        BY <1>1, <3>3
      <4>2. g[i + 1] = f[i + 1]
        BY <2>6, <4>1
      <4> QED
        BY <3>3, <4>2 DEF ReplaceAt
    <3> QED
      BY <3>1, <3>2, <3>3
  <2>8. \A i \in b..n : g[i] = ReplaceAt(s, k, to, g, i)
    <3> SUFFICES ASSUME NEW i \in b..n PROVE g[i] = ReplaceAt(s, k, to, g, i)
      OBVIOUS
    <3>1. CASE i = b
      BY <2>4, <2>5, <2>7, <3>1
    <3>2. CASE i # b
      <4>1. i \in (b + 1)..n
        BY <3>2
      <4>2. g[i] = f[i] /\ f[i] = ReplaceAt(s, k, to, f, i)
        BY <2>1, <2>3, <2>6, <4>1
      <4> QED
        BY <2>7, <4>2
    <3> QED
      BY <3>1, <3>2
  <2>9. g = [i \in b..n |-> ReplaceAt(s, k, to, g, i)]
    BY <2>5, <2>8
  <2> QED
    BY <2>3, <2>9
<1> HIDE DEF S
<1>4. n \in S
  BY <1>2, <1>3, AllNumbers
<1>5. \E f : f = [i \in From(n) |-> ReplaceAt(s, k, to, f, i)]
  BY <1>4 DEF S
<1>6. From(n) = 1..(Len(s) + Len(k))
  BY <1>1
<1> QED
  BY <1>5, <1>6

(* Replace is the first value of such a function.                          *)
LEMMA ReplaceBy ==
    ASSUME NEW s, NEW k, NEW to, Len(s) \in Nat, Len(k) \in Nat, Len(k) # 0
    PROVE  \E f : /\ f = [i \in 1..(Len(s) + Len(k)) |-> ReplaceAt(s, k, to, f, i)]
                  /\ Replace(s, k, to) = f[1]
<1>1. PICK g : g = CHOOSE from : from = [i \in 1..(Len(s) + Len(k)) |->
                     IF i > Len(s) THEN <<>>
                     ELSE IF At(s, k, i) THEN Repeat(to, Len(k)) \o from[i + Len(k)]
                     ELSE <<s[i]>> \o from[i + 1]]
  OBVIOUS
<1>2. Replace(s, k, to) = g[1]
  BY <1>1 DEF Replace
<1>3. \E f : f = [i \in 1..(Len(s) + Len(k)) |->
                     IF i > Len(s) THEN <<>>
                     ELSE IF At(s, k, i) THEN Repeat(to, Len(k)) \o f[i + Len(k)]
                     ELSE <<s[i]>> \o f[i + 1]]
  <2>1. PICK f : f = [i \in 1..(Len(s) + Len(k)) |-> ReplaceAt(s, k, to, f, i)]
    BY ReplaceThere
  <2> QED
    BY <2>1 DEF ReplaceAt
<1>4. g = [i \in 1..(Len(s) + Len(k)) |->
                     IF i > Len(s) THEN <<>>
                     ELSE IF At(s, k, i) THEN Repeat(to, Len(k)) \o g[i + Len(k)]
                     ELSE <<s[i]>> \o g[i + 1]]
  BY <1>1, <1>3
<1> QED
  BY <1>2, <1>4 DEF ReplaceAt

(* A keyword is at a place where its letters are.                          *)
LEMMA AtSays ==
    ASSUME NEW s \in Strings, NEW k \in Word, NEW i \in Nat \ {0}
    PROVE  At(s, k, i) <=> /\ i + Len(k) - 1 <= Len(s)
                           /\ \A j \in 1..Len(k) : s[i + j - 1] = k[j]
<1>1. Len(s) \in Nat /\ Len(k) \in Nat /\ k \in Seq(Letters) /\ s \in Seq(Letters \cup {Star})
  BY DEF Word, Strings
<1>2. ASSUME i + Len(k) - 1 <= Len(s)
      PROVE  SubSeq(s, i, i + Len(k) - 1) = k <=> \A j \in 1..Len(k) : s[i + j - 1] = k[j]
  <2>1. PICK e \in Nat : e = i + Len(k) - 1
    <3>1. i + Len(k) - 1 \in Nat
      BY <1>1
    <3> QED
      BY <3>1
  <2>2. PICK t : t = SubSeq(s, i, e)
    OBVIOUS
  <2>3. /\ t \in Seq(Letters \cup {Star}) /\ Len(t) = Len(k)
        /\ \A j \in 1..Len(k) : t[j] = s[i + j - 1]
    <3>1. t = [j \in 1..Len(k) |-> s[i + j - 1]]
      <4>1. t = [j \in 1..(1 + e - i) |-> s[i + j - 1]]
        BY <2>2
      <4>2. 1 + e - i = Len(k)
        BY <1>1, <2>1
      <4> QED
        BY <4>1, <4>2
    <3>2. \A j \in 1..Len(k) : s[i + j - 1] \in Letters \cup {Star}
      BY <1>1, <1>2
    <3> QED
      BY <1>1, <3>1, <3>2
  <2>4. k \in Seq(Letters \cup {Star})
    BY <1>1
  <2>5. ASSUME \A j \in 1..Len(k) : t[j] = k[j] PROVE t = k
    BY <2>3, <2>4, <2>5, SeqEqual
  <2>6. t = k <=> \A j \in 1..Len(k) : t[j] = k[j]
    BY <2>5
  <2> QED
    BY <2>1, <2>2, <2>3, <2>6
<1> QED
  BY <1>2, Zenon DEF At

(* b is a with stars in the place of some letters.                         *)
Starred(a, b) == Len(b) = Len(a) /\ \A j \in 1..Len(a) : b[j] \in {a[j], Star}

(* Stars make no keyword.                                                  *)
LEMMA StarsMakeNone ==
    ASSUME NEW a \in Strings, NEW b \in Strings, Starred(a, b), NEW k \in Word, Has(b, k)
    PROVE  Has(a, k)
<1>1. PICK i \in 1..Len(b) : At(b, k, i)
  BY DEF Has
<1>2. Len(a) \in Nat /\ Len(b) = Len(a) /\ i \in Nat \ {0} /\ k \in Seq(Letters) /\ Len(k) \in Nat
  BY DEF Strings, Starred, Word
<1>3. i + Len(k) - 1 <= Len(a) /\ \A j \in 1..Len(k) : b[i + j - 1] = k[j]
  BY <1>1, <1>2, AtSays
<1>4. ASSUME NEW j \in 1..Len(k) PROVE a[i + j - 1] = k[j]
  <2>1. k[j] \in Letters /\ Star \notin Letters
    BY <1>2, SpamAssumption
  <2>2. i + j - 1 \in 1..Len(a)
    BY <1>2, <1>3
  <2> QED
    BY <1>3, <2>1, <2>2 DEF Starred
<1>5. At(a, k, i)
  BY <1>2, <1>3, <1>4, AtSays
<1> QED
  BY <1>2, <1>5 DEF Has

(* What replaces a keyword is as long as it, or nothing.                   *)
LEMMA RepeatIs ==
    ASSUME NEW n \in Nat
    PROVE  /\ Repeat(<<>>, n) = <<>>
           /\ Repeat(<<Star>>, n) = [i \in 1..n |-> Star]
<1>1. Len(<<>>) = 0 /\ Len(<<Star>>) = 1 /\ n * 0 = 0 /\ n * 1 = n /\ <<Star>>[1] = Star
  OBVIOUS
<1>2. Repeat(<<>>, n) = [i \in 1..0 |-> <<>>[1]]
  BY <1>1 DEF Repeat
<1>3. [i \in 1..0 |-> <<>>[1]] = <<>>
  OBVIOUS
<1>4. Repeat(<<Star>>, n) = [i \in 1..n |-> Star]
  BY <1>1 DEF Repeat
<1> QED
  BY <1>2, <1>3, <1>4

(* The letters of two strings, one after the other.                        *)
LEMMA Joining ==
    ASSUME NEW h \in Strings, NEW q \in Strings
    PROVE  /\ h \o q \in Strings /\ Len(h \o q) = Len(h) + Len(q)
           /\ Len(h) \in Nat /\ Len(q) \in Nat
           /\ \A j \in 1..Len(h) : (h \o q)[j] = h[j]
           /\ \A j \in 1..Len(q) : (h \o q)[Len(h) + j] = q[j]
<1>1. PICK C : C = Letters \cup {Star}
  OBVIOUS
<1>2. h \in Seq(C) /\ q \in Seq(C)
  BY <1>1 DEF Strings
<1>3. /\ h \o q \in Seq(C) /\ Len(h \o q) = Len(h) + Len(q)
      /\ Len(h) \in Nat /\ Len(q) \in Nat
      /\ \A i \in 1 .. Len(h) + Len(q) : (h \o q)[i] =
                     IF i <= Len(h) THEN h[i] ELSE q[i - Len(h)]
  BY <1>2, ConcatProperties
<1>4. ASSUME NEW j \in 1..Len(h) PROVE (h \o q)[j] = h[j]
  BY <1>3
<1>5. ASSUME NEW j \in 1..Len(q) PROVE (h \o q)[Len(h) + j] = q[j]
  <2>1. /\ Len(h) + j \in 1..(Len(h) + Len(q)) /\ ~ (Len(h) + j <= Len(h))
        /\ Len(h) + j - Len(h) = j
    BY <1>3
  <2> QED
    BY <1>3, <2>1
<1> QED
  BY <1>1, <1>3, <1>4, <1>5 DEF Strings

(* What is made of s from i on: a string, and if stars replace letters one *)
(* as long in which k is no more.                                          *)
MaskedFrom(s, k, to, i, r) ==
    /\ r \in Strings
    /\ (to = <<Star>> => /\ Len(r) = Len(s) + 1 - i
                         /\ \A j \in 1..Len(r) : r[j] \in {s[i + j - 1], Star}
                         /\ ~ Has(r, k))

(* A keyword is replaced.                                                  *)
LEMMA ReplaceOne ==
    ASSUME NEW s \in Strings, NEW k \in Word, NEW to \in {<<>>, <<Star>>},
           NEW i \in 1..Len(s), At(s, k, i),
           NEW q, MaskedFrom(s, k, to, i + Len(k), q)
    PROVE  MaskedFrom(s, k, to, i, Repeat(to, Len(k)) \o q)
<1>1. /\ Len(s) \in Nat /\ k \in Seq(Letters) /\ Len(k) \in Nat /\ Len(k) # 0
      /\ q \in Seq(Letters \cup {Star}) /\ Len(q) \in Nat
  BY DEF Strings, Word, MaskedFrom
<1>2. CASE to = <<>>
  <2>1. Repeat(to, Len(k)) \o q = q
    BY <1>1, <1>2, RepeatIs, ConcatEmptySeq
  <2>2. <<>> # <<Star>>
    OBVIOUS
  <2> QED
    BY <1>2, <2>1, <2>2 DEF MaskedFrom
<1>3. CASE to = <<Star>>
  <2>1. PICK h : h = Repeat(to, Len(k))
    OBVIOUS
  <2>2. h = [j \in 1..Len(k) |-> Star]
    BY <1>1, <1>3, <2>1, RepeatIs
  <2>3. h \in Seq(Letters \cup {Star}) /\ Len(h) = Len(k) /\ \A j \in 1..Len(k) : h[j] = Star
    BY <1>1, <2>2
  <2>4. PICK r : r = h \o q
    OBVIOUS
  <2>5. /\ r \in Strings /\ q \in Strings /\ Len(r) = Len(k) + Len(q)
        /\ \A j \in 1..Len(k) : r[j] = Star
        /\ \A j \in 1..Len(q) : r[Len(k) + j] = q[j]
    <3>1. h \in Strings /\ q \in Strings
      BY <1>1, <2>3 DEF Strings
    <3>2. /\ h \o q \in Strings /\ Len(h \o q) = Len(h) + Len(q)
          /\ \A j \in 1..Len(h) : (h \o q)[j] = h[j]
          /\ \A j \in 1..Len(q) : (h \o q)[Len(h) + j] = q[j]
      BY <3>1, Joining
    <3> QED
      BY <2>3, <2>4, <3>1, <3>2
  <2>6. /\ Len(q) = Len(s) + 1 - (i + Len(k)) /\ ~ Has(q, k)
        /\ \A j \in 1..Len(q) : q[j] \in {s[i + Len(k) + j - 1], Star}
    BY <1>3 DEF MaskedFrom
  <2>7. Len(r) = Len(s) + 1 - i
    BY <1>1, <2>5, <2>6
  <2>8. ASSUME NEW j \in 1..Len(r) PROVE r[j] \in {s[i + j - 1], Star}
    <3>1. CASE j <= Len(k)
      BY <1>1, <2>5, <3>1
    <3>2. CASE j > Len(k)
      <4>1. PICK l \in 1..Len(q) : l = j - Len(k)
        <5>1. j - Len(k) \in 1..Len(q)
          BY <1>1, <2>5, <3>2
        <5> QED
          BY <5>1
      <4>2. i + Len(k) + l - 1 = i + j - 1 /\ Len(k) + l = j
        BY <1>1, <4>1
      <4>3. r[j] = q[l]
        BY <2>5, <4>2
      <4> QED
        BY <2>6, <4>2, <4>3
    <3> QED
      BY <1>1, <3>1, <3>2
  <2>9. ASSUME NEW j \in 1..Len(r), At(r, k, j) PROVE FALSE
    <3>1. j + Len(k) - 1 <= Len(r) /\ \A l \in 1..Len(k) : r[j + l - 1] = k[l]
      <4>1. j \in Nat \ {0} /\ r \in Strings
        BY <2>5
      <4> QED
        BY <2>9, <4>1, AtSays
    <3>2. CASE j <= Len(k)
      <4>1. r[j] = Star
        BY <1>1, <2>5, <3>2
      <4>2. r[j] = k[1] /\ k[1] \in Letters
        BY <1>1, <3>1
      <4> QED
        BY <4>1, <4>2, SpamAssumption
    <3>3. CASE j > Len(k)
      <4>1. PICK m \in 1..Len(q) : m = j - Len(k)
        <5>1. j - Len(k) \in 1..Len(q)
          BY <1>1, <2>5, <3>3
        <5> QED
          BY <5>1
      <4>2. m + Len(k) - 1 <= Len(q)
        BY <1>1, <2>5, <3>1, <4>1
      <4>3. ASSUME NEW l \in 1..Len(k) PROVE q[m + l - 1] = k[l]
        <5>1. m + l - 1 \in 1..Len(q) /\ Len(k) + (m + l - 1) = j + l - 1
          BY <1>1, <4>1, <4>2
        <5>2. r[j + l - 1] = q[m + l - 1]
          BY <2>5, <5>1
        <5> QED
          BY <3>1, <5>2
      <4>4. At(q, k, m)
        <5>1. m \in Nat \ {0} /\ q \in Strings
          BY <2>5
        <5> QED
          BY <4>2, <4>3, <5>1, AtSays
      <4> QED
        BY <2>6, <4>4 DEF Has
    <3> QED
      BY <1>1, <3>2, <3>3
  <2> QED
    BY <2>1, <2>4, <2>5, <2>7, <2>8, <2>9 DEF MaskedFrom, Has
<1> QED
  BY <1>2, <1>3

(* A letter stays.                                                         *)
LEMMA KeepOne ==
    ASSUME NEW s \in Strings, NEW k \in Word, NEW to \in {<<>>, <<Star>>},
           NEW i \in 1..Len(s), ~ At(s, k, i),
           NEW q, MaskedFrom(s, k, to, i + 1, q)
    PROVE  MaskedFrom(s, k, to, i, <<s[i]>> \o q)
<1>1. /\ Len(s) \in Nat /\ k \in Seq(Letters) /\ Len(k) \in Nat /\ Len(k) # 0
      /\ q \in Seq(Letters \cup {Star}) /\ Len(q) \in Nat /\ s[i] \in Letters \cup {Star}
  BY DEF Strings, Word, MaskedFrom
<1>2. PICK h : h = <<s[i]>>
  OBVIOUS
<1>3. h \in Seq(Letters \cup {Star}) /\ Len(h) = 1 /\ h[1] = s[i]
  BY <1>1, <1>2
<1>4. PICK r : r = h \o q
  OBVIOUS
<1>5. /\ r \in Strings /\ q \in Strings /\ Len(r) = 1 + Len(q) /\ r[1] = s[i]
      /\ \A j \in 1..Len(q) : r[1 + j] = q[j]
  <2>1. h \in Strings /\ q \in Strings
    BY <1>1, <1>3 DEF Strings
  <2>2. /\ h \o q \in Strings /\ Len(h \o q) = Len(h) + Len(q)
        /\ \A j \in 1..Len(h) : (h \o q)[j] = h[j]
        /\ \A j \in 1..Len(q) : (h \o q)[Len(h) + j] = q[j]
    BY <2>1, Joining
  <2> QED
    BY <1>3, <1>4, <2>1, <2>2
<1>6. ASSUME to = <<Star>>
      PROVE  /\ Len(r) = Len(s) + 1 - i /\ ~ Has(r, k)
             /\ \A j \in 1..Len(r) : r[j] \in {s[i + j - 1], Star}
  <2>1. /\ Len(q) = Len(s) + 1 - (i + 1) /\ ~ Has(q, k)
        /\ \A j \in 1..Len(q) : q[j] \in {s[i + 1 + j - 1], Star}
    BY <1>6 DEF MaskedFrom
  <2>2. Len(r) = Len(s) + 1 - i
    BY <1>1, <1>5, <2>1
  <2>3. ASSUME NEW j \in 1..Len(r) PROVE r[j] \in {s[i + j - 1], Star}
    <3>1. CASE j = 1
      BY <1>1, <1>5, <3>1
    <3>2. CASE j # 1
      <4>1. PICK l \in 1..Len(q) : l = j - 1
        BY <1>1, <1>5, <3>2
      <4>2. 1 + l = j /\ i + 1 + l - 1 = i + j - 1
        BY <4>1
      <4>3. r[j] = q[l]
        BY <1>5, <4>2
      <4> QED
        BY <2>1, <4>2, <4>3
    <3> QED
      BY <3>1, <3>2
  <2>4. ASSUME NEW j \in 1..Len(r), At(r, k, j) PROVE FALSE
    <3>1. j + Len(k) - 1 <= Len(r) /\ \A l \in 1..Len(k) : r[j + l - 1] = k[l]
      <4>1. j \in Nat \ {0} /\ r \in Strings
        BY <1>5
      <4> QED
        BY <2>4, <4>1, AtSays
    <3>2. CASE j = 1
      <4>1. i + Len(k) - 1 <= Len(s)
        BY <1>1, <2>2, <3>1, <3>2
      <4>2. ASSUME NEW l \in 1..Len(k) PROVE s[i + l - 1] = k[l]
        <5>1. l \in 1..Len(r) /\ j + l - 1 = l
          BY <1>1, <1>5, <3>1, <3>2
        <5>2. r[l] = k[l] /\ k[l] \in Letters
          BY <1>1, <3>1, <5>1
        <5> QED
          BY <2>3, <5>1, <5>2, SpamAssumption
      <4>3. At(s, k, i)
        BY <1>1, <4>1, <4>2, AtSays
      <4> QED
        BY <4>3
    <3>3. CASE j # 1
      <4>1. PICK m \in 1..Len(q) : m = j - 1
        BY <1>1, <1>5, <3>3
      <4>2. m + Len(k) - 1 <= Len(q)
        BY <1>1, <1>5, <3>1, <4>1
      <4>3. ASSUME NEW l \in 1..Len(k) PROVE q[m + l - 1] = k[l]
        <5>1. m + l - 1 \in 1..Len(q) /\ 1 + (m + l - 1) = j + l - 1
          BY <1>1, <4>1, <4>2
        <5>2. r[j + l - 1] = q[m + l - 1]
          BY <1>5, <5>1
        <5> QED
          BY <3>1, <5>2
      <4>4. At(q, k, m)
        <5>1. m \in Nat \ {0} /\ q \in Strings
          BY <1>5
        <5> QED
          BY <4>2, <4>3, <5>1, AtSays
      <4> QED
        BY <2>1, <4>4 DEF Has
    <3> QED
      BY <3>2, <3>3
  <2> QED
    BY <2>2, <2>3, <2>4 DEF Has
<1> QED
  BY <1>2, <1>4, <1>5, <1>6 DEF MaskedFrom, Strings

(* Replace leaves a string; with stars, one with nothing but stars in the  *)
(* place of letters, without the keyword.                                  *)
LEMMA ReplaceRight ==
    ASSUME NEW s \in Strings, NEW k \in Word, NEW to \in {<<>>, <<Star>>}
    PROVE  /\ Replace(s, k, to) \in Strings
           /\ to = <<Star>> => Starred(s, Replace(s, k, to)) /\ ~ Has(Replace(s, k, to), k)
<1>1. /\ Len(s) \in Nat /\ k \in Seq(Letters) /\ Len(k) \in Nat /\ Len(k) # 0
  BY DEF Strings, Word
<1>2. PICK f : /\ f = [i \in 1..(Len(s) + Len(k)) |-> ReplaceAt(s, k, to, f, i)]
               /\ Replace(s, k, to) = f[1]
  BY <1>1, ReplaceBy
<1> DEFINE Wrong == {m \in 0..Len(s) : ~ MaskedFrom(s, k, to, Len(s) + 1 - m, f[Len(s) + 1 - m])}
<1>3. ASSUME Wrong # {} PROVE FALSE
  <2>1. PICK m \in Wrong : \A l \in Wrong : m <= l
    <3>1. Wrong \subseteq Nat
      OBVIOUS
    <3> HIDE DEF Wrong
    <3> QED
      BY <1>3, <3>1, LeastNumber
  <2>2. PICK i \in 1..(Len(s) + 1) : i = Len(s) + 1 - m
    BY <1>1
  <2>3. ~ MaskedFrom(s, k, to, i, f[i]) /\ f[i] = ReplaceAt(s, k, to, f, i)
    <3>1. i \in 1..(Len(s) + Len(k))
      BY <1>1
    <3> QED
      BY <1>2, <2>1, <2>2, <3>1
  <2>4. ASSUME NEW j \in (i + 1)..(Len(s) + 1) PROVE MaskedFrom(s, k, to, j, f[j])
    <3>1. PICK l \in 0..Len(s) : l = Len(s) + 1 - j
      <4>1. Len(s) + 1 - j \in 0..Len(s)
        BY <1>1
      <4> QED
        BY <4>1
    <3>2. l \notin Wrong /\ Len(s) + 1 - l = j
      BY <1>1, <2>1, <2>2, <3>1
    <3> QED
      BY <3>2
  <2>5. CASE i = Len(s) + 1
    <3>1. f[i] = <<>>
      BY <1>1, <2>3, <2>5 DEF ReplaceAt
    <3>2. MaskedFrom(s, k, to, i, <<>>)
      BY <1>1, <2>5 DEF MaskedFrom, Strings, Has
    <3> QED
      BY <2>3, <3>1, <3>2
  <2>6. CASE i <= Len(s) /\ At(s, k, i)
    <3>1. i + Len(k) \in (i + 1)..(Len(s) + 1)
      BY <1>1, <2>6 DEF At
    <3>2. f[i] = Repeat(to, Len(k)) \o f[i + Len(k)]
      BY <1>1, <2>3, <2>6 DEF ReplaceAt
    <3>3. i \in 1..Len(s)
      BY <2>6
    <3> QED
      BY <2>3, <2>4, <2>6, <3>1, <3>2, <3>3, ReplaceOne
  <2>7. CASE i <= Len(s) /\ ~ At(s, k, i)
    <3>1. i + 1 \in (i + 1)..(Len(s) + 1)
      BY <1>1, <2>7
    <3>2. f[i] = <<s[i]>> \o f[i + 1]
      BY <1>1, <2>3, <2>7 DEF ReplaceAt
    <3>3. i \in 1..Len(s)
      BY <2>7
    <3> QED
      BY <2>3, <2>4, <2>7, <3>1, <3>2, <3>3, KeepOne
  <2> QED
    BY <1>1, <2>5, <2>6, <2>7
<1>4. MaskedFrom(s, k, to, 1, f[1])
  <2>1. Len(s) \in 0..Len(s) /\ Len(s) + 1 - Len(s) = 1
    BY <1>1
  <2> QED
    BY <1>3, <2>1
<1>5. to = <<Star>> => Starred(s, f[1])
  BY <1>1, <1>4 DEF MaskedFrom, Starred
<1> QED
  BY <1>2, <1>4, <1>5 DEF MaskedFrom

(* What Masked makes of the first i keywords, f having those before.       *)
MaskAt(s, words, to, f, i) ==
    IF i = 0 THEN s
    ELSE IF Has(s, words[i]) THEN Replace(f[i - 1], words[i], to) ELSE f[i - 1]

(* The function that Masked takes from keyword to keyword is there.        *)
LEMMA MaskThere ==
    ASSUME NEW s, NEW words, NEW to, Len(words) \in Nat
    PROVE  \E f : f = [i \in 0..Len(words) |-> MaskAt(s, words, to, f, i)]
<1> DEFINE S == {m \in Nat : \E f : f = [i \in 0..m |-> MaskAt(s, words, to, f, i)]}
<1>1. 0 \in S
  <2>1. PICK g : g = [i \in 0..0 |-> s]
    OBVIOUS
  <2>2. g = [i \in 0..0 |-> MaskAt(s, words, to, g, i)]
    BY <2>1 DEF MaskAt
  <2> QED
    BY <2>2
<1>2. ASSUME NEW m \in Nat, m \in S PROVE m + 1 \in S
  <2>1. PICK f : f = [i \in 0..m |-> MaskAt(s, words, to, f, i)]
    BY <1>2
  <2>2. PICK x : x = MaskAt(s, words, to, f, m + 1)
    OBVIOUS
  <2>3. PICK g : g = [i \in 0..(m + 1) |-> IF i = m + 1 THEN x ELSE f[i]]
    OBVIOUS
  <2>4. \A i \in 0..m : g[i] = f[i]
    BY <2>3
  <2>5. ASSUME NEW i \in 0..(m + 1)
        PROVE  MaskAt(s, words, to, g, i) = MaskAt(s, words, to, f, i)
    <3>1. CASE i = 0
      BY <3>1 DEF MaskAt
    <3>2. CASE i # 0
      <4>1. i - 1 \in 0..m
        BY <3>2
      <4>2. g[i - 1] = f[i - 1]
        BY <2>4, <4>1
      <4> QED
        BY <3>2, <4>2 DEF MaskAt
    <3> QED
      BY <3>1, <3>2
  <2>6. \A i \in 0..(m + 1) : g[i] = MaskAt(s, words, to, g, i)
    <3> SUFFICES ASSUME NEW i \in 0..(m + 1) PROVE g[i] = MaskAt(s, words, to, g, i)
      OBVIOUS
    <3>1. CASE i = m + 1
      BY <2>2, <2>3, <2>5, <3>1
    <3>2. CASE i # m + 1
      <4>1. i \in 0..m
        BY <3>2
      <4>2. g[i] = f[i] /\ f[i] = MaskAt(s, words, to, f, i)
        BY <2>1, <2>4, <4>1
      <4> QED
        BY <2>5, <4>2
    <3> QED
      BY <3>1, <3>2
  <2>7. g = [i \in 0..(m + 1) |-> MaskAt(s, words, to, g, i)]
    BY <2>3, <2>6
  <2> QED
    BY <2>7
<1> HIDE DEF S
<1>3. Len(words) \in S
  BY <1>1, <1>2, AllNumbers
<1> QED
  BY <1>3 DEF S

(* Masked is the last value of such a function.                            *)
LEMMA MaskedBy ==
    ASSUME NEW s, NEW words, NEW to, Len(words) \in Nat
    PROVE  \E f : /\ f = [i \in 0..Len(words) |-> MaskAt(s, words, to, f, i)]
                  /\ Masked(s, words, to) = f[Len(words)]
<1>1. PICK g : g = CHOOSE upTo : upTo = [i \in 0..Len(words) |->
                     IF i = 0 THEN s
                     ELSE IF Has(s, words[i]) THEN Replace(upTo[i - 1], words[i], to)
                     ELSE upTo[i - 1]]
  OBVIOUS
<1>2. Masked(s, words, to) = g[Len(words)]
  BY <1>1 DEF Masked
<1>3. \E f : f = [i \in 0..Len(words) |->
                     IF i = 0 THEN s
                     ELSE IF Has(s, words[i]) THEN Replace(f[i - 1], words[i], to)
                     ELSE f[i - 1]]
  <2>1. PICK f : f = [i \in 0..Len(words) |-> MaskAt(s, words, to, f, i)]
    BY MaskThere
  <2> QED
    BY <2>1 DEF MaskAt
<1>4. g = [i \in 0..Len(words) |->
                     IF i = 0 THEN s
                     ELSE IF Has(s, words[i]) THEN Replace(g[i - 1], words[i], to)
                     ELSE g[i - 1]]
  BY <1>1, <1>3
<1> QED
  BY <1>2, <1>4 DEF MaskAt

(* Stars over stars.                                                       *)
LEMMA StarredTwice ==
    ASSUME NEW a \in Strings, NEW b \in Strings, NEW c \in Strings, Starred(a, b), Starred(b, c)
    PROVE  Starred(a, c)
<1> QED
  BY DEF Starred

(* All keywords are masked: what is left of the content has none, however  *)
(* they overlap.                                                           *)
LEMMA MaskedRight ==
    ASSUME NEW s \in Strings, NEW words \in Seq(Word), NEW to \in {<<>>, <<Star>>}
    PROVE  /\ Masked(s, words, to) \in Strings
           /\ to = <<Star>> =>
                 \A l \in 1..Len(words) : ~ Has(Masked(s, words, to), words[l])
<1>1. Len(words) \in Nat /\ \A l \in 1..Len(words) : words[l] \in Word
  OBVIOUS
<1>2. PICK f : /\ f = [i \in 0..Len(words) |-> MaskAt(s, words, to, f, i)]
               /\ Masked(s, words, to) = f[Len(words)]
  BY <1>1, MaskedBy
<1> DEFINE Clean(i) == \A l \in 1..i : ~ Has(f[i], words[l])
           S == {i \in Nat : i <= Len(words) =>
                   /\ f[i] \in Strings
                   /\ (to = <<Star>> => Starred(s, f[i]) /\ Clean(i))}
<1>3. 0 \in S
  <2>1. f[0] = s
    BY <1>1, <1>2 DEF MaskAt
  <2>2. Starred(s, s)
    BY DEF Starred, Strings
  <2> QED
    BY <2>1, <2>2
<1>4. ASSUME NEW n \in Nat, n \in S PROVE n + 1 \in S
  <2> SUFFICES ASSUME n + 1 <= Len(words)
               PROVE  /\ f[n + 1] \in Strings
                      /\ (to = <<Star>> => Starred(s, f[n + 1]) /\ Clean(n + 1))
    OBVIOUS
  <2>1. PICK k \in Word : k = words[n + 1]
    <3>1. n + 1 \in 1..Len(words)
      BY <1>1
    <3> QED
      BY <1>1, <3>1
  <2>2. PICK a \in Strings : a = f[n]
    BY <1>1, <1>4
  <2>3. to = <<Star>> => Starred(s, a) /\ \A l \in 1..n : ~ Has(a, words[l])
    BY <1>1, <1>4, <2>2
  <2>4. PICK b : b = f[n + 1]
    OBVIOUS
  <2>5. b = IF Has(s, k) THEN Replace(a, k, to) ELSE a
    <3>1. n + 1 \in 0..Len(words) /\ n + 1 # 0 /\ (n + 1) - 1 = n
      BY <1>1
    <3>2. b = MaskAt(s, words, to, f, n + 1)
      BY <1>2, <2>4, <3>1
    <3> QED
      BY <2>1, <2>2, <3>1, <3>2 DEF MaskAt
  <2>6. CASE Has(s, k)
    <3>1. b \in Strings /\ (to = <<Star>> => Starred(a, b) /\ ~ Has(b, k))
      BY <2>5, <2>6, ReplaceRight
    <3>2. ASSUME to = <<Star>> PROVE Starred(s, b) /\ \A l \in 1..(n + 1) : ~ Has(b, words[l])
      <4>1. Starred(s, b)
        BY <2>3, <3>1, <3>2, StarredTwice
      <4>2. ASSUME NEW l \in 1..(n + 1) PROVE ~ Has(b, words[l])
        <5>1. CASE l = n + 1
          BY <2>1, <3>1, <3>2, <5>1
        <5>2. CASE l # n + 1
          <6>1. l \in 1..n /\ l \in 1..Len(words)
            BY <1>1, <5>2
          <6>2. words[l] \in Word /\ ~ Has(a, words[l])
            BY <1>1, <2>3, <3>2, <6>1
          <6> QED
            BY <3>1, <3>2, <6>2, StarsMakeNone
        <5> QED
          BY <5>1, <5>2
      <4> QED
        BY <4>1, <4>2
    <3> QED
      BY <2>4, <3>1, <3>2
  <2>7. CASE ~ Has(s, k)
    <3>1. b = a
      BY <2>5, <2>7
    <3>2. ASSUME to = <<Star>> PROVE \A l \in 1..(n + 1) : ~ Has(b, words[l])
      <4> SUFFICES ASSUME NEW l \in 1..(n + 1) PROVE ~ Has(a, words[l])
        BY <3>1
      <4>1. CASE l = n + 1
        BY <2>1, <2>3, <2>7, <3>2, <4>1, StarsMakeNone
      <4>2. CASE l # n + 1
        <5>1. l \in 1..n
          BY <4>2
        <5> QED
          BY <2>3, <3>2, <5>1
      <4> QED
        BY <4>1, <4>2
    <3> QED
      BY <2>3, <2>4, <3>1, <3>2
  <2> QED
    BY <2>6, <2>7
<1> HIDE DEF S
<1>5. Len(words) \in S
  BY <1>1, <1>3, <1>4, AllNumbers
<1> QED
  BY <1>1, <1>2, <1>5 DEF S

-----------------------------------------------------------------------------
(* The moderation of a comment.                                            *)

(* The keyword checker is still to be asked.                               *)
Waiting == \E i \in 1..Len(next) : next[i] = "keywords"

(* Nobody but the check has written the comment, and nothing has failed.   *)
Alone == edited = 0 /\ ~ lost

(* The settings that promise a comment without keywords.                   *)
Guarded ==
    /\ moderation.keywords # "off" /\ moderation.read
    /\ moderation.keywords = "replace" => moderation.to # <<>>

(* The text and the state that the comment has once the callback is done.  *)
TextToBe ==
    CASE step = "find" -> IF change.block THEN comment.text ELSE change.row.text
      [] step = "save" -> change.row.text
      [] OTHER -> comment.text
HeldToBe ==
    CASE step = "find" -> comment.pending \/ change.block
      [] step = "save" -> change.row.pending
      [] OTHER -> comment.pending

KeywordsLast ==
    /\ \A i \in 1..Len(next) : next[i] = "keywords" => i = Len(next)
    /\ Waiting => step = "check"
FlagEnds == \A i \in 1..Len(verdicts) : ~ Passes(verdicts[i]) => i = Len(verdicts) /\ next = <<>>
HeldForReason ==
    Alone => /\ entry = comment
             /\ HeldToBe <=> heldFirst \/ Flagged
             /\ step = "find" => (change.block <=> Flagged)
CleanToBe ==
    Alone => /\ Waiting => comment.text = content
             /\ Guarded /\ ~ Flagged /\ ~ Waiting => ~ HasKeyword(TextToBe)

SpamIInv == SpamTypeOK /\ KeywordsLast /\ FlagEnds /\ HeldForReason /\ CleanToBe

(* What the settings and the content are made of.                          *)
LEMMA SettingTypes ==
    ASSUME SpamTypeOK
    PROVE  /\ moderation.words \in Seq(Word) /\ moderation.to \in {<<>>, <<Star>>}
           /\ content \in Strings /\ Contents \subseteq Strings
           /\ moderation.keywords \in {"off", "block", "replace"}
           /\ moderation.read \in BOOLEAN /\ moderation.failBlock \in BOOLEAN
           /\ DOMAIN moderation.words = 1..Len(moderation.words)
<1>1. moderation \in SpamConf
  BY SpamAssumption DEF SpamTypeOK
<1>2. moderation.words \in Seq(Word) /\ moderation.to \in {<<>>, <<Star>>}
  BY <1>1 DEF SpamConf, Word
<1>3. Contents \subseteq Strings
  BY SpamAssumption DEF Strings
<1>4. /\ moderation.keywords \in {"off", "block", "replace"}
      /\ moderation.read \in BOOLEAN /\ moderation.failBlock \in BOOLEAN
  BY <1>1 DEF SpamConf
<1>5. DOMAIN moderation.words = 1..Len(moderation.words)
  BY <1>2
<1> QED
  BY <1>2, <1>3, <1>4, <1>5 DEF SpamTypeOK

(* A verdict is flagged exactly if it does not pass.                       *)
LEMMA FlaggedIs ==
    ASSUME SpamTypeOK
    PROVE  Flagged <=> \E i \in 1..Len(verdicts) : ~ Passes(verdicts[i])
<1>1. DOMAIN verdicts = 1..Len(verdicts)
  BY DEF SpamTypeOK
<1>2. \A i \in 1..Len(verdicts) : verdicts[i] \in {"pass", "spam", "error"}
  BY DEF SpamTypeOK
<1>3. \A i \in 1..Len(verdicts) : ~ Passes(verdicts[i]) <=>
          verdicts[i] = "spam" \/ (verdicts[i] = "error" /\ moderation.failBlock)
  BY <1>2 DEF Passes
<1> QED
  BY <1>1, <1>3 DEF Flagged

(* The list of checkers: services, and the keywords last if they are on.   *)
LEMMA CheckersAre ==
    ASSUME NEW c \in SpamConf
    PROVE  LET l == getEnabledCheckers(c) IN
           /\ l \in Seq({"akismet", "tencent", "aliyun", "keywords"})
           /\ \A i \in 1..Len(l) : l[i] = "keywords" => i = Len(l)
           /\ c.keywords # "off" => \E i \in 1..Len(l) : l[i] = "keywords"
<1>1. PICK a \in Seq(Services), b \in Seq(Services), d \in Seq(Services) :
          /\ a = Enabled("akismet", c) /\ b = Enabled("tencent", c) /\ d = Enabled("aliyun", c)
  <2>1. \A s \in Services : Enabled(s, c) \in Seq(Services)
    BY DEF Enabled
  <2> QED
    BY <2>1 DEF Services
<1>2. PICK x \in Seq(Services) : x = a \o b \o d
  <2>1. a \o b \in Seq(Services)
    BY ConcatProperties
  <2>2. (a \o b) \o d \in Seq(Services)
    BY <2>1, ConcatProperties
  <2> QED
    BY <2>2
<1>3. PICK y : y = IF c.keywords = "off" THEN <<>> ELSE <<"keywords">>
  OBVIOUS
<1>4. getEnabledCheckers(c) = x \o y
  BY <1>1, <1>2, <1>3 DEF getEnabledCheckers
<1>5. CASE c.keywords = "off"
  <2>1. x \o y = x
    BY <1>3, <1>5
  <2>2. \A i \in 1..Len(x) : x[i] \in Services
    OBVIOUS
  <2>3. x \in Seq({"akismet", "tencent", "aliyun", "keywords"})
    BY DEF Services
  <2> QED
    BY <1>4, <1>5, <2>1, <2>2, <2>3 DEF Services
<1>6. CASE c.keywords # "off"
  <2>1. PICK l \in Seq({"akismet", "tencent", "aliyun", "keywords"}) : l = Append(x, "keywords")
    <3>1. x \in Seq({"akismet", "tencent", "aliyun", "keywords"})
      BY DEF Services
    <3>2. Append(x, "keywords") \in Seq({"akismet", "tencent", "aliyun", "keywords"})
      BY <3>1, AppendProperties
    <3> QED
      BY <3>2
  <2>2. getEnabledCheckers(c) = l
    BY <1>3, <1>4, <1>6, <2>1
  <2>3. Len(l) = Len(x) + 1 /\ Len(x) \in Nat /\ l[Len(x) + 1] = "keywords"
    BY <2>1
  <2>4. \A i \in 1..Len(x) : l[i] = x[i] /\ x[i] \in Services
    BY <2>1
  <2>5. \A i \in 1..Len(l) : l[i] = "keywords" => i = Len(l)
    <3> SUFFICES ASSUME NEW i \in 1..Len(l), i # Len(l) PROVE l[i] # "keywords"
      OBVIOUS
    <3>1. i \in 1..Len(x)
      BY <2>3
    <3>2. l[i] \in Services
      BY <2>4, <3>1
    <3> QED
      BY <3>2 DEF Services
  <2> QED
    BY <2>2, <2>3, <2>5
<1> QED
  BY <1>5, <1>6

(* At first.                                                               *)
LEMMA SpamIInvInit == SpamInit => SpamIInv
<1> SUFFICES ASSUME SpamInit PROVE SpamIInv
  OBVIOUS
<1>1. moderation \in SpamConf /\ content \in Contents /\ content \in Strings
  BY SpamAssumption DEF SpamInit, Strings
<1>2. comment \in CommentRow
  BY <1>1 DEF SpamInit, CommentRow
<1>3. /\ next \in Seq({"akismet", "tencent", "aliyun", "keywords"})
      /\ \A i \in 1..Len(next) : next[i] = "keywords" => i = Len(next)
      /\ moderation.keywords # "off" => Waiting
  BY <1>1, CheckersAre DEF SpamInit, Waiting
<1>4. verdicts = <<>> /\ verdicts \in Seq({"pass", "spam", "error"}) /\ Len(verdicts) = 0
  BY DEF SpamInit
<1>5. SpamTypeOK
  <2>1. change \in [block : BOOLEAN, row : CommentRow]
    BY <1>2 DEF SpamInit
  <2>2. edited \in 0..MaxSpamEdits
    <3>1. edited = 0 /\ MaxSpamEdits \in Nat
      BY SpamAssumption DEF SpamInit
    <3> QED
      BY <3>1
  <2>3. lost \in BOOLEAN /\ step \in {"check", "find", "save", "done"}
    BY DEF SpamInit
  <2>4. moderation \in SpamConfs /\ heldFirst \in BOOLEAN /\ entry \in CommentRow
    BY <1>2 DEF SpamInit
  <2> QED
    BY <1>1, <1>2, <1>3, <1>4, <2>1, <2>2, <2>3, <2>4
    DEF SpamTypeOK
<1>6. KeywordsLast /\ FlagEnds
  BY <1>3, <1>4 DEF SpamInit, KeywordsLast, FlagEnds
<1>7. ~ Flagged
  BY <1>4, <1>5, FlaggedIs
<1>8. HeldForReason
  BY <1>7 DEF SpamInit, HeldForReason, HeldToBe
<1>9. CleanToBe
  BY <1>3 DEF SpamInit, CleanToBe, Guarded
<1> QED
  BY <1>5, <1>6, <1>8, <1>9 DEF SpamIInv

(* What is left once the first checker has passed.                         *)
LEMMA TailLeft ==
    ASSUME SpamTypeOK, KeywordsLast, next # <<>>
    PROVE  /\ Tail(next) \in Seq({"akismet", "tencent", "aliyun", "keywords"})
           /\ \A i \in 1..Len(Tail(next)) :
                  Tail(next)[i] = "keywords" => i = Len(Tail(next))
           /\ (\E i \in 1..Len(Tail(next)) : Tail(next)[i] = "keywords")
                  <=> Waiting /\ Head(next) # "keywords"
<1>1. /\ next \in Seq({"akismet", "tencent", "aliyun", "keywords"}) /\ Len(next) \in Nat
      /\ Len(next) # 0 /\ Head(next) = next[1]
  BY DEF SpamTypeOK
<1>2. PICK t \in Seq({"akismet", "tencent", "aliyun", "keywords"}) : t = Tail(next)
  <2>1. Tail(next) \in Seq({"akismet", "tencent", "aliyun", "keywords"})
    BY <1>1, HeadTailProperties
  <2> QED
    BY <2>1
<1>3. Len(t) = Len(next) - 1 /\ \A i \in 1..Len(t) : t[i] = next[i + 1]
  BY <1>1, <1>2, HeadTailProperties
<1>4. \A i \in 1..Len(t) : t[i] = "keywords" => i = Len(t)
  BY <1>1, <1>3 DEF KeywordsLast
<1>5. ASSUME NEW i \in 1..Len(t), t[i] = "keywords" PROVE Waiting /\ next[1] # "keywords"
  <2>1. i + 1 \in 1..Len(next) /\ 1 \in 1..Len(next) /\ Len(next) # 1
    BY <1>1, <1>3
  <2>2. next[i + 1] = "keywords"
    BY <1>3, <1>5
  <2> QED
    BY <2>1, <2>2 DEF Waiting, KeywordsLast
<1>6. ASSUME Waiting, next[1] # "keywords" PROVE \E i \in 1..Len(t) : t[i] = "keywords"
  <2>1. PICK j \in 1..Len(next) : next[j] = "keywords"
    BY <1>6 DEF Waiting
  <2>2. j # 1 /\ j - 1 \in 1..Len(t) /\ (j - 1) + 1 = j
    BY <1>1, <1>3, <1>6, <2>1
  <2> QED
    BY <1>3, <2>1, <2>2
<1> QED
  BY <1>1, <1>2, <1>4, <1>5, <1>6

(* An answer: the list of what is left, the verdicts and the text follow.  *)
LEMMA TriggerStep ==
    ASSUME SpamIInv, step = "check", next # <<>>,
           NEW v \in {"pass", "spam", "error"}, NEW m \in Strings, checkerTrigger(v, m),
           m # content => v = "pass",
           Head(next) # "keywords" => m = content,
           Head(next) = "keywords" /\ Guarded /\ Passes(v) => ~ HasKeyword(m)
    PROVE  SpamIInv'
<1>1. /\ SpamTypeOK /\ KeywordsLast /\ FlagEnds /\ HeldForReason /\ CleanToBe
      /\ moderation' = moderation /\ content' = content /\ heldFirst' = heldFirst
      /\ comment' = comment /\ entry' = entry /\ edited' = edited /\ lost' = lost
      /\ verdicts' = Append(verdicts, v)
      /\ next' = (IF Passes(v) THEN Tail(next) ELSE <<>>)
      /\ change' = [block |-> ~ Passes(v), row |-> [text |-> m, pending |-> FALSE]]
      /\ step' = IF Passes(v) /\ m = content THEN "check" ELSE "find"
  BY DEF SpamIInv, checkerTrigger, setting
<1>2. content \in Strings
  BY <1>1, SettingTypes
<1>3. Passes(v) \in BOOLEAN
  BY DEF Passes
<1>4. verdicts \in Seq({"pass", "spam", "error"})
  BY <1>1 DEF SpamTypeOK
<1>5. next' \in Seq({"akismet", "tencent", "aliyun", "keywords"})
  BY <1>1, TailLeft
<1>6. change' \in [block : BOOLEAN, row : CommentRow]
  BY <1>1, <1>3 DEF CommentRow
<1>7. SpamTypeOK'
  BY <1>1, <1>4, <1>5, <1>6 DEF SpamTypeOK, CommentRow
<1>8. \A w : Passes(w)' <=> Passes(w)
  BY <1>1 DEF Passes
<1>9. Waiting' => Waiting /\ Head(next) # "keywords" /\ Passes(v) /\ m = content
  <2>1. CASE Passes(v)
    BY <1>1, <2>1, TailLeft DEF Waiting
  <2>2. CASE ~ Passes(v)
    BY <1>1, <2>2 DEF Waiting
  <2> QED
    BY <2>1, <2>2
<1>10. Passes(v) /\ ~ Waiting' => ~ Waiting \/ Head(next) = "keywords"
  BY <1>1, TailLeft DEF Waiting
<1>11. KeywordsLast'
  <2>1. \A i \in 1..Len(next') : next'[i] = "keywords" => i = Len(next')
    <3>1. CASE Passes(v)
      BY <1>1, <3>1, TailLeft
    <3>2. CASE ~ Passes(v)
      BY <1>1, <3>2
    <3> QED
      BY <3>1, <3>2
  <2>2. Waiting' => step' = "check"
    BY <1>1, <1>9
  <2> QED
    BY <2>1, <2>2 DEF KeywordsLast
<1>12. /\ Len(verdicts') = Len(verdicts) + 1 /\ Len(verdicts) \in Nat
       /\ verdicts'[Len(verdicts) + 1] = v
       /\ \A i \in 1..Len(verdicts) : verdicts'[i] = verdicts[i]
  BY <1>1, <1>4
<1>13. \A i \in 1..Len(verdicts) : Passes(verdicts[i])
  BY <1>1 DEF FlagEnds
<1>14. \A i \in 1..Len(verdicts') : ~ Passes(verdicts'[i]) => i = Len(verdicts') /\ ~ Passes(v)
  <2> SUFFICES ASSUME NEW i \in 1..Len(verdicts'), ~ Passes(verdicts'[i])
               PROVE  i = Len(verdicts') /\ ~ Passes(v)
    OBVIOUS
  <2>1. i \notin 1..Len(verdicts)
    BY <1>12, <1>13
  <2>2. i = Len(verdicts) + 1
    BY <1>12, <2>1
  <2> QED
    BY <1>12, <2>2
<1>15. FlagEnds'
  BY <1>1, <1>8, <1>14 DEF FlagEnds
<1>16. ~ Flagged
  BY <1>1, <1>13, FlaggedIs
<1>17. Flagged' <=> ~ Passes(v)
  <2>1. (SpamTypeOK => (Flagged <=> \E i \in 1..Len(verdicts) : ~ Passes(verdicts[i])))'
    BY FlaggedIs, PTL
  <2>2. Flagged' <=> \E i \in 1..Len(verdicts') : ~ Passes(verdicts'[i])
    BY <1>7, <1>8, <2>1
  <2>3. Len(verdicts) + 1 \in 1..Len(verdicts')
    BY <1>12
  <2> QED
    BY <1>12, <1>14, <2>2, <2>3
<1>18. Alone' <=> Alone
  BY <1>1 DEF Alone
<1>19. HeldForReason'
  <2> SUFFICES ASSUME Alone
               PROVE  /\ entry' = comment' /\ (HeldToBe' <=> heldFirst \/ Flagged')
                      /\ (step' = "find" => (change'.block <=> Flagged'))
    BY <1>1, <1>18 DEF HeldForReason
  <2>1. entry = comment /\ (comment.pending <=> heldFirst)
    BY <1>1, <1>16 DEF HeldForReason, HeldToBe
  <2>2. change'.block = ~ Passes(v)
    BY <1>1
  <2>3. CASE step' = "check"
    <3>1. Passes(v) /\ HeldToBe' = comment.pending
      BY <1>1, <2>3 DEF HeldToBe
    <3> QED
      BY <1>1, <1>17, <2>1, <2>3, <3>1
  <2>4. CASE step' = "find"
    <3>1. HeldToBe' = (comment.pending \/ ~ Passes(v))
      BY <1>1, <2>2, <2>4 DEF HeldToBe
    <3> QED
      BY <1>1, <1>17, <2>1, <2>2, <3>1
  <2> QED
    BY <1>1, <2>3, <2>4
<1>20. CleanToBe'
  <2> SUFFICES ASSUME Alone
               PROVE  /\ Waiting' => comment'.text = content
                      /\ Guarded' /\ ~ Flagged' /\ ~ Waiting' => ~ HasKeyword(TextToBe)'
    BY <1>1, <1>18 DEF CleanToBe
  <2>1. Waiting => comment.text = content
    BY <1>1 DEF CleanToBe
  <2>2. Waiting' => comment'.text = content
    BY <1>1, <1>9, <2>1
  <2>3. ASSUME Guarded', ~ Flagged', ~ Waiting' PROVE ~ HasKeyword(TextToBe)'
    <3>1. Guarded /\ Passes(v)
      BY <1>1, <1>17, <2>3 DEF Guarded
    <3>2. \A x : HasKeyword(x)' <=> HasKeyword(x)
      BY <1>1 DEF HasKeyword
    <3>3. change'.block = FALSE /\ change'.row.text = m
      BY <1>1, <3>1
    <3>4. CASE Head(next) = "keywords"
      <4>1. Waiting
        <5>1. 1 \in 1..Len(next) /\ next[1] = "keywords"
          BY <1>1, <3>4 DEF SpamTypeOK
        <5> QED
          BY <5>1 DEF Waiting
      <4>2. TextToBe' = m
        <5>1. CASE m = content
          BY <1>1, <2>1, <3>1, <4>1, <5>1 DEF TextToBe
        <5>2. CASE m # content
          BY <1>1, <3>1, <3>3, <5>2 DEF TextToBe
        <5> QED
          BY <5>1, <5>2
      <4>3. ~ HasKeyword(m)
        BY <3>1, <3>4
      <4> QED
        BY <3>2, <4>2, <4>3 DEF HasKeyword
    <3>5. CASE Head(next) # "keywords"
      <4>1. ~ Waiting
        BY <1>10, <2>3, <3>1, <3>5
      <4>2. ~ HasKeyword(TextToBe) /\ TextToBe = comment.text
        BY <1>1, <1>16, <3>1, <4>1 DEF CleanToBe, TextToBe
      <4>3. TextToBe' = comment.text
        BY <1>1, <3>1, <3>5 DEF TextToBe
      <4> QED
        BY <3>2, <4>2, <4>3 DEF HasKeyword
    <3> QED
      BY <3>4, <3>5
  <2> QED
    BY <2>2, <2>3
<1> QED
  BY <1>7, <1>11, <1>15, <1>19, <1>20 DEF SpamIInv

(* The answer of a service, and that of the keyword checker.               *)
LEMMA AnswerSteps ==
    ASSUME SpamIInv, AskService \/ KeywordsCheck
    PROVE  SpamIInv'
<1>1. SpamTypeOK /\ step = "check" /\ next # <<>>
  BY DEF SpamIInv, AskService, KeywordsCheck
<1>2. content \in Strings
  BY <1>1, SettingTypes
<1>3. CASE AskService
  <2>1. ASSUME NEW v \in {"pass", "spam", "error"}, Head(next) # "keywords",
               checkerTrigger(v, content)
        PROVE  SpamIInv'
    BY <1>1, <1>2, <2>1, TriggerStep
  <2>2. \A r : Akismet(r) \in {"pass", "spam", "error"}
    BY DEF Akismet
  <2>3. \A r : TMS(r) \in {"pass", "spam", "error"}
    BY DEF TMS
  <2>4. \A r : GreenText(r) \in {"pass", "spam", "error"}
    BY DEF GreenText
  <2>5. PICK r : AskAkismet(r) \/ AskTencent(r) \/ AskAliyun(r)
    BY <1>3 DEF AskService
  <2>6. CASE AskAkismet(r)
    <3>1. Head(next) # "keywords" /\ checkerTrigger(Akismet(r), content)
      BY <2>6 DEF AskAkismet
    <3> QED
      BY <2>1, <2>2, <3>1
  <2>7. CASE AskTencent(r)
    <3>1. Head(next) # "keywords" /\ checkerTrigger(TMS(r), content)
      BY <2>7 DEF AskTencent
    <3> QED
      BY <2>1, <2>3, <3>1
  <2>8. CASE AskAliyun(r)
    <3>1. Head(next) # "keywords" /\ checkerTrigger(GreenText(r), content)
      BY <2>8 DEF AskAliyun
    <3> QED
      BY <2>1, <2>4, <3>1
  <2> QED
    BY <2>5, <2>6, <2>7, <2>8
<1>4. CASE KeywordsCheck
  <2>1. Head(next) = "keywords"
    BY <1>4 DEF KeywordsCheck
  <2>2. CASE ~ moderation.read
    <3>1. checkerTrigger("error", content) /\ ~ Guarded
      BY <1>4, <2>2 DEF KeywordsCheck, Guarded
    <3> QED
      BY <1>1, <1>2, <2>1, <3>1, TriggerStep
  <2>3. CASE moderation.read /\ moderation.keywords = "replace"
    <3>1. PICK m : m = Masked(content, moderation.words, moderation.to)
      OBVIOUS
    <3>2. checkerTrigger("pass", m)
      BY <1>4, <2>3, <3>1 DEF KeywordsCheck
    <3>3. /\ moderation.words \in Seq(Word) /\ moderation.to \in {<<>>, <<Star>>}
          /\ DOMAIN moderation.words = 1..Len(moderation.words)
      BY <1>1, SettingTypes
    <3>4. /\ m \in Strings
          /\ moderation.to = <<Star>> =>
                 \A l \in 1..Len(moderation.words) : ~ Has(m, moderation.words[l])
      BY <1>2, <3>1, <3>3, MaskedRight
    <3>5. Guarded => ~ HasKeyword(m)
      BY <2>3, <3>3, <3>4 DEF Guarded, HasKeyword
    <3> QED
      BY <1>1, <2>1, <3>2, <3>4, <3>5, TriggerStep
  <2>4. CASE moderation.read /\ moderation.keywords # "replace"
    <3>1. PICK v \in {"pass", "spam", "error"} : v = IF HasKeyword(content) THEN "spam" ELSE "pass"
      OBVIOUS
    <3>2. checkerTrigger(v, content)
      BY <1>4, <2>4, <3>1 DEF KeywordsCheck
    <3>3. Passes(v) => ~ HasKeyword(content)
      BY <3>1 DEF Passes
    <3> QED
      BY <1>1, <1>2, <2>1, <3>2, <3>3, TriggerStep
  <2> QED
    BY <2>2, <2>3, <2>4
<1> QED
  BY <1>3, <1>4

(* Steps that leave the checkers and their verdicts alone.                 *)
LEMMA VerdictFrame ==
    ASSUME moderation' = moderation, next' = next, verdicts' = verdicts
    PROVE  /\ Waiting' <=> Waiting
           /\ Flagged' <=> Flagged
           /\ Guarded' <=> Guarded
           /\ FlagEnds => FlagEnds'
           /\ \A s : HasKeyword(s)' <=> HasKeyword(s)
<1>1. \A v : Passes(v)' <=> Passes(v)
  BY DEF Passes
<1>2. FlagEnds => FlagEnds'
  BY <1>1 DEF FlagEnds
<1> QED
  BY <1>2 DEF Waiting, Flagged, Guarded, HasKeyword

(* The end of the check.                                                   *)
LEMMA EndStep ==
    ASSUME SpamIInv, EndCheck
    PROVE  SpamIInv'
<1>1. /\ SpamTypeOK /\ KeywordsLast /\ FlagEnds /\ HeldForReason /\ CleanToBe
      /\ step = "check" /\ next = <<>> /\ step' = "done"
      /\ moderation' = moderation /\ content' = content /\ heldFirst' = heldFirst
      /\ comment' = comment /\ entry' = entry /\ edited' = edited /\ lost' = lost
      /\ next' = next /\ change' = change /\ verdicts' = verdicts
  BY DEF SpamIInv, EndCheck, setting
<1>2. SpamTypeOK'
  BY <1>1 DEF SpamTypeOK, CommentRow
<1>3. Waiting' = FALSE /\ ~ Waiting
  BY <1>1 DEF Waiting
<1>4. KeywordsLast' /\ FlagEnds'
  BY <1>1, <1>3, VerdictFrame DEF KeywordsLast
<1>5. TextToBe' = TextToBe /\ HeldToBe' = HeldToBe /\ (Alone' <=> Alone)
  BY <1>1 DEF TextToBe, HeldToBe, Alone
<1>6. HeldForReason'
  BY <1>1, <1>5, VerdictFrame DEF HeldForReason
<1>7. CleanToBe'
  BY <1>1, <1>3, <1>5, VerdictFrame DEF CleanToBe, HasKeyword
<1> QED
  BY <1>2, <1>4, <1>6, <1>7 DEF SpamIInv

(* A callback has found the comment.                                       *)
LEMMA FindAnewStep ==
    ASSUME SpamIInv, FindAnew
    PROVE  SpamIInv'
<1>1. /\ SpamTypeOK /\ KeywordsLast /\ FlagEnds /\ HeldForReason /\ CleanToBe /\ step = "find"
      /\ moderation' = moderation /\ content' = content /\ heldFirst' = heldFirst
      /\ comment' = comment /\ entry' = entry /\ edited' = edited /\ lost' = lost
      /\ next' = next /\ verdicts' = verdicts
  BY DEF SpamIInv, FindAnew, setting
<1>2. /\ change \in [block : BOOLEAN, row : CommentRow] /\ entry \in CommentRow
      /\ change.block \in BOOLEAN /\ entry.pending \in BOOLEAN
      /\ change.row.text \in Strings /\ entry.text \in Strings
  BY <1>1 DEF SpamTypeOK, CommentRow
<1>3. \/ change.block /\ entry.pending /\ step' = "check" /\ change' = change
      \/ change.block /\ ~ entry.pending /\ step' = "save"
            /\ change' = [change EXCEPT !.row = [entry EXCEPT !.pending = TRUE]]
      \/ ~ change.block /\ step' = "save"
            /\ change' = [change EXCEPT !.row = [entry EXCEPT !.text = change.row.text]]
  BY <1>2 DEF FindAnew
<1>4. step' \in {"check", "save"} /\ change' \in [block : BOOLEAN, row : CommentRow]
  <2>1. [entry EXCEPT !.pending = TRUE] \in CommentRow
    BY <1>2 DEF CommentRow
  <2>2. [entry EXCEPT !.text = change.row.text] \in CommentRow
    BY <1>2 DEF CommentRow
  <2>3. \A r \in CommentRow : [change EXCEPT !.row = r] \in [block : BOOLEAN, row : CommentRow]
    BY <1>2
  <2> QED
    BY <1>2, <1>3, <2>1, <2>2, <2>3
<1>5. SpamTypeOK'
  BY <1>1, <1>4 DEF SpamTypeOK, CommentRow
<1>6. ~ Waiting /\ ~ Waiting'
  BY <1>1, VerdictFrame DEF KeywordsLast
<1>7. KeywordsLast' /\ FlagEnds'
  BY <1>1, <1>6, VerdictFrame DEF KeywordsLast
<1>8. Alone' <=> Alone
  BY <1>1 DEF Alone
<1>9. ASSUME Alone
      PROVE  entry = comment /\ (change.block <=> Flagged)
             /\ (comment.pending \/ change.block <=> heldFirst \/ Flagged)
  BY <1>1, <1>9 DEF HeldForReason, HeldToBe
<1>10. HeldForReason'
  <2> SUFFICES ASSUME Alone
               PROVE  HeldToBe' <=> heldFirst \/ Flagged
    BY <1>1, <1>4, <1>8, <1>9, VerdictFrame DEF HeldForReason
  <2>1. CASE change.block /\ entry.pending
    <3>1. HeldToBe' = comment.pending
      BY <1>1, <1>3, <2>1 DEF HeldToBe
    <3> QED
      BY <1>9, <2>1, <3>1
  <2>2. CASE change.block /\ ~ entry.pending
    <3>1. step' = "save" /\ change' = [change EXCEPT !.row = [entry EXCEPT !.pending = TRUE]]
      BY <1>3, <2>2
    <3>2. change'.row.pending = TRUE
      BY <1>2, <3>1 DEF CommentRow
    <3>3. HeldToBe' = TRUE
      BY <3>1, <3>2 DEF HeldToBe
    <3> QED
      BY <1>9, <2>2, <3>3
  <2>3. CASE ~ change.block
    <3>1. /\ step' = "save"
          /\ change' = [change EXCEPT !.row = [entry EXCEPT !.text = change.row.text]]
      BY <1>3, <2>3
    <3>2. change'.row.pending = entry.pending
      BY <1>2, <3>1 DEF CommentRow
    <3>3. HeldToBe' = entry.pending
      BY <3>1, <3>2 DEF HeldToBe
    <3> QED
      BY <1>9, <2>3, <3>3
  <2> QED
    BY <2>1, <2>2, <2>3
<1>11. CleanToBe'
  <2> SUFFICES ASSUME Alone, Guarded, ~ Flagged PROVE ~ HasKeyword(TextToBe)'
    BY <1>1, <1>6, <1>8, VerdictFrame DEF CleanToBe
  <2>1. ~ change.block
    BY <1>9
  <2>2. TextToBe = change.row.text /\ ~ HasKeyword(TextToBe)
    BY <1>1, <1>6, <2>1 DEF CleanToBe, TextToBe
  <2>3. /\ step' = "save"
        /\ change' = [change EXCEPT !.row = [entry EXCEPT !.text = change.row.text]]
    BY <1>3, <2>1
  <2>4. change'.row.text = change.row.text
    BY <1>2, <2>3 DEF CommentRow
  <2>5. TextToBe' = change.row.text
    BY <2>3, <2>4 DEF TextToBe
  <2> QED
    BY <1>1, <2>2, <2>5 DEF HasKeyword
<1> QED
  BY <1>5, <1>7, <1>10, <1>11 DEF SpamIInv

(* A callback saves the comment.                                           *)
LEMMA SaveStep ==
    ASSUME SpamIInv, NEW ok \in BOOLEAN, UpdateComment(ok)
    PROVE  SpamIInv'
<1>1. /\ SpamTypeOK /\ KeywordsLast /\ FlagEnds /\ HeldForReason /\ CleanToBe
      /\ step = "save" /\ step' = "check"
      /\ comment' = (IF ok THEN change.row ELSE comment) /\ entry' = change.row
      /\ lost' = (lost \/ ~ ok)
      /\ moderation' = moderation /\ content' = content /\ heldFirst' = heldFirst
      /\ edited' = edited /\ next' = next /\ change' = change /\ verdicts' = verdicts
  BY DEF SpamIInv, UpdateComment, setting
<1>2. change.row \in CommentRow
  BY <1>1 DEF SpamTypeOK
<1>3. lost' \in BOOLEAN
  BY <1>1
<1>4. SpamTypeOK'
  BY <1>1, <1>2, <1>3 DEF SpamTypeOK, CommentRow
<1>5. ~ Waiting
  BY <1>1 DEF KeywordsLast
<1>6. KeywordsLast' /\ FlagEnds'
  BY <1>1, <1>5, VerdictFrame DEF KeywordsLast
<1>7. Alone' => Alone /\ comment' = change.row
  BY <1>1 DEF Alone, SpamTypeOK
<1>8. HeldToBe = change.row.pending /\ HeldToBe' = comment'.pending
  BY <1>1 DEF HeldToBe
<1>9. TextToBe = change.row.text /\ TextToBe' = comment'.text
  BY <1>1 DEF TextToBe
<1>10. HeldForReason'
  BY <1>1, <1>7, <1>8, VerdictFrame DEF HeldForReason
<1>11. CleanToBe'
  <2> SUFFICES ASSUME Alone', Guarded, ~ Flagged PROVE ~ HasKeyword(TextToBe)'
    BY <1>1, <1>5, VerdictFrame DEF CleanToBe
  <2>1. ~ HasKeyword(TextToBe) /\ TextToBe' = TextToBe
    BY <1>1, <1>5, <1>7, <1>9 DEF CleanToBe
  <2> QED
    BY <1>1, <2>1 DEF HasKeyword
<1> QED
  BY <1>4, <1>6, <1>10, <1>11 DEF SpamIInv

(* A moderator's edit, and the end of an entry that is behind, do not      *)
(* happen to a comment that the check has for itself.                      *)
LEMMA OtherHands ==
    ASSUME SpamIInv, Expires \/ (\E s \in Contents, p \in BOOLEAN : EditComment(s, p))
    PROVE  SpamIInv'
<1>1. /\ SpamTypeOK /\ KeywordsLast /\ FlagEnds /\ HeldForReason /\ CleanToBe
      /\ moderation' = moderation /\ content' = content /\ heldFirst' = heldFirst
      /\ step' = step /\ lost' = lost /\ next' = next /\ change' = change
      /\ verdicts' = verdicts
  BY DEF SpamIInv, Expires, EditComment, setting
<1>2. KeywordsLast' /\ FlagEnds'
  BY <1>1, VerdictFrame DEF KeywordsLast
<1>3. edited \in 0..MaxSpamEdits /\ MaxSpamEdits \in Nat
  BY <1>1, SpamAssumption DEF SpamTypeOK
<1>4. /\ comment' \in CommentRow /\ entry' \in CommentRow /\ edited' \in 0..MaxSpamEdits
      /\ ~ Alone'
  <2>1. CASE Expires
    <3>1. entry # comment /\ entry' = comment /\ comment' = comment /\ edited' = edited
      BY <2>1 DEF Expires
    <3>2. ~ Alone
      BY <1>1, <3>1 DEF HeldForReason
    <3> QED
      BY <1>1, <3>1, <3>2 DEF SpamTypeOK, Alone
  <2>2. CASE \E s \in Contents, p \in BOOLEAN : EditComment(s, p)
    <3>1. PICK s \in Contents, p \in BOOLEAN : EditComment(s, p)
      BY <2>2
    <3>2. /\ edited < MaxSpamEdits /\ edited' = edited + 1
          /\ comment' = [text |-> s, pending |-> p] /\ entry' = comment'
      BY <3>1 DEF EditComment
    <3>3. s \in Strings
      BY <1>1, SettingTypes
    <3>4. edited' \in 0..MaxSpamEdits /\ edited' # 0
      BY <1>3, <3>2
    <3> QED
      BY <3>2, <3>3, <3>4 DEF CommentRow, Alone
  <2> QED
    BY <2>1, <2>2
<1>5. SpamTypeOK'
  BY <1>1, <1>4 DEF SpamTypeOK, CommentRow
<1>6. HeldForReason' /\ CleanToBe'
  BY <1>4 DEF HeldForReason, CleanToBe
<1> QED
  BY <1>2, <1>5, <1>6 DEF SpamIInv

(* Every step.                                                             *)
LEMMA SpamIInvStep == SpamIInv /\ [SpamNext]_spamVars => SpamIInv'
<1> SUFFICES ASSUME SpamIInv, [SpamNext]_spamVars PROVE SpamIInv'
  OBVIOUS
<1>1. CASE AskService \/ KeywordsCheck
  BY <1>1, AnswerSteps
<1>2. CASE EndCheck
  BY <1>2, EndStep
<1>3. CASE FindAnew
  BY <1>3, FindAnewStep
<1>4. ASSUME NEW ok \in BOOLEAN, UpdateComment(ok) PROVE SpamIInv'
  BY <1>4, SaveStep
<1>5. CASE Expires \/ (\E s \in Contents, p \in BOOLEAN : EditComment(s, p))
  BY <1>5, OtherHands
<1>6. CASE UNCHANGED spamVars
  <2>1. /\ moderation' = moderation /\ content' = content /\ heldFirst' = heldFirst
        /\ comment' = comment /\ entry' = entry /\ step' = step /\ next' = next
        /\ change' = change /\ verdicts' = verdicts /\ edited' = edited /\ lost' = lost
    BY <1>6 DEF spamVars
  <2>2. SpamTypeOK'
    BY <2>1 DEF SpamIInv, SpamTypeOK, CommentRow
  <2>3. TextToBe' = TextToBe /\ HeldToBe' = HeldToBe /\ (Alone' <=> Alone)
    BY <2>1 DEF TextToBe, HeldToBe, Alone
  <2>4. KeywordsLast' /\ FlagEnds'
    BY <2>1, VerdictFrame DEF SpamIInv, KeywordsLast
  <2>5. HeldForReason'
    BY <2>1, <2>3, VerdictFrame DEF SpamIInv, HeldForReason
  <2>6. CleanToBe'
    BY <2>1, <2>3, VerdictFrame DEF SpamIInv, CleanToBe, HasKeyword
  <2> QED
    BY <2>2, <2>4, <2>5, <2>6 DEF SpamIInv
<1> QED
  BY <1>1, <1>2, <1>3, <1>4, <1>5, <1>6 DEF SpamNext

(* What the invariant says of a check that has ended.                      *)
LEMMA SpamFollows == SpamIInv => SpamSound
<1> SUFFICES ASSUME SpamIInv PROVE SpamSound
  OBVIOUS
<1>1. SpamTypeOK /\ KeywordsLast /\ FlagEnds /\ HeldForReason /\ CleanToBe
  BY DEF SpamIInv
<1>2. Untouched => Alone /\ HeldToBe = comment.pending /\ TextToBe = comment.text /\ ~ Waiting
  BY <1>1 DEF Untouched, Alone, HeldToBe, TextToBe, KeywordsLast
<1>3. HeldIffFlagged
  BY <1>1, <1>2 DEF HeldIffFlagged, HeldForReason
<1>4. ShownIsClean
  <2> SUFFICES ASSUME Untouched, ~ comment.pending, Guarded PROVE ~ HasKeyword(comment.text)
    BY DEF ShownIsClean, Guarded
  <2>1. ~ Flagged
    BY <1>2, <1>3 DEF HeldIffFlagged
  <2> QED
    BY <1>1, <1>2, <2>1 DEF CleanToBe
<1>5. FirstFlagEnds
  <2>1. DOMAIN verdicts = 1..Len(verdicts)
    BY <1>1 DEF SpamTypeOK
  <2>2. \A i \in 1..Len(verdicts) : ~ Passes(verdicts[i]) => i = Len(verdicts)
    BY <1>1 DEF FlagEnds
  <2>3. Len(verdicts) \in Nat
    BY <1>1 DEF SpamTypeOK
  <2>4. ASSUME NEW i \in 1..Len(verdicts), i < Len(verdicts) PROVE Passes(verdicts[i])
    BY <2>2, <2>3, <2>4
  <2> QED
    BY <2>1, <2>4 DEF FirstFlagEnds
<1> QED
  BY <1>1, <1>3, <1>4, <1>5 DEF SpamSound

(* The check of a comment is right: at its end a comment nobody else has   *)
(* touched waits for approval exactly if it was created so or a checker    *)
(* has flagged it, a comment that is shown has none of the keywords in     *)
(* it, whatever they are and however they overlap, and nothing is asked    *)
(* after the first flag (checkerTrigger, KeywordsChecker.Check).           *)
THEOREM ModerationRight == SpamSpec => []SpamSound
<1>1. SpamInit => SpamIInv
  BY SpamIInvInit
<1>2. SpamIInv /\ [SpamNext]_spamVars => SpamIInv'
  BY SpamIInvStep
<1>3. SpamIInv => SpamSound
  BY SpamFollows
<1> QED
  BY <1>1, <1>2, <1>3, PTL DEF SpamSpec
=============================================================================
