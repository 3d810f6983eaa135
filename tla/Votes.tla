------------------------------- MODULE Votes -------------------------------
(***************************************************************************)
(* Votes on comments and pages (server/handler/vote.go) and the writers    *)
(* that share their rows: the vote synchronisation, the deletion of a      *)
(* comment and the edits that save a whole row from an earlier copy.       *)
(*                                                                         *)
(* A vote is one transaction that holds the target's row lock from its     *)
(* first statement (SELECT ... FOR UPDATE) to its commit; its writes       *)
(* appear at the commit.  All other writers run statement by statement,    *)
(* and a statement that writes a locked row waits for the lock.            *)
(***************************************************************************)
EXTENDS Integers, FiniteSets

CONSTANTS
    Targets,   \* comments (pages are handled the same way)
    IPs,
    Voters,    \* concurrent POST /votes/:target_name/:target_id/:choice
    Syncers,   \* concurrent POST /votes/sync
    Editors,   \* concurrent PUT /comments/:id
    Deleters,  \* concurrent DELETE /comments/:id
    Texts,     \* what an edit may write
    MaxVotes,  \* bound on the vote rows stored at a time
    Free       \* nobody holds the row lock

ASSUME VotesAssumption ==
    /\ MaxVotes \in Nat
    /\ Targets # {} /\ Texts # {} /\ IPs # {}
    /\ Free \notin Voters

VARIABLES
    row,      \* the target's table row
    votes,    \* the rows of table votes
    cache,    \* the cached row of a target, NoRow if not cached
    lock,     \* who holds the row lock of a target
    proc,     \* state of every request
    calm,     \* history: no other request wrote since this sync began
    clean     \* history: only votes have written so far

vars == <<row, votes, cache, lock, proc, calm, clean>>

VoteChoices == {"up", "down"}
Procs == Voters \cup Syncers \cup Editors \cup Deleters
Row == [alive : BOOLEAN, up : Nat, down : Nat, text : Texts]
Vote == [id : 1..MaxVotes, target : Targets, ip : IPs, type : VoteChoices]
NoRow == [alive |-> FALSE, up |-> 0, down |-> 0, text |-> CHOOSE x \in Texts : TRUE]
NoCopy == [t \in Targets |-> NoRow]

(* A request: its program counter, target, client and choice, the rows it  *)
(* has read, the votes it has found, and what a sync has yet to visit.     *)
Proc == [pc : {"idle", "lock", "find", "write", "commit", "cache", "edit", "up",
               "down", "save", "done", "delVotes", "delRow", "delCache"},
         target : Targets, ip : IPs, choice : VoteChoices,
         copy : [Targets -> Row], found : SUBSET Vote, todo : SUBSET Targets]

Idle == [pc |-> "idle", target |-> CHOOSE x \in Targets : TRUE,
         ip |-> CHOOSE x \in IPs : TRUE, choice |-> "up", copy |-> NoCopy,
         found |-> {}, todo |-> {}]

TypeOK ==
    /\ row \in [Targets -> Row]
    /\ votes \subseteq Vote
    /\ cache \in [Targets -> Row]
    /\ lock \in [Targets -> Voters \cup {Free}]
    /\ proc \in [Procs -> Proc]
    /\ calm \in [Syncers -> BOOLEAN] /\ clean \in BOOLEAN

Init ==
    /\ row = [t \in Targets |-> [NoRow EXCEPT !.alive = TRUE]]
    /\ votes = {}
    /\ cache = NoCopy
    /\ lock = [t \in Targets |-> Free]
    /\ proc = [p \in Procs |-> Idle]
    /\ calm = [p \in Syncers |-> FALSE] /\ clean = TRUE

Goto(p, pc) == proc' = [proc EXCEPT ![p].pc = pc]
Return(p) == proc' = [proc EXCEPT ![p] = Idle]

(* A write of p: no longer calm for the syncs of others.                   *)
Disturb(p) == calm' = [q \in Syncers |-> q = p /\ calm[q]]
NoneCalm == calm' = [q \in Syncers |-> FALSE]

(* GetVoteNum, and the two COUNTs of updateVote.                           *)
GetVoteNum(vs, t, c) == Cardinality({v \in vs : v.target = t /\ v.type = c})

Recount(copy, t, vs) ==
    [copy EXCEPT ![t].up = GetVoteNum(vs, t, "up"), ![t].down = GetVoteNum(vs, t, "down")]

(* FindComment: the cached copy if there is one, else the table's.         *)
FindComment(t) == IF cache[t].alive THEN cache[t] ELSE row[t]

-----------------------------------------------------------------------------
(* VoteCreate and updateVote                                               *)

VoteStart(p, t, ip, c) ==
    /\ proc[p].pc = "idle"
    /\ FindComment(t).alive
    /\ proc' = [proc EXCEPT ![p] = [Idle EXCEPT !.pc = "lock", !.target = t,
                                                !.ip = ip, !.choice = c]]
    /\ UNCHANGED <<row, votes, cache, lock, calm, clean>>

(* SELECT ... FOR UPDATE: wait for the lock; no row is a 404.              *)
VoteLock_None(p) ==
    /\ proc[p].pc = "lock"
    /\ row[proc[p].target].alive
    /\ proc' = [proc EXCEPT ![p].pc = "find", ![p].copy = row]
    /\ UNCHANGED <<row, votes, cache, lock, calm, clean>>
VoteLock(p) ==
    LET t == proc[p].target IN
    /\ proc[p].pc = "lock"
    /\ lock[t] = Free
    /\ IF row[t].alive
       THEN /\ lock' = [lock EXCEPT ![t] = p]
            /\ proc' = [proc EXCEPT ![p].pc = "find", ![p].copy = row]
       ELSE Return(p) /\ UNCHANGED lock
    /\ UNCHANGED <<row, votes, cache, calm, clean>>

VoteFind(p) ==
    /\ proc[p].pc = "find"
    /\ proc' = [proc EXCEPT ![p].pc = "write",
                  ![p].found = {v \in votes : v.target = proc[p].target /\ v.ip = proc[p].ip}]
    /\ UNCHANGED <<row, votes, cache, lock, calm, clean>>

(* Voting again for the same choice takes the vote back.                   *)
(* The id only tells rows apart: one is taken again once its row is gone.  *)
FreshIds == {i \in 1..MaxVotes : \A v \in votes : v.id # i}
OneVote(p) ==
    {[id |-> CHOOSE i \in FreshIds : TRUE, target |-> proc[p].target,
      ip |-> proc[p].ip, type |-> proc[p].choice]}
NewVotes_Blank(p) ==
    {[id |-> CHOOSE i \in FreshIds : TRUE, target |-> proc[p].target, ip |-> proc[p].ip,
      type |-> IF proc[p].found # {} THEN "" ELSE proc[p].choice]}
NewVotes(p) ==
    LET same == \E v \in proc[p].found :
                   /\ v.type = proc[p].choice
                   /\ \A w \in proc[p].found : v.id <= w.id
    IN IF same THEN {} ELSE OneVote(p)

(* Delete what was found, insert the new vote, recount: the transaction    *)
(* sees its own writes and what others have committed.                     *)
VoteWrite_Stale(p) ==
    LET t == proc[p].target IN
    /\ proc[p].pc = "write"
    /\ FreshIds # {}
    /\ proc' = [proc EXCEPT ![p].pc = "commit", ![p].copy = Recount(proc[p].copy, t, votes)]
    /\ UNCHANGED <<row, votes, cache, lock, calm, clean>>
VoteWrite(p) ==
    LET t == proc[p].target
        now == (votes \ proc[p].found) \cup NewVotes(p)
    IN /\ proc[p].pc = "write"
       /\ FreshIds # {}
       /\ proc' = [proc EXCEPT ![p].pc = "commit", ![p].copy = Recount(proc[p].copy, t, now)]
       /\ UNCHANGED <<row, votes, cache, lock, calm, clean>>

(* The two counters of the row are updated and everything is committed.    *)
VoteCommit(p) ==
    LET t == proc[p].target IN
    /\ proc[p].pc = "commit"
    /\ FreshIds # {}
    /\ votes' = (votes \ proc[p].found) \cup NewVotes(p)
    /\ row' = [row EXCEPT ![t].up = proc[p].copy[t].up, ![t].down = proc[p].copy[t].down]
    /\ lock' = [lock EXCEPT ![t] = Free]
    /\ proc' = [proc EXCEPT ![p] = [Idle EXCEPT !.pc = "cache", !.target = t,
                                                !.copy = proc[p].copy]]
    /\ NoneCalm
    /\ UNCHANGED <<cache, clean>>

(* A failing statement rolls the transaction back.                         *)
VoteRollback(p) ==
    /\ proc[p].pc \in {"find", "write", "commit"}
    /\ lock' = [lock EXCEPT ![proc[p].target] = Free]
    /\ Return(p)
    /\ UNCHANGED <<row, votes, cache, calm, clean>>

(* CommentCacheSave of the request's copy, after the commit, no lock held. *)
CacheSave(p) ==
    /\ proc[p].pc = "cache"
    /\ cache' = [cache EXCEPT ![proc[p].target] = proc[p].copy[proc[p].target]]
    /\ IF p \in Syncers THEN Goto(p, "up") ELSE Return(p)
    /\ UNCHANGED <<row, votes, lock, calm, clean>>

-----------------------------------------------------------------------------
(* Save of a whole row from a copy (UpdateComment): all columns; a row     *)
(* that is gone is inserted again.                                         *)
SaveRow(p, t) ==
    /\ lock[t] = Free
    /\ row' = [row EXCEPT ![t] = proc[p].copy[t]]

(* UpdateComment only logs that a save has failed, and caches the copy.    *)
SaveFails(p) ==
    /\ proc[p].pc \in {"edit", "save"}
    /\ Goto(p, "cache")
    /\ calm' = [q \in Syncers |-> calm[q] /\ q # p]
    /\ UNCHANGED <<row, votes, cache, lock, clean>>

(* CommentUpdate: read through the cache, change the content, save.        *)
EditStart(p, t, text) ==
    /\ proc[p].pc = "idle"
    /\ FindComment(t).alive
    /\ proc' = [proc EXCEPT ![p].pc = "edit", ![p].target = t,
                  ![p].copy[t] = [FindComment(t) EXCEPT !.text = text]]
    /\ UNCHANGED <<row, votes, cache, lock, calm, clean>>

EditSave(p) ==
    /\ proc[p].pc = "edit"
    /\ SaveRow(p, proc[p].target)
    /\ Goto(p, "cache")
    /\ NoneCalm /\ clean' = FALSE
    /\ UNCHANGED <<votes, cache, lock>>

(* VoteSync: load every row, then row by row two counts and a save.        *)
SyncStart(p) ==
    /\ proc[p].pc = "idle"
    /\ proc' = [proc EXCEPT ![p].pc = "up", ![p].copy = row,
                            ![p].todo = {t \in Targets : row[t].alive}]
    /\ calm' = [calm EXCEPT ![p] = TRUE]
    /\ UNCHANGED <<row, votes, cache, lock, clean>>

SyncUp(p) ==
    /\ proc[p].pc = "up"
    /\ \/ \E t \in proc[p].todo :
            proc' = [proc EXCEPT ![p].pc = "down", ![p].target = t,
                       ![p].todo = proc[p].todo \ {t},
                       ![p].copy = [proc[p].copy EXCEPT ![t].up = GetVoteNum(votes, t, "up")]]
       \/ proc[p].todo = {} /\ Goto(p, "done")
    /\ UNCHANGED <<row, votes, cache, lock, calm, clean>>

SyncDown(p) ==
    LET t == proc[p].target IN
    /\ proc[p].pc = "down"
    /\ proc' = [proc EXCEPT ![p].pc = "save",
                  ![p].copy = [proc[p].copy EXCEPT ![t].down = GetVoteNum(votes, t, "down")]]
    /\ UNCHANGED <<row, votes, cache, lock, calm, clean>>

SyncSave(p) ==
    /\ proc[p].pc = "save"
    /\ SaveRow(p, proc[p].target)
    /\ Goto(p, "cache")
    /\ Disturb(p) /\ clean' = FALSE
    /\ UNCHANGED <<votes, cache, lock>>

SyncEnd(p) ==
    /\ proc[p].pc = "done"
    /\ Return(p)
    /\ UNCHANGED <<row, votes, cache, lock, calm, clean>>

-----------------------------------------------------------------------------
(* DelComment: the votes, the row, the cache entry, no transaction.        *)
DelStart(p, t) ==
    /\ proc[p].pc = "idle"
    /\ FindComment(t).alive
    /\ proc' = [proc EXCEPT ![p].pc = "delVotes", ![p].target = t]
    /\ UNCHANGED <<row, votes, cache, lock, calm, clean>>

DelVotes(p) ==
    /\ proc[p].pc = "delVotes"
    /\ votes' = {v \in votes : v.target # proc[p].target}
    /\ Goto(p, "delRow")
    /\ NoneCalm /\ clean' = FALSE
    /\ UNCHANGED <<row, cache, lock>>

DelRow(p) ==
    /\ proc[p].pc = "delRow"
    /\ lock[proc[p].target] = Free
    /\ row' = [row EXCEPT ![proc[p].target] = NoRow]
    /\ Goto(p, "delCache")
    /\ NoneCalm /\ clean' = FALSE
    /\ UNCHANGED <<votes, cache, lock>>

DelCache(p) ==
    /\ proc[p].pc = "delCache"
    /\ cache' = [cache EXCEPT ![proc[p].target] = NoRow]
    /\ Return(p)
    /\ UNCHANGED <<row, votes, lock, calm, clean>>

(* A failing statement ends the deletion where it is.                      *)
DelFail(p) ==
    /\ proc[p].pc \in {"delVotes", "delRow"}
    /\ Return(p)
    /\ UNCHANGED <<row, votes, cache, lock, calm, clean>>

-----------------------------------------------------------------------------
VoterStep(p) ==
    VoteLock(p) \/ VoteFind(p) \/ VoteWrite(p) \/ VoteCommit(p) \/ VoteRollback(p)
    \/ CacheSave(p)
SyncStep(p) ==
    SyncUp(p) \/ SyncDown(p) \/ SyncSave(p) \/ SaveFails(p) \/ CacheSave(p) \/ SyncEnd(p)
EditStep(p) == EditSave(p) \/ SaveFails(p) \/ CacheSave(p)
DelStep(p) == DelVotes(p) \/ DelRow(p) \/ DelCache(p) \/ DelFail(p)

Next ==
    \/ \E p \in Voters : \/ \E t \in Targets, i \in IPs, c \in VoteChoices : VoteStart(p, t, i, c)
                         \/ VoterStep(p)
    \/ \E p \in Syncers : SyncStart(p) \/ SyncStep(p)
    \/ \E p \in Editors : \/ \E t \in Targets, x \in Texts : EditStart(p, t, x)
                          \/ EditStep(p)
    \/ \E p \in Deleters : (\E t \in Targets : DelStart(p, t)) \/ DelStep(p)

Spec == Init /\ [][Next]_vars

-----------------------------------------------------------------------------
(* Properties.                                                             *)

(* updateVote: a client has at most one vote on a target, whatever it      *)
(* sends at the same time and whoever syncs, edits or deletes meanwhile.   *)
OneVotePerIP ==
    \A v, w \in votes : v.target = w.target /\ v.ip = w.ip => v = w

Matches(t) == row[t].up = GetVoteNum(votes, t, "up") /\ row[t].down = GetVoteNum(votes, t, "down")
AllMatch == \A t \in Targets : row[t].alive => Matches(t)

(* updateVote alone keeps the counters of a row equal to the votes, at     *)
(* every moment, for concurrent votes of all clients.                      *)
CountsMatch == clean => AllMatch

(* A sync during which nobody else writes leaves every counter right, also *)
(* those that an edit from a stale copy had overwritten before.            *)
SyncRepairs == \A p \in Syncers : proc[p].pc = "done" /\ calm[p] => AllMatch

(* The counters of a row are right under votes alone and after a sync.     *)
CountsRight == TypeOK /\ CountsMatch /\ SyncRepairs
=============================================================================
