---------------------------- MODULE MCNotifyFlow ----------------------------
(* Instances of NotifyFlow (users u and v, two administrators) and of      *)
(* Pages for TLC, checked side by side: live names the one whose steps a   *)
(* behaviour takes, the variables of the other keep one initial value.     *)
EXTENDS NotifyFlow, MCPages

CONSTANTS u, v, a1, a2

VARIABLE live

TwoAdmins == <<a1, a2>>
Own == [x \in Users |-> x]
OneBox == [Own EXCEPT ![a2] = a1]
OwnOrOneBox == {Own, OneBox}

Flags == [noise : BOOLEAN, notifyPending : BOOLEAN, adminEmail : BOOLEAN,
          pendingDefault : BOOLEAN, email : BOOLEAN]

(* Every push: every setting, an author and a parent, every set of willing *)
(* users, and for u's comments also administrators who share an address;   *)
(* no moderator, no reader.                                                *)
Pushes ==
    {[author |-> x, parent |-> y, willing |-> W, addr |-> d, edits |-> 0, fails |-> TRUE,
      reads |-> FALSE] @@ f :
        x \in {u, a1, a2}, y \in {u, a1, Nobody}, W \in SUBSET {u, a1, a2}, d \in {Own},
        f \in Flags}
    \cup
    {[author |-> u, parent |-> y, willing |-> W, addr |-> OneBox, edits |-> 0, fails |-> TRUE,
      reads |-> FALSE] @@ f : y \in {u, a1, Nobody}, W \in SUBSET {u, a1, a2}, f \in Flags}

(* A reply of u to v that is held or not, with mail to users on, requests  *)
(* of moderators (two of them if no statement fails), and v reading        *)
(* notifications.                                                          *)
Replies(n, f, r) ==
    {[author |-> u, parent |-> v, willing |-> W, addr |-> Own, noise |-> FALSE,
      notifyPending |-> FALSE, adminEmail |-> TRUE, pendingDefault |-> held, email |-> TRUE,
      edits |-> n, fails |-> f, reads |-> r] : W \in {{}, {v}}, held \in BOOLEAN}

All == Pushes \cup Replies(1, TRUE, TRUE) \cup Replies(2, FALSE, FALSE)
NoModerator == Replies(0, FALSE, FALSE)
-----------------------------------------------------------------------------
MCInit ==
    /\ live \in {"notify", "pages"}
    /\ conf \in (IF live = "notify" THEN Confs ELSE {CHOOSE c \in Confs : TRUE}) /\ Init
    /\ kind \in (IF live = "pages" THEN Kinds ELSE {NoRequest})
    /\ PagesInit /\ (live # "pages" => ~ cached /\ last = 0)
FlowNext == live = "notify" /\ Next /\ UNCHANGED <<live, pagesVars>>
PageNext == live = "pages" /\ PagesNext /\ UNCHANGED <<live, vars>>

(* The fairness of NotifyFlow while it is live.                            *)
MCSpec ==
    /\ MCInit /\ [][FlowNext \/ PageNext]_<<live, vars, pagesVars>>
    /\ WF_vars(live = "notify" /\ JobStep) /\ WF_vars(live = "notify" /\ WorkerStep)
    /\ \A m \in Mods : WF_vars(live = "notify" /\ ModStep(m))
=============================================================================
