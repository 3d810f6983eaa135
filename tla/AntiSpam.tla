------------------------------ MODULE AntiSpam ------------------------------
(***************************************************************************)
(* Moderation of one new comment (internal/anti_spam): the services that   *)
(* are asked in turn, the keyword checker, and the two callbacks that      *)
(* change the comment (core/service_anti_spam.go), while a moderator may   *)
(* edit it.  NotifyFlow shows what the check means for the mails.          *)
(*                                                                         *)
(* Contents and keywords are sequences of letters.  The answers of the     *)
(* services, and whether there is any, are theirs.                         *)
(***************************************************************************)
EXTENDS Integers, Sequences

CONSTANTS
    Letters,
    Star,         \* what masks a letter, not one of Letters
    SpamConfs,    \* the settings (moderator) to consider
    Contents,     \* contents of the comment
    MaxSpamEdits  \* bound: edits of a moderator

Services == {"akismet", "tencent", "aliyun"}
Strings == Seq(Letters \cup {Star})

(* on: the services that have a key or are enabled; words: the files of    *)
(* keywords, in order, without blank ones, read: whether they can be read  *)
(* and have a separator; keywords: "off", "block" or "replace"; to:        *)
(* ReplaceTo, for one letter.                                              *)
SpamConf == [on : SUBSET Services, failBlock : BOOLEAN,
             keywords : {"off", "block", "replace"}, words : Seq(Seq(Letters) \ {<<>>}),
             read : BOOLEAN, to : {<<>>, <<Star>>}]

ASSUME SpamAssumption ==
    /\ Star \notin Letters /\ SpamConfs \subseteq SpamConf /\ Contents \subseteq Seq(Letters)
    /\ MaxSpamEdits \in Nat

VARIABLES
    moderation,  \* AntiSpamConf
    content,     \* CheckerParams.Content: the comment when it was created
    comment,     \* the row of the comment
    entry,       \* its entry of the cache; the row if the cache has none
    step,        \* where the check is: a checker, a callback, the end
    next,        \* the checkers that are left
    change,      \* what the callback writes
    verdicts,    \* history: what the checkers have said
    heldFirst,   \* history: the comment was created pending
    edited, lost \* history: a moderator has edited; a save has failed

spamVars == <<moderation, content, comment, entry, step, next, change, verdicts, heldFirst,
              edited, lost>>
setting == <<moderation, content, heldFirst>>

CommentRow == [text : Strings, pending : BOOLEAN]

SpamTypeOK ==
    /\ moderation \in SpamConfs /\ content \in Contents /\ heldFirst \in BOOLEAN
    /\ comment \in CommentRow /\ entry \in CommentRow
    /\ step \in {"check", "find", "save", "done"}
    /\ next \in Seq({"akismet", "tencent", "aliyun", "keywords"})
    /\ change \in [block : BOOLEAN, row : CommentRow]
    /\ verdicts \in Seq({"pass", "spam", "error"})
    /\ edited \in 0..MaxSpamEdits /\ lost \in BOOLEAN

(* The checkers are asked in one order, the keywords last.                 *)
Enabled(s, c) == IF s \in c.on THEN <<s>> ELSE <<>>
getEnabledCheckers(c) ==
    Enabled("akismet", c) \o Enabled("tencent", c) \o Enabled("aliyun", c)
        \o (IF c.keywords = "off" THEN <<>> ELSE <<"keywords">>)

SpamInit ==
    /\ moderation \in SpamConfs /\ content \in Contents /\ heldFirst \in BOOLEAN
    /\ comment = [text |-> content, pending |-> heldFirst] /\ entry = comment
    /\ step = "check" /\ next = getEnabledCheckers(moderation)
    /\ change = [block |-> FALSE, row |-> comment]
    /\ verdicts = <<>> /\ edited = 0 /\ lost = FALSE

-----------------------------------------------------------------------------
(* The keyword checker                                                     *)

At(s, k, i) == i + Len(k) - 1 <= Len(s) /\ SubSeq(s, i, i + Len(k) - 1) = k
Has(s, k) == \E i \in 1..Len(s) : At(s, k, i)

(* strings.Repeat and strings.Replace, from left to right.                 *)
Repeat(to, n) == [i \in 1..(n * Len(to)) |-> to[1]]
Replace(s, k, to) ==
    LET from[i \in 1..(Len(s) + Len(k))] ==
            IF i > Len(s) THEN <<>>
            ELSE IF At(s, k, i) THEN Repeat(to, Len(k)) \o from[i + Len(k)]
            ELSE <<s[i]>> \o from[i + 1]
    IN from[1]

(* Every keyword is looked for in the content as it was, and replaced in   *)
(* what the keywords before it have left.                                  *)
Masked_Afresh(s, words, to) ==
    LET upTo[i \in 0..Len(words)] ==
            IF i = 0 THEN s
            ELSE IF Has(s, words[i]) THEN Replace(s, words[i], to) ELSE upTo[i - 1]
    IN upTo[Len(words)]
Masked(s, words, to) ==
    LET upTo[i \in 0..Len(words)] ==
            IF i = 0 THEN s
            ELSE IF Has(s, words[i]) THEN Replace(upTo[i - 1], words[i], to) ELSE upTo[i - 1]
    IN upTo[Len(words)]

HasKeyword(s) == \E i \in DOMAIN moderation.words : Has(s, moderation.words[i])

-----------------------------------------------------------------------------
(* checkerTrigger: an error counts as the settings say; the first checker  *)
(* that does not pass has the comment blocked and ends the check.          *)
Passes_Open(v) == v # "spam"
Passes(v) == v = "pass" \/ (v = "error" /\ ~ moderation.failBlock)

checkerTrigger(v, masked) ==
    /\ verdicts' = Append(verdicts, v)
    /\ next' = IF Passes(v) THEN Tail(next) ELSE <<>>
    /\ change' = [block |-> ~ Passes(v), row |-> [text |-> masked, pending |-> FALSE]]
    /\ step' = IF Passes(v) /\ masked = content THEN "check" ELSE "find"
    /\ UNCHANGED <<setting, comment, entry, edited, lost>>

(* What a request to a service comes to: the suggestion in its answer, ""  *)
(* if there is none, or "error" (it was not sent, or the answer cannot be  *)
(* read or is one).  There is no time limit: a service that never answers  *)
(* holds the check up for ever.                                            *)
RequestTencent == {"Pass", "Review", "Block", "", "error"}
RequestAliyun == {"pass", "review", "block", "", "error"}

(* Only what passes passes; a missing suggestion is an error to one and a  *)
(* refusal to the other.                                                   *)
Akismet(r) == CASE r = "true" -> "spam" [] r = "false" -> "pass" [] OTHER -> "error"
TMS(r) == CASE r \in {"", "error"} -> "error" [] r = "Pass" -> "pass" [] OTHER -> "spam"
GreenText(r) == CASE r = "error" -> "error" [] r = "pass" -> "pass" [] OTHER -> "spam"

AskAkismet(r) == Head(next) = "akismet" /\ checkerTrigger(Akismet(r), content)
AskTencent(r) == Head(next) = "tencent" /\ checkerTrigger(TMS(r), content)
AskAliyun(r) == Head(next) = "aliyun" /\ checkerTrigger(GreenText(r), content)

AskService ==
    /\ step = "check" /\ next # <<>>
    /\ \/ \E r \in {"true", "false", "invalid", "error"} : AskAkismet(r)
       \/ \E r \in RequestTencent : AskTencent(r)
       \/ \E r \in RequestAliyun : AskAliyun(r)

KeywordsCheck ==
    LET found == HasKeyword(content) IN
    /\ step = "check" /\ next # <<>> /\ Head(next) = "keywords"
    /\ IF ~ moderation.read THEN checkerTrigger("error", content)
       ELSE IF moderation.keywords = "replace"
       THEN checkerTrigger("pass", Masked(content, moderation.words, moderation.to))
       ELSE checkerTrigger(IF found THEN "spam" ELSE "pass", content)

EndCheck ==
    /\ step = "check" /\ next = <<>>
    /\ step' = "done"
    /\ UNCHANGED <<setting, comment, entry, next, change, verdicts, edited, lost>>

(* OnBlockComment and OnUpdateComment find the comment, through the cache, *)
(* change one column of the copy and save all of them.                     *)
FindAnew ==
    /\ step = "find"
    /\ IF change.block /\ entry.pending
       THEN step' = "check" /\ UNCHANGED change
       ELSE /\ change' = [change EXCEPT !.row =
                 IF change.block THEN [entry EXCEPT !.pending = TRUE]
                 ELSE [entry EXCEPT !.text = change.row.text]]
            /\ step' = "save"
    /\ UNCHANGED <<setting, comment, entry, next, verdicts, edited, lost>>

(* UpdateComment: the cache is written also when the row is not.           *)
UpdateComment(ok) ==
    /\ step = "save"
    /\ comment' = IF ok THEN change.row ELSE comment
    /\ entry' = change.row
    /\ lost' = (lost \/ ~ ok)
    /\ step' = "check"
    /\ UNCHANGED <<setting, next, change, verdicts, edited>>

(* A moderator edits the comment; its entry of the cache ends.             *)
EditComment(s, p) ==
    /\ edited < MaxSpamEdits
    /\ comment' = [text |-> s, pending |-> p] /\ entry' = comment'
    /\ edited' = edited + 1
    /\ UNCHANGED <<setting, step, next, change, verdicts, lost>>

Expires ==
    /\ entry # comment
    /\ entry' = comment
    /\ UNCHANGED <<setting, comment, step, next, change, verdicts, edited, lost>>

SpamNext ==
    \/ AskService \/ KeywordsCheck \/ EndCheck \/ FindAnew \/ Expires
    \/ \E ok \in BOOLEAN : UpdateComment(ok)
    \/ \E s \in Contents, p \in BOOLEAN : EditComment(s, p)

SpamSpec == SpamInit /\ [][SpamNext]_spamVars

-----------------------------------------------------------------------------
(* Properties                                                              *)

Flagged == \E i \in DOMAIN verdicts :
    verdicts[i] = "spam" \/ (verdicts[i] = "error" /\ moderation.failBlock)

Untouched == step = "done" /\ edited = 0 /\ ~ lost

(* When the check has ended a comment waits for approval if it was created *)
(* so, or one of the checkers has flagged it, or could not tell and the    *)
(* settings say to be strict; and for no other reason.                     *)
HeldIffFlagged == Untouched => (comment.pending <=> heldFirst \/ Flagged)

(* A comment that is shown has no keyword in it, in either mode, however   *)
(* keywords overlap: unless they cannot be read, or are removed instead of *)
(* masked, which may join letters to a new keyword.                        *)
ShownIsClean ==
    Untouched /\ ~ comment.pending /\ moderation.keywords # "off" /\ moderation.read
        /\ (moderation.keywords = "replace" => moderation.to # <<>>) =>
      ~ HasKeyword(comment.text)

(* Nothing is asked, and nothing is masked, after a checker has flagged.   *)
FirstFlagEnds ==
    \A i \in DOMAIN verdicts : i < Len(verdicts) => Passes(verdicts[i])

SpamSound == SpamTypeOK /\ HeldIffFlagged /\ ShownIsClean /\ FirstFlagEnds
=============================================================================
