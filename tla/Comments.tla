------------------------------- MODULE Comments -------------------------------
(***************************************************************************)
(* The comments capability: comments on targets, one level of replies and  *)
(* moderation.                                                             *)
(*                                                                         *)
(* A command reads the comment it decides on, and a reply its parent, FOR  *)
(* UPDATE: the row stays locked until the commit, and another reader of it *)
(* waits.  Each change appends its event to the outbox in the same         *)
(* transaction.                                                            *)
(***************************************************************************)
EXTENDS Naturals, Sequences, FiniteSets

CONSTANTS
    Targets,          \* targets that exist: they are asked about beforehand
    Moderators,       \* requests in progress at one time
    MaxComments,      \* bound: comments submitted
    MaxCommentCalls   \* bound: commands begun

ASSUME CommentsAssumption ==
    Targets # {} /\ MaxComments \in Nat /\ MaxCommentCalls \in Nat

VARIABLES
    comments,    \* the comments rows, in the order of their inserts
    told,        \* the events appended, in the order of their commits
    moderator,   \* what each request is in the middle of
    commentCalls

commentsVars == <<comments, told, moderator, commentCalls>>

Decisions == {"published", "rejected", "deleted"}

CommentsTypeOK ==
    /\ \A c \in DOMAIN comments :
         comments[c] \in [target : Targets, parent : 0 .. c - 1, version : Nat \ {0},
                          status : Decisions \union {"pending"}]
    /\ \A i \in DOMAIN told :
         told[i] \in [what : Decisions \union {"submitted"}, comment : DOMAIN comments]
    /\ DOMAIN moderator = Moderators

CommentsInit ==
    /\ comments = <<>>
    /\ told = <<>>
    /\ moderator = [m \in Moderators |-> <<"idle">>]
    /\ commentCalls = 0

Rests(m) == moderator[m] = <<"idle">>
Doing(m, what) == moderator[m][1] = what
Holds(m, c) == ~Rests(m) /\ moderator[m][2] = c
Does(m, what) == moderator' = [moderator EXCEPT ![m] = what]
CommentCall == commentCalls < MaxCommentCalls /\ commentCalls' = commentCalls + 1
Tells(what, c) == told' = Append(told, [what |-> what, comment |-> c])

(* FOR UPDATE: no other transaction holds the row.                         *)
ReadWithoutLock(m, c) == TRUE
GetForUpdate(m, c) == \A o \in Moderators \ {m} : ~Holds(o, c)

Inserted(target, parent) ==
    /\ Len(comments) < MaxComments
    /\ comments' = Append(comments, [target |-> target, parent |-> parent,
                                     status |-> "pending", version |-> 1])
    /\ Tells("submitted", Len(comments) + 1)

SubmitComment(target) ==
    /\ CommentCall
    /\ Inserted(target, 0)
    /\ UNCHANGED moderator

ReplyReads(m, target, parent) ==
    /\ CommentCall
    /\ Rests(m) /\ GetForUpdate(m, parent)
    /\ comments[parent].target = target
    /\ comments[parent].parent = 0
    /\ comments[parent].status # "deleted"
    /\ Does(m, <<"replying", parent, target>>)
    /\ UNCHANGED <<comments, told>>

ReplyCommits(m) ==
    /\ Doing(m, "replying")
    /\ Inserted(moderator[m][3], moderator[m][2])
    /\ Does(m, <<"idle">>)
    /\ UNCHANGED commentCalls

(* ApproveComment, RejectComment and DeleteComment: what was decided       *)
(* already is returned as it is, and a deletion is final.                  *)
DecisionReads(m, c, to) ==
    /\ CommentCall
    /\ Rests(m) /\ GetForUpdate(m, c)
    /\ comments[c].status \notin {to, "deleted"}
    /\ Does(m, <<"deciding", c, to, comments[c].version>>)
    /\ UNCHANGED <<comments, told>>

DecisionCommits(m) ==
    /\ Doing(m, "deciding")
    /\ LET c == moderator[m][2]
           to == moderator[m][3]
       IN /\ comments' = [comments EXCEPT ![c].status = to,
                                          ![c].version = moderator[m][4] + 1]
          /\ Tells(to, c)
    /\ Does(m, <<"idle">>)
    /\ UNCHANGED commentCalls

(* A request that fails or is lost before its commit leaves nothing.       *)
CommentGivesUp(m) ==
    /\ ~Rests(m)
    /\ Does(m, <<"idle">>)
    /\ UNCHANGED <<comments, told, commentCalls>>

CommentsNext ==
    \/ \E target \in Targets : SubmitComment(target)
    \/ \E m \in Moderators, target \in Targets, c \in DOMAIN comments : ReplyReads(m, target, c)
    \/ \E m \in Moderators, c \in DOMAIN comments, to \in Decisions : DecisionReads(m, c, to)
    \/ \E m \in Moderators : ReplyCommits(m) \/ DecisionCommits(m) \/ CommentGivesUp(m)

CommentsSpec == CommentsInit /\ [][CommentsNext]_commentsVars

Told(c) == {i \in DOMAIN told : told[i].comment = c}

(* The events tell each comment's history as its row has it: one per       *)
(* version, the last one naming its status, none after its deletion; and   *)
(* no reply is told of after its parent's deletion (commands.py of the     *)
(* capability, _get_for_update).                                           *)
EventsTellHistory ==
    \A c \in DOMAIN comments :
      /\ Cardinality(Told(c)) = comments[c].version
      /\ \E last \in Told(c) :
           /\ \A i \in Told(c) : i <= last
           /\ comments[c].status =
                IF told[last].what = "submitted" THEN "pending" ELSE told[last].what
      /\ \A i, j \in DOMAIN told :
           told[i] = [what |-> "deleted", comment |-> c] /\ i < j =>
             /\ told[j].comment # c
             /\ told[j].what = "submitted" => comments[told[j].comment].parent # c
=============================================================================
