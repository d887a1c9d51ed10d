----------------------------- MODULE Engagement -----------------------------
(***************************************************************************)
(* Views, likes and ratings of one content, their counters, and the        *)
(* projection of the content's status into the row of the counters.        *)
(*                                                                         *)
(* A command reads the content through a port, in a unit of work of its    *)
(* own, then the row of the counters and the fan's own row, and commits    *)
(* the columns it changed: three steps.  A projection handler reads the    *)
(* row and commits: two.  No row is locked and no update is conditional.   *)
(* The content's commands are reduced to their status, version and event.  *)
(***************************************************************************)
EXTENDS Integers, FiniteSets, Functions

CONSTANTS
    Fans,
    ViewKeys,           \* idempotency keys of views
    Stars,              \* ratings
    Visitors,              \* requests and event workers at work at one time
    MaxArticleVersion,  \* bound: versions of the content
    MaxVisits           \* bound: commands

ASSUME EngagementAssumption ==
    /\ IsFiniteSet(Fans)
    /\ Stars \subseteq 1..5
    /\ MaxArticleVersion \in Nat \ {0} /\ MaxVisits \in Nat

VARIABLES
    article,    \* the row of contents; a purged one is gone
    purging,    \* the version a purge read, 0 when none is in flight
    facts,      \* events emitted
    heard,      \* receipts of the projection
    stats,      \* the row of the counters
    views,      \* rows of views: the keys used, and the rows without a key
    likes,      \* rows of likes
    ratings,    \* rows of ratings
    visit,      \* what each hand is doing
    visits,     \* commands so far
    raced       \* some commit followed a read that was out of date by then

engagementVars == <<article, purging, facts, heard, stats, views, likes,
                    ratings, visit, visits, raced>>

ArticleStatus == {"draft", "published", "archived", "purged"}
NoStats == [status |-> "none", version |-> 0,
            views |-> 0, likes |-> 0, sum |-> 0, count |-> 0]
NoRating == [stars |-> 0, removed |-> TRUE]
Away == [does |-> "nothing"]

EngagementTypeOK ==
    /\ article \in [status : ArticleStatus, version : 1..MaxArticleVersion]
    /\ purging \in 0..MaxArticleVersion
    /\ facts \subseteq [status : ArticleStatus, version : 1..MaxArticleVersion]
    /\ heard \subseteq facts
    /\ stats \in [status : ArticleStatus \union {"none"}, version : 0..MaxArticleVersion,
                  views : Nat, likes : Nat, sum : Nat, count : Nat]
    /\ views \in [keys : SUBSET ViewKeys, plain : 0..MaxVisits]
    /\ likes \in [Fans -> {"none", "liked", "removed"}]
    /\ ratings \in [Fans -> [stars : Stars \union {0}, removed : BOOLEAN]]
    /\ visits \in 0..MaxVisits
    /\ raced \in BOOLEAN

EngagementInit ==
    /\ article = [status |-> "draft", version |-> 1]
    /\ purging = 0
    /\ facts = {article}
    /\ heard = {}
    /\ stats = NoStats
    /\ views = [keys |-> {}, plain |-> 0]
    /\ likes = [f \in Fans |-> "none"]
    /\ ratings = [f \in Fans |-> NoRating]
    /\ visit = [h \in Visitors |-> Away]
    /\ visits = 0
    /\ raced = FALSE

counterVars == <<heard, stats, views, likes, ratings, visit, visits>>

-----------------------------------------------------------------------------
(* The content's side.                                                     *)

ArticleMoves == {<<"draft", "published">>, <<"published", "archived">>,
                 <<"archived", "draft">>} \union
                {<<s, s>> : s \in {"draft", "published", "archived"}}

\* One command of the content: a transition, or a change that keeps the status.
MoveArticle(status) ==
    /\ <<article.status, status>> \in ArticleMoves
    /\ article.version < MaxArticleVersion
    /\ article' = [status |-> status, version |-> article.version + 1]
    /\ facts' = facts \union {article'}
    /\ UNCHANGED <<purging, counterVars, raced>>

PurgeLoads ==
    /\ article.status = "archived" /\ purging = 0
    /\ purging' = article.version
    /\ UNCHANGED <<article, facts, counterVars, raced>>

\* The deletion asks only for the status, and the event tells the version read.
PurgeArticle ==
    /\ purging # 0
    /\ IF article.status = "archived"
       THEN /\ article' = [article EXCEPT !.status = "purged"]
            /\ facts' = facts \union {[status |-> "purged", version |-> purging]}
            /\ raced' = (raced \/ purging # article.version)
       ELSE UNCHANGED <<article, facts, raced>>
    /\ purging' = 0
    /\ UNCHANGED counterVars

-----------------------------------------------------------------------------
(* The commands.                                                           *)

Ask(h, does, fan, key, stars) ==
    /\ visit[h] = Away /\ visits < MaxVisits
    /\ article.status = "published"
    /\ visit' = [visit EXCEPT ![h] = [does |-> does, fan |-> fan, key |-> key,
                                      stars |-> stars, step |-> "asked"]]
    /\ visits' = visits + 1
    /\ UNCHANGED <<article, purging, facts, heard, stats, views, likes, ratings, raced>>

RecordView(h) == \E fan \in Fans, key \in ViewKeys \union {"none"} :
    Ask(h, "view", fan, key, 0)
LikeContent(h) == \E fan \in Fans : Ask(h, "like", fan, "none", 0)
UnlikeContent(h) == \E fan \in Fans : Ask(h, "unlike", fan, "none", 0)
RateContent(h) == \E fan \in Fans, stars \in Stars : Ask(h, "rate", fan, "none", stars)
WithdrawRating(h) == \E fan \in Fans : Ask(h, "withdraw", fan, "none", 0)

\* The rows as the command's own unit of work finds them.
ReadCounters(h) ==
    /\ visit[h] # Away /\ visit[h].step = "asked"
    /\ visit' = [visit EXCEPT ![h] = [does |-> @.does, fan |-> @.fan, key |-> @.key,
                     stars |-> @.stars, step |-> "read", stats |-> stats,
                     fresh |-> @.key \notin views.keys,
                     like |-> likes[@.fan], rating |-> ratings[@.fan]]]
    /\ UNCHANGED <<article, purging, facts, heard, stats, views, likes, ratings,
                   visits, raced>>

\* What the command adds to the counters.
Adds(v) ==
    LET rated == ~v.rating.removed
        likes_ == IF v.does = "like" /\ v.like # "liked" THEN 1
                  ELSE IF v.does = "unlike" /\ v.like = "liked" /\ v.stats.likes > 0
                       THEN -1 ELSE 0
        sum_ == IF v.does = "rate" THEN v.stars - (IF rated THEN v.rating.stars ELSE 0)
                ELSE IF v.does = "withdraw" /\ rated
                     THEN -(IF v.rating.stars < v.stats.sum THEN v.rating.stars ELSE v.stats.sum)
                     ELSE 0
        count_ == IF v.does = "rate" /\ ~rated THEN 1
                  ELSE IF v.does = "withdraw" /\ rated /\ v.stats.count > 0 THEN -1 ELSE 0
    IN [views |-> IF v.does = "view" /\ v.fresh THEN 1 ELSE 0,
        likes |-> likes_, sum |-> sum_, count |-> count_]

Changed(v) == Adds(v)

\* Only the columns that differ from what was read are written.
WrittenStats(v) ==
    LET add == Changed(v)
        column(name) == IF add[name] = 0 THEN stats[name] ELSE v.stats[name] + add[name]
    IN [status |-> IF v.stats.status # "published" THEN "published" ELSE stats.status,
        version |-> IF v.stats = NoStats THEN 1 ELSE stats.version,
        views |-> column("views"), likes |-> column("likes"),
        sum |-> column("sum"), count |-> column("count")]

\* A new row that another commit has inserted meanwhile breaks a unique index, and a sum
\* that falls below zero breaks its check.
Collides(v) ==
    \/ v.stats = NoStats /\ stats # NoStats
    \/ v.does = "view" /\ v.fresh /\ v.key \in views.keys
    \/ v.does = "like" /\ v.like = "none" /\ likes[v.fan] # "none"
    \/ v.does = "rate" /\ v.rating = NoRating /\ ratings[v.fan] # NoRating
    \/ WrittenStats(v).sum < 0

WriteOwnRows(v) ==
    /\ views' = IF v.does # "view" \/ ~v.fresh THEN views
                ELSE IF v.key = "none" THEN [views EXCEPT !.plain = @ + 1]
                ELSE [views EXCEPT !.keys = @ \union {v.key}]
    /\ likes' = IF v.does = "like" /\ v.like # "liked" THEN [likes EXCEPT ![v.fan] = "liked"]
                ELSE IF v.does = "unlike" /\ v.like = "liked"
                     THEN [likes EXCEPT ![v.fan] = "removed"]
                     ELSE likes
    /\ ratings' = IF v.does = "rate" THEN [ratings EXCEPT ![v.fan] =
                                              [stars |-> v.stars, removed |-> FALSE]]
                  ELSE IF v.does = "withdraw" /\ ~v.rating.removed
                       THEN [ratings EXCEPT ![v.fan].removed = TRUE]
                       ELSE ratings

\* The fan's rows at the commit are no longer the ones read.
OwnRowsMoved(v) == v.like # likes[v.fan] \/ v.rating # ratings[v.fan]

CommitVisit(h) ==
    LET v == visit[h] IN
    /\ v # Away /\ v.does # "project" /\ v.step = "read"
    /\ visit' = [visit EXCEPT ![h] = Away]
    /\ IF Collides(v) THEN UNCHANGED <<stats, views, likes, ratings, raced>>
       ELSE /\ stats' = WrittenStats(v)
            /\ WriteOwnRows(v)
            /\ raced' = (\/ raced \/ v.stats # stats \/ OwnRowsMoved(v)
                         \/ article.status # "published")
    /\ UNCHANGED <<article, purging, facts, heard, visits>>

-----------------------------------------------------------------------------
(* The projection of one event.  Events come late, again and in any order. *)

ProjectReads(h) ==
    /\ visit[h] = Away
    /\ \E e \in facts \ heard :
         visit' = [visit EXCEPT ![h] = [does |-> "project", step |-> "read",
                                        event |-> e, stats |-> stats]]
    /\ UNCHANGED <<article, purging, facts, heard, stats, views, likes, ratings,
                   visits, raced>>

\* A mutant of RollsBack: the version of the event is not compared.
OnlyTombstones(event, row) == row.status = "purged" /\ event.status # "purged"

RollsBack(event, row) ==
    \/ row.status = "purged" /\ event.status # "purged"
    \/ event.version < row.version

\* The receipt commits with the row; the second of two receipts breaks their index.
Project(h) ==
    LET v == visit[h] IN
    /\ v.does = "project"
    /\ visit' = [visit EXCEPT ![h] = Away]
    /\ IF v.event \in heard \/ (v.stats = NoStats /\ stats # NoStats)
       THEN UNCHANGED <<heard, stats, raced>>
       ELSE /\ heard' = heard \union {v.event}
            /\ raced' = (raced \/ v.stats # stats)
            /\ stats' =
                 IF v.stats = NoStats
                 THEN [NoStats EXCEPT !.status = v.event.status, !.version = v.event.version]
                 ELSE IF RollsBack(v.event, v.stats) THEN stats
                 ELSE [stats EXCEPT
                         !.status = IF v.event.status # v.stats.status
                                    THEN v.event.status ELSE @,
                         !.version = IF v.event.version # v.stats.version
                                     THEN v.event.version ELSE @]
    /\ UNCHANGED <<article, purging, facts, views, likes, ratings, visits>>

\* The process of a request or of a worker ends: nothing was committed.
GiveUpVisit(h) ==
    /\ visit[h] # Away
    /\ visit' = [visit EXCEPT ![h] = Away]
    /\ UNCHANGED <<article, purging, facts, heard, stats, views, likes, ratings,
                   visits, raced>>

EngagementNext ==
    \/ \E s \in ArticleStatus : MoveArticle(s)
    \/ PurgeLoads
    \/ PurgeArticle
    \/ \E h \in Visitors :
         \/ RecordView(h)
         \/ LikeContent(h)
         \/ UnlikeContent(h)
         \/ RateContent(h)
         \/ WithdrawRating(h)
         \/ ReadCounters(h)
         \/ CommitVisit(h)
         \/ ProjectReads(h)
         \/ Project(h)
         \/ GiveUpVisit(h)

EngagementSpec == EngagementInit /\ [][EngagementNext]_engagementVars

-----------------------------------------------------------------------------
StarsNow == SumFunction([f \in Fans |-> IF ratings[f].removed THEN 0 ELSE ratings[f].stars])

(* No order of commands counts more views than there are rows of views;    *)
(* and as long as no commit follows an outdated read, every counter is the *)
(* number, or the sum, of the rows it counts.                              *)
CountsMatchRows ==
    /\ stats.views <= Cardinality(views.keys) + views.plain
    /\ ~raced =>
         /\ stats.views = Cardinality(views.keys) + views.plain
         /\ stats.likes = Cardinality({f \in Fans : likes[f] = "liked"})
         /\ stats.count = Cardinality({f \in Fans : ~ratings[f].removed})
         /\ stats.sum = StarsNow

(* Whatever the order in which the events of a content arrive, and however *)
(* commands that create the row come between them, the projected status is *)
(* the content's once all have arrived, unless a commit raced another.     *)
ProjectionCatchesUp ==
    (~raced /\ stats # NoStats /\ facts = heard) => stats.status = article.status

(* The statistics agree with what they summarise: the rows they count, and *)
(* the content whose status they repeat.                                   *)
StatisticsAgree == CountsMatchRows /\ ProjectionCatchesUp

=============================================================================
