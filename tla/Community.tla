----------------------------- MODULE Community -----------------------------
(***************************************************************************)
(* The community capability: discussions, their posts, the search          *)
(* documents, and the tags of the discussions.                             *)
(*                                                                         *)
(* A command locks the discussion (and the post, if it is about one)       *)
(* before it reads anything it decides by, so it is one step; when two of  *)
(* them lock in opposite orders the database aborts one, which changes     *)
(* nothing.  What is read without a lock is read in a step of its own:     *)
(* the idempotency record of a reply, and the discussions a search rebuild *)
(* or a purge works through.                                               *)
(***************************************************************************)
EXTENDS Integers, FiniteSets, Sequences

CONSTANTS
    Discussions,        \* discussions that may come to exist
    ReplyKeys,          \* idempotency keys of replies
    Speakers,            \* commands that may be open at one time
    MaxPosts,           \* bound: posts of a discussion
    MaxCommunityCalls   \* bound: commands begun

ASSUME CommunityAssumption == /\ MaxPosts \in Nat \ {0} /\ MaxCommunityCalls \in Nat
                              /\ "none" \notin ReplyKeys      \* the key of a post that is no reply

VARIABLES
    discussion,       \* the community_discussions rows
    posts,            \* the posts of each discussion, by number
    document,         \* numbers of the posts with a search document; 0 is the title's
    saying,           \* what each open command has read
    communityCalls

communityVars == <<discussion, posts, document, saying, communityCalls>>

DiscussionStates == {"none", "pending", "published", "hidden", "archived", "purged"}
PostStates == {"pending", "published", "hidden", "deleted"}

CommunityTypeOK ==
    /\ discussion \in [Discussions -> [status : DiscussionStates, locked : BOOLEAN,
                                       last : 0..MaxPosts, replies : 0..MaxPosts]]
    /\ \A d \in Discussions : \A n \in DOMAIN posts[d] :
          posts[d][n] \in [status : PostStates, at : 0..MaxCommunityCalls,
                           key : ReplyKeys \union {"none"}]
    /\ document \in [Discussions -> SUBSET (0..MaxPosts)]
    /\ DOMAIN saying = Speakers
    /\ communityCalls \in 0..MaxCommunityCalls

CommunityInit ==
    /\ discussion = [d \in Discussions |->
          [status |-> "none", locked |-> FALSE, last |-> 0, replies |-> 0]]
    /\ posts = [d \in Discussions |-> <<>>]
    /\ document = [d \in Discussions |-> {}]
    /\ saying = [m \in Speakers |-> <<>>]
    /\ communityCalls = 0

(* communityCalls also stands for the time a command begins.               *)
Says == /\ communityCalls < MaxCommunityCalls
        /\ communityCalls' = communityCalls + 1
        /\ UNCHANGED saying

StartsSaying(m, read) ==
    /\ saying[m] = <<>> /\ communityCalls < MaxCommunityCalls
    /\ communityCalls' = communityCalls + 1
    /\ saying' = [saying EXCEPT ![m] = read]
    /\ UNCHANGED <<discussion, posts, document>>

EndsSaying(m, kind) ==
    /\ saying[m] # <<>> /\ saying[m][1] = kind
    /\ saying' = [saying EXCEPT ![m] = <<>>]
    /\ UNCHANGED communityCalls

(***************************************************************************)
(* The summary and the search documents a command leaves.                  *)
(***************************************************************************)
PublishedPosts(p) == {n \in DOMAIN p : p[n].status = "published"}

(* published_at, then the number, decides which post is the last.          *)
IsLast(p, n) == \A k \in PublishedPosts(p) :
                    p[k].at < p[n].at \/ (p[k].at = p[n].at /\ k <= n)

RecomputedSummary(row, p) ==
    [row EXCEPT
        !.replies = Cardinality(PublishedPosts(p) \ {1}),
        !.last = IF PublishedPosts(p) = {} THEN 0
                 ELSE CHOOSE n \in PublishedPosts(p) : IsLast(p, n)]

SyncedDocuments(status, p) ==
    IF status = "published" THEN {0} \union PublishedPosts(p) ELSE {}

Writes(d, row, p) ==
    /\ discussion' = [discussion EXCEPT ![d] = row]
    /\ posts' = [posts EXCEPT ![d] = p]
    /\ document' = [document EXCEPT ![d] = SyncedDocuments(row.status, p)]

(***************************************************************************)
(* Discussions.                                                            *)
(***************************************************************************)
(* A template publishes directly or asks for moderation; the first post    *)
(* has the discussion's fate.                                              *)
CreateDiscussion(d) ==
    /\ Says
    /\ discussion[d].status = "none"
    /\ \E s \in {"pending", "published"} :
          Writes(d, [discussion[d] EXCEPT !.status = s,
                                          !.last = IF s = "published" THEN 1 ELSE 0],
                 <<[status |-> s, at |-> IF s = "published" THEN communityCalls + 1 ELSE 0,
                    key |-> "none"]>>)

Exists(d) == discussion[d].status \notin {"none", "purged"}

(* A new title or body: the documents are written again.                   *)
UpdateDiscussion(d) ==
    /\ Says /\ Exists(d)
    /\ Writes(d, discussion[d], posts[d])

UpdatePost(d, n) ==
    /\ Says /\ Exists(d) /\ posts[d][n].status # "deleted"
    /\ Writes(d, discussion[d], posts[d])

StampedPost(p) == IF p.at = 0 THEN communityCalls + 1 ELSE p.at

PublishDiscussion(d) ==
    /\ Says
    /\ discussion[d].status \in {"pending", "hidden", "archived"}
    /\ posts[d][1].status \in {"pending", "published"}
    /\ LET p == IF posts[d][1].status = "published" THEN posts[d]
                ELSE [posts[d] EXCEPT ![1].status = "published",
                                      ![1].at = communityCalls + 1]
       IN Writes(d, RecomputedSummary([discussion[d] EXCEPT !.status = "published"], p), p)

RestoreDiscussion(d) ==
    /\ Says
    /\ discussion[d].status \in {"pending", "hidden", "archived"}
    /\ posts[d][1].status = "published"
    /\ Writes(d, RecomputedSummary([discussion[d] EXCEPT !.status = "published"], posts[d]),
              posts[d])

HideDiscussion(d) ==
    /\ Says
    /\ discussion[d].status \in {"pending", "published"}
    /\ Writes(d, [discussion[d] EXCEPT !.status = "hidden"], posts[d])

ArchiveDiscussion(d) ==
    /\ Says
    /\ discussion[d].status \in {"published", "hidden"}
    /\ Writes(d, [discussion[d] EXCEPT !.status = "archived"], posts[d])

(* A lock or unlock leaves the documents as they are.                      *)
LockDiscussion(d) ==
    /\ Says /\ Exists(d)
    /\ discussion' = [discussion EXCEPT ![d].locked = ~@]
    /\ UNCHANGED <<posts, document>>

(***************************************************************************)
(* Replies and posts.                                                      *)
(***************************************************************************)
KeyedIn(d, k) == {n \in DOMAIN posts[d] : posts[d][n].key = k}

Keyed(k) == UNION {{d} \X KeyedIn(d, k) : d \in Discussions}

(* The idempotency record is looked up before the discussion is locked.    *)
ReplyReads(m) ==
    \E d \in Discussions, k \in ReplyKeys :
       Keyed(k) = {} /\ StartsSaying(m, <<"reply", d, k>>)

(* (scope, key) is unique.                                                 *)
ReplyKeyIsFree(k) == Keyed(k) = {}

(* Only a moderator replies to a locked discussion.                        *)
CreateReply(m) ==
    /\ EndsSaying(m, "reply")
    /\ LET d == saying[m][2] IN
       /\ discussion[d].status = "published"
       /\ ReplyKeyIsFree(saying[m][3])
       /\ Len(posts[d]) < MaxPosts
       /\ \E s \in {"pending", "published"} :
             LET p == Append(posts[d],
                             [status |-> s,
                              at |-> IF s = "published" THEN communityCalls ELSE 0,
                              key |-> saying[m][3]])
             IN Writes(d, IF s = "published" THEN RecomputedSummary(discussion[d], p)
                                             ELSE discussion[d], p)

\* A mutant of DiscussionFollows: moderating the first post leaves its discussion.
DiscussionStands(row, n, target) == row

(* What a change of the first post does to its discussion.                 *)
DiscussionFollows(row, n, target) ==
    IF n = 1 /\ target \in {"hidden", "deleted"} /\ row.status = "published"
    THEN [row EXCEPT !.status = "hidden"]
    ELSE IF n = 1 /\ target = "published" /\ row.status = "hidden"
    THEN [row EXCEPT !.status = "published"]
    ELSE row

TransitionPost(d, n, target) ==
    /\ Says /\ Exists(d)
    /\ LET p == [posts[d] EXCEPT ![n].status = target,
                                 ![n].at = IF target = "published"
                                           THEN StampedPost(posts[d][n]) ELSE @]
       IN Writes(d, RecomputedSummary(DiscussionFollows(discussion[d], n, target), p), p)

ApprovePost(d, n) ==
    /\ posts[d][n].status \in {"pending", "hidden"}
    /\ TransitionPost(d, n, "published")

HidePost(d, n) ==
    /\ posts[d][n].status \in {"pending", "published"}
    /\ TransitionPost(d, n, "hidden")

DeletePost(d, n) ==
    /\ posts[d][n].status # "deleted"
    /\ TransitionPost(d, n, "deleted")

(***************************************************************************)
(* Site-wide maintenance, without locks.                                   *)
(***************************************************************************)
RebuildReads(m) ==
    StartsSaying(m, <<"rebuild", [d \in Discussions |-> discussion[d].status]>>)

(* The documents follow the status that was read and the posts as they are *)
(* now.                                                                    *)
RebuildCommunitySearch(m) ==
    /\ EndsSaying(m, "rebuild")
    /\ document' = [d \in Discussions |->
                       IF Exists(d) THEN SyncedDocuments(saying[m][2][d], posts[d])
                                    ELSE document[d]]
    /\ UNCHANGED <<discussion, posts>>

PurgeReads(m) ==
    StartsSaying(m, <<"purge", {d \in Discussions : discussion[d].status = "archived"}>>)

PurgeArchivedDiscussions(m) ==
    /\ EndsSaying(m, "purge")
    /\ discussion' = [d \in Discussions |->
          IF d \in saying[m][2]
          THEN [status |-> "purged", locked |-> FALSE, last |-> 0, replies |-> 0]
          ELSE discussion[d]]
    /\ posts' = [d \in Discussions |-> IF d \in saying[m][2] THEN <<>> ELSE posts[d]]
    /\ document' = [d \in Discussions |-> IF d \in saying[m][2] THEN {} ELSE document[d]]

GiveUpSaying(m) ==
    /\ saying[m] # <<>>
    /\ saying' = [saying EXCEPT ![m] = <<>>]
    /\ UNCHANGED <<discussion, posts, document, communityCalls>>

CommunityNext ==
    \/ \E d \in Discussions :
          \/ CreateDiscussion(d) \/ UpdateDiscussion(d)
          \/ PublishDiscussion(d) \/ RestoreDiscussion(d)
          \/ HideDiscussion(d) \/ ArchiveDiscussion(d) \/ LockDiscussion(d)
          \/ \E n \in DOMAIN posts[d] : \/ UpdatePost(d, n) \/ ApprovePost(d, n)
                                        \/ HidePost(d, n) \/ DeletePost(d, n)
    \/ \E m \in Speakers :
          \/ ReplyReads(m) \/ CreateReply(m)
          \/ RebuildReads(m) \/ RebuildCommunitySearch(m)
          \/ PurgeReads(m) \/ PurgeArchivedDiscussions(m)
          \/ GiveUpSaying(m)

CommunitySpec == CommunityInit /\ [][CommunityNext]_communityVars

(***************************************************************************)
(* Properties.                                                             *)
(***************************************************************************)
(* A published discussion has a published first post, its reply count and  *)
(* last post are those of its published posts, and no two posts came from  *)
(* one request: the counters hold through moderation of any post in any    *)
(* state of the discussion, not only through replies.                      *)
SummaryAddsUp ==
    /\ \A d \in Discussions :
          LET shown == PublishedPosts(posts[d]) IN
          discussion[d].status = "published" =>
             /\ 1 \in shown
             /\ discussion[d].replies = Cardinality(shown) - 1
             /\ discussion[d].last \in shown /\ IsLast(posts[d], discussion[d].last)
    /\ \A k \in ReplyKeys : Cardinality(Keyed(k)) <= 1
-----------------------------------------------------------------------------
(***************************************************************************)
(* The tags of the capability and their assignment to the discussions.  A  *)
(* command locks the tag it changes, or the discussion it assigns tags to, *)
(* but reads the parent, the tags it assigns and the tags it reorders      *)
(* without a lock.  Tags and posts share no state.                         *)
(***************************************************************************)
CONSTANTS
    Tags,           \* tags that may come to exist
    Topics,         \* discussions tags are assigned to
    Curators,       \* commands that may be open at one time
    MaxSecondary,   \* secondary tags a discussion may have
    MaxTagCalls     \* bound: commands begun

ASSUME CommunityTagsAssumption == MaxSecondary \in Nat /\ MaxTagCalls \in Nat

VARIABLES
    tag,        \* the community_tags rows
    assigned,   \* the tag rows of each discussion: position and tag
    curator,    \* what each open command has read
    tagCalls

communityTagsVars == <<tag, assigned, curator, tagCalls>>

NoParent == "none"

CommunityTagsTypeOK ==
    /\ tag \in [Tags -> [status : {"none", "active", "archived"},
                         kind : {"primary", "secondary"},
                         parent : Tags \union {NoParent}, position : Nat]]
    /\ assigned \in [Topics -> SUBSET ((1..(1 + MaxSecondary)) \X Tags)]
    /\ DOMAIN curator = Curators
    /\ tagCalls \in 0..MaxTagCalls

CommunityTagsInit ==
    /\ tag = [t \in Tags |-> [status |-> "none", kind |-> "primary",
                              parent |-> NoParent, position |-> 0]]
    /\ assigned = [d \in Topics |-> {}]
    /\ curator = [c \in Curators |-> <<>>]
    /\ tagCalls = 0

Curates(c, read) ==
    /\ curator[c] = <<>> /\ tagCalls < MaxTagCalls
    /\ tagCalls' = tagCalls + 1
    /\ curator' = [curator EXCEPT ![c] = read]
    /\ UNCHANGED <<tag, assigned>>

EndsCurating(c, kind) ==
    /\ curator[c] # <<>> /\ curator[c][1] = kind
    /\ curator' = [curator EXCEPT ![c] = <<>>]
    /\ UNCHANGED tagCalls

(* The lock of a tag is held from the read to the end of the command.      *)
Locked(t) == \E c \in Curators : curator[c] # <<>> /\ curator[c][1] = "update"
                                 /\ curator[c][2] = t

(* An active root of the primary kind.                                     *)
MayBeParent(p) == /\ tag[p].status = "active" /\ tag[p].kind = "primary"
                  /\ tag[p].parent = NoParent

ValidParent(kind, t, p) ==
    p \in {NoParent} \union {q \in Tags \ {t} : kind = "primary" /\ MayBeParent(q)}

CreateTagReads(c) ==
    \E t \in Tags, kind \in {"primary", "secondary"}, p \in Tags \union {NoParent} :
       /\ tag[t].status = "none" /\ ValidParent(kind, t, p)
       /\ Curates(c, <<"create", t, kind, p>>)

(* The slug is unique.                                                     *)
CreateTag(c) ==
    /\ EndsCurating(c, "create")
    /\ LET t == curator[c][2] IN
       /\ tag[t].status = "none"
       /\ tag' = [tag EXCEPT ![t] = [status |-> "active", kind |-> curator[c][3],
                                     parent |-> curator[c][4], position |-> 0]]
    /\ UNCHANGED assigned

UpdateTagReads(c) ==
    \E t \in Tags, p \in Tags \union {NoParent} :
       /\ tag[t].status # "none" /\ ~Locked(t)
       /\ p # tag[t].parent /\ ValidParent(tag[t].kind, t, p)
       /\ Curates(c, <<"update", t, p>>)

UpdateTag(c) ==
    /\ EndsCurating(c, "update")
    /\ tag' = [tag EXCEPT ![curator[c][2]].parent = curator[c][3]]
    /\ UNCHANGED assigned

OneTagCall == /\ tagCalls < MaxTagCalls /\ tagCalls' = tagCalls + 1
              /\ UNCHANGED <<assigned, curator>>

ArchiveTag(t) ==
    /\ OneTagCall
    /\ tag[t].status = "active" /\ ~Locked(t)
    /\ tag' = [tag EXCEPT ![t].status = "archived"]

RestoreTag(t) ==
    /\ OneTagCall
    /\ tag[t].status = "archived" /\ ~Locked(t)
    /\ tag' = [tag EXCEPT ![t].status = "active"]

(* Two or more tags of one group; only the positions are written.          *)
ReorderReads(c) ==
    \E s, t \in Tags :
       /\ s # t /\ tag[s].status = "active" /\ tag[t].status = "active"
       /\ tag[s].kind = tag[t].kind /\ tag[s].parent = tag[t].parent
       /\ Curates(c, <<"reorder", s, t>>)

ReorderTags(c) ==
    /\ EndsCurating(c, "reorder")
    /\ tag' = [tag EXCEPT ![curator[c][2]].position = 0, ![curator[c][3]].position = 1]
    /\ UNCHANGED assigned

(* The template asks for one primary tag and at most MaxSecondary others.  *)
LoadTags(ts) ==
    /\ \A i, j \in DOMAIN ts : ts[i] = ts[j] => i = j
    /\ \A i \in DOMAIN ts : tag[ts[i]].status = "active"
    /\ Cardinality({i \in DOMAIN ts : tag[ts[i]].kind = "primary"}) = 1
    /\ Cardinality({i \in DOMAIN ts : tag[ts[i]].kind = "secondary"}) <= MaxSecondary

TopicLocked(d) == \E c \in Curators : curator[c] # <<>> /\ curator[c][1] = "replace"
                                      /\ curator[c][2] = d

RowsOf(ts) == {<<i, ts[i]>> : i \in DOMAIN ts}

(* The rows to delete are those found after the lock is taken.             *)
ReplaceReads(c) ==
    \E d \in Topics, n \in 1..(1 + MaxSecondary) : \E ts \in [1..n -> Tags] :
       /\ ~TopicLocked(d) /\ LoadTags(ts)
       /\ Curates(c, <<"replace", d, ts, assigned[d]>>)

(* A tag is in one row of a discussion.                                    *)
ReplaceDiscussionTags(c) ==
    /\ EndsCurating(c, "replace")
    /\ LET d == curator[c][2]
           rest == assigned[d] \ curator[c][4]
           new == RowsOf(curator[c][3])
       IN assigned' = IF \E r \in rest, n \in new : r[2] = n[2] THEN assigned
                      ELSE [assigned EXCEPT ![d] = rest \union new]
    /\ UNCHANGED tag

CommunityTagsNext ==
    \/ \E t \in Tags : ArchiveTag(t) \/ RestoreTag(t)
    \/ \E c \in Curators :
          \/ CreateTagReads(c) \/ CreateTag(c)
          \/ UpdateTagReads(c) \/ UpdateTag(c)
          \/ ReorderReads(c) \/ ReorderTags(c)
          \/ ReplaceReads(c) \/ ReplaceDiscussionTags(c)

CommunityTagsSpec == CommunityTagsInit /\ [][CommunityTagsNext]_communityTagsVars

(***************************************************************************)
(* What the tags of a discussion keep.                                     *)
(***************************************************************************)
(* Whatever replacements of a discussion's tags overlap, and whatever      *)
(* becomes of the tags meanwhile, the rows it is left with are those of    *)
(* one list: one primary tag, the secondary ones within the template's     *)
(* limit, and no two rows in one position.                                 *)
AssignedFitTemplate ==
    \A d \in Topics :
       LET ofKind(k) == {r \in assigned[d] : tag[r[2]].kind = k} IN
       assigned[d] # {} =>
          /\ Cardinality(ofKind("primary")) = 1
          /\ Cardinality(ofKind("secondary")) <= MaxSecondary
          /\ \A q, r \in assigned[d] : q[1] = r[1] => q = r
=============================================================================
