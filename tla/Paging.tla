-------------------------------- MODULE Paging --------------------------------
(***************************************************************************)
(* The pages of a listing.  Every list query of the capabilities counts    *)
(* its rows and then reads those of one page by their position, in two     *)
(* statements that may see different commits; the reader asks for the next *)
(* page as long as the total promises one, each in a request of its own.   *)
(***************************************************************************)
EXTENDS Naturals, Sequences, SequencesExt

CONSTANTS
    PageSize,    \* rows of a page
    MaxFirst,    \* bound: rows there are to begin with
    MaxRows      \* bound: rows there are at one time

ASSUME PagingAssumption == PageSize \in Nat \ {0} /\ MaxRows \in Nat /\ MaxFirst \in 0 .. MaxRows

VARIABLES
    listing,   \* what may happen to the rows of the query that is read
    listed,    \* its rows in their order: "owed" to the reader, who began when
               \* it was there and has not seen it, or not
    walk       \* the reader turning the pages

pagingVars == <<listing, listed, walk>>

(* The queries: the table, the columns the rows are filtered by, and the   *)
(* orders a reader may ask for.  An order ends in a unique column, left    *)
(* out here, and none is the order of the commits.                         *)
ListLedger == [from |-> "points_ledger_entries", where |-> {"account_id"},
               orders |-> {{"created_at"}}]
ListAudit == [from |-> "audit_entries",
              where |-> {"action", "actor_type", "actor_id", "outcome", "occurred_at"},
              orders |-> {{"occurred_at"}}]
ListExecutions == [from |-> "execution_entries",
                   where |-> {"kind", "key", "status", "occurred_at"},
                   orders |-> {{"occurred_at"}}]
ListUsers == [from |-> "identity_users", where |-> {"status"},
              orders |-> {{"username_normalized"}}]
ListDiscussions == [from |-> "community_discussions",
                    where |-> {"status", "template_key", "tags", "document"},
                    orders |-> {{"last_posted_at"}, {"reply_count", "last_posted_at"},
                                {"created_at"}, {"document", "last_posted_at"}}]
ListPosts == [from |-> "community_posts",
              where |-> {"discussion_id", "discussion.status", "status"},
              orders |-> {{"number"}}]
ListAdminDiscussions == [from |-> "community_discussions",
                         where |-> {"template_key", "status", "author_id"},
                         orders |-> {{"updated_at"}}]
ListAdminPosts == [from |-> "community_posts", where |-> {"discussion_id", "status"},
                   orders |-> {{"created_at"}}]
ListContents == [from |-> "contents", where |-> {"status", "type_name", "owner_id"},
                 orders |-> {{"is_pinned", "pin_rank", "published_at"}, {"title"},
                             {"slug"}, {"created_at"}, {"updated_at"}}]
ListContentIds == [from |-> "engagement_content_stats",
                   where |-> {"content_status", "type_name"},
                   orders |-> {{"view_count", "published_at"}, {"like_count", "published_at"},
                               {"rating_average", "published_at"}}]
ListStats == [from |-> "engagement_content_stats", where |-> {},
              orders |-> {{"view_count", "published_at"}, {"like_count", "published_at"},
                          {"rating_average", "published_at"}, {"published_at"}}]
ListBatches == [from |-> "gift_card_batches", where |-> {"platform_key", "product_key", "status"},
                orders |-> {{"created_at"}}]
ListCards == [from |-> "gift_cards", where |-> {"batch_id"}, orders |-> {{"created_at"}}]
ListSubscriptions == [from |-> "membership_subscriptions",
                      where |-> {"subject_id", "level_key", "status"},
                      orders |-> {{"created_at"}}]
ListCycles == [from |-> "membership_cycles",
               where |-> {"subscription_id", "state", "source_type", "source_ref"},
               orders |-> {{"created_at"}}]
ListItems == [from |-> "archive_items", where |-> {"state", "provider_key", "item_key"},
              orders |-> {{"part_number"}}]
ListGrants == [from |-> "archive_download_grants", where |-> {"subject_id", "status"},
               orders |-> {{"created_at"}}]
ListAdminGrants == [from |-> "archive_download_grants", where |-> {"status", "subject_id"},
                    orders |-> {{"created_at"}}]
ListDeliveries == [from |-> "notification_deliveries",
                   where |-> {"status", "channel", "provider_key", "spec_key", "recipient_id"},
                   orders |-> {{"created_at"}}]
ListOrders == [from |-> "payment_orders", where |-> {"state", "provider_key", "subject_id"},
               orders |-> {{"created_at"}}]
ListAccounts == [from |-> "points_accounts", where |-> {"program_key", "state"},
                 orders |-> {{"created_at"}}]
ListComments == [from |-> "comments", where |-> {"target_id", "status"},
                 orders |-> {{"submitted_at"}}]
ListAdminComments == [from |-> "comments", where |-> {"status", "target_id", "author_id"},
                      orders |-> {{"submitted_at"}}]
ListAssets == [from |-> "assets_objects",
               where |-> {"state", "provider_key", "bucket", "object_key"},
               orders |-> {{"created_at"}}]

Queries == {ListLedger, ListAudit, ListExecutions, ListUsers, ListDiscussions, ListPosts,
            ListAdminDiscussions, ListAdminPosts, ListContents, ListContentIds, ListStats,
            ListBatches, ListCards, ListSubscriptions, ListCycles, ListItems, ListGrants,
            ListAdminGrants, ListDeliveries, ListOrders, ListAccounts, ListComments,
            ListAdminComments, ListAssets}

(* The columns some command assigns after the row is made.                 *)
Assigned == {"status", "discussion.status", "content_status", "state", "tags", "document",
             "level_key", "last_posted_at", "reply_count", "updated_at", "is_pinned",
             "pin_rank", "published_at", "title", "slug", "view_count", "like_count",
             "rating_average"}

(* The tables whose rows a purge or a retention deletes.                   *)
Deleted == {"audit_entries", "execution_entries", "community_discussions",
            "community_posts", "contents", "notification_deliveries"}

(* What may happen to the rows of a query while its pages are turned: all  *)
(* the cards of a batch are made with it; a row goes when it is deleted or *)
(* no longer passes the filter, and moves with a column of the order.      *)
MayCome(q) == q.from # "gift_cards"
MayGo(q) == q.from \in Deleted \/ q.where \intersect Assigned # {}
MayMove(order) == order \intersect Assigned # {}

Happens(q, order) == {e \in {"comes", "goes", "moves"} :
                         \/ e = "comes" /\ MayCome(q)
                         \/ e = "goes" /\ MayGo(q)
                         \/ e = "moves" /\ MayMove(order)}

Listings == UNION {{Happens(q, order) : order \in q.orders} : q \in Queries}

Phases == {"turning", "counted", "done"}

PagingTypeOK ==
    /\ listing \in Listings
    /\ listed \in Seq({"owed", "other"}) /\ Len(listed) <= MaxRows
    /\ walk \in [phase : Phases, page : Nat \ {0}, total : 0 .. MaxRows,
                 shifted : BOOLEAN, late : BOOLEAN]

(* `shifted`: a row left the pages already turned, or moved into or out of *)
(* them.  `late`: one came after the last count.                           *)
PagingInit ==
    /\ listing \in Listings
    /\ \E n \in 0 .. MaxFirst : listed = [i \in 1 .. n |-> "owed"]
    /\ walk = [phase |-> "turning", page |-> 1, total |-> 0, shifted |-> FALSE, late |-> FALSE]

OffsetOfNext == walk.page * PageSize  \* mutant of Offset: pages counted from zero

Offset == (walk.page - 1) * PageSize

(* fetch_page: the count, and then the rows of the page.                   *)
FetchCount ==
    /\ walk.phase = "turning"
    /\ walk' = [walk EXCEPT !.phase = "counted", !.total = Len(listed), !.late = FALSE]
    /\ UNCHANGED <<listing, listed>>

HasNext == walk.page * PageSize < walk.total

FetchRows ==
    /\ walk.phase = "counted"
    /\ listed' = [i \in DOMAIN listed |->
                    IF Offset < i /\ i <= Offset + PageSize THEN "other" ELSE listed[i]]
    /\ walk' = IF HasNext THEN [walk EXCEPT !.phase = "turning", !.page = @ + 1]
                          ELSE [walk EXCEPT !.phase = "done"]
    /\ UNCHANGED listing

(* The rows of the pages already turned.                                   *)
Turned == (walk.page - 1) * PageSize

RowComes ==
    /\ "comes" \in listing
    /\ Len(listed) < MaxRows
    /\ \E i \in 1 .. Len(listed) + 1 : listed' = InsertAt(listed, i, "other")
    /\ walk' = [walk EXCEPT !.late = walk.phase = "counted"]
    /\ UNCHANGED listing

RowGoes ==
    /\ "goes" \in listing
    /\ \E i \in DOMAIN listed :
         /\ listed' = RemoveAt(listed, i)
         /\ walk' = [walk EXCEPT !.shifted = @ \/ i <= Turned]
    /\ UNCHANGED listing

RowMoves ==
    /\ "moves" \in listing
    /\ \E i, j \in DOMAIN listed :
         /\ i # j
         /\ listed' = InsertAt(RemoveAt(listed, i), j, listed[i])
         /\ walk' = [walk EXCEPT !.shifted = @ \/ (i <= Turned) # (j <= Turned)]
    /\ UNCHANGED listing

PagingNext ==
    walk.phase # "done" /\ (FetchCount \/ FetchRows \/ RowComes \/ RowGoes \/ RowMoves)

PagingSpec == PagingInit /\ [][PagingNext]_pagingVars

(* Whoever turns the pages to the last one sees every row that was there   *)
(* all the while, however many came in between, unless rows left or        *)
(* crossed the pages he had turned or one came between the last count and  *)
(* its rows (fetch_page, page.py).                                         *)
NothingMissed ==
    walk.phase = "done" /\ ~walk.shifted /\ ~walk.late => \A i \in DOMAIN listed : listed[i] # "owed"
=============================================================================
