------------------------------- MODULE Archive -------------------------------
(***************************************************************************)
(* The archive capability: one archive item, the download grants bought    *)
(* for it, the attempts to deliver it and the links handed out.            *)
(*                                                                         *)
(* A provider is asked between two transactions of a command, so anything  *)
(* may commit meanwhile.  A command on a grant reads and commits in one    *)
(* transaction, and its write does not look at the row again.  The         *)
(* transactions that edit the item are taken one at a time.                *)
(***************************************************************************)
EXTENDS Naturals, Sequences

CONSTANTS
    Locators,         \* provider references
    Sums,             \* checksums of files
    FileSum,          \* external: the checksum of the file behind a locator
    Purchases,        \* consumption keys
    Desks,            \* requests in progress at one time
    GrantTtl,         \* time a grant lasts
    MaxArchiveTime,   \* bound: the clock
    MaxArchiveCalls,  \* bound: commands on the item
    MaxResolves       \* bound: resolutions begun

ASSUME ArchiveAssumption ==
    /\ FileSum \in [Locators -> Sums]
    /\ GrantTtl \in Nat \ {0}
    /\ MaxArchiveTime \in Nat /\ MaxArchiveCalls \in Nat /\ MaxResolves \in Nat

VARIABLES
    item,      \* the archive_items row
    bought,    \* purchase -> archive_download_grants row; `file` is what the
               \* item named when the row was made
    attempts,  \* purchase -> archive_delivery_attempts rows, by number
    links,     \* links handed out: the purchase and the locator asked for
    desk,      \* what each request is in the middle of
    archiveTime, archiveCalls, resolves

archiveVars == <<item, bought, attempts, links, desk, archiveTime, archiveCalls, resolves>>

NoItem == [state |-> "none", version |-> 0]
NoGrant == [status |-> "none"]
ItemStates == {"pending", "active", "unavailable", "retired"}

ArchiveTypeOK ==
    /\ item = NoItem \/ item \in [state : ItemStates, version : Nat \ {0},
                                  locator : Locators, sum : Sums, verified : BOOLEAN]
    /\ \A k \in Purchases :
         bought[k] = NoGrant
           \/ bought[k] \in [status : {"pending", "active", "expired", "revoked"},
                             version : Nat, file : Locators, until : Nat]
    /\ \A k \in Purchases : \A n \in DOMAIN attempts[k] :
         attempts[k][n] \in [status : {"delivered", "proxy_required", "unknown", "failed"},
                           ref : BOOLEAN]
    /\ links \subseteq Purchases \X Locators
    /\ DOMAIN desk = Desks

ArchiveInit ==
    /\ item = NoItem
    /\ bought = [k \in Purchases |-> NoGrant]
    /\ attempts = [k \in Purchases |-> <<>>]
    /\ links = {}
    /\ desk = [d \in Desks |-> <<"idle">>]
    /\ archiveTime = 0 /\ archiveCalls = 0 /\ resolves = 0

DeskIdle(d) == desk[d] = <<"idle">>
DeskIn(d, what) == desk[d][1] = what
Sets(d, what) == desk' = [desk EXCEPT ![d] = what]
grantVars == <<bought, attempts, links, resolves>>

ArchiveCall == archiveCalls < MaxArchiveCalls /\ archiveCalls' = archiveCalls + 1

(* A client may state the version it edits; 0 is none stated.              *)
Agrees(expected) == expected \in {0, item.version}

Edited(row) == item' = [row EXCEPT !.version = item.version + 1]

(***************************************************************************)
(* The providers.  An exchange over HTTP ends in an answer or a failure,   *)
(* and an answer describes a file, a folder or nothing that can be used.   *)
(***************************************************************************)
Exchanges == {"timeout", "dependency", "protocol", "rate_limited", "forbidden",
              "not_found", "rejected", "ok"}

Bodies == {"none", "folder", "nameless", "secret", "unsafe", "safe"}

SuccessfulJson(exchange) == exchange = "ok"

FailureCode(exchange) ==
    IF exchange \in {"timeout", "rate_limited", "forbidden", "not_found"}
    THEN exchange ELSE "provider_unavailable"

(* The facts of a file, or the reason there are none.                      *)
OpenListStat(exchange, body) ==
    CASE ~SuccessfulJson(exchange) -> FailureCode(exchange)
      [] body = "folder" -> "not_file"
      [] body \in {"none", "nameless"} -> "provider_unavailable"
      [] OTHER -> "facts"

GofileStat(exchange, body) ==
    CASE ~SuccessfulJson(exchange) -> FailureCode(exchange)
      [] body \in {"none", "folder"} -> "not_file"
      [] body = "nameless" -> "provider_unavailable"
      [] OTHER -> "facts"

StatAnswers == {OpenListStat(x, b) : x \in Exchanges, b \in Bodies}
             \union {GofileStat(x, b) : x \in Exchanges, b \in Bodies}

(* A link is handed out only if it carries no secret; what needs headers   *)
(* needs a proxy.  The body may hold a reference or not.                   *)
OpenListDelivery(exchange, body, ref) ==
    CASE ~SuccessfulJson(exchange) \/ body = "none" -> [status |-> "unavailable", ref |-> FALSE]
      [] body = "secret" -> [status |-> "proxy_required", ref |-> ref]
      [] body = "safe" -> [status |-> "redirect", ref |-> ref]
      [] OTHER -> [status |-> "unavailable", ref |-> ref]

GofileDelivery(exchange, body, ref, direct) ==
    CASE ~SuccessfulJson(exchange) \/ body \in {"none", "folder"} ->
            [status |-> "unavailable", ref |-> FALSE]
      [] body = "safe" /\ direct -> [status |-> "redirect", ref |-> ref]
      [] OTHER -> [status |-> "proxy_required", ref |-> ref]

(***************************************************************************)
(* Commands on the item.                                                   *)
(***************************************************************************)
RegisterArchiveItem(l, s) ==
    /\ ArchiveCall
    /\ item = NoItem
    /\ item' = [state |-> "pending", version |-> 1, locator |-> l, sum |-> s,
                verified |-> FALSE]
    /\ UNCHANGED <<grantVars, desk, archiveTime>>

UpdateArchiveItem(s) ==
    /\ ArchiveCall
    /\ item.state \in {"pending", "unavailable"}
    /\ Edited([item EXCEPT !.sum = s, !.state = "pending", !.verified = FALSE])
    /\ UNCHANGED <<grantVars, desk, archiveTime>>

ActivateArchiveItem ==
    /\ ArchiveCall
    /\ item.state = "pending" /\ item.verified
    /\ Edited([item EXCEPT !.state = "active"])
    /\ UNCHANGED <<grantVars, desk, archiveTime>>

MarkArchiveItemUnavailable ==
    /\ ArchiveCall
    /\ item.state \in {"pending", "active"}
    /\ Edited([item EXCEPT !.state = "unavailable"])
    /\ UNCHANGED <<grantVars, desk, archiveTime>>

RetireArchiveItem ==
    /\ ArchiveCall
    /\ item.state \in ItemStates \ {"retired"}
    /\ Edited([item EXCEPT !.state = "retired"])
    /\ UNCHANGED <<grantVars, desk, archiveTime>>

VerifyReads(d, expected) ==
    /\ ArchiveCall
    /\ DeskIdle(d)
    /\ item.state \in ItemStates \ {"retired"} /\ Agrees(expected)
    /\ Sets(d, <<"verifying", item.locator, expected>>)
    /\ UNCHANGED <<item, grantVars, archiveTime>>

Transient == {"timeout", "rate_limited", "provider_unavailable"}

(* The facts are those of the locator that was read; they are held against *)
(* the row of now.  A failure that may pass is no evidence.                *)
VerifyArchiveItem(d, answer) ==
    /\ DeskIn(d, "verifying")
    /\ item.state # "retired" /\ Agrees(desk[d][3])
    /\ CASE answer \in Transient -> item' = item
         [] answer # "facts" \/ FileSum[desk[d][2]] # item.sum ->
              Edited([item EXCEPT !.state = "unavailable"])
         [] OTHER ->
              Edited([item EXCEPT !.verified = TRUE,
                                  !.state = IF @ = "unavailable" THEN "pending" ELSE @])
    /\ Sets(d, <<"idle">>)
    /\ UNCHANGED <<grantVars, archiveTime, archiveCalls>>

MigrateReads(d, l, expected) ==
    /\ ArchiveCall
    /\ DeskIdle(d)
    /\ item.state \in ItemStates \ {"retired"} /\ Agrees(expected)
    /\ Sets(d, <<"migrating", l, item.sum, expected>>)
    /\ UNCHANGED <<item, grantVars, archiveTime>>

(* The new file was held against the checksum read before, and that        *)
(* checksum is written back; the state is not looked at again.             *)
MigrateArchiveItemProvider(d) ==
    /\ DeskIn(d, "migrating")
    /\ LET l == desk[d][2]
           sum == desk[d][3]
       IN /\ FileSum[l] = sum /\ Agrees(desk[d][4])
          /\ Edited([item EXCEPT !.locator = l, !.sum = sum, !.verified = TRUE,
                                 !.state = "pending"])
    /\ Sets(d, <<"idle">>)
    /\ UNCHANGED <<grantVars, archiveTime, archiveCalls>>

(***************************************************************************)
(* Grants.  The digest of the consumption key is unique.                   *)
(***************************************************************************)
IssueReads(d, k) ==
    /\ DeskIdle(d)
    /\ bought[k] = NoGrant /\ item.state = "active"
    /\ Sets(d, <<"issuing", k, item.version, item.locator>>)
    /\ UNCHANGED <<item, grantVars, archiveTime, archiveCalls>>

(* A row of the same key committed meanwhile is returned instead.          *)
IssueDownloadGrant(d) ==
    /\ DeskIn(d, "issuing")
    /\ LET k == desk[d][2]
           row == [status |-> "pending", version |-> desk[d][3], file |-> desk[d][4],
                   until |-> archiveTime + GrantTtl]
       IN bought' = IF bought[k] = NoGrant THEN [bought EXCEPT ![k] = row] ELSE bought
    /\ Sets(d, <<"idle">>)
    /\ UNCHANGED <<item, attempts, links, resolves, archiveTime, archiveCalls>>

(* The statuses from which a command goes on, and the one it writes.       *)
GrantFrom == [active |-> {"pending"}, revoked |-> {"pending", "active"},
              expired |-> {"pending", "active"}]

GrantReads(d, k, to) ==
    /\ DeskIdle(d)
    /\ bought[k].status \in GrantFrom[to]
    /\ to = "expired" => bought[k].until <= archiveTime
    /\ LET written == IF to = "active" /\ bought[k].until <= archiveTime
                      THEN "expired" ELSE to
       IN Sets(d, <<"deciding", k, written>>)
    /\ UNCHANGED <<item, grantVars, archiveTime, archiveCalls>>

GrantWritten(d) ==
    /\ DeskIn(d, "deciding")
    /\ bought' = [bought EXCEPT ![desk[d][2]].status = desk[d][3]]
    /\ Sets(d, <<"idle">>)
    /\ UNCHANGED <<item, attempts, links, resolves, archiveTime, archiveCalls>>

(***************************************************************************)
(* ResolveDownloadLinks: a transaction, the provider, a transaction.       *)
(***************************************************************************)
Deliverable(k) == bought[k].status = "active" /\ bought[k].until > archiveTime
ActiveIsEnough(k) == item.state = "active"
AsGranted(k) == item.version = bought[k].version /\ item.state = "active"

(* The latest attempt, if it left a reference to refresh.                  *)
Refreshable(k) ==
    LET n == Len(attempts[k]) IN IF n > 0 /\ attempts[k][n].ref THEN n ELSE 0

ResolvePrepares(d, k) ==
    /\ resolves < MaxResolves /\ resolves' = resolves + 1
    /\ DeskIdle(d)
    /\ bought[k] # NoGrant /\ Deliverable(k) /\ AsGranted(k)
    /\ Sets(d, <<"asking", k, item.locator, Refreshable(k)>>)
    /\ UNCHANGED <<item, bought, attempts, links, archiveTime, archiveCalls>>

(* What the provider's answer is recorded as; an error it does not tell    *)
(* is unknown.                                                             *)
AttemptStatus(status) ==
    CASE status = "redirect" -> "delivered"
      [] status \in {"proxy_required", "unknown"} -> status
      [] OTHER -> "failed"

Deliveries ==
    {[a EXCEPT !.status = AttemptStatus(@)] :
        a \in {OpenListDelivery(x, b, ref) : x \in Exchanges, b \in Bodies, ref \in BOOLEAN}
              \union {GofileDelivery(x, b, ref, direct) :
                         x \in Exchanges, b \in Bodies, ref \in BOOLEAN, direct \in BOOLEAN}
              \union {[status |-> "unknown", ref |-> FALSE]}}

ResolveRechecks(d) ==
    /\ DeskIn(d, "asking")
    /\ LET k == desk[d][2]
           number == IF desk[d][4] > 0 THEN desk[d][4] ELSE Len(attempts[k]) + 1
       IN /\ Deliverable(k) /\ AsGranted(k)
          /\ Sets(d, <<"recording", k, desk[d][3], desk[d][4] > 0, number>>)
    /\ UNCHANGED <<item, grantVars, archiveTime, archiveCalls>>

(* A new row whose number was taken meanwhile undoes the transaction.  The *)
(* provider's answer, which no check depends on, is chosen here.           *)
ResolveRecords(d, delivery) ==
    /\ DeskIn(d, "recording")
    /\ LET k == desk[d][2]
           again == desk[d][4]
           number == desk[d][5]
       IN /\ ~again => number = Len(attempts[k]) + 1
          /\ attempts' = [attempts EXCEPT ![k] =
                            IF again THEN [@ EXCEPT ![number] = delivery]
                            ELSE Append(@, delivery)]
          /\ links' = IF delivery.status = "delivered"
                      THEN links \union {<<k, desk[d][3]>>} ELSE links
    /\ Sets(d, <<"idle">>)
    /\ UNCHANGED <<item, bought, archiveTime, archiveCalls, resolves>>

(* A check of the second transaction refuses, or the request is lost.      *)
ArchiveGivesUp(d) ==
    /\ ~DeskIdle(d)
    /\ Sets(d, <<"idle">>)
    /\ UNCHANGED <<item, grantVars, archiveTime, archiveCalls>>

ArchiveTimePasses ==
    /\ archiveTime < MaxArchiveTime /\ archiveTime' = archiveTime + 1
    /\ UNCHANGED <<item, grantVars, desk, archiveCalls>>

ArchiveNext ==
    \/ \E l \in Locators, s \in Sums : RegisterArchiveItem(l, s)
    \/ \E s \in Sums : UpdateArchiveItem(s)
    \/ ActivateArchiveItem
    \/ MarkArchiveItemUnavailable
    \/ RetireArchiveItem
    \/ \E d \in Desks, l \in Locators, expected \in {0, item.version} :
         VerifyReads(d, expected) \/ MigrateReads(d, l, expected)
    \/ \E d \in Desks, answer \in StatAnswers : VerifyArchiveItem(d, answer)
    \/ \E d \in Desks : MigrateArchiveItemProvider(d)
    \/ \E d \in Desks, k \in Purchases, to \in DOMAIN GrantFrom :
         IssueReads(d, k) \/ GrantReads(d, k, to) \/ ResolvePrepares(d, k)
    \/ \E d \in Desks : IssueDownloadGrant(d) \/ GrantWritten(d)
    \/ \E d \in Desks, delivery \in Deliveries : ResolveRecords(d, delivery)
    \/ \E d \in Desks : ResolveRechecks(d) \/ ArchiveGivesUp(d)
    \/ ArchiveTimePasses

ArchiveSpec == ArchiveInit /\ [][ArchiveNext]_archiveVars

(* A link handed out is for the file the item named when the purchase was  *)
(* granted, whatever was migrated, verified or activated while the         *)
(* provider was asked (ResolveDownloadLinks, commands.py and               *)
(* activities.py of the capability).                                       *)
DeliveredAsGranted == \A l \in links : bought[l[1]].file = l[2]
=============================================================================
