----------------------------- MODULE Publishing -----------------------------
(***************************************************************************)
(* The content capability: the rows of contents and content_references,    *)
(* the commands of its editors, and the scheduled publication - the        *)
(* scanner that leases due rows and starts a workflow for each, keyed by   *)
(* content id and schedule version, and the activity of that workflow.     *)
(*                                                                         *)
(* A command reads the row, validates, then updates it under a condition:  *)
(* most compare the status, an update of the text and a replacement of     *)
(* references compare the version.  What it assigns comes from its read.   *)
(***************************************************************************)
EXTENDS Integers, FiniteSets, FiniteSetsExt

CONSTANTS
    Contents,      \* ids that CreateContent may assign
    Editors,       \* requests that may be open at one time
    Rights,        \* Rights[e]: the permission keys of the editor's role
    MaxSchedules,  \* bound: the schedule version
    MaxEdits,      \* bound: committed commands
    MaxScanCrashes \* bound: crashes of the scanner

Permissions == {"write", "schedule", "publish", "archive", "pin", "purge"}

ASSUME PublishingAssumption ==
    /\ Rights \in [Editors -> SUBSET Permissions]
    /\ {MaxSchedules, MaxEdits, MaxScanCrashes} \subseteq Nat

VARIABLES
    content,      \* the rows
    refs,         \* content_references, as <<source, target>>
    editing,      \* <<id, row>> as each open command read it
    scanned,      \* <<id, schedule version>> the scanner has yet to start
    flow,         \* the publish workflow of each id and schedule version
    edits, scanCrashes

publishingVars == <<content, refs, editing, scanned, flow, edits, scanCrashes>>

ContentStates == {"draft", "pending", "rejected", "scheduled", "published", "archived"}
Versions == 0..MaxSchedules

(* publish_at is absent, in the future or past; leased is an unexpired     *)
(* lease; version counts the committed changes.                            *)
ContentRows == [status : {"absent", "purged"} \union ContentStates,
                schedule : Versions,
                publishAt : {"none", "later", "due"},
                leased : BOOLEAN,
                version : 0..(2 * MaxEdits + 1)]

NoContent == [status |-> "absent", schedule |-> 0, publishAt |-> "none",
              leased |-> FALSE, version |-> 0]
Closed == <<>>

PublishingTypeOK ==
    /\ content \in [Contents -> ContentRows]
    /\ refs \subseteq Contents \X Contents
    /\ editing \in [Editors -> {Closed} \union (Contents \X ContentRows)]
    /\ scanned \subseteq Contents \X Versions
    /\ flow \in [Contents \X Versions -> {"absent", "pending", "skipped", "published", "failed"}]
    /\ edits \in 0..MaxEdits
    /\ scanCrashes \in 0..MaxScanCrashes

PublishingInit ==
    /\ content = [c \in Contents |-> NoContent]
    /\ refs = {}
    /\ editing = [e \in Editors |-> Closed]
    /\ scanned = {}
    /\ flow = [f \in Contents \X Versions |-> "absent"]
    /\ edits = 0
    /\ scanCrashes = 0

Exists(c) == content[c].status \in ContentStates

Transitions == {
    <<"draft", "pending">>, <<"draft", "scheduled">>, <<"draft", "published">>,
    <<"pending", "draft">>, <<"pending", "rejected">>, <<"pending", "scheduled">>,
    <<"pending", "published">>, <<"rejected", "draft">>, <<"scheduled", "draft">>,
    <<"scheduled", "published">>, <<"published", "archived">>, <<"archived", "draft">>}

-----------------------------------------------------------------------------
CreateContent(e) ==
    /\ editing[e] = Closed /\ "write" \in Rights[e]
    /\ edits < MaxEdits
    /\ edits' = edits + 1
    /\ \E c \in Contents :
          /\ content[c].status = "absent"
          /\ content' = [content EXCEPT ![c] = [NoContent EXCEPT !.status = "draft", !.version = 1]]
    /\ UNCHANGED <<refs, editing, scanned, flow, scanCrashes>>

(* _load_and_check: the row as this command's session keeps it.            *)
OpenContent(e) ==
    /\ editing[e] = Closed
    /\ edits < MaxEdits
    /\ \E c \in Contents :
          /\ Exists(c)
          /\ editing' = [editing EXCEPT ![e] = <<c, content[c]>>]
    /\ UNCHANGED <<content, refs, scanned, flow, edits, scanCrashes>>

(* A conflict, a refusal or a crash: the command rolls back.               *)
GiveUpEdit(e) ==
    /\ editing[e] # Closed
    /\ editing' = [editing EXCEPT ![e] = Closed]
    /\ UNCHANGED <<content, refs, scanned, flow, edits, scanCrashes>>

Opened(e, right) == editing[e] # Closed /\ right \in Rights[e]
Row(e) == editing[e][2]

Commits(e) ==
    /\ edits < MaxEdits
    /\ edits' = edits + 1
    /\ editing' = [editing EXCEPT ![e] = Closed]
    /\ UNCHANGED <<scanned, scanCrashes, flow>>

(* _transition_row: only from the status the command read; version + 1.    *)
Transition(e, target, values) ==
    LET c == editing[e][1] IN
    /\ content[c].status = Row(e).status
    /\ content' = [content EXCEPT ![c] =
          [f \in DOMAIN @ |-> IF f = "status" THEN target
                              ELSE IF f = "version" THEN @.version + 1
                              ELSE IF f \in DOMAIN values THEN values[f] ELSE @[f]]]
    /\ UNCHANGED refs
    /\ Commits(e)

May(e, target) == <<Row(e).status, target>> \in Transitions
NoValues == [f \in {} |-> 0]

SubmitContent(e) ==
    Opened(e, "write") /\ May(e, "pending") /\ Transition(e, "pending", NoValues)

RejectContent(e) ==
    Opened(e, "write") /\ May(e, "rejected") /\ Transition(e, "rejected", NoValues)

NextSchedule(e) == Row(e).schedule + 1

ScheduleContent(e) ==
    /\ Opened(e, "schedule") /\ May(e, "scheduled")
    /\ Row(e).schedule < MaxSchedules
    /\ Transition(e, "scheduled", [publishAt |-> "later", schedule |-> NextSchedule(e)])

UnscheduleContent(e) ==
    /\ Opened(e, "schedule") /\ May(e, "draft")
    /\ Row(e).schedule < MaxSchedules
    /\ Transition(e, "draft", [publishAt |-> "none", schedule |-> NextSchedule(e)])

PublishContent(e) ==
    /\ Opened(e, "publish") /\ May(e, "published")
    /\ Transition(e, "published", [leased |-> FALSE])

ArchiveContent(e) ==
    /\ Opened(e, "archive") /\ May(e, "archived")
    /\ Transition(e, "archived", [publishAt |-> "none"])

RestoreContentToDraft(e) ==
    /\ Opened(e, "write") /\ May(e, "draft")
    /\ Transition(e, "draft", [publishAt |-> "none"])

SetContentPin(e) ==
    Opened(e, "pin") /\ Transition(e, Row(e).status, NoValues)

(* UpdateContent: the text, only over the version the client saw.          *)
UpdateContent(e) ==
    LET c == editing[e][1] IN
    /\ Opened(e, "write")
    /\ Exists(c) /\ content[c].version = Row(e).version
    /\ content' = [content EXCEPT ![c].version = @ + 1]
    /\ UNCHANGED refs
    /\ Commits(e)

(* ReplaceContentReferences: the targets exist when they are read and, by  *)
(* the foreign key, when they are inserted; version is compared.           *)
ReplaceContentReferences(e) ==
    LET c == editing[e][1] IN
    /\ Opened(e, "write")
    /\ Exists(c) /\ content[c].version = Row(e).version
    /\ content' = [content EXCEPT ![c].version = @ + 1]
    /\ \E targets \in SUBSET {t \in Contents \ {c} : Exists(t)} :
          refs' = {r \in refs : r[1] # c} \union ({c} \X targets)
    /\ Commits(e)

(* PurgeArchivedContent: only archived, never while referenced (queried,   *)
(* and the foreign key of references inserted since); its own references   *)
(* go with it.                                                             *)
PurgeArchivedContent(e) ==
    LET c == editing[e][1] IN
    /\ Opened(e, "purge")
    /\ Row(e).status = "archived" /\ content[c].status = "archived"
    /\ \A r \in refs : r[2] # c
    /\ content' = [content EXCEPT ![c] = [NoContent EXCEPT !.status = "purged"]]
    /\ refs' = {r \in refs : r[1] # c}
    /\ Commits(e)

ContentCommand(e) ==
    \/ CreateContent(e) \/ OpenContent(e) \/ GiveUpEdit(e) \/ SubmitContent(e)
    \/ RejectContent(e) \/ ScheduleContent(e) \/ UnscheduleContent(e)
    \/ PublishContent(e) \/ ArchiveContent(e) \/ RestoreContentToDraft(e)
    \/ SetContentPin(e) \/ UpdateContent(e) \/ ReplaceContentReferences(e)
    \/ PurgeArchivedContent(e)

-----------------------------------------------------------------------------
(* scan_once: the due rows are leased in one transaction ...               *)
ScansAnyScheduled(c) ==  \* mutant of DueForScan: publish_at is not compared
    content[c].status = "scheduled" /\ ~content[c].leased

DueForScan(c) ==
    content[c].status = "scheduled" /\ content[c].publishAt = "due" /\ ~content[c].leased

ScanDue ==
    LET due == {c \in Contents : DueForScan(c)} IN
    /\ scanned = {} /\ due # {}
    /\ content' = [c \in Contents |-> IF c \in due THEN [content[c] EXCEPT !.leased = TRUE]
                                      ELSE content[c]]
    /\ scanned' = {<<c, content[c].schedule>> : c \in due}
    /\ UNCHANGED <<refs, editing, flow, edits, scanCrashes>>

(* ... and the workflows are started one by one; a known key starts none.  *)
StartPublish ==
    \E f \in scanned :
        /\ scanned' = scanned \ {f}
        /\ flow' = IF flow[f] = "absent" THEN [flow EXCEPT ![f] = "pending"] ELSE flow
        /\ UNCHANGED <<content, refs, editing, edits, scanCrashes>>

CrashScan ==
    /\ scanned # {} /\ scanCrashes < MaxScanCrashes
    /\ scanned' = {}
    /\ scanCrashes' = scanCrashes + 1
    /\ UNCHANGED <<content, refs, editing, flow, edits>>

(* ScheduledPublishActivity, in the unit of work of its attempt.           *)
StillScheduled(f) ==
    content[f[1]].status = "scheduled" /\ content[f[1]].schedule = f[2]

SkipScheduled ==
    \E f \in DOMAIN flow :
        /\ flow[f] = "pending" /\ ~StillScheduled(f)
        /\ flow' = [flow EXCEPT ![f] = "skipped"]
        /\ UNCHANGED <<content, refs, editing, scanned, edits, scanCrashes>>

PublishScheduled ==
    \E f \in DOMAIN flow :
        /\ flow[f] = "pending" /\ StillScheduled(f)
        /\ flow' = [flow EXCEPT ![f] = "published"]
        /\ content' = [content EXCEPT ![f[1]].status = "published", ![f[1]].leased = FALSE,
                                      ![f[1]].version = @ + 1]
        /\ UNCHANGED <<refs, editing, scanned, edits, scanCrashes>>

(* A body that no longer passes the publication policy fails every attempt *)
(* and the workflow with them; the content stays scheduled.                *)
RefuseScheduled ==
    \E f \in DOMAIN flow :
        /\ flow[f] = "pending" /\ StillScheduled(f)
        /\ flow' = [flow EXCEPT ![f] = "failed"]
        /\ UNCHANGED <<content, refs, editing, scanned, edits, scanCrashes>>

PublishTimePasses(c) ==
    /\ content[c].publishAt = "later"
    /\ content' = [content EXCEPT ![c].publishAt = "due"]
    /\ UNCHANGED <<refs, editing, scanned, flow, edits, scanCrashes>>

PublishLeaseEnds(c) ==
    /\ content[c].leased
    /\ content' = [content EXCEPT ![c].leased = FALSE]
    /\ UNCHANGED <<refs, editing, scanned, flow, edits, scanCrashes>>

RunPublish == SkipScheduled \/ PublishScheduled

PublishingNext ==
    \/ \E e \in Editors : ContentCommand(e)
    \/ ScanDue \/ StartPublish \/ CrashScan \/ RunPublish \/ RefuseScheduled
    \/ \E c \in Contents : PublishTimePasses(c) \/ PublishLeaseEnds(c)

-----------------------------------------------------------------------------

(* The publish workflow never publishes a content before the publish_at it *)
(* carries: a cancelled or moved schedule leaves no workflow that acts.    *)
PublishedWhenDue ==
    [][\A f \in Contents \X Versions :
          flow'[f] = "published" => flow[f] = "published" \/ content[f[1]].publishAt = "due"
      ]_publishingVars

(* A due scheduled content leaves that state - published, or taken back by *)
(* an editor - unless its publication was refused.                         *)
ScheduleIsKept ==
    \A c \in Contents :
        (content[c].status = "scheduled" /\ content[c].publishAt = "due")
            ~> \/ content[c].status # "scheduled" \/ content[c].publishAt # "due"
               \/ flow[<<c, content[c].schedule>>] = "failed"

(* A scheduled publication happens at its time: not before it, and in the  *)
(* end (scheduler and publish workflow, publishing.py).                    *)
PublishedAtItsTime == PublishedWhenDue /\ ScheduleIsKept

=============================================================================
