------------------------------- MODULE CheckIns -------------------------------
(***************************************************************************)
(* Daily check-ins of one subject: a request names the business date and   *)
(* starts that date's workflow; the workflow credits under a key made of   *)
(* the date, whenever it comes to run; and the credit's daily limit counts *)
(* entries by the day they are made.                                       *)
(***************************************************************************)
EXTENDS Naturals, Sequences, FiniteSets

CONSTANTS
    Clickers,       \* requests and workflow workers
    MaxDays,        \* bound: business dates
    MaxCheckTries,  \* max_attempts of the step
    MaxClicks       \* bound: requests and workers' runs

ASSUME CheckInsAssumption ==
    /\ MaxDays \in Nat \ {0} /\ MaxCheckTries \in Nat \ {0} /\ MaxClicks \in Nat

VARIABLES
    today,       \* the business date of the clock
    rewards,     \* the workflow of each date
    credits,     \* the ledger entries of the behavior, in the order of their commits
    clicker,     \* what each request or worker is in the middle of
    answers,     \* what requests were told
    clicks

checkInsVars == <<today, rewards, credits, clicker, answers, clicks>>

Dates == 1..MaxDays
AtRest == [does |-> "rest"]
NotCredited == 0
EntryOf(key) == {n \in DOMAIN credits : credits[n].key = key}

CheckInsTypeOK ==
    /\ today \in Dates
    /\ \A d \in Dates :
         /\ rewards[d].status \in {"absent", "pending", "executed", "completed", "failed"}
         /\ rewards[d].tries \in 0..MaxCheckTries
         /\ rewards[d].entry \in {NotCredited} \union DOMAIN credits
    /\ \A n \in DOMAIN credits : credits[n] \in [key : Dates, on : Dates]
    /\ \A c \in Clickers : clicker[c].does \in {"rest", "start", "advance", "find", "count",
                                                "balance", "commit", "record", "answer"}
    /\ answers \subseteq [status : {"rewarded", "already_rewarded"}, date : Dates, entry : Nat]

CheckInsInit ==
    /\ today = 1
    /\ rewards = [d \in Dates |-> [status |-> "absent", tries |-> 0, entry |-> NotCredited]]
    /\ credits = <<>>
    /\ clicker = [c \in Clickers |-> AtRest]
    /\ answers = {}
    /\ clicks = 0

-----------------------------------------------------------------------------
ClickerAt(c, stage) == clicker[c].does = stage
ClickerGoes(c, stage) == clicker' = [clicker EXCEPT ![c].does = stage]
DateOf(c) == clicker[c].date
Step(c) == rewards[DateOf(c)]

Clicks(c, record) ==
    /\ clicker[c] = AtRest /\ clicks < MaxClicks
    /\ clicks' = clicks + 1
    /\ clicker' = [clicker EXCEPT ![c] = record]
    /\ UNCHANGED <<today, rewards, credits, answers>>

(* UserCenterService.check_in: the date is that of the request, and the    *)
(* answer depends on whether the workflow was there before.                *)
CheckIn(c) ==
    Clicks(c, [does |-> "start", date |-> today, asks |-> TRUE, number |-> 0, saw |-> 0, on |-> 1,
               entry |-> NotCredited, previous |-> rewards[today].status # "absent"])

RunDue(c) ==
    \E d \in Dates :
        /\ rewards[d].status \in {"pending", "executed"}
        /\ Clicks(c, [does |-> "advance", date |-> d, asks |-> FALSE, number |-> 0, saw |-> 0,
                      on |-> 1, entry |-> NotCredited, previous |-> TRUE])

StartCheckIn(c) ==
    /\ ClickerAt(c, "start")
    /\ rewards' = IF Step(c).status = "absent"
                  THEN [rewards EXCEPT ![DateOf(c)].status = "pending"] ELSE rewards
    /\ ClickerGoes(c, "advance")
    /\ UNCHANGED <<today, credits, answers, clicks>>

(* advance: one step at a time, until the workflow has ended.              *)
Rest(c) == clicker' = [clicker EXCEPT ![c] = AtRest]
Leaves(c) == IF clicker[c].asks THEN ClickerGoes(c, "answer") ELSE Rest(c)

Advance(c) ==
    /\ ClickerAt(c, "advance")
    /\ CASE Step(c).status = "pending" ->
              /\ clicker' = [clicker EXCEPT ![c].does = "find", ![c].number = Step(c).tries + 1]
              /\ UNCHANGED rewards
         [] Step(c).status = "executed" ->
              /\ rewards' = [rewards EXCEPT ![DateOf(c)].status = "completed"]
              /\ UNCHANGED clicker
         [] OTHER -> Leaves(c) /\ UNCHANGED rewards
    /\ UNCHANGED <<today, credits, answers, clicks>>

(* The credit.  Its key is made of the workflow's date ...                 *)
KeyOfTheDay(c) == today  \* mutant of CreditKey: the date of the run
CreditKey(c) == DateOf(c)

FindCredit(c) ==
    /\ ClickerAt(c, "find")
    /\ IF EntryOf(CreditKey(c)) # {}
       THEN \E n \in EntryOf(CreditKey(c)) :
              clicker' = [clicker EXCEPT ![c].does = "record", ![c].entry = n]
       ELSE ClickerGoes(c, "count")
    /\ UNCHANGED <<today, rewards, credits, answers, clicks>>

(* ... its daily limit is that of the day it runs on, counted before ...   *)
MadeToday == \E n \in DOMAIN credits : credits[n].on = today

(* A failed attempt is recorded under its number, which only one run has.  *)
MayRecord(c) == Step(c).status = "pending" /\ clicker[c].number = Step(c).tries + 1

Failed(c, permanent) ==
    [Step(c) EXCEPT !.tries = clicker[c].number,
                    !.status = IF permanent \/ clicker[c].number = MaxCheckTries THEN "failed"
                               ELSE "pending"]

FailsStep(c, permanent) ==
    /\ IF MayRecord(c)
       THEN rewards' = [rewards EXCEPT ![DateOf(c)] = Failed(c, permanent)] /\ Leaves(c)
       ELSE Rest(c) /\ UNCHANGED rewards
    /\ UNCHANGED <<today, credits, answers, clicks>>

ValidateLimits(c) ==
    /\ ClickerAt(c, "count")
    /\ ~MadeToday
    /\ ClickerGoes(c, "balance")
    /\ UNCHANGED <<today, rewards, credits, answers, clicks>>

LimitReached(c) == ClickerAt(c, "count") /\ MadeToday /\ FailsStep(c, FALSE)

(* ... the balance is read, whose version the update checks.               *)
ReadBalance(c) ==
    /\ ClickerAt(c, "balance")
    /\ clicker' = [clicker EXCEPT ![c].does = "commit", ![c].saw = Len(credits), ![c].on = today]
    /\ UNCHANGED <<today, rewards, credits, answers, clicks>>

Uncontested(c) == clicker[c].saw = Len(credits) /\ EntryOf(CreditKey(c)) = {}

CommitCredit(c) ==
    /\ ClickerAt(c, "commit") /\ Uncontested(c)
    /\ credits' = Append(credits, [key |-> CreditKey(c), on |-> clicker[c].on])
    /\ clicker' = [clicker EXCEPT ![c].does = "record", ![c].entry = Len(credits) + 1]
    /\ UNCHANGED <<today, rewards, answers, clicks>>

CreditConflicts(c) == ClickerAt(c, "commit") /\ ~Uncontested(c) /\ FailsStep(c, FALSE)

(* The program is not active, or the database fails.                       *)
CreditFails(c) ==
    /\ clicker[c].does \in {"find", "count", "balance", "commit"}
    /\ \E permanent \in BOOLEAN : FailsStep(c, permanent)

RecordStep(c) ==
    /\ ClickerAt(c, "record")
    /\ IF MayRecord(c)
       THEN /\ rewards' = [rewards EXCEPT ![DateOf(c)] =
                              [status |-> "executed", tries |-> clicker[c].number,
                               entry |-> clicker[c].entry]]
            /\ ClickerGoes(c, "advance")
       ELSE Rest(c) /\ UNCHANGED rewards
    /\ UNCHANGED <<today, credits, answers, clicks>>

Answer(c) ==
    /\ ClickerAt(c, "answer")
    /\ answers' = answers \union
         {[status |-> IF clicker[c].previous THEN "already_rewarded" ELSE "rewarded",
           date |-> DateOf(c), entry |-> Step(c).entry]}
    /\ Rest(c)
    /\ UNCHANGED <<today, rewards, credits, clicks>>

(* The process ends, or a commit fails, anywhere.                          *)
StopsClicking(c) ==
    /\ clicker[c] # AtRest
    /\ Rest(c)
    /\ UNCHANGED <<today, rewards, credits, answers, clicks>>

Midnight ==
    /\ today < MaxDays
    /\ today' = today + 1
    /\ UNCHANGED <<rewards, credits, clicker, answers, clicks>>

CheckInsNext ==
    \/ \E c \in Clickers :
         \/ CheckIn(c) \/ RunDue(c) \/ StartCheckIn(c) \/ Advance(c)
         \/ FindCredit(c) \/ ValidateLimits(c) \/ LimitReached(c) \/ ReadBalance(c)
         \/ CommitCredit(c) \/ CreditConflicts(c) \/ CreditFails(c) \/ RecordStep(c)
         \/ Answer(c) \/ StopsClicking(c)
    \/ Midnight

CheckInsSpec == CheckInsInit /\ [][CheckInsNext]_checkInsVars

-----------------------------------------------------------------------------
(* "Concurrent and repeated check-ins make one credit"                     *)
(* (features/user-center.md:159), also when a run is repeated after        *)
(* midnight: a date whose workflow is done, or whose credit a request was  *)
(* told of, has an entry that is its own, made on that day or later.       *)
EachDateItsCredit ==
    LET Owned(d, n) == credits[n].key = d /\ credits[n].on >= d
    IN
    /\ \A d \in Dates : Cardinality(EntryOf(d)) <= 1
    /\ \A d \in Dates : rewards[d].status \in {"executed", "completed"} => Owned(d, rewards[d].entry)
    /\ \A a \in answers : a.entry # NotCredited => Owned(a.date, a.entry)
=============================================================================
