-------------------------------- MODULE Mailers --------------------------------
(***************************************************************************)
(* The sending of one notification through the e-mail providers: the       *)
(* provider the settings select, its adapter step by step, the chain that  *)
(* tries the next provider, and what the delivery becomes.  Runs of the    *)
(* deliver workflow follow each other here; that they overlap is the       *)
(* subject of Notification, which takes the answers as given.              *)
(***************************************************************************)
EXTENDS Naturals, Sequences

CONSTANTS
    MaxMails,        \* the attempts of a policy, of the delivery and of the step
    MaxMailRetries,  \* bound: retries an administrator asks for
    MaxMailEdits,    \* bound: changes of the settings
    MaxMailCuts      \* bound: runs cut short

ASSUME MailersAssumption ==
    /\ MaxMails \in Nat \ {0}
    /\ MaxMailRetries \in Nat /\ MaxMailEdits \in Nat /\ MaxMailCuts \in Nat

VARIABLES
    composed,    \* how the container bound the port: a resolver, or the manifest's chain
    selected,    \* the setting email_provider
    switch,      \* the settings of each provider: on, off, or incomplete
    row,         \* the delivery
    flow,        \* the last workflow of the delivery: live, the failures of its step, its key
    sending,     \* the run under way
    loose,       \* requests of a thread whose run was cut: what became of them is not read
    taken,       \* mails the providers took since the delivery was last requested
    cuts,        \* runs cut so far, by the step's timeout or the end of their process
    mailRetries, mailEdits

mailersVars == <<composed, selected, switch, row, flow, sending, loose, taken, cuts,
                 mailRetries, mailEdits>>

Mailboxes == {"smtp", "smtp2go"}
NoRun == <<>>
MailStages == {"settings", "open", "handing", "close"}
Settled == {"delivered", "failed", "dead", "cancelled"}

MailersTypeOK ==
    /\ selected \in Mailboxes
    /\ switch \in [Mailboxes -> {"on", "off", "incomplete"}]
    /\ row.status \in Settled \union {"pending", "sending", "unknown"}
    /\ flow.tries \in 0..MaxMails
    /\ sending # NoRun => /\ sending.stage \in MailStages
                          /\ sending.rest \in Seq(Mailboxes) \ {<<>>}
    /\ loose \in Nat /\ taken \in Nat

MailersInit ==
    /\ composed \in {"resolver", "manifest"}
    /\ selected = "smtp"
    /\ switch \in [Mailboxes -> {"on", "off"}]
    /\ row = [status |-> "pending", attempt |-> 0]
    /\ flow = [live |-> TRUE, tries |-> 0, key |-> 0]
    /\ sending = NoRun
    /\ loose = 0 /\ taken = 0 /\ cuts = 0
    /\ mailRetries = 0 /\ mailEdits = 0

-----------------------------------------------------------------------------
(* ProviderResult and ProviderError, as the chain sees them.               *)
Sent == [status |-> "delivered", permanent |-> FALSE, fallback |-> FALSE]
Unknown == [Sent EXCEPT !.status = "unknown"]
Unavailable == [Sent EXCEPT !.status = "unavailable"]
Passing == [status |-> "failed", permanent |-> FALSE, fallback |-> TRUE]
Permanent == [status |-> "failed", permanent |-> TRUE, fallback |-> FALSE]
BadLogin == [status |-> "failed", permanent |-> TRUE, fallback |-> TRUE]

(* SMTP: nothing is handed over until the connection is open; a refusal of *)
(* the recipient comes before the message.  Whatever else goes wrong while *)
(* the message is handed over, and every timeout, leaves the outcome open. *)
SmtpOpens == {Passing, BadLogin, Unknown}
SmtpTells(took) == IF took THEN {Sent, Unknown} ELSE {Permanent, Unknown}

(* SMTP2GO: one request.  Only a connection never made, a refusal with 429 *)
(* or 400, and a count of none say that the mail was not taken.            *)
PostOpens == {Passing}

PostRetries(took) ==  \* mutant of PostTells: a read timeout may be followed by another provider
    IF took THEN {Sent, Unknown, Passing} ELSE {Passing, Permanent, Unknown}

PostTells(took) == IF took THEN {Sent, Unknown} ELSE {Passing, Permanent, Unknown}

ProviderOpens(p) == IF p = "smtp" THEN SmtpOpens ELSE PostOpens
ProviderTells(p, took) == IF p = "smtp" THEN SmtpTells(took) ELSE PostTells(took)

-----------------------------------------------------------------------------
InSettings == UNCHANGED <<composed, selected, switch, mailEdits>>

MailAt(stage) == sending # NoRun /\ sending.stage = stage
MailGoes(stage) == sending' = [sending EXCEPT !.stage = stage]

(* A run begins with the chain of the moment.                              *)
Chain == IF composed = "resolver" THEN <<selected>> ELSE <<"smtp", "smtp2go">>

BeginSending ==
    /\ sending = NoRun /\ flow.live
    /\ IF row.status \in Settled
       THEN flow' = [flow EXCEPT !.live = FALSE] /\ UNCHANGED sending
       ELSE /\ sending' = [stage |-> "settings", rest |-> Chain, last |-> Unavailable]
            /\ UNCHANGED flow
    /\ UNCHANGED <<row, loose, taken, cuts, mailRetries>> /\ InSettings

(* What the delivery and its workflow become.                              *)
StepFails == [flow EXCEPT !.live = flow.tries + 1 < MaxMails, !.tries = @ + 1]
StepDone == [flow EXCEPT !.live = FALSE]

Concludes(result) ==
    LET attempt == row.attempt + 1
        passing == result.status = "failed" /\ ~result.permanent
        again == passing /\ attempt < MaxMails
    IN
    /\ row' = [attempt |-> attempt,
               status |-> IF again THEN "pending" ELSE IF passing THEN "dead" ELSE result.status]
    /\ flow' = IF again THEN StepFails ELSE StepDone
    /\ sending' = NoRun

(* _send_chain: an unavailable provider, or a failure that is safe, leads  *)
(* to the next one; at the end the last safe failure counts.               *)
ChainEnds(last) == IF last = Unavailable THEN Permanent ELSE last

Answers(result) ==
    LET safe == result.status = "failed" /\ result.fallback
        last == IF safe THEN result ELSE sending.last
    IN
    IF ~safe /\ result # Unavailable THEN Concludes(result)
    ELSE IF Len(sending.rest) = 1 THEN Concludes(ChainEnds(last))
    ELSE /\ sending' = [stage |-> "settings", rest |-> Tail(sending.rest), last |-> last]
         /\ UNCHANGED <<row, flow>>

Provider == Head(sending.rest)

SmtpUsable == switch["smtp"] = "on"     \* enabled, with a host
PostUsable == switch["smtp2go"] = "on"  \* enabled, with a key, a region and a sender
Usable(p) == IF p = "smtp" THEN SmtpUsable ELSE PostUsable

ReadSettings ==
    /\ MailAt("settings")
    /\ \/ Usable(Provider) /\ MailGoes("open") /\ UNCHANGED <<row, flow>>
       \/ ~Usable(Provider) /\ Answers(Unavailable)
       \/ Answers(Unknown)  \* the settings could not be read
    /\ UNCHANGED <<loose, taken, cuts, mailRetries>> /\ InSettings

(* A header that cannot be written raises, which is an unknown outcome.    *)
OpenConnection ==
    /\ MailAt("open")
    /\ \/ MailGoes("handing") /\ UNCHANGED <<row, flow>>
       \/ \E result \in ProviderOpens(Provider) \union {Unknown} : Answers(result)
    /\ UNCHANGED <<loose, taken, cuts, mailRetries>> /\ InSettings

HandOver ==
    /\ MailAt("handing")
    /\ \/ taken' = taken + 1 /\ MailGoes("close") /\ UNCHANGED <<row, flow>>
       \/ UNCHANGED taken /\ \E result \in ProviderTells(Provider, FALSE) : Answers(result)
    /\ UNCHANGED <<loose, cuts, mailRetries>> /\ InSettings

ReadAnswer ==
    /\ MailAt("close")
    /\ \E result \in ProviderTells(Provider, TRUE) : Answers(result)
    /\ UNCHANGED <<loose, taken, cuts, mailRetries>> /\ InSettings

(* The step's timeout, with the row as the activity had made it, or the    *)
(* end of the process.  A post to SMTP2GO is in a thread and goes on.      *)
CutShort ==
    /\ sending # NoRun /\ cuts < MaxMailCuts
    /\ \/ /\ row' = [status |-> "sending", attempt |-> row.attempt + 1]
          /\ flow' = StepFails
       \/ UNCHANGED <<row, flow>>
    /\ loose' = IF MailAt("handing") /\ Provider = "smtp2go" THEN loose + 1 ELSE loose
    /\ sending' = NoRun
    /\ cuts' = cuts + 1
    /\ UNCHANGED <<taken, mailRetries>> /\ InSettings

LoosePost ==
    /\ loose > 0
    /\ loose' = loose - 1
    /\ \/ taken' = taken + 1 \/ UNCHANGED taken
    /\ UNCHANGED <<row, flow, sending, cuts, mailRetries>> /\ InSettings

CancelMail ==
    /\ sending = NoRun /\ row.status = "pending"
    /\ row' = [row EXCEPT !.status = "cancelled"]
    /\ UNCHANGED <<flow, sending, loose, taken, cuts, mailRetries>> /\ InSettings

(* An administrator may send anew what was not delivered: in a workflow of *)
(* its own, begun here once the last one ended, and under a key made of    *)
(* the attempt, so that a key used before begins none.                     *)
RetryMail ==
    /\ mailRetries < MaxMailRetries
    /\ sending = NoRun /\ ~flow.live /\ row.status # "delivered"
    /\ mailRetries' = mailRetries + 1
    /\ row' = [row EXCEPT !.status = "pending"]
    /\ flow' = IF flow.key = row.attempt + 1 THEN flow
               ELSE [live |-> TRUE, tries |-> 0, key |-> row.attempt + 1]
    /\ taken' = 0
    /\ UNCHANGED <<sending, loose, cuts>> /\ InSettings

EditMailSettings ==
    /\ mailEdits < MaxMailEdits
    /\ mailEdits' = mailEdits + 1
    /\ \/ selected' \in Mailboxes \ {selected} /\ UNCHANGED switch
       \/ /\ \E p \in Mailboxes : \E s \in {"on", "off", "incomplete"} \ {switch[p]} :
                switch' = [switch EXCEPT ![p] = s]
          /\ UNCHANGED selected
    /\ UNCHANGED <<composed, row, flow, sending, loose, taken, cuts, mailRetries>>

MailersNext ==
    \/ BeginSending \/ ReadSettings \/ OpenConnection \/ HandOver \/ ReadAnswer
    \/ CutShort \/ LoosePost
    \/ CancelMail \/ RetryMail \/ EditMailSettings

MailersSpec == MailersInit /\ [][MailersNext]_mailersVars

-----------------------------------------------------------------------------
(* "A timeout or unknown result must not be sent again blindly"            *)
(* (capabilities/notification.md:22).  Whatever the providers answer, and  *)
(* however the chain, the retries and the settings go on, one request      *)
(* hands over at most one mail, and one more for each run that was cut     *)
(* short; what is told to be delivered was taken; and while no run was     *)
(* cut, what is told to have failed, or is still pending, was not.         *)
MailedAtMostOnce ==
    /\ taken <= 1 + cuts
    /\ row.status = "delivered" => taken > 0
    /\ cuts = 0 /\ sending = NoRun /\ row.status \in {"pending", "failed", "dead"} => taken = 0

=============================================================================
