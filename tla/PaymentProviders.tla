--------------------------- MODULE PaymentProviders ---------------------------
(***************************************************************************)
(* The adapters of the two payment providers, between the payments         *)
(* capability and merchant accounts outside.  Every call first reads the   *)
(* settings that name the account; administrators may change them at any   *)
(* time.  The PayPal adapter keeps the configuration it read last and the  *)
(* client made from it, shared by the calls under way; Epay's adapter      *)
(* keeps nothing.  Amounts are in fen here, in decimal yuan outside.       *)
(***************************************************************************)
EXTENDS Integers, Sequences, FiniteSets

CONSTANTS
    Paypals,         \* merchant accounts at PayPal
    Epays,           \* merchants of the Epay gateway
    Env,             \* "sandbox" or "production", of a PayPal account
    Cashiers,        \* calls that may be open at one time
    Attempts,        \* payment attempts, each with its idempotency key
    RefundKeys,      \* idempotency keys of refunds
    Charge,          \* the amount of an attempt, in fen
    Back,            \* the amount of a refund, in fen
    MaxCashierCalls, \* bound: calls begun
    MaxReconfigured  \* bound: changes of the settings

Merchants == Paypals \union Epays
Unset == "no account"

ASSUME ProvidersAssumption ==
    /\ Paypals \intersect Epays = {} /\ Unset \notin Merchants
    /\ Charge \in Nat \ {0} /\ Back \in 1..Charge

VARIABLES
    configured,   \* the account the settings name for each provider
    adapter,      \* PaypalPaymentProvider: _config and the account of _client_instance
    cashier,      \* the open calls of the adapters
    books,        \* at each merchant: attempts opened, paid, and refunds made
    reference,    \* provider_ref as the capability stored it: the account that has it
    sent,         \* the notifications the merchants' accounts sent
    stale,        \* those older than PayPal's ten minutes
    learned,      \* what verify_webhook and get_payment told, by account
    cashierCalls, reconfigured

providersVars ==
    <<configured, adapter, cashier, books, reference, sent, stale, learned,
      cashierCalls, reconfigured>>

Gateways == {"paypal", "epay"}
MerchantsOf(p) == IF p = "paypal" THEN Paypals ELSE Epays
ProviderOf(m) == IF m \in Paypals THEN "paypal" ELSE "epay"
NoCall == <<>>
NoKey == <<>>

(* What is said of money: a payment of an attempt, or a refund of it.      *)
Notices == [from : Merchants, kind : {"capture", "refund"}, attempt : Attempts, money : Nat]
Facts == [by : Merchants, kind : {"capture", "refund"}, attempt : Attempts, amount : Nat]

ProvidersTypeOK ==
    /\ \A p \in Gateways : configured[p] \in MerchantsOf(p) \union {Unset}
    /\ adapter.client \in {adapter.config, Unset}
    /\ DOMAIN cashier = Cashiers
    /\ \A m \in Merchants : books[m].paid \subseteq books[m].opened
    /\ reference \in [Attempts -> Merchants \union {Unset}]
    /\ sent \subseteq Notices /\ stale \subseteq sent
    /\ learned \subseteq Facts

ProvidersInit ==
    /\ configured \in [Gateways -> Merchants]
    /\ \A p \in Gateways : configured[p] \in MerchantsOf(p)
    /\ adapter = [config |-> Unset, client |-> Unset]
    /\ cashier = [c \in Cashiers |-> NoCall]
    /\ books = [m \in Merchants |-> [opened |-> {}, paid |-> {}, refunds |-> <<>>]]
    /\ reference = [a \in Attempts |-> Unset]
    /\ sent = {} /\ stale = {} /\ learned = {}
    /\ cashierCalls = 0 /\ reconfigured = 0

-----------------------------------------------------------------------------
(* Money outside is a decimal, here in thousandths of a yuan; what comes   *)
(* in is rounded half up to a fen and refused unless positive.             *)
Major(fen) == 10 * fen
Minor(money) == (money + 5) \div 10
Refused(money) == Minor(money) <= 0

(* At the merchant: refunds cannot exceed the payment.                     *)
Made(m, has(_)) == {i \in DOMAIN books[m].refunds : has(books[m].refunds[i])}
Refundable(m, a) ==
    LET ofIt(r) == r.attempt = a
    IN  a \in books[m].paid /\ Back * (Cardinality(Made(m, ofIt)) + 1) <= Charge
UnderKey(m, k) == LET ofIt(r) == r.key = k IN Made(m, ofIt)

Notice(m, kind, a, fen) == [from |-> m, kind |-> kind, attempt |-> a, money |-> Major(fen)]

-----------------------------------------------------------------------------
InCall(c, stage, op) == cashier[c] # NoCall /\ cashier[c].stage = stage /\ cashier[c].op = op
Reaches(c, stage) == cashier' = [cashier EXCEPT ![c].stage = stage]
EndsCall(c) == cashier' = [cashier EXCEPT ![c] = NoCall]
Unbounded == UNCHANGED <<configured, cashierCalls, reconfigured>>

(* A call begins by reading the settings; it is about an attempt, under a  *)
(* key, made at an account (`at`) if it was made before.                   *)
OpensCall(c, op, p, a, k, at, notice) ==
    /\ cashier[c] = NoCall /\ cashierCalls < MaxCashierCalls
    /\ cashierCalls' = cashierCalls + 1
    /\ cashier' = [cashier EXCEPT ![c] =
           [op |-> op, stage |-> "settings", provider |-> p, account |-> configured[p],
            attempt |-> a, key |-> k, at |-> at, notice |-> notice]]
    /\ UNCHANGED <<configured, adapter, books, reference, sent, stale, learned, reconfigured>>

CallCreate(c) ==
    \E p \in Gateways, a \in Attempts : OpensCall(c, "create", p, a, NoKey, Unset, NoCall)

CallStatus(c) ==
    \E a \in Attempts :
        /\ reference[a] # Unset
        /\ OpensCall(c, "status", ProviderOf(reference[a]), a, NoKey, reference[a], NoCall)

(* A refund under a new key, or under one whose answer was lost; the key   *)
(* names the order that is refunded too (commands.py, RequestRefund).      *)
CallRefund(c) ==
    \E a \in Attempts, k \in RefundKeys :
        /\ reference[a] # Unset /\ a \in books[reference[a]].paid
        /\ OpensCall(c, "refund", ProviderOf(reference[a]), a, <<a, k>>, reference[a], NoCall)

CallVerify(c) ==
    \E n \in sent : OpensCall(c, "verify", ProviderOf(n.from), n.attempt, NoKey, Unset, n)

(* _configure and _require_client: a configuration that differs from the   *)
(* one kept replaces it and its client; an incomplete one is kept too, and *)
(* refused.  A notification is checked for its age before anything is sent.*)
Kept(account) ==
    IF account = adapter.config /\ adapter.client # Unset THEN adapter
    ELSE [config |-> account, client |-> account]

TooOld(c) == cashier[c].op = "verify" /\ cashier[c].notice \in stale

Configure(c) ==
    /\ cashier[c] # NoCall /\ cashier[c].stage = "settings"
    /\ LET account == cashier[c].account
           paypal == cashier[c].provider = "paypal"
       IN
       /\ adapter' = IF paypal THEN Kept(account) ELSE adapter
       /\ IF account = Unset \/ (paypal /\ TooOld(c)) THEN EndsCall(c) ELSE Reaches(c, "ready")
    /\ UNCHANGED <<books, reference, sent, stale, learned>>
    /\ Unbounded

-----------------------------------------------------------------------------
(* create_payment: the merchant opens the attempt, once for its key.  The  *)
(* answer may be lost; the capability keeps the first reference it gets.   *)
CreatePayment(c) ==
    /\ InCall(c, "ready", "create")
    /\ LET m == cashier[c].account
           a == cashier[c].attempt
       IN
       /\ books' = [books EXCEPT ![m].opened = @ \union {a}]
       /\ \/ reference' = [reference EXCEPT ![a] = IF @ = Unset THEN m ELSE @]
          \/ UNCHANGED reference
    /\ EndsCall(c)
    /\ UNCHANGED <<adapter, sent, stale, learned>>
    /\ Unbounded

Learns(m, kind, a, money) ==
    learned' = IF Refused(money) THEN learned
               ELSE learned \union {[by |-> m, kind |-> kind, attempt |-> a, amount |-> Minor(money)]}

(* get_payment tells a captured payment with its amount; a reference of    *)
(* another account is not known there.                                     *)
GetPayment(c) ==
    /\ InCall(c, "ready", "status")
    /\ LET m == cashier[c].account
           a == cashier[c].attempt
       IN  IF m = cashier[c].at /\ a \in books[m].paid
           THEN Learns(m, "capture", a, Major(Charge))
           ELSE UNCHANGED learned
    /\ EndsCall(c)
    /\ UNCHANGED <<adapter, books, reference, sent, stale>>
    /\ Unbounded

(* create_refund.  PayPal's order is looked up for its capture; without    *)
(* one the order's own reference is sent, which the merchant refuses.      *)
ResolveCaptureRef(c) ==
    /\ InCall(c, "ready", "refund") /\ cashier[c].account \in Paypals
    /\ IF cashier[c].account = cashier[c].at THEN Reaches(c, "capture") ELSE EndsCall(c)
    /\ UNCHANGED <<adapter, books, reference, sent, stale, learned>>
    /\ Unbounded

(* PayPal answers a request id it knows with the refund made under it.     *)
KnownRequest(m, k) == m \in Paypals /\ UnderKey(m, k) # {}

CreateRefund(c) ==
    /\ \/ InCall(c, "capture", "refund")
       \/ InCall(c, "ready", "refund") /\ cashier[c].account \in Epays
    /\ LET m == cashier[c].account
           a == cashier[c].attempt
           k == cashier[c].key
       IN  IF KnownRequest(m, k) \/ m # cashier[c].at \/ ~Refundable(m, a)
           THEN UNCHANGED <<books, sent>>
           ELSE /\ books' = [books EXCEPT ![m].refunds = Append(@, [attempt |-> a, key |-> k])]
                /\ sent' = IF m \in Paypals THEN sent \union {Notice(m, "refund", a, Back)} ELSE sent
    /\ EndsCall(c)
    /\ UNCHANGED <<adapter, reference, stale, learned>>
    /\ Unbounded

-----------------------------------------------------------------------------
(* verify_webhook.  Epay's notification carries a signature made with the  *)
(* merchant's key.  PayPal is asked: with a token of the client, then with *)
(* the webhook id read at the beginning, at the base URL of the            *)
(* configuration kept by then.                                             *)
FetchToken(c) ==
    /\ InCall(c, "ready", "verify") /\ cashier[c].account \in Paypals
    /\ Reaches(c, "token")
    /\ UNCHANGED <<adapter, books, reference, sent, stale, learned>>
    /\ Unbounded

BaseUrl(config) == IF config = Unset THEN "sandbox" ELSE Env[config]

AnyWebhookId(c) ==  \* mutant of Vouched: the verification names the webhook of the notification
    \/ cashier[c].account \in Epays /\ cashier[c].notice.from = cashier[c].account
    \/ /\ cashier[c].account \in Paypals
       /\ BaseUrl(adapter.config) = Env[cashier[c].account]
       /\ Env[cashier[c].notice.from] = Env[cashier[c].account]

Vouched(c) ==
    /\ cashier[c].notice.from = cashier[c].account
    /\ cashier[c].account \in Paypals => BaseUrl(adapter.config) = Env[cashier[c].account]

AcceptWebhook(c) ==
    /\ \/ InCall(c, "token", "verify")
       \/ InCall(c, "ready", "verify") /\ cashier[c].account \in Epays
    /\ LET n == cashier[c].notice
       IN  IF Vouched(c) THEN Learns(cashier[c].account, n.kind, n.attempt, n.money)
           ELSE UNCHANGED learned
    /\ EndsCall(c)
    /\ UNCHANGED <<adapter, books, reference, sent, stale>>
    /\ Unbounded

(* A request that fails or is not answered, whatever the merchant did.     *)
GivesUpCall(c) ==
    /\ cashier[c] # NoCall
    /\ EndsCall(c)
    /\ UNCHANGED <<adapter, books, reference, sent, stale, learned>>
    /\ Unbounded

-----------------------------------------------------------------------------
(* Outside: a customer pays, a notification ages, an administrator         *)
(* switches accounts or leaves a field empty.                              *)
Pays(m, a) ==
    /\ a \in books[m].opened \ books[m].paid
    /\ books' = [books EXCEPT ![m].paid = @ \union {a}]
    /\ sent' = sent \union {Notice(m, "capture", a, Charge)}
    /\ UNCHANGED <<adapter, cashier, reference, stale, learned>>
    /\ Unbounded

Ages(n) ==
    /\ n.from \in Paypals
    /\ stale' = stale \union {n}
    /\ UNCHANGED <<adapter, cashier, books, reference, sent, learned>>
    /\ Unbounded

Reconfigure(p) ==
    /\ reconfigured < MaxReconfigured
    /\ reconfigured' = reconfigured + 1
    /\ \E m \in (MerchantsOf(p) \union {Unset}) \ {configured[p]} :
          configured' = [configured EXCEPT ![p] = m]
    /\ UNCHANGED <<adapter, cashier, books, reference, sent, stale, learned, cashierCalls>>

PortCall(c) == CallCreate(c) \/ CallStatus(c) \/ CallRefund(c) \/ CallVerify(c) \/ Configure(c)

ProvidersNext ==
    \/ \E c \in Cashiers :
        \/ PortCall(c) \/ CreatePayment(c) \/ GetPayment(c) \/ ResolveCaptureRef(c)
        \/ CreateRefund(c) \/ FetchToken(c) \/ AcceptWebhook(c) \/ GivesUpCall(c)
    \/ \E m \in Merchants, a \in Attempts : Pays(m, a)
    \/ \E n \in sent \ stale : Ages(n)
    \/ \E p \in Gateways : Reconfigure(p)

ProvidersSpec == ProvidersInit /\ [][ProvidersNext]_providersVars

-----------------------------------------------------------------------------
(* "Only a provider fact whose signature was verified" counts              *)
(* (capabilities/payments.md:13): what the adapters report happened at the *)
(* account the settings named when the call began, with its amount to the  *)
(* fen, whatever the settings became while the call waited.                *)
ReportedAsItWas ==
    \A fact \in learned :
        \/ fact.kind = "capture" /\ fact.amount = Charge /\ fact.attempt \in books[fact.by].paid
        \/ /\ fact.kind = "refund" /\ fact.amount = Back
           /\ \E i \in DOMAIN books[fact.by].refunds :
                  books[fact.by].refunds[i].attempt = fact.attempt

(* A refund of PayPal is made once for its idempotency key, when it is     *)
(* asked for again after a lost answer, by two calls at once, or after the *)
(* account was switched (paypal.py:279-304).                               *)
RefundedOncePerKey ==
    \A k \in Attempts \X RefundKeys :
        Cardinality({at \in Paypals \X (1..MaxCashierCalls) :
                        at[2] \in UnderKey(at[1], k)}) <= 1

(* The adapters neither report what did not happen nor make it happen      *)
(* twice, while the merchant settings change under their calls.            *)
AgreesWithProviders == ReportedAsItWas /\ RefundedOncePerKey

=============================================================================
