-------------------------------- MODULE Quotes --------------------------------
(***************************************************************************)
(* Quotes of the business center: a price is computed from the manifest of *)
(* a published work, signed into a token, and checked against the manifest *)
(* again when the token is consumed.  The editors of the work know nothing *)
(* of either.                                                              *)
(*                                                                         *)
(* The workflow that consumes a quote is the one of Consumption; here only *)
(* its validation and its debit are told apart.                            *)
(***************************************************************************)
EXTENDS Integers, Sequences, FiniteSets, Functions

CONSTANTS
    Manifests,        \* download_files of a work: sequences of [id, number, size]
    PartBytes,        \* ARCHIVE_PART_BYTES
    UnitPoints,       \* ARCHIVE_UNIT_POINTS
    MaxPoints,        \* max_points of the product
    Buyers,           \* subjects, each with its client
    RequestKeys,      \* idempotency keys of requests
    QuoteTtl,         \* quote_ttl of the product
    MaxQuotes,        \* bound: quotes given
    MaxWorkEdits,     \* bound: edits of the work
    MaxReleases,      \* bound: deployments with another product version
    MaxQuoteTime      \* bound: the clock

ASSUME QuotesAssumption ==
    /\ \A files \in Manifests : files \in Seq({files[i] : i \in DOMAIN files})
    /\ PartBytes \in Nat \ {0} /\ UnitPoints \in Nat \ {0} /\ MaxPoints \in Nat
    /\ QuoteTtl \in Nat \ {0}
    /\ {MaxQuotes, MaxWorkEdits, MaxReleases, MaxQuoteTime} \subseteq Nat

VARIABLES
    work,        \* the files of the published work
    release,     \* version of the product in the running code
    quotes,      \* the tokens given out
    orders,      \* buyer, quote and request key -> the workflow of that key
    charges,     \* the debits: the workflow and the amount
    workEdits, quoteTime

quotesVars == <<work, release, quotes, orders, charges, workEdits, quoteTime>>

NotPublished == <<>>
Keys == Buyers \X (1 .. MaxQuotes) \X RequestKeys
NotStarted == [status |-> "none"]

(***************************************************************************)
(* price_archive_files_fixed_v1.                                           *)
(***************************************************************************)
Numbered(files, n) == CHOOSE f \in {files[i] : i \in DOMAIN files} : f.number = n

ContiguousParts(files) ==
    /\ Cardinality({files[i].id : i \in DOMAIN files}) = Len(files)
    /\ {files[i].number : i \in DOMAIN files} = 1 .. Len(files)

FullParts(files) ==
    \A i \in DOMAIN files :
      IF files[i].number < Len(files) THEN files[i].size = PartBytes
      ELSE files[i].size \in 1 .. PartBytes

AnySizes(files) == ContiguousParts(files)
Priceable(files) == ContiguousParts(files) /\ FullParts(files)
PartsAmount(files) == Len(files) * UnitPoints

(* The digest covers the files in the order of their parts.                *)
Digest(files) == [n \in DOMAIN files |-> Numbered(files, n)]

QuotesTypeOK ==
    /\ work \in Manifests \union {NotPublished}
    /\ release \in 1 .. MaxReleases + 1
    /\ \A q \in DOMAIN quotes : quotes[q].buyer \in Buyers /\ quotes[q].amount <= MaxPoints
    /\ \A k \in Keys :
         orders[k].status \in {"none", "started", "resolving", "validated", "charged", "failed"}
    /\ charges \subseteq Keys \X Nat

QuotesInit ==
    /\ work = NotPublished
    /\ release = 1
    /\ quotes = <<>>
    /\ orders = [k \in Keys |-> NotStarted]
    /\ charges = {}
    /\ workEdits = 0 /\ quoteTime = 0

(* External: what editors and deployments do meanwhile.                    *)
WorkChanges(files) ==
    /\ workEdits < MaxWorkEdits /\ workEdits' = workEdits + 1
    /\ files # work
    /\ work' = files
    /\ UNCHANGED <<release, quotes, orders, charges, quoteTime>>

Deploys ==
    /\ release <= MaxReleases
    /\ release' = release + 1
    /\ UNCHANGED <<work, quotes, orders, charges, workEdits, quoteTime>>

QuoteTimePasses ==
    /\ quoteTime < MaxQuoteTime /\ quoteTime' = quoteTime + 1
    /\ UNCHANGED <<work, release, quotes, orders, charges, workEdits>>

(***************************************************************************)
(* QuoteBusinessProduct and BusinessCenterService.consume.                 *)
(***************************************************************************)
QuoteBusinessProduct(b) ==
    /\ Len(quotes) < MaxQuotes
    /\ work # NotPublished /\ Priceable(work)
    /\ PartsAmount(work) \in UnitPoints .. MaxPoints
    /\ quotes' = Append(quotes, [buyer |-> b, amount |-> PartsAmount(work), of |-> work,
                                 digest |-> Digest(work), release |-> release,
                                 until |-> quoteTime + QuoteTtl])
    /\ UNCHANGED <<work, release, orders, charges, workEdits, quoteTime>>

(* The token is not tied to who presents it until it is validated; a key   *)
(* that was used for it already names the workflow that is there.          *)
Consume(k) ==
    /\ k[2] \in DOMAIN quotes
    /\ orders[k] = NotStarted
    /\ orders' = [orders EXCEPT ![k] = [status |-> "started"]]
    /\ UNCHANGED <<work, release, quotes, charges, workEdits, quoteTime>>

(* _fresh_claims: the clock is read, then the work.                        *)
ClaimsHold(k) ==
    LET quote == quotes[k[2]]
    IN quote.buyer = k[1] /\ quoteTime < quote.until /\ quote.release = release

ValidateReads(k) ==
    /\ orders[k].status = "started"
    /\ ClaimsHold(k)
    /\ orders' = [orders EXCEPT ![k] = [status |-> "resolving", at |-> quoteTime]]
    /\ UNCHANGED <<work, release, quotes, charges, workEdits, quoteTime>>

SameAmount(quote) == work # NotPublished /\ PartsAmount(work) = quote.amount
StillCurrent(quote) ==
    /\ work # NotPublished /\ Priceable(work)
    /\ Digest(work) = quote.digest /\ PartsAmount(work) = quote.amount

ValidateQuote(k) ==
    /\ orders[k].status = "resolving"
    /\ StillCurrent(quotes[k[2]])
    /\ orders' = [orders EXCEPT ![k] = [status |-> "validated", at |-> orders[k].at,
                                        saw |-> work]]
    /\ UNCHANGED <<work, release, quotes, charges, workEdits, quoteTime>>

(* A refusal, or an answer that was lost: the workflow tries again or ends.*)
ValidateFails(k, status) ==
    /\ orders[k].status \in {"started", "resolving"}
    /\ orders' = [orders EXCEPT ![k] = [status |-> status]]
    /\ UNCHANGED <<work, release, quotes, charges, workEdits, quoteTime>>

(* The debit is of the amount in the token; a repeated one of the same     *)
(* consumption key is the same entry.                                      *)
Debit(k) ==
    /\ orders[k].status = "validated"
    /\ charges' = charges \union {<<k, quotes[k[2]].amount>>}
    /\ orders' \in {orders, [orders EXCEPT ![k].status = "charged"]}
    /\ UNCHANGED <<work, release, quotes, workEdits, quoteTime>>

QuotesNext ==
    \/ \E files \in Manifests \union {NotPublished} : WorkChanges(files)
    \/ Deploys
    \/ QuoteTimePasses
    \/ \E b \in Buyers : QuoteBusinessProduct(b)
    \/ \E k \in Keys : \/ Consume(k) \/ ValidateReads(k) \/ ValidateQuote(k) \/ Debit(k)
                       \/ \E status \in {"started", "failed"} : ValidateFails(k, status)

QuotesSpec == QuotesInit /\ [][QuotesNext]_quotesVars

FilesOf(files) == {files[i] : i \in DOMAIN files}
TotalSize(files) == SumFunction([i \in DOMAIN files |-> files[i].size])
StartedParts(files) == (TotalSize(files) + PartBytes - 1) \div PartBytes

(* Whoever is charged pays for every part of PartBytes the quoted files    *)
(* start, for a quote of their own; and the work still had these very      *)
(* files when the order was validated, by a clock read before the quote    *)
(* ended (price_archive_files_fixed_v1 and _fresh_claims).                 *)
ChargedAsQuoted ==
    \A c \in charges :
      LET k == c[1]
          quote == quotes[k[2]]
      IN /\ quote.buyer = k[1]
         /\ c[2] = UnitPoints * StartedParts(quote.of)
         /\ FilesOf(orders[k].saw) = FilesOf(quote.of)
         /\ orders[k].at < quote.until
=============================================================================
