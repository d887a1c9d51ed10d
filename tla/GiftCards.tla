----------------------------- MODULE GiftCards -----------------------------
(***************************************************************************)
(* The gift_cards capability and the user center's redemption workflow:    *)
(* cards of one batch generated here, and purchases at an outside platform *)
(* whose claims are redeemed.                                              *)
(*                                                                         *)
(* Reserve locks the card; commit, cancel and revoke read their row and    *)
(* write it without a condition.  A redemption of a source that is         *)
(* reserved or committed is unique by an index of the database.            *)
(***************************************************************************)
EXTENDS Integers, FiniteSets, Sequences

CONSTANTS
    Cards,          \* the cards of the batch
    Claims,         \* purchases at the outside platform
    GiftKeys,       \* idempotency keys of redemption requests
    Desks,          \* commands that may be open at one time
    CancelsAny,     \* TRUE if staff cancel redemptions that are under way
    ReserveTtl,     \* how long a reservation lasts
    BatchEnds,      \* when the batch expires
    MaxGiftTime,    \* bound: the clock
    MaxGiftCalls    \* bound: commands begun

ASSUME GiftCardsAssumption ==
    /\ Cards \intersect Claims = {}
    /\ CancelsAny \in BOOLEAN
    /\ ReserveTtl \in Nat \ {0} /\ BatchEnds \in Nat
    /\ MaxGiftTime \in Nat /\ MaxGiftCalls \in Nat

VARIABLES
    batch,         \* the gift_card_batches row
    card,          \* the gift_cards rows
    claim,         \* the gift_card_external_claims rows
    redemptions,   \* the gift_card_redemptions rows in order of creation
    redeeming,     \* the workflow of each redemption
    fulfilled,     \* redemptions whose benefit was granted, by ledger key
    desk,          \* the open commands
    giftNow,
    giftCalls

giftCardsVars == <<batch, card, claim, redemptions, redeeming, fulfilled,
                   desk, giftNow, giftCalls>>

Sources == Cards \union Claims
RedemptionIds == 1..Len(redemptions)
GiftSteps == {"none", "started", "validated", "credited", "committed", "failed"}

GiftCardsTypeOK ==
    /\ batch \in {"none", "active", "closed"}
    /\ card \in [Cards -> [status : {"none", "issued", "reserved", "redeemed", "revoked"},
                           redemption : 0..Len(redemptions), until : Nat]]
    /\ claim \in [Claims -> [known : BOOLEAN, redemption : 0..Len(redemptions)]]
    /\ \A i \in RedemptionIds : redemptions[i] \in
          [source : Sources, key : GiftKeys, until : Nat,
           status : {"reserved", "committed", "cancelled"}]
    /\ redeeming \in [RedemptionIds -> GiftSteps]
    /\ fulfilled \subseteq RedemptionIds
    /\ DOMAIN desk = Desks
    /\ giftNow \in 0..MaxGiftTime /\ giftCalls \in 0..MaxGiftCalls

GiftCardsInit ==
    /\ batch = "none"
    /\ card = [c \in Cards |-> [status |-> "none", redemption |-> 0, until |-> 0]]
    /\ claim = [c \in Claims |-> [known |-> FALSE, redemption |-> 0]]
    /\ redemptions = <<>>
    /\ redeeming = <<>>
    /\ fulfilled = {}
    /\ desk = [d \in Desks |-> <<>>]
    /\ giftNow = 0
    /\ giftCalls = 0

Free(d) == desk[d] = <<>>

Opens(d, call) ==
    /\ Free(d) /\ giftCalls < MaxGiftCalls
    /\ giftCalls' = giftCalls + 1
    /\ desk' = [desk EXCEPT ![d] = call]

(* The command at a desk commits its unit of work.                         *)
Closes(d, point) ==
    /\ ~Free(d) /\ desk[d][1] = point
    /\ desk' = [desk EXCEPT ![d] = <<>>]
    /\ UNCHANGED giftCalls

GiveUpGift(d) ==
    /\ ~Free(d)
    /\ desk' = [desk EXCEPT ![d] = <<>>]
    /\ UNCHANGED <<batch, card, claim, redemptions, redeeming, fulfilled, giftNow, giftCalls>>

-----------------------------------------------------------------------------
(* GenerateGiftCardBatch: once per key; CloseGiftCardBatch.                *)
GenerateGiftCardBatch ==
    /\ batch = "none" /\ giftNow < BatchEnds
    /\ batch' = "active"
    /\ card' = [c \in Cards |-> [card[c] EXCEPT !.status = "issued"]]
    /\ UNCHANGED <<claim, redemptions, redeeming, fulfilled, desk, giftNow, giftCalls>>

CloseGiftCardBatch ==
    /\ batch = "active"
    /\ batch' = "closed"
    /\ UNCHANGED <<card, claim, redemptions, redeeming, fulfilled, desk, giftNow, giftCalls>>

(* RevokeGiftCard, of a card read as issued.                               *)
RevokeReads(d, c) ==
    /\ card[c].status = "issued"
    /\ Opens(d, <<"revoking", c>>)
    /\ UNCHANGED <<batch, card, claim, redemptions, redeeming, fulfilled, giftNow>>

RevokeGiftCard(d) ==
    /\ Closes(d, "revoking")
    /\ card' = [card EXCEPT ![desk[d][2]].status = "revoked"]
    /\ UNCHANGED <<batch, claim, redemptions, redeeming, fulfilled, giftNow>>

-----------------------------------------------------------------------------
SourceIsFree(s) ==
    \A i \in RedemptionIds : redemptions[i].source = s => redemptions[i].status = "cancelled"

(* What both kinds of source do to reserve: a new redemption, for a key    *)
(* not seen before.                                                        *)
Reserves(k, s) ==
    /\ \A i \in RedemptionIds : redemptions[i].key # k
    /\ SourceIsFree(s)
    /\ redemptions' = Append(redemptions, [source |-> s, key |-> k, status |-> "reserved",
                                           until |-> giftNow + ReserveTtl])
    /\ redeeming' = Append(redeeming, "none")

(* ReserveGiftCardRedemption of a card, under its lock: one that is issued *)
(* or whose reservation lapsed, of a batch that has not expired.  A card   *)
(* found expired is refused, and the refusal rolls its new status back.    *)
ReserveCard(k, c) ==
    /\ batch # "none" /\ giftNow < BatchEnds
    /\ \/ card[c].status = "issued"
       \/ card[c].status = "reserved" /\ card[c].until <= giftNow
    /\ Reserves(k, c)
    /\ card' = [card EXCEPT ![c] = [status |-> "reserved", redemption |-> Len(redemptions) + 1,
                                    until |-> giftNow + ReserveTtl]]
    /\ UNCHANGED <<batch, claim, fulfilled, desk, giftNow, giftCalls>>

(* ... of an outside purchase the provider says is paid.                   *)
ReserveClaim(k, c) ==
    /\ claim[c].redemption = 0
    /\ Reserves(k, c)
    /\ claim' = [claim EXCEPT ![c] = [known |-> TRUE, redemption |-> Len(redemptions) + 1]]
    /\ UNCHANGED <<batch, card, fulfilled, desk, giftNow, giftCalls>>

(* RecordProviderPurchase and RecordProviderWebhook: the fact, once.       *)
RecordProviderPurchase(c) ==
    /\ ~claim[c].known
    /\ claim' = [claim EXCEPT ![c].known = TRUE]
    /\ UNCHANGED <<batch, card, redemptions, redeeming, fulfilled, desk, giftNow, giftCalls>>

(* CommitGiftCardRedemption, an activity of the workflow.                  *)
CommitReads(d, i) ==
    /\ redeeming[i] = "credited"
    /\ redemptions[i].status = "reserved" /\ giftNow < redemptions[i].until
    /\ Opens(d, <<"committing", i>>)
    /\ UNCHANGED <<batch, card, claim, redemptions, redeeming, fulfilled, giftNow>>

CommitGiftCardRedemption(d) ==
    /\ Closes(d, "committing")
    /\ LET i == desk[d][2]
           s == redemptions[i].source
       IN
       /\ SourceIsFree(s) \/ redemptions[i].status # "cancelled"
       /\ redemptions' = [redemptions EXCEPT ![i].status = "committed"]
       /\ IF s \in Cards
          THEN /\ card' = [card EXCEPT ![s].status = "redeemed", ![s].until = 0]
               /\ UNCHANGED claim
          ELSE /\ claim' = [claim EXCEPT ![s].redemption = i]
               /\ UNCHANGED card
    /\ UNCHANGED <<batch, redeeming, fulfilled, giftNow>>

(* CancelGiftCardRedemption, by staff, who should know that nothing was    *)
(* granted: the workflow of the redemption failed.                         *)
CancelGiftReads(d, i) ==
    /\ redemptions[i].status = "reserved"
    /\ CancelsAny \/ (redeeming[i] = "failed" /\ i \notin fulfilled)
    /\ Opens(d, <<"cancelling", i>>)
    /\ UNCHANGED <<batch, card, claim, redemptions, redeeming, fulfilled, giftNow>>

CancelGiftCardRedemption(d) ==
    /\ Closes(d, "cancelling")
    /\ LET i == desk[d][2]
           s == redemptions[i].source
       IN
       /\ redemptions' = [redemptions EXCEPT ![i].status = "cancelled"]
       /\ IF s \in Cards
          THEN /\ card' = IF card[s].status = "reserved"
                          THEN [card EXCEPT ![s] = [status |-> "issued", redemption |-> 0, until |-> 0]]
                          ELSE card
               /\ UNCHANGED claim
          ELSE /\ claim' = [claim EXCEPT ![s].redemption = 0]
               /\ UNCHANGED card
    /\ UNCHANGED <<batch, redeeming, fulfilled, giftNow>>

-----------------------------------------------------------------------------
(* redeem_gift_card starts one workflow per redemption; validate, credit   *)
(* and commit are its activities.                                          *)
Redeems(i, from, to) ==
    /\ redeeming[i] = from
    /\ redeeming' = [redeeming EXCEPT ![i] = to]
    /\ UNCHANGED <<batch, card, claim, redemptions, desk, giftNow, giftCalls>>

StartRedeeming(i) == Redeems(i, "none", "started") /\ UNCHANGED fulfilled

ValidateRedemption(i) ==
    /\ Redeems(i, "started", IF redemptions[i].status = "cancelled" THEN "failed" ELSE "validated")
    /\ UNCHANGED fulfilled

FulfillRedemption(i) ==
    /\ redeeming[i] = "validated"
    /\ fulfilled' = fulfilled \union {i}
    /\ UNCHANGED <<batch, card, claim, redemptions, redeeming, desk, giftNow, giftCalls>>

RecordRedeeming(i) ==
    /\ \/ i \in fulfilled /\ Redeems(i, "validated", "credited")
       \/ redemptions[i].status = "committed" /\ Redeems(i, "credited", "committed")
    /\ UNCHANGED fulfilled

(* The attempts run out: at the credit for an error of its own, at the     *)
(* commit when the redemption lapsed or was cancelled.                     *)
RedeemingFails(i) ==
    /\ \/ i \notin fulfilled /\ Redeems(i, "validated", "failed")
       \/ /\ \/ redemptions[i].status = "cancelled"
             \/ redemptions[i].status = "reserved" /\ redemptions[i].until <= giftNow
          /\ Redeems(i, "credited", "failed")
    /\ UNCHANGED fulfilled

GiftTimePasses ==
    /\ giftNow < MaxGiftTime
    /\ giftNow' = giftNow + 1
    /\ UNCHANGED <<batch, card, claim, redemptions, redeeming, fulfilled, desk, giftCalls>>

GiftCardsNext ==
    \/ GenerateGiftCardBatch \/ CloseGiftCardBatch \/ GiftTimePasses
    \/ \E k \in GiftKeys : \/ \E c \in Cards : ReserveCard(k, c)
                           \/ \E c \in Claims : ReserveClaim(k, c)
    \/ \E c \in Claims : RecordProviderPurchase(c)
    \/ \E i \in RedemptionIds :
          \/ StartRedeeming(i) \/ ValidateRedemption(i) \/ FulfillRedemption(i)
          \/ RecordRedeeming(i) \/ RedeemingFails(i)
    \/ \E d \in Desks :
          \/ \E c \in Cards : RevokeReads(d, c)
          \/ \E i \in RedemptionIds : CommitReads(d, i) \/ CancelGiftReads(d, i)
          \/ RevokeGiftCard(d) \/ CommitGiftCardRedemption(d)
          \/ CancelGiftCardRedemption(d) \/ GiveUpGift(d)

GiftCardsSpec == GiftCardsInit /\ [][GiftCardsNext]_giftCardsVars

-----------------------------------------------------------------------------
(* However reservations lapse, and workflows run late or fail, a card or   *)
(* an outside purchase grants its benefit once.                            *)
GrantedOncePerSource ==
    \A i, j \in fulfilled : redemptions[i].source = redemptions[j].source => i = j

=============================================================================
