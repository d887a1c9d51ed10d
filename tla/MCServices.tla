------------------------------ MODULE MCServices ------------------------------
(***************************************************************************)
(* Components that share no table, side by side: each behaviour is one of  *)
(* `active`, which alone takes steps.  The instance is the sum of the      *)
(* instances of its components, and its states are never a product.        *)
(***************************************************************************)
EXTENDS Membership, GiftCards, SignIn, Community, Assets, Access,
        Settings, SigningKeys, Engagement, Notification, Consumption,
        Fulfillment, MCPoints

VARIABLE active

\* Two requests, or two keys, differ in nothing; the properties are safety properties.
Interchangeable == Permutations(Members) \union Permutations(Purchases)

Services == {"membership", "gift cards", "sign in", "community", "tags", "assets",
             "access", "settings", "keys", "engagement", "notification", "consumption",
             "fulfillment", "points"}

m_ == membershipVars
g_ == giftCardsVars
s_ == signInVars
c_ == communityVars
t_ == communityTagsVars
a_ == assetsVars
x_ == accessVars
e_ == settingsVars
k_ == keyVars
v_ == engagementVars
n_ == notificationVars
w_ == consumptionVars
f_ == <<paymentsVars, fulfillmentVars>>
l_ == pointsVars

servicesVars == <<active, m_, g_, s_, c_, t_, a_, x_, e_, k_, v_, n_, w_, f_, l_>>

ServicesInit ==
    /\ active \in Services
    /\ MembershipInit /\ GiftCardsInit /\ SignInInit /\ CommunityInit /\ CommunityTagsInit
    /\ AssetsInit /\ AccessInit /\ SettingsInit /\ KeysInit /\ EngagementInit
    /\ NotificationInit /\ ConsumptionInit /\ FulfillmentInit /\ PointsInit
    /\ active # "membership" => sub.status = "none"

ServicesNext ==
    \/ /\ active = "membership"
       /\ UNCHANGED <<active, g_, s_, c_, t_, a_, x_, e_, k_, v_, n_, w_, f_, l_>>
       /\ MembershipNext
    \/ /\ active = "gift cards"
       /\ UNCHANGED <<active, m_, s_, c_, t_, a_, x_, e_, k_, v_, n_, w_, f_, l_>>
       /\ GiftCardsNext
    \/ /\ active = "sign in"
       /\ UNCHANGED <<active, m_, g_, c_, t_, a_, x_, e_, k_, v_, n_, w_, f_, l_>>
       /\ SignInNext
    \/ /\ active = "community"
       /\ UNCHANGED <<active, m_, g_, s_, t_, a_, x_, e_, k_, v_, n_, w_, f_, l_>>
       /\ CommunityNext
    \/ /\ active = "tags"
       /\ UNCHANGED <<active, m_, g_, s_, c_, a_, x_, e_, k_, v_, n_, w_, f_, l_>>
       /\ CommunityTagsNext
    \/ /\ active = "assets"
       /\ UNCHANGED <<active, m_, g_, s_, c_, t_, x_, e_, k_, v_, n_, w_, f_, l_>>
       /\ AssetsNext
    \/ /\ active = "access"
       /\ UNCHANGED <<active, m_, g_, s_, c_, t_, a_, e_, k_, v_, n_, w_, f_, l_>>
       /\ AccessNext
    \/ /\ active = "settings"
       /\ UNCHANGED <<active, m_, g_, s_, c_, t_, a_, x_, k_, v_, n_, w_, f_, l_>>
       /\ SettingsNext
    \/ /\ active = "keys"
       /\ UNCHANGED <<active, m_, g_, s_, c_, t_, a_, x_, e_, v_, n_, w_, f_, l_>>
       /\ KeysNext
    \/ /\ active = "engagement"
       /\ UNCHANGED <<active, m_, g_, s_, c_, t_, a_, x_, e_, k_, n_, w_, f_, l_>>
       /\ EngagementNext
    \/ /\ active = "notification"
       /\ UNCHANGED <<active, m_, g_, s_, c_, t_, a_, x_, e_, k_, v_, w_, f_, l_>>
       /\ NotificationNext
    \/ /\ active = "consumption"
       /\ UNCHANGED <<active, m_, g_, s_, c_, t_, a_, x_, e_, k_, v_, n_, f_, l_>>
       /\ ConsumptionNext
    \/ /\ active = "points"
       /\ UNCHANGED <<active, m_, g_, s_, c_, t_, a_, x_, e_, k_, v_, n_, w_, f_>>
       /\ PointsNext
    \/ /\ active = "fulfillment"
       /\ UNCHANGED <<active, m_, g_, s_, c_, t_, a_, x_, e_, k_, v_, n_, w_, l_>>
       /\ FulfillmentNext

ServicesSpec == ServicesInit /\ [][ServicesNext]_servicesVars

(* A purchase makes one membership cycle, and one source redeems a benefit *)
(* once (membership and gift_cards commands.py, their unique keys).        *)
GrantedOnce == OneCyclePerPurchase /\ GrantedOncePerSource

(* What readers of the community see agrees with its rows: summaries with  *)
(* the posts they count, tags with the template they are assigned under.   *)
CommunityAddsUp == SummaryAddsUp /\ AssignedFitTemplate

(* The component that takes steps keeps to its types.                      *)
ServicesTypeOK ==
    CASE active = "membership" -> MembershipTypeOK
      [] active = "gift cards" -> GiftCardsTypeOK
      [] active = "sign in" -> SignInTypeOK
      [] active = "community" -> CommunityTypeOK
      [] active = "tags" -> CommunityTagsTypeOK
      [] active = "assets" -> AssetsTypeOK
      [] active = "access" -> AccessTypeOK
      [] active = "settings" -> SettingsTypeOK
      [] active = "keys" -> KeysTypeOK
      [] active = "engagement" -> EngagementTypeOK
      [] active = "notification" -> NotificationTypeOK
      [] active = "consumption" -> ConsumptionTypeOK
      [] active = "fulfillment" -> PaymentsTypeOK /\ FulfillmentTypeOK
      [] active = "points" -> PointsTypeOK
=============================================================================
