-------------------------------- MODULE MCSite --------------------------------
(***************************************************************************)
(* More components that share no table, side by side, in the manner of     *)
(* MCServices: each behaviour is one of `active`.                          *)
(***************************************************************************)
EXTENDS Archive, Identity, Comments, Taxonomy, AdminSession, Quotes,
        PointsReplay, PaymentProviders, SiteSession, Mailers,
        CheckIns, Programs, Levels, Paging, TLC

CONSTANT test  \* the PayPal account of the sandbox

VARIABLE active

\* The configuration gives the components' requests the same names, and their
\* locators, slugs, sessions and buyers: two of either differ in nothing.  The
\* properties are safety properties.
Interchangeable == Permutations(Desks) \union Permutations(Locators)

\* Both locators name the same file: a migration always passes its checksum.
SameFile == [l \in Locators |-> CHOOSE s \in Sums : TRUE]

\* Manifests that can be priced, and one for each way they cannot.
File(id, number, size) == [id |-> id, number |-> number, size |-> size]
SomeManifests ==
    {<<File(1, 1, 1)>>, <<File(1, 1, 2)>>, <<File(1, 1, 3)>>,
     <<File(1, 1, 2), File(2, 2, 1)>>, <<File(2, 2, 1), File(1, 1, 2)>>,
     <<File(1, 1, 1), File(2, 2, 2)>>, <<File(1, 1, 2), File(1, 2, 1)>>,
     <<File(1, 1, 2), File(2, 3, 1)>>}

\* The balance that lasts is spent last.
SoonFirst == [p \in Pots |-> IF p = Lasting THEN 2 ELSE 1]
Environments == [a \in Paypals |-> IF a = test THEN "sandbox" ELSE "production"]

Parts == {"archive", "identity", "comments", "taxonomy", "admin session", "quotes",
          "points replay", "payment providers", "site session", "mailers",
          "check-ins", "programs", "levels", "paging"}

a_ == archiveVars
i_ == identityVars
c_ == commentsVars
t_ == taxonomyVars
s_ == adminSessionVars
q_ == quotesVars
r_ == replayVars
p_ == providersVars
w_ == siteSessionVars
m_ == mailersVars
k_ == checkInsVars
g_ == programsVars
l_ == levelsVars
o_ == pagingVars

siteVars == <<active, a_, i_, c_, t_, s_, q_, r_, p_, w_, m_, k_, g_, l_, o_>>

\* A component that takes no steps starts in one of its initial states.
SiteInit ==
    /\ active \in Parts
    /\ ArchiveInit /\ IdentityInit /\ CommentsInit /\ TaxonomyInit /\ AdminSessionInit
    /\ QuotesInit /\ ReplayInit /\ ProvidersInit /\ SiteSessionInit /\ MailersInit
    /\ CheckInsInit /\ ProgramsInit /\ LevelsInit /\ PagingInit
    /\ active # "paging" => listing = {} /\ listed = <<>>
    /\ active # "payment providers" =>
         configured = [g \in Gateways |-> CHOOSE m \in MerchantsOf(g) : TRUE]
    /\ active # "mailers" => composed = "resolver" /\ switch = [p \in Mailboxes |-> "on"]

SiteNext ==
    \/ /\ active = "archive"
       /\ UNCHANGED <<active, i_, c_, t_, s_, q_, r_, p_, w_, m_, k_, g_, l_, o_>>
       /\ ArchiveNext
    \/ /\ active = "identity"
       /\ UNCHANGED <<active, a_, c_, t_, s_, q_, r_, p_, w_, m_, k_, g_, l_, o_>>
       /\ IdentityNext
    \/ /\ active = "comments"
       /\ UNCHANGED <<active, a_, i_, t_, s_, q_, r_, p_, w_, m_, k_, g_, l_, o_>>
       /\ CommentsNext
    \/ /\ active = "taxonomy"
       /\ UNCHANGED <<active, a_, i_, c_, s_, q_, r_, p_, w_, m_, k_, g_, l_, o_>>
       /\ TaxonomyNext
    \/ /\ active = "admin session"
       /\ UNCHANGED <<active, a_, i_, c_, t_, q_, r_, p_, w_, m_, k_, g_, l_, o_>>
       /\ AdminSessionNext
    \/ /\ active = "quotes"
       /\ UNCHANGED <<active, a_, i_, c_, t_, s_, r_, p_, w_, m_, k_, g_, l_, o_>>
       /\ QuotesNext
    \/ /\ active = "points replay"
       /\ UNCHANGED <<active, a_, i_, c_, t_, s_, q_, p_, w_, m_, k_, g_, l_, o_>>
       /\ ReplayNext
    \/ /\ active = "payment providers"
       /\ UNCHANGED <<active, a_, i_, c_, t_, s_, q_, r_, w_, m_, k_, g_, l_, o_>>
       /\ ProvidersNext
    \/ /\ active = "site session"
       /\ UNCHANGED <<active, a_, i_, c_, t_, s_, q_, r_, p_, m_, k_, g_, l_, o_>>
       /\ SiteSessionNext
    \/ /\ active = "mailers"
       /\ UNCHANGED <<active, a_, i_, c_, t_, s_, q_, r_, p_, w_, k_, g_, l_, o_>>
       /\ MailersNext
    \/ /\ active = "check-ins"
       /\ UNCHANGED <<active, a_, i_, c_, t_, s_, q_, r_, p_, w_, m_, g_, l_, o_>>
       /\ CheckInsNext
    \/ /\ active = "programs"
       /\ UNCHANGED <<active, a_, i_, c_, t_, s_, q_, r_, p_, w_, m_, k_, l_, o_>>
       /\ ProgramsNext
    \/ /\ active = "levels"
       /\ UNCHANGED <<active, a_, i_, c_, t_, s_, q_, r_, p_, w_, m_, k_, g_, o_>>
       /\ LevelsNext
    \/ /\ active = "paging"
       /\ UNCHANGED <<active, a_, i_, c_, t_, s_, q_, r_, p_, w_, m_, k_, g_, l_>>
       /\ PagingNext

SiteSpec == SiteInit /\ [][SiteNext]_siteVars

(* The component that takes steps keeps to its types.                      *)
SiteTypeOK ==
    CASE active = "archive" -> ArchiveTypeOK
      [] active = "identity" -> IdentityTypeOK
      [] active = "comments" -> CommentsTypeOK
      [] active = "taxonomy" -> TaxonomyTypeOK
      [] active = "admin session" -> AdminSessionTypeOK
      [] active = "quotes" -> QuotesTypeOK
      [] active = "points replay" -> ReplayTypeOK
      [] active = "payment providers" -> ProvidersTypeOK
      [] active = "site session" -> SiteSessionTypeOK
      [] active = "mailers" -> MailersTypeOK
      [] active = "check-ins" -> CheckInsTypeOK
      [] active = "programs" -> ProgramsTypeOK
      [] active = "levels" -> LevelsTypeOK
      [] active = "paging" -> PagingTypeOK
=============================================================================
