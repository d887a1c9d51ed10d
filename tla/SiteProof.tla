------------------------------ MODULE SiteProof ------------------------------
(***************************************************************************)
(* What the components of the site keep, for every number of requests,     *)
(* rows and purchases, and without the bounds that TLC needs.              *)
(***************************************************************************)
EXTENDS MCSite, PortalProof

-----------------------------------------------------------------------------
(* Archive: a version of the item names one locator.  A purchase keeps the *)
(* locator of the version it was granted for, a resolution goes on only if *)
(* that version is still the item's, and every edit raises the version.    *)

ItemRows == [state : ItemStates, version : Nat \ {0}, locator : Locators, sum : Sums,
             verified : BOOLEAN]
GrantRows == [status : {"pending", "active", "expired", "revoked"}, version : Nat,
              file : Locators, until : Nat]

ArchiveTyped ==
    /\ item = NoItem \/ item \in ItemRows
    /\ bought \in [Purchases -> GrantRows \union {NoGrant}]
    /\ archiveTime \in Nat

\* Row i has been granted under this version, and names this file while it is current.
NamedBy(i, version, file) ==
    /\ i \in ItemRows
    /\ version <= i.version
    /\ version = i.version => i.locator = file

\* What a request is in the middle of was read from rows that were there.
DeskSound(doing, i, b) ==
    /\ doing[1] = "verifying" => doing[2] \in Locators /\ i \in ItemRows
    /\ doing[1] = "migrating" => doing[2] \in Locators /\ doing[3] \in Sums /\ i \in ItemRows
    /\ doing[1] = "issuing" =>
         /\ doing[2] \in Purchases /\ doing[3] \in Nat /\ doing[4] \in Locators
         /\ NamedBy(i, doing[3], doing[4])
    /\ doing[1] = "deciding" =>
         /\ doing[2] \in Purchases /\ b[doing[2]] # NoGrant
         /\ doing[3] \in {"active", "expired", "revoked"}
    /\ doing[1] \in {"asking", "recording"} =>
         doing[2] \in Purchases /\ b[doing[2]] # NoGrant /\ b[doing[2]].file = doing[3]

ArchiveInv ==
    /\ ArchiveTyped
    /\ DOMAIN desk = Desks
    /\ \A d \in Desks : DeskSound(desk[d], item, bought)
    /\ \A k \in Purchases :
         bought[k] # NoGrant => NamedBy(item, bought[k].version, bought[k].file)
    /\ \A l \in links : l[1] \in Purchases /\ bought[l[1]] # NoGrant
    /\ DeliveredAsGranted

\* The item stays, appears, or is edited under the next version.
ItemMoves ==
    \/ item' = item
    \/ item = NoItem /\ item' \in ItemRows
    \/ item # NoItem /\ item' \in ItemRows /\ item'.version = item.version + 1

\* A purchase, once granted, stays granted the same file of the same version.
GrantsStay ==
    \A k \in Purchases : bought[k] # NoGrant =>
        /\ bought'[k] # NoGrant
        /\ bought'[k].file = bought[k].file /\ bought'[k].version = bought[k].version

\* A row has a state and a grant has a file, as nothing that is missing does.
LEMMA MissingRows ==
  /\ NoItem \notin ItemRows
  /\ NoGrant \notin GrantRows
<1>1. NoItem.state \notin ItemStates
  BY DEF NoItem, ItemStates
<1>2. NoGrant.status \notin {"pending", "active", "expired", "revoked"}
  BY DEF NoGrant
<1> QED
  BY <1>1, <1>2 DEF ItemRows, GrantRows

\* An edit raises the version, so a name that was given stays what it was.
LEMMA NamesStay ==
  ASSUME ArchiveTyped, ItemMoves
  PROVE  \A v \in Nat : \A f : NamedBy(item, v, f) => NamedBy(item', v, f)
<1> SUFFICES ASSUME NEW v \in Nat, NEW f, NamedBy(item, v, f)
             PROVE  NamedBy(item', v, f)
  OBVIOUS
<1>1. CASE item' = item
  BY <1>1
<1>2. CASE item' \in ItemRows /\ item'.version = item.version + 1
  <2>1. item.version \in Nat /\ v <= item.version
    BY <1>2 DEF ItemRows, NamedBy
  <2>2. v <= item'.version /\ v # item'.version
    BY <1>2, <2>1
  <2> QED
    BY <1>2, <2>2 DEF NamedBy
<1>3. item # NoItem
  BY MissingRows DEF NamedBy
<1> QED
  BY <1>1, <1>2, <1>3 DEF ItemMoves

\* A request whose rows move on stays sound.
LEMMA DesksStay ==
  ASSUME ArchiveTyped, ItemMoves, GrantsStay
  PROVE  \A doing : DeskSound(doing, item, bought) => DeskSound(doing, item', bought')
<1> SUFFICES ASSUME NEW doing, DeskSound(doing, item, bought)
             PROVE  DeskSound(doing, item', bought')
  OBVIOUS
<1>1. item \in ItemRows => item' \in ItemRows
  BY MissingRows DEF ItemMoves
<1>2. doing[1] = "issuing" => NamedBy(item', doing[3], doing[4])
  BY NamesStay DEF DeskSound
<1> QED
  BY <1>1, <1>2 DEF DeskSound, GrantsStay

\* Whatever command commits beside the requests, the invariant survives.
LEMMA ArchiveMoves ==
  ASSUME ArchiveInv, ArchiveTyped', ItemMoves, GrantsStay, DOMAIN desk' = Desks,
         \A k \in Purchases : bought[k] = NoGrant /\ bought'[k] # NoGrant =>
            NamedBy(item', bought'[k].version, bought'[k].file),
         \A l \in links' \ links :
            l[1] \in Purchases /\ bought[l[1]] # NoGrant /\ bought[l[1]].file = l[2],
         \A d \in Desks : desk'[d] = desk[d] \/ DeskSound(desk'[d], item', bought')
  PROVE  ArchiveInv'
<1>1. \A d \in Desks : DeskSound(desk'[d], item', bought')
  BY DesksStay DEF ArchiveInv
<1>2. ASSUME NEW k \in Purchases, bought'[k] # NoGrant
      PROVE  NamedBy(item', bought'[k].version, bought'[k].file)
  <2>1. CASE bought[k] # NoGrant
    <3>1. bought[k] \in GrantRows /\ NamedBy(item, bought[k].version, bought[k].file)
      BY <2>1 DEF ArchiveInv, ArchiveTyped
    <3>2. bought[k].version \in Nat
      BY <3>1 DEF GrantRows
    <3>3. NamedBy(item', bought[k].version, bought[k].file)
      BY <3>1, <3>2, NamesStay DEF ArchiveInv
    <3> QED
      BY <2>1, <3>3 DEF GrantsStay
  <2> QED
    BY <1>2, <2>1
<1>3. \A l \in links' : l[1] \in Purchases /\ bought'[l[1]] # NoGrant /\ bought'[l[1]].file = l[2]
  BY DEF ArchiveInv, DeliveredAsGranted, GrantsStay
<1> QED
  BY <1>1, <1>2, <1>3 DEF ArchiveInv, DeliveredAsGranted

\* The desk of a request that has ended says nothing.
LEMMA IdleIsSound == \A i, b : DeskSound(<<"idle">>, i, b)
  BY DEF DeskSound

\* An edit leaves a row of the next version.
LEMMA EditMoves ==
  ASSUME item \in ItemRows, NEW edited \in ItemRows, Edited(edited)
  PROVE  ItemMoves /\ item' \in ItemRows
<1>1. item.version \in Nat /\ item.version + 1 \in Nat \ {0}
  BY DEF ItemRows
<1>2. item' = [edited EXCEPT !.version = item.version + 1]
  BY DEF Edited
<1>3. item' \in ItemRows /\ item'.version = item.version + 1
  BY <1>1, <1>2 DEF ItemRows
<1> QED
  BY <1>3, MissingRows DEF ItemMoves

\* A command that leaves grants and links alone may edit the item as it will.
LEMMA ItemEdits ==
  ASSUME ArchiveInv, ItemMoves, item' = NoItem \/ item' \in ItemRows,
         UNCHANGED grantVars, archiveTime' = archiveTime, DOMAIN desk' = Desks,
         \A d \in Desks : desk'[d] = desk[d] \/ DeskSound(desk'[d], item', bought)
  PROVE  ArchiveInv'
<1>1. bought' = bought /\ links' = links
  BY DEF grantVars
<1>2. ArchiveTyped' /\ GrantsStay
  BY <1>1 DEF ArchiveInv, ArchiveTyped, GrantsStay
<1> QED
  BY <1>1, <1>2, ArchiveMoves

\* The commands on the item (commands.py of the capability) keep the invariant.
LEMMA ItemSteps ==
  ASSUME ArchiveAssumption, ArchiveInv,
         \/ \E l \in Locators, s \in Sums : RegisterArchiveItem(l, s)
         \/ \E s \in Sums : UpdateArchiveItem(s)
         \/ ActivateArchiveItem
         \/ MarkArchiveItemUnavailable
         \/ RetireArchiveItem
  PROVE  ArchiveInv'
<1>1. desk' = desk /\ UNCHANGED grantVars /\ archiveTime' = archiveTime
  BY DEF RegisterArchiveItem, UpdateArchiveItem, ActivateArchiveItem,
     MarkArchiveItemUnavailable, RetireArchiveItem
<1>2. CASE \E l \in Locators, s \in Sums : RegisterArchiveItem(l, s)
  <2>1. item = NoItem /\ item' \in ItemRows
    BY <1>2 DEF RegisterArchiveItem, ItemRows, ItemStates
  <2> QED
    BY <1>1, <2>1, ItemEdits DEF ItemMoves, ArchiveInv
<1>3. ASSUME item \in ItemRows, NEW edited \in ItemRows, Edited(edited) PROVE ArchiveInv'
  BY <1>1, <1>3, EditMoves, ItemEdits DEF ArchiveInv
<1>4. ASSUME item.state \in ItemStates PROVE item \in ItemRows
  BY <1>4 DEF ArchiveInv, ArchiveTyped, NoItem, ItemStates
<1>5. ASSUME NEW s \in Sums, UpdateArchiveItem(s) PROVE ArchiveInv'
  <2>1. item \in ItemRows
    BY <1>4, <1>5 DEF UpdateArchiveItem, ItemStates
  <2>2. [item EXCEPT !.sum = s, !.state = "pending", !.verified = FALSE] \in ItemRows
    BY <2>1 DEF ItemRows, ItemStates
  <2> QED
    BY <1>3, <1>5, <2>1, <2>2 DEF UpdateArchiveItem
<1>6. CASE ActivateArchiveItem
  <2>1. item \in ItemRows
    BY <1>4, <1>6 DEF ActivateArchiveItem, ItemStates
  <2>2. [item EXCEPT !.state = "active"] \in ItemRows
    BY <2>1 DEF ItemRows, ItemStates
  <2> QED
    BY <1>3, <1>6, <2>1, <2>2 DEF ActivateArchiveItem
<1>7. CASE MarkArchiveItemUnavailable
  <2>1. item \in ItemRows
    BY <1>4, <1>7 DEF MarkArchiveItemUnavailable, ItemStates
  <2>2. [item EXCEPT !.state = "unavailable"] \in ItemRows
    BY <2>1 DEF ItemRows, ItemStates
  <2> QED
    BY <1>3, <1>7, <2>1, <2>2 DEF MarkArchiveItemUnavailable
<1>8. CASE RetireArchiveItem
  <2>1. item \in ItemRows
    BY <1>4, <1>8 DEF RetireArchiveItem, ItemStates
  <2>2. [item EXCEPT !.state = "retired"] \in ItemRows
    BY <2>1 DEF ItemRows, ItemStates
  <2> QED
    BY <1>3, <1>8, <2>1, <2>2 DEF RetireArchiveItem
<1> QED
  BY <1>2, <1>5, <1>6, <1>7, <1>8

\* Verification and migration, with the provider's answer between their transactions.
LEMMA ProviderSteps ==
  ASSUME ArchiveAssumption, ArchiveInv, NEW d \in Desks, NEW l, NEW expected, NEW answer,
         \/ VerifyReads(d, expected)
         \/ l \in Locators /\ MigrateReads(d, l, expected)
         \/ VerifyArchiveItem(d, answer) \/ MigrateArchiveItemProvider(d)
  PROVE  ArchiveInv'
<1>1. UNCHANGED grantVars /\ archiveTime' = archiveTime
  BY DEF VerifyReads, MigrateReads, VerifyArchiveItem, MigrateArchiveItemProvider
<1>2. ASSUME item.state \in ItemStates PROVE item \in ItemRows
  BY <1>2 DEF ArchiveInv, ArchiveTyped, NoItem, ItemStates
<1>3. ASSUME NEW what, Sets(d, what), ItemMoves, item' = NoItem \/ item' \in ItemRows,
             DeskSound(what, item', bought)
      PROVE  ArchiveInv'
  <2>1. DOMAIN desk' = Desks /\ \A e \in Desks : desk'[e] = IF e = d THEN what ELSE desk[e]
    BY <1>3 DEF Sets, ArchiveInv
  <2> QED
    BY <1>1, <1>3, <2>1, ItemEdits
<1>4. item' = item => ItemMoves /\ (item' = NoItem \/ item' \in ItemRows)
  BY DEF ItemMoves, ArchiveInv, ArchiveTyped
<1>5. CASE VerifyReads(d, expected)
  <2>1. item \in ItemRows /\ item' = item /\ Sets(d, <<"verifying", item.locator, expected>>)
    BY <1>2, <1>5 DEF VerifyReads, ItemStates
  <2>2. DeskSound(<<"verifying", item.locator, expected>>, item', bought)
    BY <2>1 DEF DeskSound, ItemRows
  <2> QED
    BY <1>3, <1>4, <2>1, <2>2
<1>6. CASE l \in Locators /\ MigrateReads(d, l, expected)
  <2>1. item \in ItemRows /\ item' = item /\ Sets(d, <<"migrating", l, item.sum, expected>>)
    BY <1>2, <1>6 DEF MigrateReads, ItemStates
  <2>2. DeskSound(<<"migrating", l, item.sum, expected>>, item', bought)
    BY <1>6, <2>1 DEF DeskSound, ItemRows
  <2> QED
    BY <1>3, <1>4, <2>1, <2>2
<1>7. ASSUME item \in ItemRows, NEW edited \in ItemRows, Edited(edited), Sets(d, <<"idle">>)
      PROVE  ArchiveInv'
  BY <1>3, <1>7, EditMoves, IdleIsSound
<1>8. CASE VerifyArchiveItem(d, answer)
  <2>1. item \in ItemRows /\ Sets(d, <<"idle">>)
    BY <1>8 DEF VerifyArchiveItem, DeskIn, ArchiveInv, DeskSound
  <2>2. [item EXCEPT !.state = "unavailable"] \in ItemRows
    BY <2>1 DEF ItemRows, ItemStates
  <2>3. [item EXCEPT !.verified = TRUE,
                     !.state = IF @ = "unavailable" THEN "pending" ELSE @] \in ItemRows
    BY <2>1 DEF ItemRows, ItemStates
  <2>4. \/ item' = item
        \/ Edited([item EXCEPT !.state = "unavailable"])
        \/ Edited([item EXCEPT !.verified = TRUE,
                               !.state = IF @ = "unavailable" THEN "pending" ELSE @])
    BY <1>8 DEF VerifyArchiveItem
  <2> QED
    BY <1>3, <1>4, <1>7, <2>1, <2>2, <2>3, <2>4, IdleIsSound
<1>9. CASE MigrateArchiveItemProvider(d)
  <2> DEFINE edited == [item EXCEPT !.locator = desk[d][2], !.sum = desk[d][3],
                                    !.verified = TRUE, !.state = "pending"]
  <2>1. /\ item \in ItemRows /\ Sets(d, <<"idle">>) /\ Edited(edited)
        /\ desk[d][2] \in Locators /\ desk[d][3] \in Sums
    BY <1>9 DEF MigrateArchiveItemProvider, DeskIn, ArchiveInv, DeskSound
  <2>2. edited \in ItemRows
    BY <2>1 DEF ItemRows, ItemStates
  <2> QED
    BY <1>7, <2>1, <2>2
<1> QED
  BY <1>5, <1>6, <1>8, <1>9

\* The purchases of a grant: read, then written in a second step (commands.py 738-1010).
LEMMA GrantSteps ==
  ASSUME ArchiveAssumption, ArchiveInv, NEW d \in Desks, NEW k, NEW to,
         \/ k \in Purchases /\ IssueReads(d, k)
         \/ k \in Purchases /\ to \in DOMAIN GrantFrom /\ GrantReads(d, k, to)
         \/ IssueDownloadGrant(d) \/ GrantWritten(d)
  PROVE  ArchiveInv'
<1>1. /\ item' = item /\ links' = links /\ archiveTime' = archiveTime
      /\ ItemMoves
  BY DEF IssueReads, GrantReads, IssueDownloadGrant, GrantWritten, grantVars, ItemMoves
<1>2. ASSUME NEW what, Sets(d, what)
      PROVE  DOMAIN desk' = Desks /\ \A e \in Desks : desk'[e] = IF e = d THEN what ELSE desk[e]
  BY <1>2 DEF Sets, ArchiveInv
<1>3. ASSUME NEW what, Sets(d, what), DeskSound(what, item, bought), bought' = bought
      PROVE  ArchiveInv'
  <2>1. ArchiveTyped' /\ GrantsStay
    BY <1>1, <1>3 DEF ArchiveInv, ArchiveTyped, GrantsStay
  <2> QED
    BY <1>1, <1>2, <1>3, <2>1, ArchiveMoves
<1>4. ASSUME NEW entry \in GrantRows, NEW p \in Purchases, bought' = [bought EXCEPT ![p] = entry],
             NamedBy(item, entry.version, entry.file),
             bought[p] # NoGrant => entry.file = bought[p].file /\ entry.version = bought[p].version,
             Sets(d, <<"idle">>)
      PROVE  ArchiveInv'
  <2>1. /\ bought' \in [Purchases -> GrantRows \union {NoGrant}]
        /\ bought'[p] = entry /\ entry # NoGrant /\ \A q \in Purchases \ {p} : bought'[q] = bought[q]
    BY <1>4, MissingRows DEF ArchiveInv, ArchiveTyped
  <2>2. ArchiveTyped' /\ GrantsStay
    BY <1>1, <1>4, <2>1 DEF ArchiveInv, ArchiveTyped, GrantsStay
  <2> QED
    BY <1>1, <1>2, <1>4, <2>1, <2>2, IdleIsSound, ArchiveMoves
<1>5. CASE k \in Purchases /\ IssueReads(d, k)
  <2>1. item \in ItemRows /\ Sets(d, <<"issuing", k, item.version, item.locator>>) /\ bought' = bought
    BY <1>5 DEF IssueReads, grantVars, ArchiveInv, ArchiveTyped, NoItem
  <2>2. NamedBy(item, item.version, item.locator) /\ item.version \in Nat /\ item.locator \in Locators
    BY <2>1 DEF NamedBy, ItemRows
  <2>3. DeskSound(<<"issuing", k, item.version, item.locator>>, item, bought)
    BY <1>5, <2>2 DEF DeskSound
  <2> QED
    BY <1>3, <2>1, <2>3
<1>6. CASE k \in Purchases /\ to \in DOMAIN GrantFrom /\ GrantReads(d, k, to)
  <2> DEFINE written == IF to = "active" /\ bought[k].until <= archiveTime THEN "expired" ELSE to
  <2>1. Sets(d, <<"deciding", k, written>>) /\ bought' = bought
    BY <1>6 DEF GrantReads, grantVars
  <2>2. written \in {"active", "expired", "revoked"}
    BY <1>6 DEF GrantFrom
  <2>3. bought[k] # NoGrant
    BY <1>6 DEF GrantReads, GrantFrom, NoGrant
  <2> HIDE DEF written
  <2>4. DeskSound(<<"deciding", k, written>>, item, bought)
    BY <1>6, <2>2, <2>3 DEF DeskSound
  <2> QED
    BY <1>3, <2>1, <2>4
<1>7. CASE IssueDownloadGrant(d)
  <2> DEFINE p == desk[d][2]
             entry == [status |-> "pending", version |-> desk[d][3], file |-> desk[d][4],
                     until |-> archiveTime + GrantTtl]
  <2>1. /\ p \in Purchases /\ desk[d][3] \in Nat /\ desk[d][4] \in Locators
        /\ NamedBy(item, desk[d][3], desk[d][4])
    BY <1>7 DEF IssueDownloadGrant, DeskIn, ArchiveInv, DeskSound
  <2>2. archiveTime + GrantTtl \in Nat
    BY DEF ArchiveAssumption, ArchiveInv, ArchiveTyped
  <2>3. entry \in GrantRows
    BY <2>1, <2>2 DEF GrantRows
  <2>4. /\ Sets(d, <<"idle">>)
        /\ bought' = IF bought[p] = NoGrant THEN [bought EXCEPT ![p] = entry] ELSE bought
    BY <1>7 DEF IssueDownloadGrant
  <2>5. NamedBy(item, entry.version, entry.file)
    BY <2>1
  <2> HIDE DEF entry, p
  <2> QED
    BY <1>3, <1>4, <2>1, <2>3, <2>4, <2>5, IdleIsSound DEF p
<1>8. CASE GrantWritten(d)
  <2> DEFINE p == desk[d][2]
             entry == [bought[p] EXCEPT !.status = desk[d][3]]
  <2>1. /\ p \in Purchases /\ bought[p] # NoGrant
        /\ desk[d][3] \in {"active", "expired", "revoked"}
    BY <1>8 DEF GrantWritten, DeskIn, ArchiveInv, DeskSound
  <2>2. bought[p] \in GrantRows /\ NamedBy(item, bought[p].version, bought[p].file)
    BY <2>1 DEF ArchiveInv, ArchiveTyped
  <2>3. entry \in GrantRows /\ entry.version = bought[p].version /\ entry.file = bought[p].file
    BY <2>1, <2>2 DEF GrantRows
  <2>4. Sets(d, <<"idle">>) /\ bought' = [bought EXCEPT ![p] = entry]
    BY <1>8 DEF GrantWritten
  <2> HIDE DEF entry, p
  <2> QED
    BY <1>4, <2>1, <2>2, <2>3, <2>4
<1> QED
  BY <1>5, <1>6, <1>7, <1>8

\* Resolution: a transaction, the provider, a transaction (commands.py, activities.py).
LEMMA ResolveSteps ==
  ASSUME ArchiveAssumption, ArchiveInv, NEW d \in Desks, NEW k, NEW delivery,
         \/ k \in Purchases /\ ResolvePrepares(d, k)
         \/ ResolveRechecks(d) \/ ResolveRecords(d, delivery) \/ ArchiveGivesUp(d)
  PROVE  ArchiveInv'
<1>1. /\ item' = item /\ bought' = bought /\ archiveTime' = archiveTime
      /\ ItemMoves /\ ArchiveTyped' /\ GrantsStay
  BY DEF ResolvePrepares, ResolveRechecks, ResolveRecords, ArchiveGivesUp, grantVars, ItemMoves,
     ArchiveInv, ArchiveTyped, GrantsStay
<1>2. ASSUME NEW what, Sets(d, what), DeskSound(what, item, bought),
             \A l \in links' \ links :
                l[1] \in Purchases /\ bought[l[1]] # NoGrant /\ bought[l[1]].file = l[2]
      PROVE  ArchiveInv'
  <2>1. DOMAIN desk' = Desks /\ \A e \in Desks : desk'[e] = IF e = d THEN what ELSE desk[e]
    BY <1>2 DEF Sets, ArchiveInv
  <2> QED
    BY <1>1, <1>2, <2>1, ArchiveMoves
<1>3. CASE k \in Purchases /\ ResolvePrepares(d, k)
  <2>1. /\ bought[k] # NoGrant /\ item.version = bought[k].version /\ links' = links
        /\ Sets(d, <<"asking", k, item.locator, Refreshable(k)>>)
    BY <1>3 DEF ResolvePrepares, AsGranted
  <2>2. bought[k].file = item.locator
    BY <1>3, <2>1 DEF ArchiveInv, NamedBy
  <2>3. DeskSound(<<"asking", k, item.locator, Refreshable(k)>>, item, bought)
    BY <1>3, <2>1, <2>2 DEF DeskSound
  <2> QED
    BY <1>2, <2>1, <2>3
<1>4. CASE ResolveRechecks(d)
  <2>1. PICK number :
          Sets(d, <<"recording", desk[d][2], desk[d][3], desk[d][4] > 0, number>>)
    BY <1>4 DEF ResolveRechecks
  <2>2. desk[d][1] = "asking" /\ links' = links
    BY <1>4 DEF ResolveRechecks, DeskIn, grantVars
  <2>3. /\ desk[d][2] \in Purchases /\ bought[desk[d][2]] # NoGrant
        /\ bought[desk[d][2]].file = desk[d][3]
    BY <2>2 DEF ArchiveInv, DeskSound
  <2>4. DeskSound(<<"recording", desk[d][2], desk[d][3], desk[d][4] > 0, number>>, item, bought)
    BY <2>3 DEF DeskSound
  <2> QED
    BY <1>2, <2>1, <2>2, <2>4
<1>5. CASE ResolveRecords(d, delivery)
  <2>1. desk[d][1] = "recording" /\ Sets(d, <<"idle">>)
    BY <1>5 DEF ResolveRecords, DeskIn
  <2>2. links' \subseteq links \union {<<desk[d][2], desk[d][3]>>}
    BY <1>5 DEF ResolveRecords
  <2>3. /\ desk[d][2] \in Purchases /\ bought[desk[d][2]] # NoGrant
        /\ bought[desk[d][2]].file = desk[d][3]
    BY <2>1 DEF ArchiveInv, DeskSound
  <2>4. \A l \in links' \ links : l[1] = desk[d][2] /\ l[2] = desk[d][3]
    BY <2>2
  <2> QED
    BY <1>2, <2>1, <2>3, <2>4, IdleIsSound
<1>6. CASE ArchiveGivesUp(d)
  <2>1. links' = links /\ Sets(d, <<"idle">>)
    BY <1>6 DEF ArchiveGivesUp, grantVars
  <2> QED
    BY <1>2, <2>1, IdleIsSound
<1> QED
  BY <1>3, <1>4, <1>5, <1>6

LEMMA ArchiveStep == ArchiveAssumption /\ ArchiveInv /\ [ArchiveNext]_archiveVars => ArchiveInv'
<1> SUFFICES ASSUME ArchiveAssumption, ArchiveInv, [ArchiveNext]_archiveVars PROVE ArchiveInv'
  OBVIOUS
<1>1. CASE ArchiveTimePasses
  <2>1. /\ item' = item /\ bought' = bought /\ links' = links /\ desk' = desk
        /\ archiveTime' = archiveTime + 1
    BY <1>1 DEF ArchiveTimePasses, grantVars
  <2> QED
    BY <2>1 DEF ArchiveInv, ArchiveTyped, DeliveredAsGranted
<1>2. CASE UNCHANGED archiveVars
  BY <1>2 DEF archiveVars, ArchiveInv, ArchiveTyped, DeliveredAsGranted
<1>3. CASE \/ \E l \in Locators, s \in Sums : RegisterArchiveItem(l, s)
           \/ \E s \in Sums : UpdateArchiveItem(s)
           \/ ActivateArchiveItem \/ MarkArchiveItemUnavailable \/ RetireArchiveItem
  BY <1>3, ItemSteps
<1>4. CASE \/ \E d \in Desks, l \in Locators, expected \in {0, item.version} :
                VerifyReads(d, expected) \/ MigrateReads(d, l, expected)
           \/ \E d \in Desks, answer \in StatAnswers : VerifyArchiveItem(d, answer)
           \/ \E d \in Desks : MigrateArchiveItemProvider(d)
  BY <1>4, ProviderSteps
<1>5. CASE \E d \in Desks, k \in Purchases, to \in DOMAIN GrantFrom :
             IssueReads(d, k) \/ GrantReads(d, k, to) \/ ResolvePrepares(d, k)
  BY <1>5, GrantSteps, ResolveSteps
<1>6. CASE \E d \in Desks : IssueDownloadGrant(d) \/ GrantWritten(d)
  BY <1>6, GrantSteps
<1>7. CASE \/ \E d \in Desks, delivery \in Deliveries : ResolveRecords(d, delivery)
           \/ \E d \in Desks : ResolveRechecks(d) \/ ArchiveGivesUp(d)
  BY <1>7, ResolveSteps
<1> QED
  BY <1>1, <1>2, <1>3, <1>4, <1>5, <1>6, <1>7 DEF ArchiveNext

\* A link handed out is for the file that was granted, for every number of requests,
\* purchases, locators and resolutions (ResolveDownloadLinks, commands.py).
THEOREM LinksAreForWhatWasGranted == ArchiveSpec => []DeliveredAsGranted
<1>1. ArchiveInit => ArchiveInv
  BY DEF ArchiveInit, ArchiveInv, ArchiveTyped, DeskSound, DeliveredAsGranted
<1>2. ArchiveInv => DeliveredAsGranted
  BY DEF ArchiveInv
<1> QED
  BY <1>1, <1>2, ArchiveStep, ArchiveAssumption, PTL DEF ArchiveSpec

-----------------------------------------------------------------------------
(* Taxonomy: replacement n knows the replacements that had committed when  *)
(* it read the rows.  Their rows that are still there it has read, and it  *)
(* deletes them when it commits: a row is never inserted twice.            *)

\* What request l has locked or is about to, and the replacement it is.
Underway(doing) == doing[1] \in {"choosing", "waiting", "replacing", "removing"}
HasRead(doing) == doing[1] \in {"waiting", "replacing"}

\* A replacement under way has not committed, and misses no row it must delete.
WorkSound(doing, rs, done, known, calls) ==
    /\ Underway(doing) => doing[2] \in 1 .. calls /\ doing[2] \notin done
    /\ HasRead(doing) => \A r \in rs : r.by \in known[doing[2]] => r \in doing[4]

TaxonomyInv ==
    /\ taxonomyCalls \in 0 .. MaxTaxonomyCalls
    /\ DOMAIN settled = 1 .. MaxTaxonomyCalls
    /\ DOMAIN librarian = Librarians
    /\ ended \subseteq 1 .. taxonomyCalls
    /\ \A r \in rows : r.by \in ended
    /\ \A n \in 1 .. MaxTaxonomyCalls : settled[n] \subseteq ended
    /\ \A l \in Librarians : WorkSound(librarian[l], rows, ended, settled, taxonomyCalls)
    /\ \A l, k \in Librarians :
         l # k /\ Underway(librarian[l]) /\ Underway(librarian[k])
           => librarian[l][2] # librarian[k][2]
    /\ ReplacedWhole

\* A request that begins takes the next number, and has read no rows.
LEMMA TaxonomyBegins ==
  ASSUME TaxonomyAssumption, TaxonomyInv, NEW l \in Librarians, NEW doing,
         TaxonomyCall, Turns(l, doing), Underway(doing), ~HasRead(doing),
         doing[2] = taxonomyCalls + 1, UNCHANGED <<rows, settled, ended>>
  PROVE  TaxonomyInv'
<1>1. /\ taxonomyCalls' = taxonomyCalls + 1 /\ taxonomyCalls' \in 0 .. MaxTaxonomyCalls
      /\ taxonomyCalls + 1 \notin 1 .. taxonomyCalls
      /\ 1 .. taxonomyCalls \subseteq 1 .. taxonomyCalls'
      /\ taxonomyCalls + 1 \in 1 .. taxonomyCalls'
  BY DEF TaxonomyAssumption, TaxonomyInv, TaxonomyCall
<1>2. /\ DOMAIN librarian' = Librarians
      /\ \A k \in Librarians : librarian'[k] = IF k = l THEN doing ELSE librarian[k]
  BY DEF Turns, TaxonomyInv
<1>3. \A k \in Librarians : Underway(librarian[k]) => librarian[k][2] # taxonomyCalls + 1
  BY <1>1 DEF TaxonomyInv, WorkSound
<1>4. \A k \in Librarians : WorkSound(librarian'[k], rows', ended', settled', taxonomyCalls')
  BY <1>1, <1>2 DEF TaxonomyInv, WorkSound
<1>5. \A j, k \in Librarians :
         j # k /\ Underway(librarian'[j]) /\ Underway(librarian'[k])
           => librarian'[j][2] # librarian'[k][2]
  BY <1>2, <1>3 DEF TaxonomyInv
<1> QED
  BY <1>1, <1>2, <1>4, <1>5 DEF TaxonomyInv, ReplacedWhole

\* A request goes on as the same replacement, or ends; rows and commits are as they were.
LEMMA TaxonomyGoesOn ==
  ASSUME TaxonomyInv, NEW l \in Librarians, NEW doing, Turns(l, doing),
         Underway(doing) => Underway(librarian[l]) /\ doing[2] = librarian[l][2],
         HasRead(doing) => \A r \in rows : r.by \in settled[doing[2]] => r \in doing[4],
         UNCHANGED <<rows, settled, ended, taxonomyCalls>>
  PROVE  TaxonomyInv'
<1>1. /\ DOMAIN librarian' = Librarians
      /\ \A k \in Librarians : librarian'[k] = IF k = l THEN doing ELSE librarian[k]
  BY DEF Turns, TaxonomyInv
<1>2. \A k \in Librarians : WorkSound(librarian'[k], rows', ended', settled', taxonomyCalls')
  BY <1>1 DEF TaxonomyInv, WorkSound
<1>3. \A j, k \in Librarians :
         j # k /\ Underway(librarian'[j]) /\ Underway(librarian'[k])
           => librarian'[j][2] # librarian'[k][2]
  BY <1>1 DEF TaxonomyInv
<1> QED
  BY <1>1, <1>2, <1>3 DEF TaxonomyInv, ReplacedWhole

\* A request commits: it ends, and the rows it leaves or inserts keep to it.
LEMMA TaxonomyCommits ==
  ASSUME TaxonomyAssumption, TaxonomyInv, NEW l \in Librarians, Underway(librarian[l]),
         Turns(l, <<"idle">>),
         ended' = ended \union {librarian[l][2]},
         \A r \in rows' : r \in rows \/ r.by = librarian[l][2],
         \A r, q \in rows' : r \in rows /\ q \notin rows => r.by \notin settled[q.by],
         UNCHANGED <<settled, taxonomyCalls>>
  PROVE  TaxonomyInv'
<1> DEFINE n == librarian[l][2]
<1>1. /\ n \in 1 .. taxonomyCalls /\ n \notin ended
      /\ 1 .. taxonomyCalls \subseteq 1 .. MaxTaxonomyCalls
  <2>1. n \in 1 .. taxonomyCalls /\ n \notin ended
    BY DEF TaxonomyInv, WorkSound
  <2>2. taxonomyCalls \in 0 .. MaxTaxonomyCalls
    BY DEF TaxonomyInv
  <2>3. MaxTaxonomyCalls \in Nat
    BY DEF TaxonomyAssumption
  <2> QED
    BY <2>1, <2>2, <2>3
<1>2. /\ DOMAIN librarian' = Librarians
      /\ \A k \in Librarians : librarian'[k] = IF k = l THEN <<"idle">> ELSE librarian[k]
      /\ ~Underway(<<"idle">>) /\ ~HasRead(<<"idle">>)
  BY DEF Turns, TaxonomyInv, Underway, HasRead
<1>3. \A m \in 1 .. MaxTaxonomyCalls : n \notin settled[m]
  BY <1>1 DEF TaxonomyInv
<1>4. ASSUME NEW k \in Librarians
      PROVE  WorkSound(librarian'[k], rows', ended', settled', taxonomyCalls')
  <2>1. CASE k = l
    BY <1>2, <2>1 DEF WorkSound
  <2>2. CASE k # l
    <3>1. Underway(librarian[k]) =>
            librarian[k][2] \in 1 .. taxonomyCalls /\ librarian[k][2] \notin ended'
      BY <2>2 DEF TaxonomyInv, WorkSound
    <3>2. HasRead(librarian[k]) =>
            \A r \in rows' : r.by \in settled[librarian[k][2]] => r \in librarian[k][4]
      <4> SUFFICES ASSUME HasRead(librarian[k]), NEW r \in rows',
                          r.by \in settled[librarian[k][2]]
                   PROVE  r \in librarian[k][4]
        OBVIOUS
      <4>1. Underway(librarian[k])
        BY DEF HasRead, Underway
      <4>2. librarian[k][2] \in 1 .. MaxTaxonomyCalls
        BY <1>1, <3>1, <4>1
      <4>3. r \in rows
        BY <1>3, <4>2
      <4> QED
        BY <4>3 DEF TaxonomyInv, WorkSound
    <3> QED
      BY <1>2, <2>2, <3>1, <3>2 DEF WorkSound
  <2> QED
    BY <2>1, <2>2
<1>5. \A j, k \in Librarians :
         j # k /\ Underway(librarian'[j]) /\ Underway(librarian'[k])
           => librarian'[j][2] # librarian'[k][2]
  BY <1>2 DEF TaxonomyInv
<1>6. ASSUME NEW r \in rows', NEW q \in rows' PROVE r.by \notin settled[q.by]
  <2>1. q.by \in 1 .. MaxTaxonomyCalls
    BY <1>1 DEF TaxonomyInv
  <2>2. CASE r \notin rows
    BY <1>3, <2>1, <2>2
  <2>3. CASE r \in rows /\ q \in rows
    BY <2>3 DEF TaxonomyInv, ReplacedWhole
  <2> QED
    BY <2>2, <2>3
<1>7. ended' \subseteq 1 .. taxonomyCalls /\ \A r \in rows' : r.by \in ended'
  BY <1>1 DEF TaxonomyInv
<1>8. \A m \in 1 .. MaxTaxonomyCalls : settled'[m] \subseteq ended'
  BY DEF TaxonomyInv
<1> QED
  BY <1>2, <1>4, <1>5, <1>6, <1>7, <1>8 DEF TaxonomyInv, ReplacedWhole

LEMMA TaxonomyStep ==
  TaxonomyAssumption /\ TaxonomyInv /\ [TaxonomyNext]_taxonomyVars => TaxonomyInv'
<1> SUFFICES ASSUME TaxonomyAssumption, TaxonomyInv, [TaxonomyNext]_taxonomyVars
             PROVE  TaxonomyInv'
  OBVIOUS
<1>1. CASE \E s \in Slugs : CreateTerm(s) \/ ArchiveTerm(s)
  <2>1. UNCHANGED <<rows, settled, librarian, ended, taxonomyCalls>>
    BY <1>1 DEF CreateTerm, ArchiveTerm
  <2>2. ReplacedWhole'
    BY <2>1 DEF TaxonomyInv, ReplacedWhole
  <2> QED
    BY <2>1, <2>2 DEF TaxonomyInv
<1>2. ASSUME NEW l \in Librarians, NEW chosen, AssignReadsTerms(l, chosen)
      PROVE  TaxonomyInv'
  <2> DEFINE doing == <<"choosing", taxonomyCalls + 1, chosen>>
  <2>1. Underway(doing) /\ ~HasRead(doing) /\ doing[2] = taxonomyCalls + 1
    BY DEF Underway, HasRead
  <2>2. TaxonomyCall /\ Turns(l, doing) /\ UNCHANGED <<rows, settled, ended>>
    BY <1>2 DEF AssignReadsTerms
  <2> HIDE DEF doing
  <2> QED
    BY <2>1, <2>2, TaxonomyBegins
<1>3. ASSUME NEW l \in Librarians, RemoveReads(l) PROVE TaxonomyInv'
  <2> DEFINE doing == <<"removing", taxonomyCalls + 1, {}, rows>>
  <2>1. Underway(doing) /\ ~HasRead(doing) /\ doing[2] = taxonomyCalls + 1
    BY DEF Underway, HasRead
  <2>2. TaxonomyCall /\ Turns(l, doing) /\ UNCHANGED <<rows, settled, ended>>
    BY <1>3 DEF RemoveReads
  <2> HIDE DEF doing
  <2> QED
    BY <2>1, <2>2, TaxonomyBegins
<1>4. ASSUME NEW l \in Librarians, AssignReadsRows(l) PROVE TaxonomyInv'
  <2> DEFINE n == librarian[l][2]
             doing == <<"waiting", n, librarian[l][3], rows>>
  <2>1. Underway(librarian[l]) /\ ~HasRead(librarian[l])
    BY <1>4 DEF AssignReadsRows, Works, Underway, HasRead
  <2>2. /\ n \in 1 .. taxonomyCalls /\ n \notin ended
        /\ 1 .. taxonomyCalls \subseteq 1 .. MaxTaxonomyCalls
    BY <2>1 DEF TaxonomyInv, WorkSound
  <2>3. /\ rows' = rows /\ ended' = ended /\ taxonomyCalls' = taxonomyCalls
        /\ settled' = [settled EXCEPT ![n] = ended]
        /\ Turns(l, doing)
    BY <1>4 DEF AssignReadsRows, ExistingRows
  <2>4. /\ DOMAIN settled' = 1 .. MaxTaxonomyCalls
        /\ \A m \in 1 .. MaxTaxonomyCalls : settled'[m] = IF m = n THEN ended ELSE settled[m]
    BY <2>2, <2>3 DEF TaxonomyInv
  <2>5. /\ DOMAIN librarian' = Librarians
        /\ \A k \in Librarians : librarian'[k] = IF k = l THEN doing ELSE librarian[k]
    BY <2>3 DEF Turns, TaxonomyInv
  <2>6. Underway(doing) /\ doing[2] = n /\ doing[4] = rows
    BY DEF Underway
  <2> HIDE DEF doing, n
  <2>7. ASSUME NEW k \in Librarians
        PROVE  WorkSound(librarian'[k], rows', ended', settled', taxonomyCalls')
    <3>1. CASE k = l
      BY <2>2, <2>3, <2>5, <2>6, <3>1 DEF WorkSound
    <3>2. CASE k # l
      <4>1. Underway(librarian[k]) =>
              librarian[k][2] \in 1 .. MaxTaxonomyCalls /\ librarian[k][2] # n
        BY <2>1, <2>2, <3>2 DEF TaxonomyInv, WorkSound, n
      <4>2. HasRead(librarian[k]) => Underway(librarian[k])
        BY DEF HasRead, Underway
      <4> QED
        BY <2>3, <2>4, <2>5, <3>2, <4>1, <4>2 DEF TaxonomyInv, WorkSound
    <3> QED
      BY <3>1, <3>2
  <2>8. \A j, k \in Librarians :
           j # k /\ Underway(librarian'[j]) /\ Underway(librarian'[k])
             => librarian'[j][2] # librarian'[k][2]
    BY <2>1, <2>5, <2>6 DEF TaxonomyInv, n
  <2>9. ASSUME NEW r \in rows, NEW q \in rows PROVE r.by \notin settled'[q.by]
    <3>1. q.by \in 1 .. MaxTaxonomyCalls /\ q.by # n
      BY <2>2 DEF TaxonomyInv
    <3> QED
      BY <2>4, <3>1 DEF TaxonomyInv, ReplacedWhole
  <2>10. \A m \in 1 .. MaxTaxonomyCalls : settled'[m] \subseteq ended'
    BY <2>3, <2>4 DEF TaxonomyInv
  <2> QED
    BY <2>3, <2>4, <2>5, <2>7, <2>8, <2>9, <2>10 DEF TaxonomyInv, ReplacedWhole
<1>5. ASSUME NEW l \in Librarians, AssignLocksRows(l) PROVE TaxonomyInv'
  <2> DEFINE doing == <<"replacing", librarian[l][2], librarian[l][3],
                        librarian[l][4] \intersect rows>>
  <2>1. Underway(librarian[l]) /\ HasRead(librarian[l])
    BY <1>5 DEF AssignLocksRows, Works, Underway, HasRead
  <2>2. doing[2] = librarian[l][2] /\ doing[4] = librarian[l][4] \intersect rows
    OBVIOUS
  <2>3. \A r \in rows : r.by \in settled[doing[2]] => r \in doing[4]
    BY <2>1, <2>2 DEF TaxonomyInv, WorkSound
  <2>4. Turns(l, doing) /\ UNCHANGED <<rows, settled, ended, taxonomyCalls>>
    BY <1>5 DEF AssignLocksRows
  <2> HIDE DEF doing
  <2> QED
    BY <2>1, <2>2, <2>3, <2>4, TaxonomyGoesOn
<1>6. ASSUME NEW l \in Librarians, AssignTerms(l) PROVE TaxonomyInv'
  <2> DEFINE n == librarian[l][2]
             chosen == librarian[l][3]
             kept == rows \ librarian[l][4]
  <2>1. Underway(librarian[l]) /\ HasRead(librarian[l])
    BY <1>6 DEF AssignTerms, Works, Underway, HasRead
  <2>2. /\ rows' = kept \union [term : chosen, by : {n}] /\ ended' = ended \union {n}
        /\ Turns(l, <<"idle">>) /\ UNCHANGED <<settled, taxonomyCalls>>
    BY <1>6 DEF AssignTerms
  <2>3. \A r \in kept : r.by \notin settled[n]
    BY <2>1 DEF TaxonomyInv, WorkSound
  <2>4. n \notin ended /\ \A r \in rows : r.by # n
    BY <2>1 DEF TaxonomyInv, WorkSound
  <2>5. \A r \in rows' : r \in kept \/ r.by = n
    BY <2>2
  <2>6. \A r \in rows' : r \in rows \/ r.by = n
    BY <2>5
  <2>7. \A r, q \in rows' : r \in rows /\ q \notin rows => r.by \notin settled[q.by]
    BY <2>3, <2>4, <2>5
  <2> QED
    BY <2>1, <2>2, <2>6, <2>7, TaxonomyCommits
<1>7. ASSUME NEW l \in Librarians, RemoveTargetAssignments(l) PROVE TaxonomyInv'
  <2>1. /\ Underway(librarian[l]) /\ ended' = ended \union {librarian[l][2]}
        /\ Turns(l, <<"idle">>) /\ UNCHANGED <<settled, taxonomyCalls>> /\ rows' \subseteq rows
    BY <1>7 DEF RemoveTargetAssignments, Works, Underway
  <2> QED
    BY <2>1, TaxonomyCommits
<1>8. ASSUME NEW l \in Librarians, TaxonomyGivesUp(l) PROVE TaxonomyInv'
  <2>1. ~Underway(<<"idle">>) /\ ~HasRead(<<"idle">>)
    BY DEF Underway, HasRead
  <2> QED
    BY <1>8, <2>1, TaxonomyGoesOn DEF TaxonomyGivesUp
<1>9. CASE UNCHANGED taxonomyVars
  BY <1>9 DEF taxonomyVars, TaxonomyInv, WorkSound, ReplacedWhole
<1> QED
  BY <1>1, <1>2, <1>3, <1>4, <1>5, <1>6, <1>7, <1>8, <1>9 DEF TaxonomyNext

LEMMA TaxonomyStart == TaxonomyAssumption /\ TaxonomyInit => TaxonomyInv
BY DEF TaxonomyInit, TaxonomyInv, TaxonomyAssumption, WorkSound, Underway, HasRead, ReplacedWhole

\* None of a replacement outlives one that began to replace after it had committed, for
\* every number of terms, requests and replacements (AssignTerms, commands.py).
THEOREM TermsAreReplacedWhole == TaxonomySpec => []ReplacedWhole
<1>1. TaxonomyInv => ReplacedWhole
  BY DEF TaxonomyInv
<1> QED
  BY <1>1, TaxonomyStart, TaxonomyStep, TaxonomyAssumption, PTL DEF TaxonomySpec

-----------------------------------------------------------------------------
(* AdminSession: a login that has been consumed is gone, and whoever       *)
(* exchanges it does so alone.  The time a record or a request carries is  *)
(* that of the session's creation or of a use that was counted.            *)

SessionsTyped ==
    /\ DOMAIN logins = Logins /\ DOMAIN stored = Sessions /\ DOMAIN opened = Sessions
    /\ DOMAIN tab = Tabs
    /\ sessionTime \in Nat
    /\ \A s \in Sessions : opened[s] # NeverMade => opened[s].at \in Nat

LoginsInv ==
    /\ \A t \in Tabs : TabIn(t, "exchanging") =>
         /\ tab[t][2] \in Logins /\ logins[tab[t][2]] = Gone
         /\ \A s \in Sessions : opened[s] # NeverMade => tab[t][2] \notin opened[s].by
    /\ \A t, u \in Tabs :
         t # u /\ TabIn(t, "exchanging") /\ TabIn(u, "exchanging") => tab[t][2] # tab[u][2]
    /\ \A s \in Sessions : opened[s] # NeverMade =>
         \A x \in opened[s].by : x \in Logins /\ logins[x] = Gone
    /\ \A s, r \in Sessions :
         s # r /\ opened[s] # NeverMade /\ opened[r] # NeverMade
           => opened[s].by \intersect opened[r].by = {}

\* A time at which session s was created or used.
Grounded(at, s, op, us) == at = op[s].at \/ \E u \in us : u.session = s /\ u.now = at

RecordKept(record, s, op, us, t) ==
    record # Gone =>
        /\ op[s] # NeverMade /\ record.created = op[s].at
        /\ record.seen \in Nat /\ record.seen <= t /\ Grounded(record.seen, s, op, us)

\* What a request is in the middle of with a session's record.
TabSound(doing, op, us, t) ==
    /\ doing[1] \in {"refreshing", "dropping", "leaving"} =>
         doing[2] \in Sessions /\ op[doing[2]] # NeverMade
    /\ doing[1] = "refreshing" =>
         /\ doing[3] = op[doing[2]].at
         /\ doing[4] \in Nat /\ doing[4] <= t /\ doing[4] <= doing[3] + Absolute
         /\ ~doing[5]
         /\ \E at \in Nat : Grounded(at, doing[2], op, us) /\ at <= doing[4] /\ doing[4] <= at + Idle

UseSound(use, op, us) ==
    /\ use.session \in Sessions /\ op[use.session] # NeverMade
    /\ use.now \in Nat /\ use.now <= op[use.session].at + Absolute
    /\ ~use.after
    /\ \E at \in Nat : /\ Grounded(at, use.session, op, us) /\ at <= use.now /\ use.now <= at + Idle
                       /\ at = use.now => at = op[use.session].at

RecordsInv ==
    /\ \A s \in Sessions : RecordKept(stored[s], s, opened, uses, sessionTime)
    /\ \A s \in left : s \in Sessions /\ opened[s] # NeverMade /\ stored[s] = Gone
    /\ \A t \in Tabs : TabSound(tab[t], opened, uses, sessionTime)
    /\ \A t \in Tabs : TabIn(t, "refreshing") => tab[t][2] \notin left
    /\ \A use \in uses : UseSound(use, opened, uses)

LEMMA SessionsTypedStep ==
  SessionsTyped /\ [AdminSessionNext]_adminSessionVars => SessionsTyped'
<1> SUFFICES ASSUME SessionsTyped, [AdminSessionNext]_adminSessionVars PROVE SessionsTyped'
  OBVIOUS
<1>1. DOMAIN logins' = DOMAIN logins
  BY DEF AdminSessionNext, adminSessionVars, CreateTransaction, ConsumeTransaction, GetDel,
     ExchangeCreates, BearerCreates, LoadReads, LoadRefreshes, LoadDrops, Logout,
     TabGivesUp, SessionTimePasses
<1>2. DOMAIN stored' = DOMAIN stored
  BY DEF AdminSessionNext, adminSessionVars, CreateTransaction, ConsumeTransaction,
     ExchangeCreates, BearerCreates, Created, LoadReads, LoadRefreshes, LoadDrops, Dropped, Logout,
     TabGivesUp, SessionTimePasses
<1>3. DOMAIN tab' = DOMAIN tab
  BY DEF AdminSessionNext, adminSessionVars, CreateTransaction, ConsumeTransaction,
     ExchangeCreates, BearerCreates, LoadReads, LoadRefreshes, LoadDrops, Logout,
     TabGivesUp, SessionTimePasses, Moves
<1>4. sessionTime' \in Nat
  <2>1. sessionTime' = sessionTime \/ SessionTimePasses
    BY DEF AdminSessionNext, adminSessionVars, CreateTransaction, ConsumeTransaction,
       ExchangeCreates, BearerCreates, LoadReads, LoadRefreshes, LoadDrops, Logout, TabGivesUp
  <2> QED
    BY <2>1 DEF SessionTimePasses, SessionsTyped
<1>5. \/ opened' = opened
      \/ \E s \in Sessions : \E by :
           opened' = [opened EXCEPT ![s] = [kind |-> "opened", at |-> sessionTime, by |-> by]]
  BY DEF AdminSessionNext, adminSessionVars, CreateTransaction, ConsumeTransaction,
     ExchangeCreates, BearerCreates, Created, LoadReads, LoadRefreshes, LoadDrops, Logout,
     TabGivesUp, SessionTimePasses
<1> QED
  BY <1>1, <1>2, <1>3, <1>4, <1>5 DEF SessionsTyped

\* One login, one session.
LEMMA LoginsStep ==
  SessionsTyped /\ LoginsInv /\ [AdminSessionNext]_adminSessionVars => LoginsInv'
<1> SUFFICES ASSUME SessionsTyped, LoginsInv, [AdminSessionNext]_adminSessionVars PROVE LoginsInv'
  OBVIOUS
<1>1. ASSUME UNCHANGED <<logins, opened>>, NEW t \in Tabs, NEW what, Moves(t, what),
             what[1] # "exchanging"
      PROVE  LoginsInv'
  <2>1. \A u \in Tabs : tab'[u] = IF u = t THEN what ELSE tab[u]
    BY <1>1 DEF Moves, SessionsTyped
  <2> QED
    BY <1>1, <2>1 DEF LoginsInv, TabIn
<1>2. CASE UNCHANGED <<logins, opened, tab>>
  BY <1>2 DEF LoginsInv, TabIn
<1>3. ASSUME NEW x \in Logins, CreateTransaction(x) PROVE LoginsInv'
  <2>1. \A y \in Logins : logins[y] = Gone => logins'[y] = Gone
    BY <1>3 DEF CreateTransaction, SessionsTyped, Gone, NeverMade
  <2> QED
    BY <1>3, <2>1 DEF CreateTransaction, LoginsInv, TabIn
<1>4. ASSUME NEW t \in Tabs, NEW x \in Logins, ConsumeTransaction(t, x) PROVE LoginsInv'
  <2>1. \A y \in Logins : logins[y] = Gone => logins'[y] = Gone
    BY <1>4 DEF ConsumeTransaction, GetDel, SessionsTyped
  <2>2. logins[x] # Gone /\ logins'[x] = Gone /\ opened' = opened
    BY <1>4 DEF ConsumeTransaction, GetDel, SessionsTyped
  <2>3. \A u \in Tabs : TabIn(u, "exchanging") => tab[u][2] # x
    BY <2>2 DEF LoginsInv
  <2>4. \A s \in Sessions : opened[s] # NeverMade => x \notin opened[s].by
    BY <2>2 DEF LoginsInv
  <2>5. CASE tab' = tab
    BY <2>1, <2>2, <2>5 DEF LoginsInv, TabIn
  <2>6. CASE Moves(t, <<"exchanging", x>>)
    <3>1. \A u \in Tabs : tab'[u] = IF u = t THEN <<"exchanging", x>> ELSE tab[u]
      BY <2>6 DEF Moves, SessionsTyped
    <3>2. \A u \in Tabs : tab'[u][1] = "exchanging" =>
            (u = t /\ tab'[u][2] = x) \/ (u # t /\ TabIn(u, "exchanging") /\ tab'[u][2] = tab[u][2])
      BY <3>1 DEF TabIn
    <3> QED
      BY <2>1, <2>2, <2>3, <2>4, <3>2 DEF LoginsInv, TabIn
  <2> QED
    BY <1>4, <2>5, <2>6 DEF ConsumeTransaction
<1>5. ASSUME NEW s \in Sessions, NEW by, Created(s, by), logins' = logins,
             \A x \in by : /\ x \in Logins /\ logins[x] = Gone
                           /\ \A r \in Sessions : opened[r] # NeverMade => x \notin opened[r].by
                           /\ \A u \in Tabs : tab'[u][1] = "exchanging" => tab'[u][2] # x,
             \A u \in Tabs : tab'[u] = tab[u] \/ tab'[u][1] # "exchanging"
      PROVE  LoginsInv'
  <2>1. \A r \in Sessions : opened'[r] =
          IF r = s THEN [kind |-> "opened", at |-> sessionTime, by |-> by] ELSE opened[r]
    BY <1>5 DEF Created, SessionsTyped
  <2>2. opened[s] = NeverMade /\ opened'[s].by = by
    BY <1>5, <2>1 DEF Created
  <2> QED
    BY <1>5, <2>1, <2>2 DEF LoginsInv, TabIn
<1>6. ASSUME NEW t \in Tabs, NEW s \in Sessions, ExchangeCreates(t, s) PROVE LoginsInv'
  <2>1. /\ TabIn(t, "exchanging") /\ Created(s, {tab[t][2]}) /\ logins' = logins
        /\ Moves(t, <<"idle">>)
    BY <1>6 DEF ExchangeCreates
  <2>2. \A u \in Tabs : tab'[u] = IF u = t THEN <<"idle">> ELSE tab[u]
    BY <2>1 DEF Moves, SessionsTyped
  <2>3. \A u \in Tabs : tab'[u][1] = "exchanging" => u # t /\ tab'[u] = tab[u]
    BY <2>2
  <2>4. \A u \in Tabs : tab'[u] = tab[u] \/ tab'[u][1] # "exchanging"
    BY <2>3
  <2>5. \A u \in Tabs : tab'[u][1] = "exchanging" => tab'[u][2] # tab[t][2]
    BY <2>1, <2>3 DEF LoginsInv, TabIn
  <2> QED
    BY <1>5, <2>1, <2>4, <2>5 DEF LoginsInv
<1>7. ASSUME NEW s \in Sessions, BearerCreates(s) PROVE LoginsInv'
  BY <1>5, <1>7 DEF BearerCreates
<1>8. ASSUME NEW t \in Tabs, NEW s \in Sessions, NEW logout, LoadReads(t, s, logout) PROVE LoginsInv'
  <2>1. PICK what : Moves(t, what) /\ what[1] # "exchanging"
    BY <1>8 DEF LoadReads
  <2> QED
    BY <1>1, <1>8, <2>1 DEF LoadReads
<1>9. ASSUME NEW t \in Tabs, LoadRefreshes(t) PROVE LoginsInv'
  <2>1. PICK what : Moves(t, what) /\ what[1] # "exchanging"
    BY <1>9 DEF LoadRefreshes
  <2> QED
    BY <1>1, <1>9, <2>1 DEF LoadRefreshes
<1>10. ASSUME NEW t \in Tabs, LoadDrops(t) \/ Logout(t) \/ TabGivesUp(t) PROVE LoginsInv'
  BY <1>1, <1>10 DEF LoadDrops, Logout, TabGivesUp
<1> QED
  BY <1>2, <1>3, <1>4, <1>6, <1>7, <1>8, <1>9, <1>10
  DEF AdminSessionNext, SessionTimePasses, adminSessionVars

\* What was sound when it was read is sound after other requests have used the session.
LEMMA RecordsStay ==
  ASSUME SessionsTyped, sessionTime' \in Nat, sessionTime <= sessionTime', uses \subseteq uses',
         \A s \in Sessions : opened[s] # NeverMade => opened'[s] = opened[s]
  PROVE  /\ \A s \in Sessions : \A record :
              RecordKept(record, s, opened, uses, sessionTime) => RecordKept(record, s, opened', uses', sessionTime')
         /\ \A doing : TabSound(doing, opened, uses, sessionTime)
                         => TabSound(doing, opened', uses', sessionTime')
         /\ \A use : UseSound(use, opened, uses) => UseSound(use, opened', uses')
<1>1. \A s \in Sessions : \A at :
         opened[s] # NeverMade /\ Grounded(at, s, opened, uses) => Grounded(at, s, opened', uses')
  BY DEF Grounded
<1>2. \A n \in Nat : n <= sessionTime => n <= sessionTime'
  BY DEF SessionsTyped
<1>3. ASSUME NEW s \in Sessions, NEW record, RecordKept(record, s, opened, uses, sessionTime)
      PROVE  RecordKept(record, s, opened', uses', sessionTime')
  BY <1>1, <1>2, <1>3 DEF RecordKept
<1>4. ASSUME NEW doing, TabSound(doing, opened, uses, sessionTime)
      PROVE  TabSound(doing, opened', uses', sessionTime')
  BY <1>1, <1>2, <1>4 DEF TabSound
<1>5. ASSUME NEW use, UseSound(use, opened, uses) PROVE UseSound(use, opened', uses')
  BY <1>1, <1>5 DEF UseSound
<1> QED
  BY <1>3, <1>4, <1>5

\* Every call keeps the records sound if what it writes is.
LEMMA RecordsMove ==
  ASSUME SessionsTyped, SessionsTyped', RecordsInv, sessionTime <= sessionTime',
         uses \subseteq uses',
         \A s \in Sessions : opened[s] # NeverMade => opened'[s] = opened[s],
         \A s \in Sessions :
            stored'[s] = stored[s] \/ RecordKept(stored'[s], s, opened', uses', sessionTime'),
         \A s \in left' : s \in Sessions /\ opened'[s] # NeverMade /\ stored'[s] = Gone,
         \A t \in Tabs : tab'[t] = tab[t] \/ TabSound(tab'[t], opened', uses', sessionTime'),
         \A t \in Tabs : tab'[t][1] = "refreshing" => tab'[t][2] \notin left',
         \A use \in uses' \ uses : UseSound(use, opened', uses')
  PROVE  RecordsInv'
<1>1. sessionTime' \in Nat
  BY DEF SessionsTyped
<1>2. \A s \in Sessions : RecordKept(stored'[s], s, opened', uses', sessionTime')
  BY <1>1, RecordsStay DEF RecordsInv
<1>3. \A t \in Tabs : TabSound(tab'[t], opened', uses', sessionTime')
  BY <1>1, RecordsStay DEF RecordsInv
<1>4. \A use \in uses' : UseSound(use, opened', uses')
  BY <1>1, RecordsStay DEF RecordsInv
<1> QED
  BY <1>2, <1>3, <1>4 DEF RecordsInv, TabIn

\* A request that has ended, or leaves or drops a record, says nothing of its times.
LEMMA EndedIsSound ==
  \A op, us, t : TabSound(<<"idle">>, op, us, t)
  BY DEF TabSound

LEMMA RecordsStep ==
  ASSUME AdminSessionAssumption, SessionsTyped, SessionsTyped', RecordsInv,
         [AdminSessionNext]_adminSessionVars
  PROVE  RecordsInv'
<1>1. /\ sessionTime \in Nat
      /\ \A s \in Sessions : opened[s] # NeverMade => opened[s].at \in Nat
  BY DEF SessionsTyped
\* A request turns to something else, and writes nothing.
<1>2. ASSUME NEW t \in Tabs, NEW what, Moves(t, what),
             TabSound(what, opened, uses, sessionTime),
             what[1] = "refreshing" => what[2] \notin left,
             UNCHANGED <<stored, opened, left, uses, sessionTime>>
      PROVE  RecordsInv'
  <2>1. \A u \in Tabs : tab'[u] = IF u = t THEN what ELSE tab[u]
    BY <1>2 DEF Moves, SessionsTyped
  <2> QED
    BY <1>1, <1>2, <2>1, RecordsMove DEF RecordsInv, TabIn
<1>3. CASE UNCHANGED <<stored, opened, left, uses, tab, sessionTime>>
  BY <1>1, <1>3, RecordsMove DEF RecordsInv, TabIn
<1>4. ASSUME NEW t \in Tabs, NEW x \in Logins, ConsumeTransaction(t, x) PROVE RecordsInv'
  <2>1. TabSound(<<"exchanging", x>>, opened, uses, sessionTime)
    BY DEF TabSound
  <2> QED
    BY <1>2, <1>3, <1>4, <2>1 DEF ConsumeTransaction
\* A session appears; its record begins with its creation.
<1>5. ASSUME NEW s \in Sessions, NEW by, Created(s, by), UNCHANGED <<left, uses, sessionTime>>,
             \A u \in Tabs : tab'[u] = tab[u] \/ tab'[u] = <<"idle">>
      PROVE  RecordsInv'
  <2> DEFINE record == Record(sessionTime, sessionTime, sessionTime + Absolute)
  <2>1. /\ opened[s] = NeverMade
        /\ opened' = [opened EXCEPT ![s] = [kind |-> "opened", at |-> sessionTime, by |-> by]]
        /\ stored' = [stored EXCEPT ![s] = record]
    BY <1>5 DEF Created
  <2>2. /\ opened'[s].at = sessionTime /\ opened'[s] # NeverMade
        /\ stored'[s] = record
        /\ \A r \in Sessions \ {s} : opened'[r] = opened[r] /\ stored'[r] = stored[r]
    BY <2>1 DEF SessionsTyped, NeverMade
  <2>3. record.created = sessionTime /\ record.seen = sessionTime
    BY DEF Record
  <2> HIDE DEF record
  <2>4. RecordKept(record, s, opened', uses', sessionTime')
    BY <1>1, <1>5, <2>2, <2>3 DEF RecordKept, Grounded
  <2>5. \A r \in left' : r \in Sessions /\ opened'[r] # NeverMade /\ stored'[r] = Gone
    BY <1>5, <2>1, <2>2 DEF RecordsInv
  <2>6. \A u \in Tabs : tab'[u] = tab[u] \/ TabSound(tab'[u], opened', uses', sessionTime')
    BY <1>5, EndedIsSound
  <2>7. \A u \in Tabs : tab'[u][1] = "refreshing" => tab'[u][2] \notin left'
    BY <1>5 DEF RecordsInv, TabIn
  <2>8. \A r \in Sessions :
           stored'[r] = stored[r] \/ RecordKept(stored'[r], r, opened', uses', sessionTime')
    BY <2>2, <2>4
  <2>9. /\ sessionTime <= sessionTime' /\ uses' = uses
        /\ \A r \in Sessions : opened[r] # NeverMade => opened'[r] = opened[r]
    BY <1>1, <1>5, <2>1, <2>2
  <2> QED
    BY <2>5, <2>6, <2>7, <2>8, <2>9, RecordsMove
<1>6. ASSUME NEW t \in Tabs, NEW s \in Sessions, ExchangeCreates(t, s) PROVE RecordsInv'
  <2>1. Created(s, {tab[t][2]}) /\ Moves(t, <<"idle">>) /\ UNCHANGED <<left, uses, sessionTime>>
    BY <1>6 DEF ExchangeCreates
  <2>2. \A u \in Tabs : tab'[u] = tab[u] \/ tab'[u] = <<"idle">>
    BY <2>1 DEF Moves, SessionsTyped
  <2> QED
    BY <1>5, <2>1, <2>2
<1>7. ASSUME NEW s \in Sessions, BearerCreates(s) PROVE RecordsInv'
  BY <1>5, <1>7 DEF BearerCreates
<1>8. ASSUME NEW t \in Tabs, NEW s \in Sessions, NEW logout, LoadReads(t, s, logout)
      PROVE  RecordsInv'
  <2>1. opened[s] # NeverMade /\ UNCHANGED <<stored, opened, left, uses, sessionTime>>
    BY <1>8 DEF LoadReads
  <2>2. CASE Moves(t, <<"dropping", s>>)
    <3>1. TabSound(<<"dropping", s>>, opened, uses, sessionTime)
      BY <2>1 DEF TabSound
    <3> QED
      BY <1>2, <2>1, <2>2, <3>1
  <2> DEFINE record == stored[s]
             what == <<"refreshing", s, record.created, sessionTime, s \in left, logout>>
  <2>3. CASE Moves(t, what) /\ ~Lapsed(record)
    <3>1. /\ record # Gone /\ ~(sessionTime > record.created + Absolute)
          /\ ~(sessionTime > record.seen + Idle)
      BY <2>3 DEF Lapsed
    <3>2. /\ record.created = opened[s].at /\ record.seen \in Nat /\ record.seen <= sessionTime
          /\ Grounded(record.seen, s, opened, uses) /\ s \notin left
      BY <3>1 DEF RecordsInv, RecordKept
    <3>3. sessionTime <= opened[s].at + Absolute /\ sessionTime <= record.seen + Idle
      BY <1>1, <2>1, <3>1, <3>2 DEF AdminSessionAssumption
    <3>4. /\ what[1] = "refreshing" /\ what[2] = s /\ what[3] = record.created
          /\ what[4] = sessionTime /\ ~what[5]
      BY <3>2
    <3> HIDE DEF what
    <3>5. TabSound(what, opened, uses, sessionTime)
      BY <1>1, <2>1, <3>2, <3>3, <3>4 DEF TabSound
    <3> QED
      BY <1>2, <2>1, <2>3, <3>2, <3>4, <3>5
  <2> QED
    BY <1>8, <2>2, <2>3 DEF LoadReads, Lapsed
<1>9. ASSUME NEW t \in Tabs, LoadRefreshes(t) PROVE RecordsInv'
  <2> DEFINE s == tab[t][2]
             now == tab[t][4]
             remaining == AtLeastOne(Less(Idle, tab[t][3] + Absolute - now))
             record == Record(tab[t][3], now, sessionTime + remaining)
             use == [session |-> s, now |-> now, after |-> tab[t][5]]
             what == IF tab[t][6] THEN <<"leaving", s>> ELSE <<"idle">>
  <2>1. /\ stored' = [stored EXCEPT ![s] = record] /\ uses' = uses \union {use}
        /\ Moves(t, what) /\ UNCHANGED <<opened, left, sessionTime>>
        /\ tab[t][1] = "refreshing"
    BY <1>9 DEF LoadRefreshes, TabIn
  <2>2. /\ s \in Sessions /\ opened[s] # NeverMade /\ tab[t][3] = opened[s].at
        /\ now \in Nat /\ now <= sessionTime /\ now <= opened[s].at + Absolute /\ ~tab[t][5]
        /\ s \notin left
    BY <2>1 DEF RecordsInv, TabSound, TabIn
  <2>3. PICK at \in Nat : Grounded(at, s, opened, uses) /\ at <= now /\ now <= at + Idle
    BY <2>1 DEF RecordsInv, TabSound
  <2>4. use.session = s /\ use.now = now /\ use.after = tab[t][5]
        /\ record.created = tab[t][3] /\ record.seen = now
    BY DEF Record
  <2>5. /\ \A r \in Sessions : stored'[r] = IF r = s THEN record ELSE stored[r]
        /\ \A u \in Tabs : tab'[u] = IF u = t THEN what ELSE tab[u]
    BY <2>1 DEF SessionsTyped, Moves
  <2>6. /\ what[1] \in {"leaving", "idle"}
        /\ what[1] = "leaving" => what[2] = s
    OBVIOUS
  <2> HIDE DEF record, use, what, now, s
  <2>7. /\ \A a : Grounded(a, s, opened, uses) => Grounded(a, s, opened', uses')
        /\ Grounded(now, s, opened', uses')
    BY <2>1, <2>4 DEF Grounded
  <2>8. RecordKept(record, s, opened', uses', sessionTime')
    BY <2>1, <2>2, <2>4, <2>7 DEF RecordKept
  <2>9. TabSound(what, opened', uses', sessionTime')
    BY <2>1, <2>2, <2>6 DEF TabSound
  \* A use at the time of an earlier one rests on what that one rested on.
  <2>10. \E a \in Nat : /\ Grounded(a, s, opened, uses) /\ a <= now /\ now <= a + Idle
                        /\ a = now => a = opened[s].at
    <3>1. CASE at = now /\ at # opened[s].at
      <4>1. PICK u \in uses : u.session = s /\ u.now = at
        BY <2>3, <3>1 DEF Grounded
      <4>2. UseSound(u, opened, uses)
        BY DEF RecordsInv
      <4> QED
        BY <3>1, <4>1, <4>2 DEF UseSound
    <3> QED
      BY <2>3, <3>1
  <2>11. UseSound(use, opened', uses')
    BY <2>1, <2>2, <2>4, <2>7, <2>10 DEF UseSound
  <2>12. \A r \in left' : r \in Sessions /\ opened'[r] # NeverMade /\ stored'[r] = Gone
    BY <2>1, <2>2, <2>5 DEF RecordsInv
  <2>13. \A u \in Tabs : tab'[u][1] = "refreshing" => tab'[u][2] \notin left'
    BY <2>1, <2>5, <2>6 DEF RecordsInv, TabIn
  <2>14. \A r \in Sessions :
            stored'[r] = stored[r] \/ RecordKept(stored'[r], r, opened', uses', sessionTime')
    BY <2>5, <2>8
  <2>15. \A u \in Tabs : tab'[u] = tab[u] \/ TabSound(tab'[u], opened', uses', sessionTime')
    BY <2>5, <2>9
  <2>16. /\ sessionTime <= sessionTime' /\ uses \subseteq uses' /\ opened' = opened
         /\ \A u \in uses' \ uses : UseSound(u, opened', uses')
    BY <1>1, <2>1, <2>11
  <2> QED
    BY <2>12, <2>13, <2>14, <2>15, <2>16, RecordsMove
\* The record is deleted, by a load that found it lapsed or by a logout.
<1>10. ASSUME NEW t \in Tabs, LoadDrops(t) \/ Logout(t) PROVE RecordsInv'
  <2> DEFINE s == tab[t][2]
  <2>1. /\ stored' = [stored EXCEPT ![s] = Gone] /\ Moves(t, <<"idle">>)
        /\ UNCHANGED <<opened, uses, sessionTime>>
        /\ left' = left \/ (left' = left \union {s} /\ Loading(s) = {})
        /\ tab[t][1] \in {"dropping", "leaving"}
    BY <1>10 DEF LoadDrops, Logout, Dropped, TabIn
  <2>2. s \in Sessions /\ opened[s] # NeverMade
    BY <2>1 DEF RecordsInv, TabSound
  <2>3. /\ \A r \in Sessions : stored'[r] = IF r = s THEN Gone ELSE stored[r]
        /\ \A u \in Tabs : tab'[u] = IF u = t THEN <<"idle">> ELSE tab[u]
    BY <2>1 DEF SessionsTyped, Moves
  <2>4. \A r \in left' : r \in Sessions /\ opened'[r] # NeverMade /\ stored'[r] = Gone
    BY <2>1, <2>2, <2>3 DEF RecordsInv
  <2>5. ASSUME NEW u \in Tabs, tab'[u][1] = "refreshing" PROVE tab'[u][2] \notin left'
    <3>1. tab'[u] = tab[u] /\ TabIn(u, "refreshing")
      BY <2>3, <2>5 DEF TabIn
    <3>2. tab[u][2] \notin left
      BY <3>1 DEF RecordsInv
    <3>3. Loading(s) = {} => tab[u][2] # s
      BY <2>5, <3>1 DEF Loading
    <3> QED
      BY <2>1, <3>1, <3>2, <3>3
  <2>6. \A u \in Tabs : tab'[u] = tab[u] \/ TabSound(tab'[u], opened', uses', sessionTime')
    BY <2>3, EndedIsSound
  <2>7. \A r \in Sessions :
           stored'[r] = stored[r] \/ RecordKept(stored'[r], r, opened', uses', sessionTime')
    BY <2>3 DEF RecordKept
  <2> QED
    BY <1>1, <2>1, <2>4, <2>5, <2>6, <2>7, RecordsMove
<1>11. ASSUME NEW t \in Tabs, TabGivesUp(t) PROVE RecordsInv'
  BY <1>2, <1>11, EndedIsSound DEF TabGivesUp
<1>12. CASE SessionTimePasses
  BY <1>1, <1>12, RecordsMove DEF SessionTimePasses, RecordsInv, TabIn
<1>13. CASE \E x \in Logins : CreateTransaction(x)
  BY <1>3, <1>13 DEF CreateTransaction
<1>14. CASE UNCHANGED adminSessionVars
  BY <1>3, <1>14 DEF adminSessionVars
<1> QED
  BY <1>4, <1>6, <1>7, <1>8, <1>9, <1>10, <1>11, <1>12, <1>13, <1>14 DEF AdminSessionNext

LEMMA AdminSessionStart == AdminSessionInit => SessionsTyped /\ LoginsInv /\ RecordsInv
BY DEF AdminSessionInit, SessionsTyped, LoginsInv, RecordsInv, RecordKept, TabSound, TabIn

\* A login opens one session, and a session ends with its time, its disuse or its logout, for
\* every number of logins, sessions, requests and uses (admin_session_store.py).
THEOREM SessionsComeToAnEnd == AdminSessionSpec => []SessionsEnd
<1> DEFINE Inv == SessionsTyped /\ LoginsInv /\ RecordsInv
<1>1. AdminSessionInit => Inv
  BY AdminSessionStart
<1>2. Inv /\ [AdminSessionNext]_adminSessionVars => Inv'
  BY SessionsTypedStep, LoginsStep, RecordsStep, AdminSessionAssumption
<1>3. Inv => SessionsEnd
  <2> SUFFICES ASSUME Inv, NEW use \in uses
               PROVE  LET earlier == {opened[use.session].at}
                             \union {u.now : u \in {v \in uses : v.session = use.session}}
                      IN /\ ~use.after
                         /\ use.now <= opened[use.session].at + Absolute
                         /\ \E at \in earlier : at <= use.now /\ use.now <= at + Idle
                                 /\ (at = use.now => at = opened[use.session].at)
    BY DEF SessionsEnd, LoginsInv
  <2>1. UseSound(use, opened, uses)
    BY DEF RecordsInv
  <2> QED
    BY <2>1 DEF UseSound, Grounded
<1> QED
  BY <1>1, <1>2, <1>3, PTL DEF AdminSessionSpec

-----------------------------------------------------------------------------
(* Programs: while no call on an account has overlapped one on the         *)
(* program, calls of the two kinds are never open together, and what a     *)
(* call saw of the other kind's rows is what they are when it commits.     *)

ProgramRows == [status : OnOff, unit : Units, version : Nat \ {0}]
AccountRows == [version : Nat \ {0}, balance : Int, unit : Units]

TaskTyped(task) ==
    /\ task.does \in {"nothing", "update", "status", "adjust"}
    /\ task.does = "update" => task.saw \in ProgramRows /\ task.unit \in Units
    /\ task.does = "status" => task.saw \in ProgramRows /\ task.status \in OnOff
    /\ task.does = "adjust" =>
         /\ task.holder \in Holders /\ task.saw \in AccountRows \union {NotOpened}
         /\ task.points \in Int /\ task.unit \in Units

ProgramsTyped ==
    /\ program \in ProgramRows \union {NoProgram}
    /\ held \in [Holders -> AccountRows \union {NotOpened}]
    /\ crossed \in BOOLEAN
    /\ DOMAIN steward = Stewards
    /\ \A s \in Stewards : TaskTyped(steward[s])
    /\ program = NoProgram => \A h \in Holders : held[h] = NotOpened

\* What a call relies on when it commits.
TaskSound(task, p, accounts) ==
    /\ task.does \in {"update", "status"} => p # NoProgram
    /\ task.does = "update" /\ task.unit # task.saw.unit =>
         \A h \in Holders : accounts[h] = NotOpened
    /\ task.does = "status" /\ task.status = "inactive" =>
         \A h \in Holders : accounts[h] # NotOpened => accounts[h].balance = 0
    /\ task.does = "adjust" => p # NoProgram /\ p.status = "active" /\ p.unit = task.unit

ProgramsInv ==
    /\ ProgramsTyped
    /\ \A s \in Stewards : OnProgram(s) \/ OnAccounts(s) => program # NoProgram
    /\ ~crossed =>
         /\ \A s, o \in Stewards : ~(OnAccounts(s) /\ OnProgram(o))
         /\ \A s \in Stewards : TaskSound(steward[s], program, held)
    /\ OffMeansEmpty

\* What is missing is no row.
LEMMA MissingProgram == NoProgram \notin ProgramRows /\ NotOpened \notin AccountRows
<1>1. NoProgram.status \notin OnOff
  BY DEF NoProgram, OnOff
<1>2. ASSUME NotOpened \in AccountRows PROVE FALSE
  <2>1. DOMAIN NotOpened = {"version", "balance", "unit"}
    BY <1>2 DEF AccountRows
  <2>2. DOMAIN NotOpened = {"version"}
    BY DEF NotOpened
  <2> QED
    BY <2>1, <2>2
<1> QED
  BY <1>1, <1>2 DEF ProgramRows

\* An adjustment keeps the unit of the account.
LEMMA AccountEdits ==
  ASSUME NEW a \in AccountRows, NEW points \in Int
  PROVE  LET b == [a EXCEPT !.version = @ + 1, !.balance = @ + points]
         IN b \in AccountRows /\ b.unit = a.unit
<1>1. a.version + 1 \in Nat /\ a.balance + points \in Int
  BY DEF AccountRows
<1>2. [a EXCEPT !.version = a.version + 1] \in AccountRows
  BY <1>1 DEF AccountRows
<1> QED
  BY <1>1, <1>2 DEF AccountRows

\* A call that opens has read what it relies on; one that would cross another is told so.
LEMMA TaskOpens ==
  ASSUME ProgramsInv, NEW s \in Stewards, NEW task, OpensTask(s, task), TaskTyped(task),
         task.does # "nothing", program # NoProgram, TaskSound(task, program, held)
  PROVE  ProgramsInv'
<1>1. /\ program' = program /\ held' = held
      /\ \A o \in Stewards : steward'[o] = IF o = s THEN task ELSE steward[o]
      /\ DOMAIN steward' = Stewards
  BY DEF OpensTask, ProgramsInv, ProgramsTyped
<1>2. ~OnProgram(s) /\ ~OnAccounts(s)
  BY DEF OpensTask, NoTask, OnProgram, OnAccounts
<1>3. /\ crossed' \in BOOLEAN
      /\ ~crossed' => ~crossed
      /\ ~crossed' /\ task.does = "adjust" => \A o \in Stewards : ~OnProgram(o)
      /\ ~crossed' /\ task.does # "adjust" => \A o \in Stewards : ~OnAccounts(o)
  BY DEF OpensTask, ProgramsInv, ProgramsTyped
<1>4. ProgramsTyped'
  BY <1>1, <1>3 DEF ProgramsInv, ProgramsTyped
<1>5. ASSUME ~crossed', NEW o \in Stewards, NEW q \in Stewards,
             steward'[o].does = "adjust", steward'[q].does \in {"update", "status"}
      PROVE  FALSE
  BY <1>1, <1>3, <1>5 DEF ProgramsInv, OnProgram, OnAccounts
<1>6. ~crossed' => \A o \in Stewards : TaskSound(steward'[o], program', held')
  BY <1>1, <1>3 DEF ProgramsInv
<1>7. OffMeansEmpty'
  BY <1>1, <1>3 DEF ProgramsInv, OffMeansEmpty, Accounts
<1> QED
  BY <1>1, <1>4, <1>5, <1>6, <1>7 DEF ProgramsInv, OnProgram, OnAccounts

\* A call ends: the others are open as they were.
LEMMA TaskCloses ==
  ASSUME ProgramsInv, NEW s \in Stewards, ClosesTask(s),
         program' \in ProgramRows \union {NoProgram}, program # NoProgram => program' # NoProgram,
         held' \in [Holders -> AccountRows \union {NotOpened}],
         program' = NoProgram => \A h \in Holders : held'[h] = NotOpened,
         ~crossed => \A o \in Stewards \ {s} : TaskSound(steward[o], program', held'),
         ~crossed => /\ program'.status = "inactive" =>
                          \A h \in Holders : held'[h] # NotOpened => held'[h].balance = 0
                     /\ \A h \in Holders : held'[h] # NotOpened => held'[h].unit = program'.unit
  PROVE  ProgramsInv'
<1>1. /\ crossed' = crossed /\ DOMAIN steward' = Stewards
      /\ \A o \in Stewards : steward'[o] = IF o = s THEN NoTask ELSE steward[o]
  BY DEF ClosesTask, ProgramsInv, ProgramsTyped
<1>2. NoTask.does = "nothing" /\ TaskTyped(NoTask) /\ TaskSound(NoTask, program', held')
  BY DEF NoTask, TaskTyped, TaskSound
<1>3. ProgramsTyped'
  BY <1>1, <1>2 DEF ProgramsInv, ProgramsTyped
<1>4. ~crossed' => \A o \in Stewards : TaskSound(steward'[o], program', held')
  BY <1>1, <1>2
<1>5. OffMeansEmpty'
  BY <1>1 DEF OffMeansEmpty, Accounts
<1>6. \A o \in Stewards : /\ OnProgram(o)' => OnProgram(o)
                          /\ OnAccounts(o)' => OnAccounts(o)
  BY <1>1, <1>2 DEF OnProgram, OnAccounts
<1>7. \A o \in Stewards : (OnProgram(o) \/ OnAccounts(o))' => program' # NoProgram
  BY <1>6 DEF ProgramsInv
<1>8. ~crossed' => \A o, q \in Stewards : ~(OnAccounts(o) /\ OnProgram(q))'
  BY <1>1, <1>6 DEF ProgramsInv
<1> QED
  BY <1>3, <1>4, <1>5, <1>7, <1>8 DEF ProgramsInv

LEMMA ProgramsStep == ProgramsInv /\ [ProgramsNext]_programsVars => ProgramsInv'
<1> SUFFICES ASSUME ProgramsInv, [ProgramsNext]_programsVars PROVE ProgramsInv'
  OBVIOUS
<1> USE MissingProgram
<1>1. CASE CreateProgram
  <2>1. /\ program = NoProgram /\ program' \in ProgramRows
        /\ UNCHANGED <<held, steward, crossed, stewardCalls>>
    BY <1>1 DEF CreateProgram, ProgramRows, OnOff
  <2>2. \A h \in Holders : held[h] = NotOpened
    BY <2>1 DEF ProgramsInv, ProgramsTyped
  <2>3. \A s \in Stewards : ~OnProgram(s) /\ ~OnAccounts(s)
    BY <2>1 DEF ProgramsInv
  <2>4. ProgramsTyped' /\ OffMeansEmpty'
    BY <2>1, <2>2 DEF ProgramsInv, ProgramsTyped, OffMeansEmpty, Accounts
  <2>5. \A s \in Stewards : TaskSound(steward[s], program', held)
    BY <2>3 DEF TaskSound, OnProgram, OnAccounts
  <2> QED
    BY <2>1, <2>3, <2>4, <2>5 DEF ProgramsInv, OnProgram, OnAccounts
<1>2. ASSUME NEW s \in Stewards, UpdateProgramReads(s) PROVE ProgramsInv'
  <2>1. PICK unit \in Units : /\ unit # program.unit => Accounts = {}
                              /\ OpensTask(s, [does |-> "update", saw |-> program, unit |-> unit])
    BY <1>2 DEF UpdateProgramReads
  <2>2. program \in ProgramRows /\ program # NoProgram
    BY <1>2 DEF UpdateProgramReads, Exists, ProgramsInv, ProgramsTyped
  <2> DEFINE task == [does |-> "update", saw |-> program, unit |-> unit]
  <2>3. TaskTyped(task) /\ task.does # "nothing" /\ TaskSound(task, program, held)
    BY <2>1, <2>2 DEF TaskTyped, TaskSound, Accounts
  <2> HIDE DEF task
  <2> QED
    BY <2>1, <2>2, <2>3, TaskOpens DEF task
<1>3. ASSUME NEW s \in Stewards, SetStatusReads(s) PROVE ProgramsInv'
  <2>1. PICK status \in OnOff :
          /\ status = "inactive" => WithoutPoints
          /\ OpensTask(s, [does |-> "status", saw |-> program, status |-> status])
    BY <1>3 DEF SetStatusReads
  <2>2. program \in ProgramRows /\ program # NoProgram
    BY <1>3 DEF SetStatusReads, Exists, ProgramsInv, ProgramsTyped
  <2> DEFINE task == [does |-> "status", saw |-> program, status |-> status]
  <2>3. TaskTyped(task) /\ task.does # "nothing" /\ TaskSound(task, program, held)
    BY <2>1, <2>2 DEF TaskTyped, TaskSound, Accounts, WithoutPoints
  <2> HIDE DEF task
  <2> QED
    BY <2>1, <2>2, <2>3, TaskOpens DEF task
<1>4. ASSUME NEW s \in Stewards, AdjustReads(s) PROVE ProgramsInv'
  <2>1. PICK h \in Holders, points \in {-1, 1} :
          OpensTask(s, [does |-> "adjust", holder |-> h, saw |-> held[h], points |-> points,
                        unit |-> program.unit])
    BY <1>4 DEF AdjustReads
  <2>2. program \in ProgramRows /\ program # NoProgram /\ program.status = "active"
    BY <1>4 DEF AdjustReads, RequireProgram, Exists, ProgramsInv, ProgramsTyped
  <2> DEFINE task == [does |-> "adjust", holder |-> h, saw |-> held[h], points |-> points,
                      unit |-> program.unit]
  <2>3. TaskTyped(task) /\ task.does # "nothing" /\ TaskSound(task, program, held)
    BY <2>1, <2>2 DEF TaskTyped, TaskSound, ProgramsInv, ProgramsTyped, ProgramRows
  <2> HIDE DEF task
  <2> QED
    BY <2>1, <2>2, <2>3, TaskOpens DEF task
<1>5. ASSUME NEW s \in Stewards, UpdateProgram(s) PROVE ProgramsInv'
  <2>1. /\ OnProgram(s) /\ ClosesTask(s) /\ held' = held /\ steward[s].does = "update"
        /\ program' = [program EXCEPT !.version = steward[s].saw.version + 1,
                                      !.unit = IF steward[s].unit = steward[s].saw.unit THEN @
                                               ELSE steward[s].unit]
    BY <1>5 DEF UpdateProgram, OnProgram
  <2>2. /\ steward[s].saw \in ProgramRows /\ steward[s].unit \in Units
        /\ program \in ProgramRows
    BY <2>1 DEF ProgramsInv, ProgramsTyped, TaskTyped
  <2>3. /\ program' \in ProgramRows /\ program'.status = program.status
        /\ program'.unit = IF steward[s].unit = steward[s].saw.unit THEN program.unit
                           ELSE steward[s].unit
    <3> DEFINE unit == IF steward[s].unit = steward[s].saw.unit THEN program.unit
                       ELSE steward[s].unit
               version == steward[s].saw.version + 1
    <3>1. unit \in Units /\ version \in Nat \ {0}
      BY <2>2 DEF ProgramRows
    <3>2. program' = [program EXCEPT !.version = version, !.unit = unit]
      BY <2>1
    <3> HIDE DEF unit, version
    <3>3. [program EXCEPT !.version = version] \in ProgramRows
      BY <2>2, <3>1 DEF ProgramRows
    <3>4. program' \in ProgramRows /\ program'.status = program.status /\ program'.unit = unit
      BY <2>2, <3>1, <3>2, <3>3 DEF ProgramRows
    <3> QED
      BY <3>4 DEF unit
  <2>4. ~crossed => \A o \in Stewards : ~OnAccounts(o) /\ TaskSound(steward[o], program, held)
    BY <2>1 DEF ProgramsInv
  <2>5. ~crossed => \A o \in Stewards \ {s} : TaskSound(steward[o], program', held')
    BY <2>1, <2>3, <2>4 DEF TaskSound, OnAccounts
  <2>6. ~crossed =>
          /\ program'.status = "inactive" =>
               \A h \in Holders : held'[h] # NotOpened => held'[h].balance = 0
          /\ \A h \in Holders : held'[h] # NotOpened => held'[h].unit = program'.unit
    BY <2>1, <2>3, <2>4 DEF ProgramsInv, OffMeansEmpty, Accounts, TaskSound
  <2> QED
    BY <2>1, <2>3, <2>5, <2>6, TaskCloses DEF ProgramsInv, ProgramsTyped
<1>6. ASSUME NEW s \in Stewards, SetProgramStatus(s) PROVE ProgramsInv'
  <2>1. /\ OnProgram(s) /\ ClosesTask(s) /\ held' = held /\ steward[s].does = "status"
        /\ program' = [program EXCEPT !.version = steward[s].saw.version + 1,
                                      !.status = IF steward[s].status = steward[s].saw.status THEN @
                                                 ELSE steward[s].status]
    BY <1>6 DEF SetProgramStatus, OnProgram
  <2>2. /\ steward[s].saw \in ProgramRows /\ steward[s].status \in OnOff
        /\ program \in ProgramRows
    BY <2>1 DEF ProgramsInv, ProgramsTyped, TaskTyped
  <2>3. /\ program' \in ProgramRows /\ program'.unit = program.unit
        /\ program'.status = IF steward[s].status = steward[s].saw.status THEN program.status
                             ELSE steward[s].status
    <3> DEFINE status == IF steward[s].status = steward[s].saw.status THEN program.status
                         ELSE steward[s].status
               version == steward[s].saw.version + 1
    <3>1. status \in OnOff /\ version \in Nat \ {0}
      BY <2>2 DEF ProgramRows
    <3>2. program' = [program EXCEPT !.version = version, !.status = status]
      BY <2>1
    <3> HIDE DEF status, version
    <3>3. [program EXCEPT !.version = version] \in ProgramRows
      BY <2>2, <3>1 DEF ProgramRows
    <3>4. program' \in ProgramRows /\ program'.unit = program.unit /\ program'.status = status
      BY <2>2, <3>1, <3>2, <3>3 DEF ProgramRows
    <3> QED
      BY <3>4 DEF status
  <2>4. ~crossed => \A o \in Stewards : ~OnAccounts(o) /\ TaskSound(steward[o], program, held)
    BY <2>1 DEF ProgramsInv
  <2>5. ~crossed => \A o \in Stewards \ {s} : TaskSound(steward[o], program', held')
    BY <2>1, <2>3, <2>4 DEF TaskSound, OnAccounts
  <2>6. ~crossed =>
          /\ program'.status = "inactive" =>
               \A h \in Holders : held'[h] # NotOpened => held'[h].balance = 0
          /\ \A h \in Holders : held'[h] # NotOpened => held'[h].unit = program'.unit
    BY <2>1, <2>3, <2>4 DEF ProgramsInv, OffMeansEmpty, Accounts, TaskSound
  <2> QED
    BY <2>1, <2>3, <2>5, <2>6, TaskCloses DEF ProgramsInv, ProgramsTyped
<1>7. ASSUME NEW s \in Stewards, AdjustPoints(s) PROVE ProgramsInv'
  <2> DEFINE task == steward[s]
             first == [version |-> 1, balance |-> task.points, unit |-> task.unit]
             next == [task.saw EXCEPT !.version = @ + 1, !.balance = @ + task.points]
             written == IF task.saw = NotOpened THEN first ELSE next
  <2>1. /\ OnAccounts(s) /\ ClosesTask(s) /\ program' = program
        /\ held[task.holder] = task.saw /\ held' = [held EXCEPT ![task.holder] = written]
    BY <1>7 DEF AdjustPoints, OnAccounts
  <2>2. /\ task.holder \in Holders /\ task.saw \in AccountRows \union {NotOpened}
        /\ task.points \in Int /\ task.unit \in Units /\ program # NoProgram
    BY <2>1 DEF ProgramsInv, ProgramsTyped, TaskTyped, OnAccounts
  <2>3. /\ first \in AccountRows /\ first.unit = task.unit
        /\ task.saw \in AccountRows => next \in AccountRows /\ next.unit = task.saw.unit
    <3>1. first \in AccountRows /\ first.unit = task.unit
      BY <2>2 DEF AccountRows
    <3> QED
      BY <2>2, <3>1, AccountEdits
  <2>4. ~crossed => /\ \A o \in Stewards : ~OnProgram(o) /\ TaskSound(steward[o], program, held)
                    /\ program.status = "active" /\ program.unit = task.unit
    BY <2>1 DEF ProgramsInv, TaskSound, OnAccounts
  <2> HIDE DEF first, next
  <2>5. /\ written \in AccountRows
        /\ ~crossed => written.unit = program.unit
    BY <2>1, <2>2, <2>3, <2>4 DEF ProgramsInv, OffMeansEmpty, Accounts
  <2> HIDE DEF written
  <2>6. /\ held' \in [Holders -> AccountRows \union {NotOpened}]
        /\ \A h \in Holders : held'[h] = IF h = task.holder THEN written ELSE held[h]
    BY <2>1, <2>5 DEF ProgramsInv, ProgramsTyped
  <2>7. ~crossed => \A o \in Stewards \ {s} : TaskSound(steward[o], program', held')
    BY <2>1, <2>4 DEF TaskSound, OnProgram
  <2>8. ~crossed =>
          /\ program'.status # "inactive"
          /\ \A h \in Holders : held'[h] # NotOpened => held'[h].unit = program'.unit
    BY <2>1, <2>4, <2>5, <2>6 DEF ProgramsInv, OffMeansEmpty, Accounts
  <2> QED
    BY <2>1, <2>2, <2>6, <2>7, <2>8, TaskCloses DEF ProgramsInv, ProgramsTyped
<1>8. ASSUME NEW s \in Stewards, AbandonTask(s) PROVE ProgramsInv'
  <2>1. ClosesTask(s) /\ program' = program /\ held' = held
    BY <1>8 DEF AbandonTask
  <2>2. ProgramsTyped /\ OffMeansEmpty /\ (~crossed => \A o \in Stewards : TaskSound(steward[o], program, held))
    BY DEF ProgramsInv
  <2> QED
    BY <2>1, <2>2, TaskCloses DEF ProgramsTyped, OffMeansEmpty, Accounts
<1>9. CASE UNCHANGED programsVars
  BY <1>9 DEF programsVars, ProgramsInv, ProgramsTyped, OnProgram, OnAccounts, OffMeansEmpty, Accounts
<1> QED
  BY <1>1, <1>2, <1>3, <1>4, <1>5, <1>6, <1>7, <1>8, <1>9 DEF ProgramsNext

LEMMA ProgramsStart == ProgramsInit => ProgramsInv
<1> SUFFICES ASSUME ProgramsInit PROVE ProgramsInv
  OBVIOUS
<1>1. \A s \in Stewards : steward[s].does = "nothing"
  BY DEF ProgramsInit, NoTask
<1>2. \A h \in Holders : held[h] = NotOpened
  BY DEF ProgramsInit
<1>3. ProgramsTyped
  BY <1>1 DEF ProgramsInit, ProgramsTyped, TaskTyped
<1>4. /\ \A s \in Stewards : TaskSound(steward[s], program, held)
      /\ \A s \in Stewards : ~OnProgram(s) /\ ~OnAccounts(s)
  BY <1>1 DEF TaskSound, OnProgram, OnAccounts
<1> QED
  BY <1>2, <1>3, <1>4 DEF ProgramsInv, OffMeansEmpty, Accounts

\* While no administrator's patch of the program has overlapped a command on an account, it is
\* off only without points, and its unit is that of every account (points/admin.py).
THEOREM SwitchedOffIsEmpty == ProgramsSpec => []OffMeansEmpty
<1>1. ProgramsInit => ProgramsInv
  BY ProgramsStart
<1>2. ProgramsInv => OffMeansEmpty
  BY DEF ProgramsInv
<1> QED
  BY <1>1, <1>2, ProgramsStep, PTL DEF ProgramsSpec

-----------------------------------------------------------------------------
(* Mailers: a mail that was taken, or that a loose request may still hand  *)
(* over, is paid for by a run cut short, save one: the mail of a run that  *)
(* waits for the answer, or of one whose answer ended the delivery.        *)

\* A run under way: its last safe failure is one, or there was none.
Running ==
    /\ sending # NoRun /\ DOMAIN sending = {"stage", "rest", "last"}
    /\ sending.stage \in MailStages /\ sending.last \in {Unavailable, Passing, BadLogin}

Closing == sending # NoRun /\ sending.stage = "close"

MailersTyped ==
    /\ taken \in Nat /\ loose \in Nat /\ cuts \in Nat
    /\ flow.live \in BOOLEAN /\ DOMAIN flow = {"live", "tries", "key"}
    /\ DOMAIN row = {"status", "attempt"}
    /\ (sending = NoRun \/ Running)

Ended == ~flow.live /\ row.status \in {"delivered", "unknown"}

MailersInv ==
    /\ MailersTyped
    /\ sending # NoRun => flow.live /\ row.status # "delivered"
    /\ loose <= cuts
    /\ taken + loose <= cuts + 1
    /\ ~Closing /\ ~Ended => taken + loose <= cuts
    /\ Closing \/ row.status = "delivered" => taken > 0

LEMMA RunsAreRuns ==
  ASSUME NEW run, DOMAIN run = {"stage", "rest", "last"}
  PROVE  run # NoRun
<1>1. DOMAIN NoRun = {}
  BY DEF NoRun
<1> QED
  BY <1>1

\* What a run ends in, and what becomes of the delivery.
LEMMA ConclusionTells ==
  ASSUME MailersTyped, NEW result, Concludes(result),
         result.status \in {"delivered", "unknown", "failed"}
  PROVE  /\ sending' = NoRun
         /\ flow'.live \in BOOLEAN /\ DOMAIN flow' = {"live", "tries", "key"}
         /\ DOMAIN row' = {"status", "attempt"}
         /\ result.status = "failed" => row'.status \in {"pending", "dead", "failed"}
         /\ result.status # "failed" => row'.status = result.status /\ ~flow'.live
<1> DEFINE passing == result.status = "failed" /\ ~result.permanent
           again == passing /\ row.attempt + 1 < MaxMails
<1>1. /\ sending' = NoRun
      /\ row' = [attempt |-> row.attempt + 1,
                 status |-> IF again THEN "pending" ELSE IF passing THEN "dead" ELSE result.status]
      /\ flow' = IF again THEN StepFails ELSE StepDone
  BY DEF Concludes
<1>2. /\ DOMAIN StepFails = {"live", "tries", "key"} /\ StepFails.live \in BOOLEAN
      /\ DOMAIN StepDone = {"live", "tries", "key"} /\ StepDone.live = FALSE
  BY DEF StepFails, StepDone, MailersTyped
<1> QED
  BY <1>1, <1>2

\* Before the answer is read no answer says that the mail was taken: the run ends with a
\* failure or an open outcome, or goes on to the next provider.
LEMMA AnswersLead ==
  ASSUME MailersTyped, sending # NoRun,
         NEW result \in {Unknown, Unavailable, Passing, Permanent, BadLogin}, Answers(result)
  PROVE  \/ \E r : r.status \in {"unknown", "failed"} /\ Concludes(r)
         \/ Running' /\ sending'.stage = "settings" /\ UNCHANGED <<row, flow>>
<1>1. sending.last \in {Unavailable, Passing, BadLogin}
  BY DEF MailersTyped, Running
<1>2. /\ Unknown.status = "unknown" /\ Passing.status = "failed" /\ Permanent.status = "failed"
      /\ BadLogin.status = "failed" /\ Unavailable.status = "unavailable"
  BY DEF Unknown, Passing, Permanent, BadLogin, Unavailable, Sent
<1> DEFINE safe == result.status = "failed" /\ result.fallback
           last == IF safe THEN result ELSE sending.last
<1>3. last \in {Unavailable, Passing, BadLogin}
  BY <1>1, <1>2 DEF Unknown, Passing, Permanent, BadLogin, Unavailable, Sent
<1>4. ChainEnds(last).status = "failed"
  BY <1>2, <1>3 DEF ChainEnds
<1>5. CASE ~safe /\ result # Unavailable
  BY <1>2, <1>5 DEF Answers
<1>6. CASE ~(~safe /\ result # Unavailable) /\ Len(sending.rest) = 1
  <2>1. Concludes(ChainEnds(last))
    BY <1>6 DEF Answers
  <2> QED
    BY <1>4, <2>1
<1>7. CASE ~(~safe /\ result # Unavailable) /\ Len(sending.rest) # 1
  <2>1. /\ sending' = [stage |-> "settings", rest |-> Tail(sending.rest), last |-> last]
        /\ UNCHANGED <<row, flow>>
    BY <1>7 DEF Answers
  <2> QED
    BY <1>3, <2>1, RunsAreRuns DEF Running, MailStages
<1> QED
  BY <1>5, <1>6, <1>7

LEMMA MailersStep == MailersInv /\ [MailersNext]_mailersVars => MailersInv'
<1> SUFFICES ASSUME MailersInv, [MailersNext]_mailersVars PROVE MailersInv'
  OBVIOUS
<1>1. taken \in Nat /\ loose \in Nat /\ cuts \in Nat
  BY DEF MailersInv, MailersTyped
\* A run that has handed nothing over is answered.
<1>2. ASSUME sending # NoRun, ~Closing,
             NEW result \in {Unknown, Unavailable, Passing, Permanent, BadLogin}, Answers(result),
             UNCHANGED <<taken, loose, cuts>>
      PROVE  MailersInv'
  <2>1. taken + loose <= cuts /\ loose <= cuts
    BY <1>2 DEF MailersInv, MailersTyped, Closing, Ended
  <2>2. ASSUME NEW r, r.status \in {"unknown", "failed"}, Concludes(r) PROVE MailersInv'
    BY <1>1, <1>2, <2>1, <2>2, ConclusionTells DEF MailersInv, MailersTyped, Closing, Ended
  <2>3. CASE Running' /\ sending'.stage = "settings" /\ UNCHANGED <<row, flow>>
    BY <1>1, <1>2, <2>1, <2>3 DEF MailersInv, MailersTyped, Closing, Ended
  <2> QED
    BY <1>2, <2>2, <2>3, AnswersLead DEF MailersInv
\* A run goes on.
<1>3. ASSUME NEW stage \in MailStages, NEW next \in MailStages, MailAt(stage), MailGoes(next),
             stage # "close", next = "close" => taken' = taken + 1,
             next # "close" => taken' = taken, UNCHANGED <<row, flow, loose, cuts>>
      PROVE  MailersInv'
  <2>1. DOMAIN sending' = {"stage", "rest", "last"} /\ sending'.stage = next
        /\ sending'.last = sending.last /\ sending.last \in {Unavailable, Passing, BadLogin}
    BY <1>3 DEF MailAt, MailGoes, MailersInv, MailersTyped, Running
  <2>3. Running' /\ sending'.stage = next
    BY <1>3, <2>1, RunsAreRuns DEF Running
  <2>2. taken + loose <= cuts /\ loose <= cuts /\ sending # NoRun
    BY <1>3 DEF MailersInv, Ended, MailAt, Closing
  <2> QED
    BY <1>1, <1>3, <2>3, <2>2 DEF MailersInv, MailersTyped, Closing, Ended, Running
<1>4. CASE BeginSending
  <2>1. /\ sending = NoRun /\ flow.live /\ ~Closing /\ UNCHANGED <<row, loose, taken, cuts>>
    BY <1>4 DEF BeginSending, MailAt, Closing
  <2>2. taken + loose <= cuts /\ loose <= cuts
    BY <2>1 DEF MailersInv, MailersTyped, Closing, Ended, Running
  <2>3. CASE row.status \in Settled
    <3>1. sending' = sending /\ flow' = [flow EXCEPT !.live = FALSE]
      BY <1>4, <2>3 DEF BeginSending
    <3>2. flow'.live = FALSE /\ DOMAIN flow' = {"live", "tries", "key"}
      BY <3>1 DEF MailersInv, MailersTyped
    <3> QED
      BY <1>1, <2>1, <2>2, <3>1, <3>2 DEF MailersInv, MailersTyped, Closing
  <2>4. CASE row.status \notin Settled
    <3>1. /\ sending' = [stage |-> "settings", rest |-> Chain, last |-> Unavailable]
          /\ flow' = flow
      BY <1>4, <2>4 DEF BeginSending
    <3>2. Running' /\ sending'.stage = "settings"
      BY <3>1, RunsAreRuns DEF Running, MailStages
    <3> QED
      BY <1>1, <2>1, <2>2, <2>4, <3>1, <3>2 DEF MailersInv, MailersTyped, Closing, Settled
  <2> QED
    BY <2>3, <2>4
<1>5. CASE ReadSettings
  <2>1. MailAt("settings") /\ sending # NoRun /\ ~Closing /\ UNCHANGED <<taken, loose, cuts>>
    BY <1>5 DEF ReadSettings, MailAt, Closing
  <2>2. \/ MailGoes("open") /\ UNCHANGED <<row, flow>>
        \/ Answers(Unavailable) \/ Answers(Unknown)
    BY <1>5 DEF ReadSettings
  <2> QED
    BY <1>2, <1>3, <2>1, <2>2 DEF MailStages
<1>6. CASE OpenConnection
  <2>1. MailAt("open") /\ sending # NoRun /\ ~Closing /\ UNCHANGED <<taken, loose, cuts>>
    BY <1>6 DEF OpenConnection, MailAt, Closing
  <2>2. \/ MailGoes("handing") /\ UNCHANGED <<row, flow>>
        \/ \E result \in ProviderOpens(Provider) \union {Unknown} : Answers(result)
    BY <1>6 DEF OpenConnection
  <2>3. ProviderOpens(Provider) \subseteq {Unknown, Unavailable, Passing, Permanent, BadLogin}
    BY DEF ProviderOpens, SmtpOpens, PostOpens
  <2> QED
    BY <1>2, <1>3, <2>1, <2>2, <2>3 DEF MailStages
<1>7. CASE HandOver
  <2>1. MailAt("handing") /\ sending # NoRun /\ ~Closing /\ UNCHANGED <<loose, cuts>>
    BY <1>7 DEF HandOver, MailAt, Closing
  <2>2. \/ taken' = taken + 1 /\ MailGoes("close") /\ UNCHANGED <<row, flow>>
        \/ UNCHANGED taken /\ \E result \in ProviderTells(Provider, FALSE) : Answers(result)
    BY <1>7 DEF HandOver
  <2>3. ProviderTells(Provider, FALSE) \subseteq {Unknown, Unavailable, Passing, Permanent, BadLogin}
    BY DEF ProviderTells, SmtpTells, PostTells
  <2> QED
    BY <1>2, <1>3, <2>1, <2>2, <2>3 DEF MailStages
<1>8. CASE ReadAnswer
  <2>1. MailAt("close") /\ UNCHANGED <<taken, loose, cuts>>
    BY <1>8 DEF ReadAnswer
  <2>2. PICK result \in {Sent, Unknown} : Answers(result)
    BY <1>8 DEF ReadAnswer, ProviderTells, SmtpTells, PostTells
  <2>3. result.status \in {"delivered", "unknown"} /\ result # Unavailable
    BY DEF Sent, Unknown, Unavailable
  <2>4. Concludes(result)
    BY <2>2, <2>3 DEF Answers
  <2>5. sending' = NoRun /\ Ended'
    BY <2>3, <2>4, ConclusionTells DEF Ended, MailersInv
  <2>6. MailersTyped'
    BY <1>1, <2>1, <2>3, <2>4, ConclusionTells DEF MailersInv, MailersTyped
  <2>7. taken > 0 /\ taken + loose <= cuts + 1 /\ loose <= cuts
    BY <1>1, <2>1 DEF MailersInv, MailAt, Closing
  <2> QED
    BY <2>1, <2>5, <2>6, <2>7 DEF MailersInv, MailAt, Closing
<1>9. CASE CutShort
  <2>1. /\ sending # NoRun /\ sending' = NoRun /\ cuts' = cuts + 1 /\ taken' = taken
        /\ (loose' = loose + 1 /\ MailAt("handing")) \/ loose' = loose
        /\ \/ /\ row' = [status |-> "sending", attempt |-> row.attempt + 1]
              /\ flow' = StepFails
           \/ UNCHANGED <<row, flow>>
    BY <1>9 DEF CutShort
  <2>2. /\ flow'.live \in BOOLEAN /\ DOMAIN flow' = {"live", "tries", "key"}
        /\ DOMAIN row' = {"status", "attempt"} /\ row'.status # "delivered"
    <3>1. /\ DOMAIN StepFails = {"live", "tries", "key"} /\ StepFails.live \in BOOLEAN
          /\ flow.live \in BOOLEAN /\ DOMAIN flow = {"live", "tries", "key"}
          /\ DOMAIN row = {"status", "attempt"} /\ row.status # "delivered"
      BY <2>1 DEF StepFails, MailersInv, MailersTyped
    <3>2. CASE UNCHANGED <<row, flow>>
      BY <3>1, <3>2
    <3>3. CASE row' = [status |-> "sending", attempt |-> row.attempt + 1] /\ flow' = StepFails
      BY <3>1, <3>3
    <3> QED
      BY <2>1, <3>2, <3>3
  <2>3. /\ loose' \in Nat /\ cuts' \in Nat /\ taken' \in Nat /\ loose' <= cuts'
        /\ taken' + loose' <= cuts'
    <3>1. CASE loose' = loose + 1 /\ MailAt("handing")
      <4>1. taken + loose <= cuts /\ loose <= cuts
        <5>1. ~Closing /\ ~Ended
          BY <2>1, <3>1 DEF MailersInv, MailAt, Closing, Ended
        <5> QED
          BY <5>1 DEF MailersInv
      <4> QED
        BY <1>1, <2>1, <3>1, <4>1
    <3>2. CASE loose' = loose
      <4>1. taken + loose <= cuts + 1 /\ loose <= cuts
        BY DEF MailersInv
      <4> QED
        BY <1>1, <2>1, <3>2, <4>1
    <3> QED
      BY <2>1, <3>1, <3>2
  <2> QED
    <3>1. MailersTyped' /\ ~Closing'
      BY <2>1, <2>2, <2>3 DEF MailersTyped, Closing
    <3>2. \A n, m, c \in Nat : n + m <= c => n + m <= c + 1
      OBVIOUS
    <3>3. taken' + loose' <= cuts' + 1
      BY <2>3, <3>2
    <3> QED
      BY <2>1, <2>2, <2>3, <3>1, <3>3 DEF MailersInv
<1>10. CASE LoosePost
  <2>1. /\ loose > 0 /\ loose' = loose - 1 /\ (taken' = taken + 1 \/ taken' = taken)
        /\ UNCHANGED <<row, flow, sending, cuts>>
    BY <1>10 DEF LoosePost
  <2> QED
    BY <1>1, <2>1 DEF MailersInv, MailersTyped, Closing, Ended, Running
<1>11. CASE CancelMail
  <2>1. /\ sending = NoRun /\ row.status = "pending" /\ row' = [row EXCEPT !.status = "cancelled"]
        /\ UNCHANGED <<flow, sending, loose, taken, cuts>>
    BY <1>11 DEF CancelMail
  <2>2. row'.status = "cancelled" /\ DOMAIN row' = {"status", "attempt"}
    BY <2>1 DEF MailersInv, MailersTyped
  <2> QED
    BY <2>1, <2>2 DEF MailersInv, MailersTyped, Closing, Ended
<1>12. CASE RetryMail
  <2>1. /\ sending = NoRun /\ ~flow.live /\ row' = [row EXCEPT !.status = "pending"]
        /\ \/ flow' = flow
           \/ flow' = [live |-> TRUE, tries |-> 0, key |-> row.attempt + 1]
        /\ taken' = 0 /\ UNCHANGED <<sending, loose, cuts>>
    BY <1>12 DEF RetryMail
  <2>2. /\ row'.status = "pending" /\ DOMAIN row' = {"status", "attempt"}
        /\ flow'.live \in BOOLEAN /\ DOMAIN flow' = {"live", "tries", "key"}
    <3>1. /\ flow.live \in BOOLEAN /\ DOMAIN flow = {"live", "tries", "key"}
          /\ DOMAIN row = {"status", "attempt"}
      BY DEF MailersInv, MailersTyped
    <3>2. row'.status = "pending" /\ DOMAIN row' = {"status", "attempt"}
      BY <2>1, <3>1
    <3>3. CASE flow' = flow
      BY <3>1, <3>2, <3>3
    <3>4. CASE flow' = [live |-> TRUE, tries |-> 0, key |-> row.attempt + 1]
      <4>1. flow'.live = TRUE /\ DOMAIN flow' = {"live", "tries", "key"}
        BY <3>4
      <4> QED
        BY <3>2, <4>1
    <3> QED
      BY <2>1, <3>3, <3>4
  <2> QED
    BY <1>1, <2>1, <2>2 DEF MailersInv, MailersTyped, Closing, Ended
<1>13. CASE EditMailSettings \/ UNCHANGED mailersVars
  <2>1. UNCHANGED <<row, flow, sending, loose, taken, cuts>>
    BY <1>13 DEF EditMailSettings, mailersVars
  <2> QED
    BY <2>1 DEF MailersInv, MailersTyped, Closing, Ended, Running
<1> QED
  BY <1>4, <1>5, <1>6, <1>7, <1>8, <1>9, <1>10, <1>11, <1>12, <1>13 DEF MailersNext

LEMMA MailersStart == MailersInit => MailersInv
BY DEF MailersInit, MailersInv, MailersTyped, MailAt, Closing, Ended

\* One request hands over at most one mail and one more for each run that was cut short, and
\* what is told agrees with what was taken: for every number of attempts, retries and cuts
\* (capabilities/notification.md, "must not be sent again blindly").
THEOREM MailIsNotSentAgainBlindly == MailersSpec => []MailedAtMostOnce
<1>1. MailersInit => MailersInv
  BY MailersStart
<1>2. MailersInv => MailedAtMostOnce
  <2> SUFFICES ASSUME MailersInv PROVE MailedAtMostOnce
    OBVIOUS
  <2>1. taken \in Nat /\ loose \in Nat /\ cuts \in Nat
    BY DEF MailersInv, MailersTyped
  <2>2. sending = NoRun /\ row.status \in {"pending", "failed", "dead"} =>
          ~Closing /\ ~Ended
    BY DEF MailAt, Closing, Ended
  <2> QED
    BY <2>1, <2>2 DEF MailersInv, MailedAtMostOnce
<1> QED
  BY <1>1, <1>2, MailersStep, PTL DEF MailersSpec

-----------------------------------------------------------------------------
(* Identity: a reset token serves once for the requests that read it after *)
(* it was consumed, and a request holds a live token only if none had      *)
(* superseded it.  What bounds the resets is the number of requests that   *)
(* held the token live when it was first consumed: each reset gives one up.*)

Holding(n, at) == {w \in Windows : at[w][1] = "using" /\ at[w][2] = n /\ at[w][4]}
ResetsOf(n, done) == {i \in DOMAIN done : done[i].challenge = n}

ChallengeRows == [purpose : Purposes, consumed : BOOLEAN, until : Nat, attempts : Nat,
                  seen : SUBSET Nat]
ResetRows == [challenge : Nat, superseded : BOOLEAN]

\* What each request is in the middle of.
WindowsSound(at, list) ==
    /\ DOMAIN at = Windows /\ at = [w \in Windows |-> at[w]]
    /\ \A w \in Windows :
         /\ at[w][1] = "requesting" => at[w][2] \subseteq DOMAIN list
         /\ at[w][1] = "using" =>
              /\ at[w][2] \in DOMAIN list /\ at[w][3] \in Nat
              /\ at[w][4] \in BOOLEAN /\ at[w][5] \in BOOLEAN
              /\ at[w][4] => ~at[w][5]

ChallengesSound(list) ==
    /\ list \in Seq(ChallengeRows)
    /\ \A m \in DOMAIN list : \A n \in list[m].seen : n \in DOMAIN list /\ list[n].consumed

ResetsSound(done, list) ==
    /\ done \in Seq(ResetRows)
    /\ \A i \in DOMAIN done : done[i].challenge \in DOMAIN list /\ ~done[i].superseded

SpentOnce(n, list, at, done) ==
    /\ ~list[n].consumed => ResetsOf(n, done) = {}
    /\ Cardinality(ResetsOf(n, done)) + Cardinality(Holding(n, at)) <= Cardinality(Windows)

IdentityInv ==
    /\ identityTime \in Nat
    /\ ChallengesSound(challenges) /\ WindowsSound(window, challenges)
    /\ ResetsSound(resets, challenges)
    /\ \A n \in DOMAIN challenges : SpentOnce(n, challenges, window, resets)

LEMMA IdentityCounts ==
  ASSUME IdentityAssumption, NEW n, NEW at, NEW done, DOMAIN done \subseteq 1..Len(done), Len(done) \in Nat
  PROVE  /\ IsFiniteSet(Holding(n, at)) /\ Cardinality(Holding(n, at)) \in Nat
         /\ Cardinality(Holding(n, at)) <= Cardinality(Windows) /\ Cardinality(Windows) \in Nat
         /\ IsFiniteSet(ResetsOf(n, done)) /\ Cardinality(ResetsOf(n, done)) \in Nat
<1>1. IsFiniteSet(Windows) /\ Holding(n, at) \subseteq Windows
  BY DEF IdentityAssumption, Holding
<1>2. IsFiniteSet(1..Len(done)) /\ ResetsOf(n, done) \subseteq 1..Len(done)
  BY FS_Interval DEF ResetsOf
<1> QED
  BY <1>1, <1>2, FS_Subset, FS_CardinalityType

\* Whatever gives up a live token keeps the count.
LEMMA FewerHoldersKeep ==
  ASSUME IdentityAssumption, NEW n, NEW list, NEW new, NEW at, NEW now, NEW done,
         DOMAIN done \subseteq 1..Len(done), Len(done) \in Nat,
         list[n].consumed => new[n].consumed,
         SpentOnce(n, list, at, done), Holding(n, now) \subseteq Holding(n, at)
  PROVE  SpentOnce(n, new, now, done)
<1>1. /\ Cardinality(Holding(n, now)) <= Cardinality(Holding(n, at))
      /\ Cardinality(Holding(n, now)) \in Nat /\ Cardinality(Holding(n, at)) \in Nat
      /\ Cardinality(ResetsOf(n, done)) \in Nat /\ Cardinality(Windows) \in Nat
  <2>1. IsFiniteSet(Holding(n, at)) /\ Cardinality(Holding(n, at)) \in Nat
        /\ Cardinality(Windows) \in Nat /\ Cardinality(ResetsOf(n, done)) \in Nat
    BY IdentityCounts
  <2>2. Cardinality(Holding(n, now)) \in Nat
    BY IdentityCounts
  <2>3. Cardinality(Holding(n, now)) <= Cardinality(Holding(n, at))
    BY <2>1, FS_Subset
  <2> QED
    BY <2>1, <2>2, <2>3
<1> QED
  BY <1>1 DEF SpentOnce

\* A step of one request: the others stay where they are.
LEMMA OneWindowMoves ==
  ASSUME NEW w \in Windows, NEW what, WindowsSound(window, challenges), Shows(w, what)
  PROVE  /\ window'[w] = what /\ DOMAIN window' = Windows
         /\ window' = [v \in Windows |-> window'[v]]
         /\ \A v \in Windows : v # w => window'[v] = window[v]
BY DEF Shows, WindowsSound

LEMMA GoesIdle ==
  ASSUME IdentityAssumption, IdentityInv, NEW w \in Windows, NEW what, Shows(w, what),
         what[1] \notin {"using", "requesting"}, UNCHANGED <<challenges, resets>>,
         identityTime' \in Nat
  PROVE  IdentityInv'
<1>1. /\ window'[w] = what /\ DOMAIN window' = Windows
      /\ window' = [v \in Windows |-> window'[v]]
      /\ \A v \in Windows : v # w => window'[v] = window[v]
  BY OneWindowMoves DEF IdentityInv
<1>2. WindowsSound(window', challenges)
  BY <1>1 DEF IdentityInv, WindowsSound
<1>3. \A n : Holding(n, window') \subseteq Holding(n, window)
  BY <1>1 DEF Holding
<1>4. DOMAIN resets \subseteq 1..Len(resets) /\ Len(resets) \in Nat
  BY DEF IdentityInv, ResetsSound
<1>5. \A n \in DOMAIN challenges : SpentOnce(n, challenges, window', resets)
  BY <1>3, <1>4, FewerHoldersKeep DEF IdentityInv
<1> QED
  BY <1>2, <1>5 DEF IdentityInv

\* A new challenge has no resets, and supersedes what is consumed.
LEMMA ChallengeAppended ==
  ASSUME IdentityAssumption, IdentityInv, NEW old, NEW c, NEW now,
         old \in Seq(ChallengeRows), DOMAIN old = DOMAIN challenges,
         \A n \in DOMAIN old : /\ old[n].seen = challenges[n].seen
                               /\ challenges[n].consumed => old[n].consumed,
         c \in ChallengeRows, \A n \in c.seen : n \in DOMAIN old /\ old[n].consumed,
         WindowsSound(now, challenges), \A n : Holding(n, now) \subseteq Holding(n, window),
         challenges' = Append(old, c), window' = now, resets' = resets, identityTime' = identityTime
  PROVE  IdentityInv'
<1>1. /\ challenges' \in Seq(ChallengeRows) /\ DOMAIN challenges' = 1..(Len(old) + 1)
      /\ DOMAIN old = 1..Len(old) /\ Len(old) \in Nat
      /\ challenges'[Len(old) + 1] = c /\ \A n \in DOMAIN old : challenges'[n] = old[n]
  OBVIOUS
<1>2. /\ ChallengesSound(challenges) /\ ResetsSound(resets, challenges)
      /\ \A n \in DOMAIN challenges : SpentOnce(n, challenges, window, resets)
      /\ identityTime \in Nat
  BY DEF IdentityInv
<1>3. \A n \in DOMAIN old : n \in DOMAIN challenges' /\ n # Len(old) + 1
  BY <1>1
<1>4. ChallengesSound(challenges')
  BY <1>1, <1>2, <1>3 DEF ChallengesSound
<1>5. ResetsSound(resets, challenges')
  BY <1>2, <1>3 DEF ResetsSound
<1>6. WindowsSound(now, challenges')
  <2>1. DOMAIN challenges \subseteq DOMAIN challenges'
    BY <1>3
  <2> QED
    BY <2>1 DEF WindowsSound
<1>7. DOMAIN resets \subseteq 1..Len(resets) /\ Len(resets) \in Nat
  BY <1>2 DEF ResetsSound
<1>8. ASSUME NEW n \in DOMAIN challenges' PROVE SpentOnce(n, challenges', now, resets)
  <2>1. CASE n \in DOMAIN old
    <3>1. challenges[n].consumed => challenges'[n].consumed
      BY <1>1, <2>1
    <3>2. SpentOnce(n, challenges, window, resets)
      BY <1>2, <2>1
    <3> QED
      BY <1>7, <3>1, <3>2, FewerHoldersKeep
  <2>2. CASE n \notin DOMAIN old
    <3>1. ResetsOf(n, resets) = {}
      BY <1>2, <2>2 DEF ResetsOf, ResetsSound
    <3>2. Cardinality(ResetsOf(n, resets)) = 0
      BY <3>1, FS_EmptySet
    <3>3. /\ Cardinality(Holding(n, now)) <= Cardinality(Windows)
          /\ Cardinality(Holding(n, now)) \in Nat /\ Cardinality(Windows) \in Nat
      BY <1>7, IdentityCounts
    <3> QED
      BY <3>1, <3>2, <3>3 DEF SpentOnce
  <2> QED
    BY <2>1, <2>2
<1> QED
  BY <1>2, <1>4, <1>5, <1>6, <1>8 DEF IdentityInv


LEMMA RegistrationIsSound ==
  ASSUME IdentityAssumption, IdentityInv, RegisterLocalUser
  PROVE  IdentityInv'
<1> DEFINE c == Challenge("email_verification", {})
<1>1. challenges' = Append(challenges, c) /\ UNCHANGED <<window, resets, identityTime>>
  BY DEF RegisterLocalUser, Issues
<1>2. c \in ChallengeRows /\ c.seen = {}
  BY DEF Challenge, ChallengeRows, Purposes, IdentityInv, IdentityAssumption
<1>3. challenges \in Seq(ChallengeRows) /\ WindowsSound(window, challenges)
  BY DEF IdentityInv, ChallengesSound
<1> HIDE DEF c
<1> QED
  BY <1>1, <1>2, <1>3, ChallengeAppended

LEMMA RequestIsSound ==
  ASSUME IdentityAssumption, IdentityInv, NEW w \in Windows, RequestPasswordReset(w)
  PROVE  IdentityInv'
<1> DEFINE seen == window[w][2]
           c == Challenge("password_reset", seen)
           old == Consumed(seen)
           at == [window EXCEPT ![w] = <<"idle">>]
<1>1. /\ challenges' = Append(old, c) /\ window' = at /\ UNCHANGED <<resets, identityTime>>
      /\ window[w][1] = "requesting" /\ Shows(w, <<"idle">>)
  BY DEF RequestPasswordReset, Shows, WindowIn
<1>2. seen \subseteq DOMAIN challenges /\ DOMAIN challenges = 1..Len(challenges)
      /\ Len(challenges) \in Nat /\ challenges \in Seq(ChallengeRows)
  BY <1>1 DEF IdentityInv, WindowsSound, ChallengesSound
<1>3. c \in ChallengeRows /\ c.seen = seen
  BY <1>2 DEF Challenge, ChallengeRows, Purposes, IdentityInv, IdentityAssumption
<1>4. /\ old \in Seq(ChallengeRows) /\ DOMAIN old = DOMAIN challenges
      /\ \A n \in DOMAIN old : /\ old[n].seen = challenges[n].seen
                               /\ challenges[n].consumed => old[n].consumed
                               /\ n \in seen => old[n].consumed
  <2>1. ASSUME NEW n \in DOMAIN challenges
        PROVE  /\ [challenges[n] EXCEPT !.consumed = TRUE] \in ChallengeRows
               /\ [challenges[n] EXCEPT !.consumed = TRUE].seen = challenges[n].seen
               /\ [challenges[n] EXCEPT !.consumed = TRUE].consumed
               /\ challenges[n] \in ChallengeRows
    <3>1. challenges[n] \in ChallengeRows
      BY <1>2
    <3> QED
      BY <3>1 DEF ChallengeRows
  <2>2. old = [n \in 1..Len(challenges) |->
                IF n \in seen THEN [challenges[n] EXCEPT !.consumed = TRUE] ELSE challenges[n]]
    BY <1>2 DEF Consumed
  <2>3. \A n \in 1..Len(challenges) : old[n] \in ChallengeRows
    BY <1>2, <2>1, <2>2
  <2>4. old \in Seq(ChallengeRows)
    BY <1>2, <2>2, <2>3
  <2> QED
    BY <1>2, <2>1, <2>2, <2>4
<1>5. /\ at[w] = <<"idle">> /\ DOMAIN at = Windows /\ at = [v \in Windows |-> at[v]]
      /\ \A v \in Windows : v # w => at[v] = window[v]
  BY DEF IdentityInv, WindowsSound
<1>6. WindowsSound(at, challenges)
  BY <1>5 DEF IdentityInv, WindowsSound
<1>7. \A n : Holding(n, at) \subseteq Holding(n, window)
  BY <1>5 DEF Holding
<1> HIDE DEF c, old, at, seen
<1>8. \A n \in c.seen : n \in DOMAIN old /\ old[n].consumed
  BY <1>2, <1>3, <1>4
<1> QED
  BY <1>1, <1>3, <1>4, <1>6, <1>7, <1>8, ChallengeAppended

\* A request may hold a token live only while nothing has consumed it.
LEMMA ReadingIsSound ==
  ASSUME IdentityAssumption, IdentityInv, NEW w \in Windows, NEW n \in DOMAIN challenges,
         ChallengeReads(w, n)
  PROVE  IdentityInv'
<1> DEFINE live == ~challenges[n].consumed /\ identityTime <= challenges[n].until
           late == Superseded(n)
           what == <<"using", n, challenges[n].attempts, live, late>>
<1>1. Shows(w, what) /\ UNCHANGED <<challenges, resets, identityTime>>
  BY DEF ChallengeReads
<1>2. live \in BOOLEAN /\ late \in BOOLEAN /\ (live => ~challenges[n].consumed)
  BY DEF Superseded
<1>3. late => challenges[n].consumed
  <2> HAVE late
  <2>1. PICK m \in DOMAIN challenges : n \in challenges[m].seen
    BY DEF Superseded
  <2> QED
    BY <2>1 DEF IdentityInv, ChallengesSound
<1>4. challenges[n].attempts \in Nat
  <2>1. challenges[n] \in ChallengeRows
    BY DEF IdentityInv, ChallengesSound
  <2> QED
    BY <2>1 DEF ChallengeRows
<1> HIDE DEF live, late
<1>5. /\ what[1] = "using" /\ what[2] = n /\ what[3] \in Nat
      /\ what[4] = live /\ what[5] = late
  BY <1>4
<1> HIDE DEF what
<1>6. /\ window'[w] = what /\ DOMAIN window' = Windows
      /\ window' = [v \in Windows |-> window'[v]]
      /\ \A v \in Windows : v # w => window'[v] = window[v]
  BY <1>1, OneWindowMoves DEF IdentityInv
<1>7. WindowsSound(window', challenges)
  <2> SUFFICES ASSUME NEW v \in Windows
               PROVE  /\ window'[v][1] = "requesting" => window'[v][2] \subseteq DOMAIN challenges
                      /\ window'[v][1] = "using" =>
                           /\ window'[v][2] \in DOMAIN challenges /\ window'[v][3] \in Nat
                           /\ window'[v][4] \in BOOLEAN /\ window'[v][5] \in BOOLEAN
                           /\ window'[v][4] => ~window'[v][5]
    BY <1>6 DEF WindowsSound
  <2>1. CASE v # w
    BY <1>6, <2>1 DEF IdentityInv, WindowsSound
  <2>2. CASE v = w
    BY <1>2, <1>3, <1>5, <1>6, <2>2
  <2> QED
    BY <2>1, <2>2
<1>8. DOMAIN resets \subseteq 1..Len(resets) /\ Len(resets) \in Nat
  BY DEF IdentityInv, ResetsSound
<1>9. ASSUME NEW m \in DOMAIN challenges PROVE SpentOnce(m, challenges, window', resets)
  <2>1. SpentOnce(m, challenges, window, resets)
    BY DEF IdentityInv
  <2>2. CASE m # n \/ ~live
    <3>1. Holding(m, window') \subseteq Holding(m, window)
      BY <1>5, <1>6, <2>2 DEF Holding
    <3> QED
      BY <1>8, <2>1, <3>1, FewerHoldersKeep
  <2>3. CASE m = n /\ live
    <3>1. ResetsOf(m, resets) = {}
      BY <1>2, <2>1, <2>3 DEF SpentOnce
    <3>2. Cardinality(ResetsOf(m, resets)) = 0
      BY <3>1, FS_EmptySet
    <3>3. /\ Cardinality(Holding(m, window')) <= Cardinality(Windows)
          /\ Cardinality(Holding(m, window')) \in Nat /\ Cardinality(Windows) \in Nat
      BY <1>8, IdentityCounts
    <3> QED
      BY <3>1, <3>2, <3>3 DEF SpentOnce
  <2> QED
    BY <2>2, <2>3
<1> QED
  BY <1>1, <1>7, <1>9 DEF IdentityInv

\* What consuming a token makes of the rows.
LEMMA ConsumingMarks ==
  ASSUME IdentityAssumption, IdentityInv, NEW w \in Windows, window[w][1] = "using",
         ConsumeChallenge(w)
  PROVE  /\ challenges' \in Seq(ChallengeRows) /\ DOMAIN challenges' = DOMAIN challenges
         /\ window[w][2] \in DOMAIN challenges
         /\ \A n \in DOMAIN challenges : /\ challenges'[n].seen = challenges[n].seen
                                         /\ challenges[n].consumed => challenges'[n].consumed
         /\ window[w][4] => challenges'[window[w][2]].consumed
<1> DEFINE n == window[w][2]
           tried == window[w][3]
           live == window[w][4]
           mid == [challenges[n] EXCEPT !.attempts = tried + 1]
           new == [mid EXCEPT !.consumed = @ \/ live]
<1>1. /\ n \in DOMAIN challenges /\ tried \in Nat /\ live \in BOOLEAN
      /\ challenges \in Seq(ChallengeRows)
  BY DEF IdentityInv, WindowsSound, ChallengesSound
<1>2. challenges' = [challenges EXCEPT ![n] = new]
  BY <1>1 DEF ConsumeChallenge, Live
<1>3. challenges[n] \in ChallengeRows
  BY <1>1
<1> HIDE DEF n, tried, live
<1>4. mid \in ChallengeRows /\ mid.seen = challenges[n].seen /\ mid.consumed = challenges[n].consumed
  <2>1. tried + 1 \in Nat
    BY <1>1
  <2>2. mid \in ChallengeRows
    BY <1>3, <2>1 DEF ChallengeRows
  <2>3. mid.seen = challenges[n].seen
    BY <1>3 DEF ChallengeRows
  <2>4. mid.consumed = challenges[n].consumed
    BY <1>3 DEF ChallengeRows
  <2> QED
    BY <2>2, <2>3, <2>4
<1> HIDE DEF mid
<1>5. /\ new \in ChallengeRows /\ new.seen = mid.seen
      /\ mid.consumed => new.consumed
      /\ live => new.consumed
  <2>1. mid.consumed \in BOOLEAN
    BY <1>4 DEF ChallengeRows
  <2> DEFINE both == mid.consumed \/ live
  <2>2. both \in BOOLEAN /\ (mid.consumed => both) /\ (live => both)
    OBVIOUS
  <2>3. new = [mid EXCEPT !.consumed = both]
    OBVIOUS
  <2> HIDE DEF both, new
  <2> QED
    BY <1>4, <2>2, <2>3 DEF ChallengeRows
<1> HIDE DEF new
<1>6. /\ challenges'[n] = new /\ DOMAIN challenges' = DOMAIN challenges
      /\ \A m \in DOMAIN challenges : m # n => challenges'[m] = challenges[m]
  BY <1>1, <1>2
<1>7. challenges' \in Seq(ChallengeRows)
  BY <1>1, <1>2, <1>5
<1>8. /\ \A m \in DOMAIN challenges : /\ challenges'[m].seen = challenges[m].seen
                                      /\ challenges[m].consumed => challenges'[m].consumed
      /\ live => challenges'[n].consumed
  BY <1>4, <1>5, <1>6
<1> QED
  BY <1>1, <1>6, <1>7, <1>8 DEF n, live

LEMMA UsingIsSound ==
  ASSUME IdentityAssumption, IdentityInv, NEW w \in Windows, VerifyEmail(w) \/ ResetPassword(w)
  PROVE  IdentityInv'
<1> DEFINE n == window[w][2]
<1>1. /\ window[w][1] = "using" /\ ConsumeChallenge(w) /\ Shows(w, <<"idle">>)
      /\ UNCHANGED identityTime
  BY DEF VerifyEmail, ResetPassword, Uses, WindowIn
<1>2. \/ UNCHANGED resets
      \/ /\ window[w][4]
         /\ resets' = Append(resets, [challenge |-> n, superseded |-> window[w][5]])
  BY DEF VerifyEmail, ResetPassword, Live
<1>3. /\ challenges' \in Seq(ChallengeRows) /\ DOMAIN challenges' = DOMAIN challenges
      /\ n \in DOMAIN challenges
      /\ \A m \in DOMAIN challenges : /\ challenges'[m].seen = challenges[m].seen
                                      /\ challenges[m].consumed => challenges'[m].consumed
      /\ window[w][4] => challenges'[n].consumed
  BY <1>1, ConsumingMarks
<1>4. /\ window'[w] = <<"idle">> /\ DOMAIN window' = Windows
      /\ window' = [v \in Windows |-> window'[v]]
      /\ \A v \in Windows : v # w => window'[v] = window[v]
  BY <1>1, OneWindowMoves DEF IdentityInv
<1>5. ChallengesSound(challenges')
  BY <1>3 DEF IdentityInv, ChallengesSound
<1>6. WindowsSound(window', challenges')
  BY <1>3, <1>4 DEF IdentityInv, WindowsSound
<1>7. \A m : Holding(m, window') \subseteq Holding(m, window)
  BY <1>4 DEF Holding
<1>8. /\ DOMAIN resets = 1..Len(resets) /\ Len(resets) \in Nat /\ resets \in Seq(ResetRows)
      /\ ResetsSound(resets, challenges)
  BY DEF IdentityInv, ResetsSound
<1>9. \A m \in DOMAIN challenges : SpentOnce(m, challenges, window, resets)
  BY DEF IdentityInv
<1>10. CASE UNCHANGED resets
  <2>1. ResetsSound(resets, challenges')
    BY <1>3, <1>8 DEF ResetsSound
  <2>2. ASSUME NEW m \in DOMAIN challenges PROVE SpentOnce(m, challenges', window', resets)
    BY <1>3, <1>7, <1>8, <1>9, FewerHoldersKeep
  <2> QED
    BY <1>1, <1>3, <1>5, <1>6, <1>10, <2>1, <2>2 DEF IdentityInv
<1>11. CASE /\ window[w][4]
            /\ resets' = Append(resets, [challenge |-> n, superseded |-> window[w][5]])
  <2> DEFINE late == window[w][5]
             reset == [challenge |-> n, superseded |-> late]
  <2>1. late \in BOOLEAN /\ ~late
    BY <1>1, <1>11 DEF IdentityInv, WindowsSound
  <2>2. n \in Nat
    BY <1>3 DEF IdentityInv, ChallengesSound
  <2> HIDE DEF late
  <2>3. reset \in ResetRows /\ ~reset.superseded /\ reset.challenge = n
    BY <2>1, <2>2 DEF ResetRows
  <2>4. resets' = Append(resets, reset)
    BY <1>11 DEF late
  <2> HIDE DEF reset, n
  <2>5. /\ resets' \in Seq(ResetRows) /\ DOMAIN resets' = 1..(Len(resets) + 1)
        /\ Len(resets') = Len(resets) + 1
        /\ resets'[Len(resets) + 1] = reset /\ \A i \in DOMAIN resets : resets'[i] = resets[i]
    BY <1>8, <2>3, <2>4
  <2>6. ResetsSound(resets', challenges')
    BY <1>3, <1>8, <2>3, <2>5 DEF ResetsSound
  <2>7. /\ ResetsOf(n, resets') = ResetsOf(n, resets) \union {Len(resets) + 1}
        /\ Len(resets) + 1 \notin ResetsOf(n, resets)
        /\ \A m : m # n => ResetsOf(m, resets') = ResetsOf(m, resets)
    BY <1>8, <2>3, <2>5 DEF ResetsOf
  <2>8. Holding(n, window') = Holding(n, window) \ {w} /\ w \in Holding(n, window)
    BY <1>1, <1>4, <1>11 DEF Holding, n
  <2>9. ASSUME NEW m \in DOMAIN challenges PROVE SpentOnce(m, challenges', window', resets')
    <3>1. CASE m # n
      <4>1. SpentOnce(m, challenges', window', resets)
        BY <1>3, <1>7, <1>8, <1>9, FewerHoldersKeep
      <4> QED
        BY <2>7, <3>1, <4>1 DEF SpentOnce
    <3>2. CASE m = n
      <4>1. /\ IsFiniteSet(Holding(n, window)) /\ Cardinality(Holding(n, window)) \in Nat
            /\ IsFiniteSet(ResetsOf(n, resets)) /\ Cardinality(ResetsOf(n, resets)) \in Nat
            /\ Cardinality(Windows) \in Nat
        BY <1>8, IdentityCounts
      <4> DEFINE open == Holding(n, window)
                 done == ResetsOf(n, resets)
      <4>2. Cardinality(Holding(n, window')) = Cardinality(Holding(n, window)) - 1
        <5>1. IsFiniteSet(open) /\ w \in open /\ Holding(n, window') = open \ {w}
          BY <2>8, <4>1
        <5> HIDE DEF open
        <5>2. Cardinality(open \ {w}) = Cardinality(open) - 1
          BY <5>1, FS_RemoveElement
        <5> QED
          BY <5>1, <5>2 DEF open
      <4>3. Cardinality(ResetsOf(n, resets')) = Cardinality(ResetsOf(n, resets)) + 1
        <5> DEFINE k == Len(resets) + 1
        <5>1. IsFiniteSet(done) /\ k \notin done /\ ResetsOf(n, resets') = done \union {k}
          BY <2>7, <4>1
        <5> HIDE DEF done, k
        <5>2. Cardinality(done \union {k}) = Cardinality(done) + 1
          BY <5>1, FS_AddElement
        <5> QED
          BY <5>1, <5>2 DEF done
      <4>4. challenges'[n].consumed
        BY <1>3, <1>11 DEF n
      <4>5. Cardinality(ResetsOf(n, resets)) + Cardinality(Holding(n, window)) <= Cardinality(Windows)
        BY <1>9, <3>2 DEF SpentOnce
      <4> QED
        BY <3>2, <4>1, <4>2, <4>3, <4>4, <4>5 DEF SpentOnce
    <3> QED
      BY <3>1, <3>2
  <2> QED
    BY <1>1, <1>3, <1>5, <1>6, <2>6, <2>9 DEF IdentityInv
<1> QED
  BY <1>2, <1>10, <1>11

LEMMA IdentityKeeps ==
  ASSUME IdentityAssumption, IdentityInv, [IdentityNext]_identityVars
  PROVE  IdentityInv'
<1>1. ASSUME UNCHANGED <<challenges, window, resets>>, identityTime' \in Nat PROVE IdentityInv'
  <2>1. ChallengesSound(challenges') /\ WindowsSound(window', challenges')
        /\ ResetsSound(resets', challenges')
    BY <1>1 DEF IdentityInv
  <2>2. \A n \in DOMAIN challenges : SpentOnce(n, challenges', window', resets')
    BY <1>1 DEF IdentityInv
  <2> QED
    BY <1>1, <2>1, <2>2 DEF IdentityInv
<1>2. identityTime \in Nat
  BY DEF IdentityInv
<1>3. CASE RegisterLocalUser
  BY <1>3, RegistrationIsSound
<1>4. ASSUME NEW p \in Providers, LinkLoginIdentity(p) PROVE IdentityInv'
  BY <1>1, <1>2, <1>4 DEF LinkLoginIdentity
<1>5. ASSUME NEW w \in Windows, ResetRequestReads(w) PROVE IdentityInv'
  <2> DEFINE seen == {n \in DOMAIN challenges :
                        challenges[n].purpose = "password_reset" /\ ~challenges[n].consumed}
  <2>1. Shows(w, <<"requesting", seen>>) /\ UNCHANGED <<challenges, resets, identityTime>>
    BY <1>5 DEF ResetRequestReads
  <2>2. seen \subseteq DOMAIN challenges
    OBVIOUS
  <2> HIDE DEF seen
  <2>3. /\ window'[w] = <<"requesting", seen>> /\ DOMAIN window' = Windows
        /\ window' = [v \in Windows |-> window'[v]]
        /\ \A v \in Windows : v # w => window'[v] = window[v]
    BY <2>1, OneWindowMoves DEF IdentityInv
  <2>4. WindowsSound(window', challenges)
    BY <2>2, <2>3 DEF IdentityInv, WindowsSound
  <2>5. \A n : Holding(n, window') \subseteq Holding(n, window)
    BY <2>3 DEF Holding
  <2>6. DOMAIN resets \subseteq 1..Len(resets) /\ Len(resets) \in Nat
    BY DEF IdentityInv, ResetsSound
  <2>7. \A n \in DOMAIN challenges : SpentOnce(n, challenges, window', resets)
    BY <2>5, <2>6, FewerHoldersKeep DEF IdentityInv
  <2> QED
    BY <2>1, <2>4, <2>7 DEF IdentityInv
<1>6. ASSUME NEW w \in Windows, RequestPasswordReset(w) PROVE IdentityInv'
  BY <1>6, RequestIsSound
<1>7. ASSUME NEW w \in Windows, NEW to \in Statuses, StatusReads(w, to) PROVE IdentityInv'
  BY <1>2, <1>7, GoesIdle DEF StatusReads
<1>8. ASSUME NEW w \in Windows, NEW p \in Providers, UnlinkReads(w, p) PROVE IdentityInv'
  BY <1>2, <1>8, GoesIdle DEF UnlinkReads
<1>9. ASSUME NEW w \in Windows, NEW n \in DOMAIN challenges, ChallengeReads(w, n) PROVE IdentityInv'
  BY <1>9, ReadingIsSound
<1>10. ASSUME NEW w \in Windows, StatusWritten(w) \/ UnlinkLoginIdentity(w) \/ IdentityGivesUp(w)
       PROVE  IdentityInv'
  BY <1>2, <1>10, GoesIdle DEF StatusWritten, UnlinkLoginIdentity, IdentityGivesUp
<1>11. ASSUME NEW w \in Windows, VerifyEmail(w) \/ ResetPassword(w) PROVE IdentityInv'
  BY <1>11, UsingIsSound
<1>12. CASE IdentityTimePasses
  BY <1>1, <1>2, <1>12 DEF IdentityTimePasses
<1>13. CASE UNCHANGED identityVars
  BY <1>1, <1>2, <1>13 DEF identityVars
<1> QED
  BY <1>3, <1>4, <1>5, <1>6, <1>7, <1>8, <1>9, <1>10, <1>11, <1>12, <1>13 DEF IdentityNext

\* A token resets the password again only for requests already under way.
THEOREM ResetsAreSpentOnce == IdentitySpec => []ResetsAreSpent
<1> USE IdentityAssumption
<1>1. IdentityInit => IdentityInv
  <2> HAVE IdentityInit
  <2>1. ChallengesSound(challenges) /\ ResetsSound(resets, challenges) /\ DOMAIN challenges = {}
    BY DEF IdentityInit, ChallengesSound, ResetsSound
  <2>2. WindowsSound(window, challenges)
    BY DEF IdentityInit, WindowsSound
  <2> QED
    BY <2>1, <2>2 DEF IdentityInit, IdentityInv
<1>2. IdentityInv /\ [IdentityNext]_identityVars => IdentityInv'
  BY IdentityKeeps
<1>3. IdentityInv => ResetsAreSpent
  <2> HAVE IdentityInv
  <2>1. DOMAIN resets \subseteq 1..Len(resets) /\ Len(resets) \in Nat
    BY DEF IdentityInv, ResetsSound
  <2>2. ASSUME NEW n \in DOMAIN challenges
        PROVE  Cardinality({i \in DOMAIN resets : resets[i].challenge = n}) <= Cardinality(Windows)
    <3>1. /\ Cardinality(ResetsOf(n, resets)) \in Nat /\ Cardinality(Holding(n, window)) \in Nat
          /\ Cardinality(Windows) \in Nat
      BY <2>1, IdentityCounts
    <3>2. Cardinality(ResetsOf(n, resets)) + Cardinality(Holding(n, window)) <= Cardinality(Windows)
      BY DEF IdentityInv, SpentOnce
    <3>3. Cardinality(ResetsOf(n, resets)) <= Cardinality(Windows)
      BY <3>1, <3>2
    <3> QED
      BY <3>3 DEF ResetsOf
  <2>3. \A i \in DOMAIN resets : ~resets[i].superseded
    BY DEF IdentityInv, ResetsSound
  <2> QED
    BY <2>2, <2>3 DEF ResetsAreSpent
<1> QED
  BY <1>1, <1>2, <1>3, PTL DEF IdentitySpec


-----------------------------------------------------------------------------
(* CheckIns: an entry is the only one of its key and made on its date or   *)
(* later, and what a date, a run or an answer points at is an entry of its *)
(* own date.                                                               *)

RewardRows == [status : {"absent", "pending", "executed", "completed", "failed"},
               tries : Nat, entry : Nat]
ClickStages == {"start", "advance", "find", "count", "balance", "commit", "record", "answer"}
ClickRows == [does : ClickStages, date : Dates, asks : BOOLEAN, number : Nat, saw : Nat,
              on : Dates, entry : Nat, previous : BOOLEAN]
CreditRows == [key : Dates, on : Dates]

OwnEntry(list, d, n) == n \in DOMAIN list /\ list[n].key = d

CreditsSound(list) ==
    /\ list \in Seq(CreditRows)
    /\ \A n \in DOMAIN list : list[n].on >= list[n].key
    /\ \A m, n \in DOMAIN list : list[m].key = list[n].key => m = n

RewardsSound(kept, list, now) ==
    /\ kept \in [Dates -> RewardRows]
    /\ \A d \in Dates : /\ kept[d].status # "absent" => d <= now
                        /\ kept[d].entry # 0 => OwnEntry(list, d, kept[d].entry)
                        /\ kept[d].status \in {"executed", "completed"} => kept[d].entry # 0

\* The date of a run has come, and what it is about to record is its own.
ClickSound(r, list, now) ==
    \/ r = AtRest
    \/ /\ r \in ClickRows /\ r.date <= now
       /\ r.does = "commit" => r.on >= r.date
       /\ r.does = "record" => OwnEntry(list, r.date, r.entry)

AnswersSound(given, list) == \A a \in given : a.entry # 0 => OwnEntry(list, a.date, a.entry)

CheckInsInv ==
    /\ today \in Dates
    /\ CreditsSound(credits) /\ RewardsSound(rewards, credits, today)
    /\ clicker = [c \in Clickers |-> clicker[c]]
    /\ \A c \in Clickers : ClickSound(clicker[c], credits, today)
    /\ AnswersSound(answers, credits)

\* A step of one request that makes no entry.
LEMMA ClickKeeps ==
  ASSUME CheckInsInv, NEW c \in Clickers, NEW new, ClickSound(new, credits, today),
         clicker' = [clicker EXCEPT ![c] = new], RewardsSound(rewards', credits, today),
         AnswersSound(answers', credits), UNCHANGED <<today, credits>>
  PROVE  CheckInsInv'
<1>1. clicker' = [d \in Clickers |-> clicker'[d]]
  BY DEF CheckInsInv
<1>2. \A d \in Clickers : clicker'[d] = IF d = c THEN new ELSE clicker[d]
  BY DEF CheckInsInv
<1>3. \A d \in Clickers : ClickSound(clicker'[d], credits, today)
  BY <1>2 DEF CheckInsInv
<1> QED
  BY <1>1, <1>3 DEF CheckInsInv

LEMMA RestKeeps ==
  ASSUME CheckInsInv, NEW c \in Clickers, Rest(c), RewardsSound(rewards', credits, today),
         AnswersSound(answers', credits), UNCHANGED <<today, credits>>
  PROVE  CheckInsInv'
BY ClickKeeps DEF Rest, ClickSound

LEMMA StageKeeps ==
  ASSUME CheckInsInv, NEW c \in Clickers, clicker[c] # AtRest,
         NEW stage \in ClickStages \ {"commit", "record"}, ClickerGoes(c, stage),
         RewardsSound(rewards', credits, today), UNCHANGED <<today, credits, answers>>
  PROVE  CheckInsInv'
<1> DEFINE new == [clicker[c] EXCEPT !.does = stage]
<1>1. clicker[c] \in ClickRows /\ clicker[c].date <= today
  BY DEF CheckInsInv, ClickSound
<1>2. new \in ClickRows /\ new.does = stage /\ new.date = clicker[c].date
  BY <1>1 DEF ClickRows
<1>3. clicker' = [clicker EXCEPT ![c] = new]
  BY DEF ClickerGoes
<1> HIDE DEF new
<1>4. ClickSound(new, credits, today)
  BY <1>1, <1>2 DEF ClickSound
<1>5. AnswersSound(answers', credits)
  BY DEF CheckInsInv
<1> QED
  BY <1>3, <1>4, <1>5, ClickKeeps

LEMMA LeavingKeeps ==
  ASSUME CheckInsInv, NEW c \in Clickers, clicker[c] # AtRest, Leaves(c),
         RewardsSound(rewards', credits, today), UNCHANGED <<today, credits, answers>>
  PROVE  CheckInsInv'
<1>1. AnswersSound(answers', credits)
  BY DEF CheckInsInv
<1>2. CASE clicker[c].asks
  <2>1. ClickerGoes(c, "answer")
    BY <1>2 DEF Leaves
  <2> QED
    BY <2>1, StageKeeps DEF ClickStages
<1>3. CASE ~clicker[c].asks
  <2>1. Rest(c)
    BY <1>3 DEF Leaves
  <2> QED
    BY <1>1, <2>1, RestKeeps
<1> QED
  BY <1>2, <1>3

\* A failed step keeps the entry of its date.
LEMMA FailingKeeps ==
  ASSUME CheckInsInv, NEW c \in Clickers, clicker[c] # AtRest, NEW permanent \in BOOLEAN,
         FailsStep(c, permanent)
  PROVE  CheckInsInv'
<1>1. UNCHANGED <<today, credits, answers>>
  BY DEF FailsStep
<1>2. CASE ~MayRecord(c)
  <2>1. Rest(c) /\ UNCHANGED rewards
    BY <1>2 DEF FailsStep
  <2>2. RewardsSound(rewards', credits, today) /\ AnswersSound(answers', credits)
    BY <1>1, <2>1 DEF CheckInsInv
  <2> QED
    BY <1>1, <2>1, <2>2, RestKeeps
<1>3. CASE MayRecord(c)
  <2> DEFINE d == DateOf(c)
             ending == IF permanent \/ clicker[c].number = MaxCheckTries THEN "failed" ELSE "pending"
             mid == [rewards[d] EXCEPT !.tries = clicker[c].number]
             put == [mid EXCEPT !.status = ending]
  <2>1. rewards' = [rewards EXCEPT ![d] = put] /\ Leaves(c)
    BY <1>3 DEF FailsStep, Failed, Step
  <2>2. clicker[c] \in ClickRows /\ clicker[c].date <= today
    BY DEF CheckInsInv, ClickSound
  <2>3. d \in Dates /\ clicker[c].number \in Nat /\ d <= today
    BY <2>2 DEF ClickRows, DateOf
  <2>4. rewards[d] \in RewardRows /\ RewardsSound(rewards, credits, today)
    BY <2>3 DEF CheckInsInv, RewardsSound
  <2>5. ending \in {"failed", "pending"}
    OBVIOUS
  <2> HIDE DEF ending, d
  <2>6. mid \in RewardRows /\ mid.entry = rewards[d].entry
    BY <2>3, <2>4 DEF RewardRows
  <2> HIDE DEF mid
  <2>7. put \in RewardRows /\ put.entry = rewards[d].entry /\ put.status \in {"failed", "pending"}
    BY <2>5, <2>6 DEF RewardRows
  <2> HIDE DEF put
  <2>8. RewardsSound(rewards', credits, today)
    BY <2>1, <2>3, <2>4, <2>7 DEF RewardsSound
  <2> QED
    BY <1>1, <2>1, <2>8, LeavingKeeps
<1> QED
  BY <1>2, <1>3


LEMMA ClickingKeeps ==
  ASSUME CheckInsAssumption, CheckInsInv, NEW c \in Clickers, CheckIn(c) \/ RunDue(c)
  PROVE  CheckInsInv'
<1>1. /\ today \in Dates /\ RewardsSound(rewards, credits, today) /\ AnswersSound(answers, credits)
      /\ 1 \in Dates
  BY DEF CheckInsInv, CheckInsAssumption, Dates
<1>2. CASE CheckIn(c)
  <2> DEFINE before == rewards[today].status # "absent"
             new == [does |-> "start", date |-> today, asks |-> TRUE, number |-> 0, saw |-> 0,
                     on |-> 1, entry |-> NotCredited, previous |-> before]
  <2>1. Clicks(c, new)
    BY <1>2 DEF CheckIn
  <2>2. before \in BOOLEAN
    OBVIOUS
  <2> HIDE DEF before
  <2>3. new \in ClickRows /\ new.date = today /\ new.does = "start"
    BY <1>1, <2>2 DEF ClickRows, ClickStages, NotCredited
  <2> HIDE DEF new
  <2>4. ClickSound(new, credits, today)
    BY <1>1, <2>3 DEF ClickSound, Dates
  <2> QED
    BY <1>1, <2>1, <2>4, ClickKeeps DEF Clicks
<1>3. CASE RunDue(c)
  <2>1. PICK d \in Dates :
          /\ rewards[d].status \in {"pending", "executed"}
          /\ Clicks(c, [does |-> "advance", date |-> d, asks |-> FALSE, number |-> 0, saw |-> 0,
                        on |-> 1, entry |-> NotCredited, previous |-> TRUE])
    BY <1>3 DEF RunDue
  <2> DEFINE new == [does |-> "advance", date |-> d, asks |-> FALSE, number |-> 0, saw |-> 0,
                     on |-> 1, entry |-> NotCredited, previous |-> TRUE]
  <2>2. new \in ClickRows /\ new.date = d /\ new.does = "advance"
    BY <1>1 DEF ClickRows, ClickStages, NotCredited
  <2>3. d <= today
    BY <1>1, <2>1 DEF RewardsSound
  <2>4. Clicks(c, new)
    BY <2>1
  <2> HIDE DEF new
  <2>5. ClickSound(new, credits, today)
    BY <2>2, <2>3 DEF ClickSound
  <2> QED
    BY <1>1, <2>4, <2>5, ClickKeeps DEF Clicks
<1> QED
  BY <1>2, <1>3

LEMMA StartingKeeps ==
  ASSUME CheckInsInv, NEW c \in Clickers, StartCheckIn(c)
  PROVE  CheckInsInv'
<1> DEFINE d == DateOf(c)
<1>1. clicker[c].does = "start" /\ ClickerGoes(c, "advance") /\ UNCHANGED <<today, credits, answers>>
  BY DEF StartCheckIn, ClickerAt
<1>2. clicker[c] # AtRest
  BY <1>1 DEF AtRest
<1>3. clicker[c] \in ClickRows /\ clicker[c].date <= today
  BY <1>2 DEF CheckInsInv, ClickSound
<1>4. d \in Dates /\ d <= today
  BY <1>3 DEF DateOf, ClickRows
<1>5. RewardsSound(rewards, credits, today) /\ rewards[d] \in RewardRows
  BY <1>4 DEF CheckInsInv, RewardsSound
<1>6. RewardsSound(rewards', credits, today)
  <2>1. CASE UNCHANGED rewards
    BY <1>5, <2>1
  <2>2. CASE rewards' = [rewards EXCEPT ![d].status = "pending"] /\ rewards[d].status = "absent"
    <3> DEFINE put == [rewards[d] EXCEPT !.status = "pending"]
    <3>1. put \in RewardRows /\ put.status = "pending" /\ put.entry = rewards[d].entry
      BY <1>5 DEF RewardRows
    <3>2. rewards' = [rewards EXCEPT ![d] = put]
      BY <2>2
    <3> HIDE DEF d, put
    <3> QED
      BY <1>4, <1>5, <3>1, <3>2 DEF RewardsSound
  <2> QED
    BY <2>1, <2>2 DEF StartCheckIn, Step
<1> QED
  BY <1>1, <1>2, <1>6, StageKeeps DEF ClickStages

LEMMA AdvancingKeeps ==
  ASSUME CheckInsInv, NEW c \in Clickers, Advance(c)
  PROVE  CheckInsInv'
<1> DEFINE d == DateOf(c)
<1>1. clicker[c].does = "advance" /\ UNCHANGED <<today, credits, answers>>
  BY DEF Advance, ClickerAt
<1>2. clicker[c] # AtRest
  BY <1>1 DEF AtRest
<1>3. clicker[c] \in ClickRows /\ clicker[c].date <= today
  BY <1>2 DEF CheckInsInv, ClickSound
<1>4. d \in Dates /\ d <= today
  BY <1>3 DEF DateOf, ClickRows
<1>5. /\ RewardsSound(rewards, credits, today) /\ rewards[d] \in RewardRows
      /\ AnswersSound(answers, credits) /\ ClickSound(clicker[c], credits, today)
  BY <1>4 DEF CheckInsInv, RewardsSound
<1>6. CASE rewards[d].status = "pending"
  <2> DEFINE mid == [clicker[c] EXCEPT !.does = "find"]
             new == [mid EXCEPT !.number = rewards[d].tries + 1]
  <2>1. clicker' = [clicker EXCEPT ![c] = new] /\ UNCHANGED rewards
    BY <1>6 DEF Advance, Step
  <2>2. mid \in ClickRows /\ mid.does = "find" /\ mid.date = clicker[c].date
    BY <1>3 DEF ClickRows, ClickStages
  <2>3. rewards[d].tries + 1 \in Nat
    BY <1>5 DEF RewardRows
  <2> HIDE DEF mid
  <2>4. new \in ClickRows /\ new.does = "find" /\ new.date = clicker[c].date
    BY <2>2, <2>3 DEF ClickRows
  <2> HIDE DEF new
  <2>5. ClickSound(new, credits, today)
    BY <1>3, <2>4 DEF ClickSound
  <2> QED
    BY <1>1, <1>5, <2>1, <2>5, ClickKeeps
<1>7. CASE rewards[d].status = "executed"
  <2> DEFINE put == [rewards[d] EXCEPT !.status = "completed"]
  <2>1. rewards' = [rewards EXCEPT ![d].status = "completed"] /\ UNCHANGED clicker
    BY <1>7 DEF Advance, Step
  <2>2. put \in RewardRows /\ put.status = "completed" /\ put.entry = rewards[d].entry
    BY <1>5 DEF RewardRows
  <2>3. rewards' = [rewards EXCEPT ![d] = put]
    BY <2>1
  <2>4. rewards[d].entry # 0 /\ OwnEntry(credits, d, rewards[d].entry)
    BY <1>4, <1>5, <1>7 DEF RewardsSound
  <2> HIDE DEF d, put
  <2>5. RewardsSound(rewards', credits, today)
    BY <1>4, <1>5, <2>2, <2>3, <2>4 DEF RewardsSound
  <2> QED
    BY <1>1, <2>1, <2>5 DEF CheckInsInv
<1>8. CASE rewards[d].status \notin {"pending", "executed"}
  <2>1. Leaves(c) /\ UNCHANGED rewards
    BY <1>8 DEF Advance, Step
  <2> QED
    BY <1>1, <1>2, <1>5, <2>1, LeavingKeeps
<1> QED
  BY <1>6, <1>7, <1>8

LEMMA FindingKeeps ==
  ASSUME CheckInsInv, NEW c \in Clickers, FindCredit(c)
  PROVE  CheckInsInv'
<1>1. clicker[c].does = "find" /\ UNCHANGED <<today, rewards, credits, answers>>
  BY DEF FindCredit, ClickerAt
<1>2. clicker[c] # AtRest
  BY <1>1 DEF AtRest
<1>3. clicker[c] \in ClickRows /\ clicker[c].date <= today
  BY <1>2 DEF CheckInsInv, ClickSound
<1>4. /\ RewardsSound(rewards', credits, today) /\ AnswersSound(answers', credits)
      /\ CreditsSound(credits)
  BY <1>1 DEF CheckInsInv
<1>5. CASE EntryOf(CreditKey(c)) = {}
  <2>1. ClickerGoes(c, "count")
    BY <1>5 DEF FindCredit
  <2> QED
    BY <1>1, <1>2, <1>4, <2>1, StageKeeps DEF ClickStages
<1>6. CASE EntryOf(CreditKey(c)) # {}
  <2>1. PICK n \in EntryOf(CreditKey(c)) :
          clicker' = [clicker EXCEPT ![c].does = "record", ![c].entry = n]
    BY <1>6 DEF FindCredit
  <2> DEFINE mid == [clicker[c] EXCEPT !.does = "record"]
             new == [mid EXCEPT !.entry = n]
  <2>2. OwnEntry(credits, clicker[c].date, n) /\ n \in Nat
    BY <1>4 DEF EntryOf, CreditKey, DateOf, OwnEntry, CreditsSound
  <2>3. clicker' = [clicker EXCEPT ![c] = new]
    BY <2>1
  <2>4. mid \in ClickRows /\ mid.does = "record" /\ mid.date = clicker[c].date
    BY <1>3 DEF ClickRows, ClickStages
  <2> HIDE DEF mid
  <2>5. new \in ClickRows /\ new.does = "record" /\ new.date = clicker[c].date /\ new.entry = n
    BY <2>2, <2>4 DEF ClickRows
  <2> HIDE DEF new
  <2>6. ClickSound(new, credits, today)
    BY <1>3, <2>2, <2>5 DEF ClickSound
  <2> QED
    BY <1>1, <1>4, <2>3, <2>6, ClickKeeps
<1> QED
  BY <1>5, <1>6

LEMMA BalancingKeeps ==
  ASSUME CheckInsInv, NEW c \in Clickers, ReadBalance(c)
  PROVE  CheckInsInv'
<1>1. clicker[c].does = "balance" /\ UNCHANGED <<today, rewards, credits, answers>>
  BY DEF ReadBalance, ClickerAt
<1>2. clicker[c] # AtRest
  BY <1>1 DEF AtRest
<1>3. clicker[c] \in ClickRows /\ clicker[c].date <= today /\ today \in Dates
  BY <1>2 DEF CheckInsInv, ClickSound
<1>4. /\ RewardsSound(rewards', credits, today) /\ AnswersSound(answers', credits)
      /\ Len(credits) \in Nat
  BY <1>1 DEF CheckInsInv, CreditsSound
<1> DEFINE one == [clicker[c] EXCEPT !.does = "commit"]
           two == [one EXCEPT !.saw = Len(credits)]
           new == [two EXCEPT !.on = today]
<1>5. clicker' = [clicker EXCEPT ![c] = new]
  BY DEF ReadBalance
<1>6. one \in ClickRows /\ one.does = "commit" /\ one.date = clicker[c].date
  BY <1>3 DEF ClickRows, ClickStages
<1> HIDE DEF one
<1>7. two \in ClickRows /\ two.does = "commit" /\ two.date = clicker[c].date
  BY <1>4, <1>6 DEF ClickRows
<1> HIDE DEF two
<1>8. new \in ClickRows /\ new.does = "commit" /\ new.date = clicker[c].date /\ new.on = today
  BY <1>3, <1>7 DEF ClickRows
<1> HIDE DEF new
<1>9. ClickSound(new, credits, today)
  BY <1>3, <1>8 DEF ClickSound, Dates
<1> QED
  BY <1>1, <1>4, <1>5, <1>9, ClickKeeps

\* The entry of a date is made once, and on a day that is not before it.
LEMMA CreditingKeeps ==
  ASSUME CheckInsInv, NEW c \in Clickers, CommitCredit(c)
  PROVE  CheckInsInv'
<1> DEFINE d == clicker[c].date
           made == [key |-> d, on |-> clicker[c].on]
           mid == [clicker[c] EXCEPT !.does = "record"]
           new == [mid EXCEPT !.entry = Len(credits) + 1]
<1>1. /\ clicker[c].does = "commit" /\ UNCHANGED <<today, rewards, answers>>
      /\ credits' = Append(credits, made) /\ clicker' = [clicker EXCEPT ![c] = new]
      /\ \A n \in DOMAIN credits : credits[n].key # d
  BY DEF CommitCredit, ClickerAt, Uncontested, EntryOf, CreditKey, DateOf
<1>2. clicker[c] # AtRest
  BY <1>1 DEF AtRest
<1>3. clicker[c] \in ClickRows /\ d <= today /\ clicker[c].on >= d
  BY <1>1, <1>2 DEF CheckInsInv, ClickSound
<1>4. CreditsSound(credits) /\ credits \in Seq(CreditRows) /\ Len(credits) \in Nat
  BY DEF CheckInsInv, CreditsSound
<1>5. made \in CreditRows /\ made.key = d /\ made.on >= made.key
  BY <1>3 DEF ClickRows, CreditRows
<1>6. mid \in ClickRows /\ mid.does = "record" /\ mid.date = d
  BY <1>3 DEF ClickRows, ClickStages
<1> HIDE DEF mid, made
<1>7. new \in ClickRows /\ new.does = "record" /\ new.date = d /\ new.entry = Len(credits) + 1
  BY <1>4, <1>6 DEF ClickRows
<1> HIDE DEF new, d
<1>8. /\ credits' \in Seq(CreditRows) /\ DOMAIN credits' = 1..(Len(credits) + 1)
      /\ DOMAIN credits = 1..Len(credits) /\ credits'[Len(credits) + 1] = made
      /\ \A n \in DOMAIN credits : credits'[n] = credits[n]
  BY <1>1, <1>4, <1>5
<1>9. CreditsSound(credits')
  <2>1. \A n \in DOMAIN credits' : n \in DOMAIN credits \/ n = Len(credits) + 1
    BY <1>4, <1>8
  <2> QED
    BY <1>1, <1>4, <1>5, <1>8, <2>1 DEF CreditsSound
<1>10. \A e, n : OwnEntry(credits, e, n) => OwnEntry(credits', e, n)
  BY <1>4, <1>8 DEF OwnEntry
<1>11. OwnEntry(credits', d, Len(credits) + 1)
  BY <1>4, <1>5, <1>8 DEF OwnEntry
<1>12. RewardsSound(rewards', credits', today')
  BY <1>1, <1>10 DEF CheckInsInv, RewardsSound
<1>13. AnswersSound(answers', credits')
  BY <1>1, <1>10 DEF CheckInsInv, AnswersSound
<1>14. ASSUME NEW e \in Clickers PROVE ClickSound(clicker'[e], credits', today')
  <2>1. CASE e = c
    <3>1. clicker'[e] = new
      BY <1>1, <2>1 DEF CheckInsInv
    <3> QED
      BY <1>1, <1>3, <1>7, <1>11, <3>1 DEF ClickSound
  <2>2. CASE e # c
    <3>1. clicker'[e] = clicker[e]
      BY <1>1, <2>2 DEF CheckInsInv
    <3> QED
      BY <1>1, <1>10, <3>1 DEF CheckInsInv, ClickSound
  <2> QED
    BY <2>1, <2>2
<1> QED
  BY <1>1, <1>9, <1>12, <1>13, <1>14 DEF CheckInsInv

LEMMA RecordingKeeps ==
  ASSUME CheckInsInv, NEW c \in Clickers, RecordStep(c)
  PROVE  CheckInsInv'
<1> DEFINE d == DateOf(c)
           put == [status |-> "executed", tries |-> clicker[c].number, entry |-> clicker[c].entry]
<1>1. clicker[c].does = "record" /\ UNCHANGED <<today, credits, answers>>
  BY DEF RecordStep, ClickerAt
<1>2. clicker[c] # AtRest
  BY <1>1 DEF AtRest
<1>3. clicker[c] \in ClickRows /\ clicker[c].date <= today /\ OwnEntry(credits, d, clicker[c].entry)
  BY <1>1, <1>2 DEF CheckInsInv, ClickSound, DateOf
<1>4. RewardsSound(rewards, credits, today) /\ AnswersSound(answers, credits)
  BY DEF CheckInsInv
<1>5. CASE ~MayRecord(c)
  <2>1. Rest(c) /\ UNCHANGED rewards
    BY <1>5 DEF RecordStep
  <2> QED
    BY <1>1, <1>4, <2>1, RestKeeps
<1>6. CASE MayRecord(c)
  <2>1. rewards' = [rewards EXCEPT ![d] = put] /\ ClickerGoes(c, "advance")
    BY <1>6 DEF RecordStep
  <2>2. put \in RewardRows /\ put.status = "executed" /\ put.entry = clicker[c].entry
    BY <1>3 DEF ClickRows, RewardRows
  <2>3. d \in Dates /\ d <= today
    BY <1>3 DEF ClickRows, DateOf
  <2>4. clicker[c].entry # 0
    BY <1>3 DEF OwnEntry, CheckInsInv, CreditsSound
  <2> HIDE DEF d, put
  <2>5. RewardsSound(rewards', credits, today)
    BY <1>3, <1>4, <2>1, <2>2, <2>3, <2>4 DEF RewardsSound
  <2> QED
    BY <1>1, <1>2, <2>1, <2>5, StageKeeps DEF ClickStages
<1> QED
  BY <1>5, <1>6

LEMMA AnsweringKeeps ==
  ASSUME CheckInsInv, NEW c \in Clickers, Answer(c)
  PROVE  CheckInsInv'
<1> DEFINE d == DateOf(c)
           outcome == IF clicker[c].previous THEN "already_rewarded" ELSE "rewarded"
           reply == [status |-> outcome, date |-> d, entry |-> rewards[d].entry]
<1>1. /\ clicker[c].does = "answer" /\ answers' = answers \union {reply} /\ Rest(c)
      /\ UNCHANGED <<today, rewards, credits>>
  BY DEF Answer, ClickerAt, Step
<1>2. clicker[c] # AtRest
  BY <1>1 DEF AtRest
<1>3. d \in Dates
  BY <1>2 DEF CheckInsInv, ClickSound, ClickRows, DateOf
<1>4. RewardsSound(rewards, credits, today) /\ AnswersSound(answers, credits)
  BY DEF CheckInsInv
<1>5. reply.date = d /\ reply.entry = rewards[d].entry
  OBVIOUS
<1> HIDE DEF reply, d
<1>6. AnswersSound(answers', credits)
  BY <1>1, <1>3, <1>4, <1>5 DEF AnswersSound, RewardsSound
<1> QED
  BY <1>1, <1>4, <1>6, RestKeeps

LEMMA MidnightKeeps ==
  ASSUME CheckInsAssumption, CheckInsInv, Midnight
  PROVE  CheckInsInv'
<1>1. /\ today' = today + 1 /\ today' \in Dates /\ today \in Nat
      /\ UNCHANGED <<rewards, credits, clicker, answers>>
  BY DEF Midnight, CheckInsInv, CheckInsAssumption, Dates
<1>2. \A d \in Dates : d <= today => d <= today'
  BY <1>1 DEF Dates
<1>3. RewardsSound(rewards, credits, today')
  BY <1>2 DEF CheckInsInv, RewardsSound
<1>4. ASSUME NEW c \in Clickers PROVE ClickSound(clicker[c], credits, today')
  BY <1>2 DEF CheckInsInv, ClickSound, ClickRows
<1> QED
  BY <1>1, <1>3, <1>4 DEF CheckInsInv

LEMMA CheckInsKeep ==
  ASSUME CheckInsAssumption, CheckInsInv, [CheckInsNext]_checkInsVars
  PROVE  CheckInsInv'
<1>1. /\ RewardsSound(rewards, credits, today) /\ AnswersSound(answers, credits)
  BY DEF CheckInsInv
<1>2. ASSUME NEW c \in Clickers, ValidateLimits(c) PROVE CheckInsInv'
  <2>1. clicker[c] # AtRest
    BY <1>2 DEF ValidateLimits, ClickerAt, AtRest
  <2> QED
    BY <1>1, <1>2, <2>1, StageKeeps DEF ValidateLimits, ClickStages
<1>3. ASSUME NEW c \in Clickers, LimitReached(c) \/ CreditConflicts(c) \/ CreditFails(c)
      PROVE  CheckInsInv'
  <2>1. clicker[c].does \in {"find", "count", "balance", "commit"}
    BY <1>3 DEF LimitReached, CreditConflicts, CreditFails, ClickerAt
  <2>2. clicker[c] # AtRest
    BY <2>1 DEF AtRest
  <2>3. PICK permanent \in BOOLEAN : FailsStep(c, permanent)
    BY <1>3 DEF LimitReached, CreditConflicts, CreditFails
  <2> QED
    BY <2>2, <2>3, FailingKeeps
<1>4. ASSUME NEW c \in Clickers, StopsClicking(c) PROVE CheckInsInv'
  BY <1>1, <1>4, RestKeeps DEF StopsClicking
<1>5. CASE UNCHANGED checkInsVars
  BY <1>5 DEF checkInsVars, CheckInsInv
<1> QED
  BY <1>2, <1>3, <1>4, <1>5, ClickingKeeps, StartingKeeps, AdvancingKeeps, FindingKeeps, BalancingKeeps,
     CreditingKeeps, RecordingKeeps, AnsweringKeeps, MidnightKeeps DEF CheckInsNext

LEMMA CheckInsStart == CheckInsInit => CheckInsInv
<1> USE CheckInsAssumption
<1> HAVE CheckInsInit
<1>1. CreditsSound(credits) /\ AnswersSound(answers, credits) /\ today \in Dates
  BY DEF CheckInsInit, CreditsSound, AnswersSound, CheckInsAssumption, Dates
<1>2. RewardsSound(rewards, credits, today)
  BY DEF CheckInsInit, RewardsSound, RewardRows, NotCredited
<1> QED
  BY <1>1, <1>2 DEF CheckInsInit, CheckInsInv, ClickSound

\* One credit a date, and the one that its workflow and its answers name.
THEOREM EachDateIsCreditedOnce == CheckInsSpec => []EachDateItsCredit
<1> USE CheckInsAssumption
<1>1. CheckInsInit => CheckInsInv
  BY CheckInsStart
<1>2. CheckInsInv /\ [CheckInsNext]_checkInsVars => CheckInsInv'
  BY CheckInsKeep
<1>3. CheckInsInv => EachDateItsCredit
  <2> HAVE CheckInsInv
  <2>1. CreditsSound(credits) /\ RewardsSound(rewards, credits, today) /\ AnswersSound(answers, credits)
    BY DEF CheckInsInv
  <2>2. ASSUME NEW d \in Dates PROVE Cardinality(EntryOf(d)) <= 1
    <3>1. EntryOf(d) = {} \/ \E n : EntryOf(d) = {n}
      BY <2>1 DEF EntryOf, CreditsSound
    <3>2. CASE EntryOf(d) = {}
      BY <3>2, FS_EmptySet
    <3>3. ASSUME NEW n, EntryOf(d) = {n} PROVE Cardinality(EntryOf(d)) <= 1
      <4>1. Cardinality({n}) = 1
        BY FS_Singleton
      <4> QED
        BY <3>3, <4>1
    <3> QED
      BY <3>1, <3>2, <3>3
  <2>3. \A d, n : OwnEntry(credits, d, n) => credits[n].key = d /\ credits[n].on >= d
    BY <2>1 DEF OwnEntry, CreditsSound
  <2>4. ASSUME NEW d \in Dates, rewards[d].status \in {"executed", "completed"}
        PROVE  credits[rewards[d].entry].key = d /\ credits[rewards[d].entry].on >= d
    BY <2>1, <2>3, <2>4 DEF RewardsSound
  <2>5. ASSUME NEW a \in answers, a.entry # NotCredited
        PROVE  credits[a.entry].key = a.date /\ credits[a.entry].on >= a.date
    BY <2>1, <2>3, <2>5 DEF AnswersSound, NotCredited
  <2> QED
    BY <2>2, <2>4, <2>5 DEF EachDateItsCredit
<1> QED
  BY <1>1, <1>2, <1>3, PTL DEF CheckInsSpec
-----------------------------------------------------------------------------
(* Comments: who is about to change a comment holds its row, so what it    *)
(* read is what the row and its events still say.                          *)

CommentRow ==
    [target : Targets, parent : Nat, version : Nat \ {0},
     status : Decisions \union {"pending"}]
CommentEvent == [what : Decisions \union {"submitted"}, comment : Nat \ {0}]

\* What a request holds: the parent it replies to, or the comment it decides on.
HeldAsRead(m) ==
    \/ Rests(m)
    \/ /\ \E c \in DOMAIN comments, target \in Targets :
            /\ moderator[m] = <<"replying", c, target>>
            /\ comments[c].status # "deleted"
    \/ /\ \E c \in DOMAIN comments, to \in Decisions :
            /\ moderator[m] = <<"deciding", c, to, comments[c].version>>
            /\ comments[c].status # "deleted"

CommentsShape ==
    /\ comments \in Seq(CommentRow)
    /\ told \in Seq(CommentEvent)
    /\ \A i \in DOMAIN told : told[i].comment \in DOMAIN comments
    /\ moderator = [m \in Moderators |-> moderator[m]]
    /\ \A m \in Moderators : HeldAsRead(m)

HeldAlone ==
    \A m, o \in Moderators :
      m # o /\ ~Rests(m) /\ ~Rests(o) => moderator[m][2] # moderator[o][2]

CommentsInv == CommentsShape /\ HeldAlone /\ EventsTellHistory

LEMMA CommentsStart == CommentsInit => CommentsInv
  BY DEF CommentsInit, CommentsInv, CommentsShape, HeldAlone, EventsTellHistory, HeldAsRead, Rests

\* A comment that was told to be deleted is deleted.
LEMMA ToldDeletedIsDeleted ==
  ASSUME CommentsInv, NEW c \in DOMAIN comments, NEW i \in DOMAIN told,
         told[i].what = "deleted", told[i].comment = c
  PROVE  comments[c].status = "deleted"
<1>1. told[i] = [what |-> "deleted", comment |-> c]
  <2>1. told[i] \in CommentEvent
    BY DEF CommentsInv, CommentsShape
  <2> QED
    BY <2>1 DEF CommentEvent
<1>2. PICK last \in Told(c) :
        /\ \A k \in Told(c) : k <= last
        /\ comments[c].status =
             IF told[last].what = "submitted" THEN "pending" ELSE told[last].what
  BY DEF CommentsInv, EventsTellHistory
<1>3. /\ i <= last /\ last \in DOMAIN told /\ told[last].comment = c
      /\ i \in Nat /\ last \in Nat
  <2>1. \A k \in DOMAIN told : k \in Nat
    BY DEF CommentsInv, CommentsShape
  <2> QED
    BY <1>2, <2>1 DEF Told
<1>4. i = last
  <2> SUFFICES ASSUME i < last PROVE FALSE
    BY <1>3
  <2> QED
    BY <1>1, <1>3 DEF CommentsInv, EventsTellHistory
<1> QED
  BY <1>2, <1>4

\* An event is appended: it is one of its comment's, and the last.
LEMMA OneMoreTold ==
  ASSUME CommentsShape, NEW what, NEW c, Tells(what, c), NEW d
  PROVE  /\ DOMAIN told = 1 .. Len(told) /\ DOMAIN told' = 1 .. Len(told) + 1
         /\ Len(told) \in Nat
         /\ told'[Len(told) + 1] = [what |-> what, comment |-> c]
         /\ \A i \in DOMAIN told : told'[i] = told[i]
         /\ IsFiniteSet(Told(d))
         /\ d # c => Told(d)' = Told(d)
         /\ d = c => /\ Told(d)' = Told(d) \union {Len(told) + 1}
                     /\ Cardinality(Told(d)') = Cardinality(Told(d)) + 1
                     /\ \A i \in Told(d)' : i <= Len(told) + 1
<1>1. /\ DOMAIN told = 1 .. Len(told) /\ DOMAIN told' = 1 .. Len(told) + 1
      /\ Len(told) \in Nat
      /\ told'[Len(told) + 1] = [what |-> what, comment |-> c]
      /\ \A i \in DOMAIN told : told'[i] = told[i]
  BY DEF CommentsShape, Tells
<1>2. IsFiniteSet(Told(d))
  <2>1. IsFiniteSet(1 .. Len(told)) /\ Told(d) \subseteq 1 .. Len(told)
    BY <1>1, FS_Interval DEF Told
  <2> QED
    BY <2>1, FS_Subset
<1>3. d # c => Told(d)' = Told(d)
  BY <1>1 DEF Told
<1>4. ASSUME d = c
      PROVE  /\ Told(d)' = Told(d) \union {Len(told) + 1}
             /\ Cardinality(Told(d)') = Cardinality(Told(d)) + 1
             /\ \A i \in Told(d)' : i <= Len(told) + 1
  <2>1. Told(d)' = Told(d) \union {Len(told) + 1}
    BY <1>1, <1>4 DEF Told
  <2>2. Len(told) + 1 \notin Told(d)
    BY <1>1 DEF Told
  <2>3. Cardinality(Told(d) \union {Len(told) + 1}) = Cardinality(Told(d)) + 1
    BY <1>2, <2>2, FS_AddElement
  <2>4. \A i \in Told(d)' : i <= Len(told) + 1
    BY <1>1 DEF Told
  <2> QED
    BY <2>1, <2>3, <2>4
<1> QED
  BY <1>1, <1>2, <1>3, <1>4

\* A comment is inserted, under a parent that is not deleted, if it is a reply.
LEMMA InsertedIsTold ==
  ASSUME CommentsInv, NEW target \in Targets, NEW parent \in Nat, Inserted(target, parent),
         parent = 0 \/ (parent \in DOMAIN comments /\ comments[parent].status # "deleted")
  PROVE  /\ EventsTellHistory'
         /\ comments' \in Seq(CommentRow) /\ told' \in Seq(CommentEvent)
         /\ \A i \in DOMAIN told' : told'[i].comment \in DOMAIN comments'
         /\ DOMAIN comments \subseteq DOMAIN comments'
         /\ \A c \in DOMAIN comments : comments'[c] = comments[c]
<1>0. PICK new : new = Len(comments) + 1
  OBVIOUS
<1> DEFINE n == Len(told) + 1
<1>1. /\ Tells("submitted", new)
      /\ comments' = Append(comments, [target |-> target, parent |-> parent,
                                       status |-> "pending", version |-> 1])
  BY <1>0 DEF Inserted
<1>2. /\ Len(comments) \in Nat /\ DOMAIN comments = 1 .. Len(comments)
      /\ DOMAIN comments' = 1 .. new
      /\ \A c \in DOMAIN comments : comments'[c] = comments[c]
      /\ comments'[new] = [target |-> target, parent |-> parent, status |-> "pending", version |-> 1]
  BY <1>0, <1>1 DEF CommentsInv, CommentsShape
<1>3. comments' \in Seq(CommentRow) /\ told' \in Seq(CommentEvent)
  <2>1. [target |-> target, parent |-> parent, status |-> "pending", version |-> 1] \in CommentRow
    BY DEF CommentRow
  <2>2. [what |-> "submitted", comment |-> new] \in CommentEvent
    BY <1>0, <1>2 DEF CommentEvent
  <2> QED
    BY <1>1, <2>1, <2>2 DEF CommentsInv, CommentsShape, Tells
<1>4. CommentsShape
  BY DEF CommentsInv
<1>5. /\ DOMAIN told = 1 .. Len(told) /\ DOMAIN told' = 1 .. n /\ Len(told) \in Nat
      /\ told'[n] = [what |-> "submitted", comment |-> new]
      /\ \A i \in DOMAIN told : told'[i] = told[i]
  BY <1>1, <1>4, OneMoreTold
<1>6. \A i \in DOMAIN told : told[i].comment \in DOMAIN comments /\ told[i].comment # new
  BY <1>0, <1>2, <1>4 DEF CommentsShape
<1>7. \A i \in DOMAIN told' : told'[i].comment \in DOMAIN comments'
  BY <1>0, <1>2, <1>5, <1>6
<1>8. ASSUME NEW e \in DOMAIN comments
      PROVE  /\ Cardinality(Told(e)') = comments'[e].version
             /\ \E last \in Told(e)' :
                  /\ \A i \in Told(e)' : i <= last
                  /\ comments'[e].status =
                       IF told'[last].what = "submitted" THEN "pending" ELSE told'[last].what
  <2>1. e # new
    BY <1>0, <1>2
  <2>2. Told(e)' = Told(e)
    BY <1>5, <2>1 DEF Told
  <2>3. \A i \in Told(e) : told'[i] = told[i]
    BY <1>5 DEF Told
  <2> QED
    BY <1>2, <2>2, <2>3 DEF CommentsInv, EventsTellHistory
<1>9. /\ Cardinality(Told(new)') = 1
      /\ \E last \in Told(new)' :
           /\ \A i \in Told(new)' : i <= last
           /\ told'[last].what = "submitted"
  <2>1. Told(new) = {}
    BY <1>6 DEF Told
  <2>2. /\ Told(new)' = Told(new) \union {n}
        /\ Cardinality(Told(new)') = Cardinality(Told(new)) + 1
        /\ \A i \in Told(new)' : i <= n
    BY <1>1, <1>4, OneMoreTold
  <2>3. Cardinality(Told(new)) = 0
    BY <2>1, FS_EmptySet
  <2> QED
    BY <1>5, <2>2, <2>3
<1>10. ASSUME NEW c \in DOMAIN comments', NEW i \in DOMAIN told', NEW j \in DOMAIN told',
              told'[i] = [what |-> "deleted", comment |-> c], i < j
       PROVE  /\ told'[j].comment # c
              /\ told'[j].what = "submitted" => comments'[told'[j].comment].parent # c
  <2>1. i \in DOMAIN told /\ told[i] = [what |-> "deleted", comment |-> c]
    BY <1>5, <1>10
  <2>2. c \in DOMAIN comments /\ c # new
    BY <1>6, <2>1
  <2>3. comments[c].status = "deleted"
    BY <2>1, <2>2, ToldDeletedIsDeleted
  <2>4. CASE j \in DOMAIN told
    BY <1>2, <1>5, <1>6, <1>10, <2>1, <2>2, <2>4 DEF CommentsInv, EventsTellHistory
  <2>5. CASE j = n
    BY <1>2, <1>5, <2>2, <2>3, <2>5
  <2> QED
    BY <1>5, <2>4, <2>5
<1>11. EventsTellHistory'
  <2> SUFFICES ASSUME NEW c \in DOMAIN comments'
               PROVE  /\ Cardinality(Told(c)') = comments'[c].version
                      /\ \E last \in Told(c)' :
                           /\ \A i \in Told(c)' : i <= last
                           /\ comments'[c].status =
                                IF told'[last].what = "submitted" THEN "pending"
                                ELSE told'[last].what
    BY <1>10 DEF EventsTellHistory
  <2>1. c \in DOMAIN comments \/ c = new
    BY <1>0, <1>2
  <2> QED
    BY <1>2, <1>8, <1>9, <2>1
<1> QED
  BY <1>0, <1>2, <1>3, <1>7, <1>11

LEMMA OthersHold ==
  ASSUME CommentsInv, NEW m \in Moderators, Does(m, <<"idle">>),
         \A o \in Moderators \ {m} : ~Rests(o) =>
            /\ moderator[o][2] \in DOMAIN comments'
            /\ comments'[moderator[o][2]] = comments[moderator[o][2]]
  PROVE  /\ moderator' = [o \in Moderators |-> moderator'[o]]
         /\ \A o \in Moderators : HeldAsRead(o)'
         /\ HeldAlone'
<1>1. moderator' = [o \in Moderators |-> IF o = m THEN <<"idle">> ELSE moderator[o]]
  BY DEF Does, CommentsInv, CommentsShape
<1>2. Rests(m)' /\ \A o \in Moderators \ {m} : Rests(o)' = Rests(o) /\ moderator'[o] = moderator[o]
  BY <1>1 DEF Rests
<1>3. ASSUME NEW o \in Moderators PROVE HeldAsRead(o)'
  <2>1. CASE o = m \/ Rests(o)
    BY <1>2, <2>1 DEF HeldAsRead
  <2>2. CASE o # m /\ ~Rests(o)
    <3>1. /\ moderator'[o] = moderator[o] /\ moderator[o][2] \in DOMAIN comments'
          /\ comments'[moderator[o][2]] = comments[moderator[o][2]]
      BY <1>2, <2>2
    <3>2. HeldAsRead(o)
      BY DEF CommentsInv, CommentsShape
    <3>3. CASE \E c \in DOMAIN comments, target \in Targets :
                 moderator[o] = <<"replying", c, target>> /\ comments[c].status # "deleted"
      BY <3>1, <3>3 DEF HeldAsRead
    <3>4. CASE \E c \in DOMAIN comments, to \in Decisions :
                 /\ moderator[o] = <<"deciding", c, to, comments[c].version>>
                 /\ comments[c].status # "deleted"
      <4>1. PICK c \in DOMAIN comments, to \in Decisions :
                 /\ moderator[o] = <<"deciding", c, to, comments[c].version>>
                 /\ comments[c].status # "deleted"
        BY <3>4
      <4>2. moderator[o][2] = c
        BY <4>1
      <4> QED
        BY <3>1, <4>1, <4>2 DEF HeldAsRead
    <3> QED
      BY <2>2, <3>2, <3>3, <3>4 DEF HeldAsRead
  <2> QED
    BY <2>1, <2>2
<1>4. HeldAlone'
  BY <1>2 DEF HeldAlone, CommentsInv
<1> QED
  BY <1>1, <1>3, <1>4

LEMMA DecisionIsTold ==
  ASSUME CommentsInv, NEW m \in Moderators, DecisionCommits(m)
  PROVE  CommentsInv'
<1>1. PICK c \in DOMAIN comments, to \in Decisions :
        moderator[m] = <<"deciding", c, to, comments[c].version>> /\ comments[c].status # "deleted"
  <2>1. HeldAsRead(m) /\ moderator[m][1] = "deciding"
    BY DEF CommentsInv, CommentsShape, DecisionCommits, Doing
  <2> QED
    BY <2>1 DEF HeldAsRead, Rests
<1>2. moderator[m][2] = c /\ moderator[m][3] = to /\ moderator[m][4] = comments[c].version
  BY <1>1
<1>3. /\ comments' = [comments EXCEPT ![c].status = to, ![c].version = comments[c].version + 1]
      /\ Tells(to, c) /\ Does(m, <<"idle">>)
  BY <1>2 DEF DecisionCommits
<1>4. CommentsShape /\ comments \in Seq(CommentRow) /\ comments[c] \in CommentRow
  BY DEF CommentsInv, CommentsShape
<1>5. /\ DOMAIN comments' = DOMAIN comments /\ comments' \in Seq(CommentRow)
      /\ comments'[c].status = to /\ comments'[c].version = comments[c].version + 1
      /\ comments'[c].parent = comments[c].parent
      /\ \A d \in DOMAIN comments : d # c => comments'[d] = comments[d]
  <2> DEFINE decided == [comments[c] EXCEPT !.status = to, !.version = comments[c].version + 1]
  <2>1. comments' = [comments EXCEPT ![c] = decided]
    BY <1>3, <1>4
  <2>2. /\ decided \in CommentRow
        /\ decided.status = to /\ decided.version = comments[c].version + 1
        /\ decided.parent = comments[c].parent
    <3> DEFINE half == [comments[c] EXCEPT !.status = to]
    <3>1. half \in CommentRow /\ half.status = to /\ half.parent = comments[c].parent
          /\ half.version = comments[c].version
      BY <1>4 DEF CommentRow
    <3>2. decided = [half EXCEPT !.version = comments[c].version + 1]
      OBVIOUS
    <3>3. comments[c].version + 1 \in Nat \ {0}
      BY <1>4 DEF CommentRow
    <3> HIDE DEF half, decided
    <3> QED
      BY <3>1, <3>2, <3>3 DEF CommentRow
  <2> HIDE DEF decided
  <2> QED
    BY <1>4, <2>1, <2>2
<1> DEFINE n == Len(told) + 1
<1>6. /\ DOMAIN told = 1 .. Len(told) /\ DOMAIN told' = 1 .. n /\ Len(told) \in Nat
      /\ told'[n] = [what |-> to, comment |-> c]
      /\ \A i \in DOMAIN told : told'[i] = told[i]
  BY <1>3, <1>4, OneMoreTold
<1>7. told' \in Seq(CommentEvent)
  <2>1. [what |-> to, comment |-> c] \in CommentEvent
    BY <1>4 DEF CommentEvent
  <2> QED
    BY <1>3, <1>4, <2>1 DEF Tells, CommentsShape
<1>8. \A i \in DOMAIN told' : told'[i].comment \in DOMAIN comments'
  BY <1>4, <1>5, <1>6 DEF CommentsShape
<1>9. ASSUME NEW d \in DOMAIN comments'
      PROVE  /\ Cardinality(Told(d)') = comments'[d].version
             /\ \E last \in Told(d)' :
                  /\ \A i \in Told(d)' : i <= last
                  /\ comments'[d].status =
                       IF told'[last].what = "submitted" THEN "pending" ELSE told'[last].what
  <2>1. Cardinality(Told(d)) = comments[d].version
    BY <1>5 DEF CommentsInv, EventsTellHistory
  <2>2. CASE d # c
    <3>1. Told(d)' = Told(d)
      BY <1>3, <1>4, <2>2, OneMoreTold
    <3>2. \A i \in Told(d) : told'[i] = told[i]
      BY <1>6 DEF Told
    <3> QED
      BY <1>5, <2>2, <3>1, <3>2 DEF CommentsInv, EventsTellHistory
  <2>3. CASE d = c
    <3>1. /\ Told(c)' = Told(c) \union {n}
          /\ Cardinality(Told(c)') = Cardinality(Told(c)) + 1
          /\ \A i \in Told(c)' : i <= n
      BY <1>3, <1>4, OneMoreTold
    <3>2. told'[n].what = to /\ to # "submitted"
      BY <1>6 DEF Decisions
    <3> QED
      BY <1>5, <2>1, <2>3, <3>1, <3>2
  <2> QED
    BY <2>2, <2>3
<1>10. ASSUME NEW d \in DOMAIN comments', NEW i \in DOMAIN told', NEW j \in DOMAIN told',
              told'[i] = [what |-> "deleted", comment |-> d], i < j
       PROVE  /\ told'[j].comment # d
              /\ told'[j].what = "submitted" => comments'[told'[j].comment].parent # d
  <2>1. i \in DOMAIN told /\ told[i] = [what |-> "deleted", comment |-> d] /\ d \in DOMAIN comments
    BY <1>5, <1>6, <1>10
  <2>2. comments[d].status = "deleted"
    BY <2>1, ToldDeletedIsDeleted
  <2>3. CASE j \in DOMAIN told
    <3>1. /\ told[j].comment # d
          /\ told[j].what = "submitted" => comments[told[j].comment].parent # d
      BY <1>10, <2>1, <2>3 DEF CommentsInv, EventsTellHistory
    <3>2. told[j].comment \in DOMAIN comments /\ told'[j] = told[j]
      BY <1>4, <1>6, <2>3 DEF CommentsShape
    <3>3. comments'[told[j].comment].parent = comments[told[j].comment].parent
      BY <1>5, <3>2
    <3> QED
      BY <3>1, <3>2, <3>3
  <2>4. CASE j = n
    BY <1>1, <1>6, <2>2, <2>4 DEF Decisions
  <2> QED
    BY <1>6, <2>3, <2>4
<1>11. EventsTellHistory'
  BY <1>9, <1>10 DEF EventsTellHistory
<1>12. /\ moderator' = [o \in Moderators |-> moderator'[o]]
       /\ \A o \in Moderators : HeldAsRead(o)'
       /\ HeldAlone'
  <2>1. ASSUME NEW o \in Moderators \ {m}, ~Rests(o)
        PROVE  /\ moderator[o][2] \in DOMAIN comments'
               /\ comments'[moderator[o][2]] = comments[moderator[o][2]]
    <3>1. ~Rests(m)
      BY <1>1 DEF Rests
    <3>2. moderator[o][2] # c
      BY <1>2, <2>1, <3>1 DEF CommentsInv, HeldAlone
    <3>3. moderator[o][2] \in DOMAIN comments
      <4>1. HeldAsRead(o)
        BY DEF CommentsInv, CommentsShape
      <4> QED
        BY <2>1, <4>1 DEF HeldAsRead
    <3> QED
      BY <1>5, <3>2, <3>3
  <2> QED
    BY <1>3, <2>1, OthersHold
<1> QED
  BY <1>5, <1>7, <1>8, <1>11, <1>12 DEF CommentsInv, CommentsShape

LEMMA CommentTaken ==
  ASSUME CommentsInv, NEW m \in Moderators, NEW c \in DOMAIN comments, Rests(m),
         GetForUpdate(m, c), UNCHANGED <<comments, told>>, NEW kept, Does(m, kept),
         comments[c].status # "deleted",
         \/ \E target \in Targets : kept = <<"replying", c, target>>
         \/ \E to \in Decisions : kept = <<"deciding", c, to, comments[c].version>>
  PROVE  CommentsInv'
<1>1. moderator' = [o \in Moderators |-> IF o = m THEN kept ELSE moderator[o]]
  BY DEF Does, CommentsInv, CommentsShape
<1>2. kept[2] = c
  OBVIOUS
<1>3. HeldAlone'
  <2> SUFFICES ASSUME NEW a \in Moderators, NEW b \in Moderators, a # b,
                      ~Rests(a)', ~Rests(b)', moderator'[a][2] = moderator'[b][2]
               PROVE  FALSE
    BY DEF HeldAlone
  <2>1. \A o \in Moderators \ {m} : ~Rests(o) => moderator[o][2] # c
    BY DEF GetForUpdate, Holds
  <2>2. CASE a # m /\ b # m
    BY <1>1, <2>2 DEF CommentsInv, HeldAlone, Rests
  <2>3. CASE a = m
    BY <1>1, <1>2, <2>1, <2>3 DEF Rests
  <2>4. CASE b = m
    BY <1>1, <1>2, <2>1, <2>4 DEF Rests
  <2> QED
    BY <2>2, <2>3, <2>4
<1>4. \A o \in Moderators : HeldAsRead(o)'
  <2> SUFFICES ASSUME NEW o \in Moderators PROVE HeldAsRead(o)'
    OBVIOUS
  <2>1. HeldAsRead(o)
    BY DEF CommentsInv, CommentsShape
  <2>2. CASE o = m
    BY <1>1, <2>2 DEF HeldAsRead
  <2>3. CASE o # m
    BY <1>1, <2>1, <2>3 DEF HeldAsRead, Rests
  <2> QED
    BY <2>2, <2>3
<1>5. EventsTellHistory'
  BY DEF CommentsInv, EventsTellHistory, Told
<1> QED
  BY <1>1, <1>3, <1>4, <1>5 DEF CommentsInv, CommentsShape

LEMMA CommentsStep == CommentsInv /\ [CommentsNext]_commentsVars => CommentsInv'
<1> SUFFICES ASSUME CommentsInv, [CommentsNext]_commentsVars PROVE CommentsInv'
  OBVIOUS
<1>1. ASSUME NEW target \in Targets, SubmitComment(target) PROVE CommentsInv'
  <2>1. Inserted(target, 0) /\ UNCHANGED moderator
    BY <1>1 DEF SubmitComment
  <2>2. /\ EventsTellHistory'
        /\ comments' \in Seq(CommentRow) /\ told' \in Seq(CommentEvent)
        /\ \A i \in DOMAIN told' : told'[i].comment \in DOMAIN comments'
        /\ DOMAIN comments \subseteq DOMAIN comments'
        /\ \A c \in DOMAIN comments : comments'[c] = comments[c]
    BY <2>1, InsertedIsTold
  <2>3. \A m \in Moderators : HeldAsRead(m)'
    <3> SUFFICES ASSUME NEW m \in Moderators PROVE HeldAsRead(m)'
      OBVIOUS
    <3>1. HeldAsRead(m)
      BY DEF CommentsInv, CommentsShape
    <3> QED
      BY <2>1, <2>2, <3>1 DEF HeldAsRead, Rests
  <2> QED
    BY <2>1, <2>2, <2>3 DEF CommentsInv, CommentsShape, HeldAlone, Rests
<1>2. ASSUME NEW m \in Moderators, ReplyCommits(m) PROVE CommentsInv'
  <2>1. PICK c \in DOMAIN comments, target \in Targets :
          moderator[m] = <<"replying", c, target>> /\ comments[c].status # "deleted"
    <3>1. HeldAsRead(m) /\ moderator[m][1] = "replying"
      BY <1>2 DEF CommentsInv, CommentsShape, ReplyCommits, Doing
    <3> QED
      BY <3>1 DEF HeldAsRead, Rests
  <2>2. c \in Nat
    BY DEF CommentsInv, CommentsShape
  <2>3. Inserted(target, c) /\ Does(m, <<"idle">>)
    BY <1>2, <2>1 DEF ReplyCommits
  <2>4. /\ EventsTellHistory'
        /\ comments' \in Seq(CommentRow) /\ told' \in Seq(CommentEvent)
        /\ \A i \in DOMAIN told' : told'[i].comment \in DOMAIN comments'
        /\ DOMAIN comments \subseteq DOMAIN comments'
        /\ \A d \in DOMAIN comments : comments'[d] = comments[d]
    BY <2>1, <2>2, <2>3, InsertedIsTold
  <2>5. \A o \in Moderators : ~Rests(o) => moderator[o][2] \in DOMAIN comments
    <3> SUFFICES ASSUME NEW o \in Moderators, ~Rests(o) PROVE moderator[o][2] \in DOMAIN comments
      OBVIOUS
    <3>1. HeldAsRead(o)
      BY DEF CommentsInv, CommentsShape
    <3> QED
      BY <3>1 DEF HeldAsRead
  <2>6. /\ moderator' = [o \in Moderators |-> moderator'[o]]
        /\ \A o \in Moderators : HeldAsRead(o)'
        /\ HeldAlone'
    BY <2>3, <2>4, <2>5, OthersHold
  <2> QED
    BY <2>4, <2>6 DEF CommentsInv, CommentsShape
<1>3. ASSUME NEW m \in Moderators, CommentGivesUp(m) PROVE CommentsInv'
  <2>1. Does(m, <<"idle">>) /\ UNCHANGED <<comments, told>>
    BY <1>3 DEF CommentGivesUp
  <2>2. \A o \in Moderators : ~Rests(o) => moderator[o][2] \in DOMAIN comments
    <3> SUFFICES ASSUME NEW o \in Moderators, ~Rests(o) PROVE moderator[o][2] \in DOMAIN comments
      OBVIOUS
    <3>1. HeldAsRead(o)
      BY DEF CommentsInv, CommentsShape
    <3> QED
      BY <3>1 DEF HeldAsRead
  <2>3. /\ moderator' = [o \in Moderators |-> moderator'[o]]
        /\ \A o \in Moderators : HeldAsRead(o)'
        /\ HeldAlone'
    BY <2>1, <2>2, OthersHold
  <2>4. EventsTellHistory'
    BY <2>1 DEF CommentsInv, EventsTellHistory, Told
  <2> QED
    BY <2>1, <2>3, <2>4 DEF CommentsInv, CommentsShape
<1>4. ASSUME NEW m \in Moderators, NEW target \in Targets, NEW c \in DOMAIN comments,
             ReplyReads(m, target, c)
      PROVE  CommentsInv'
  <2>1. /\ Rests(m) /\ GetForUpdate(m, c) /\ UNCHANGED <<comments, told>>
        /\ Does(m, <<"replying", c, target>>) /\ comments[c].status # "deleted"
    BY <1>4 DEF ReplyReads
  <2> DEFINE kept == <<"replying", c, target>>
  <2>2. \E t \in Targets : kept = <<"replying", c, t>>
    OBVIOUS
  <2>3. Does(m, kept)
    BY <2>1
  <2> HIDE DEF kept
  <2> QED
    BY <2>1, <2>2, <2>3, CommentTaken
<1>5. ASSUME NEW m \in Moderators, NEW c \in DOMAIN comments, NEW to \in Decisions,
             DecisionReads(m, c, to)
      PROVE  CommentsInv'
  <2>1. /\ Rests(m) /\ GetForUpdate(m, c) /\ UNCHANGED <<comments, told>>
        /\ Does(m, <<"deciding", c, to, comments[c].version>>) /\ comments[c].status # "deleted"
    BY <1>5 DEF DecisionReads
  <2> DEFINE kept == <<"deciding", c, to, comments[c].version>>
  <2>2. \E t \in Decisions : kept = <<"deciding", c, t, comments[c].version>>
    OBVIOUS
  <2>3. Does(m, kept)
    BY <2>1
  <2> HIDE DEF kept
  <2> QED
    BY <2>1, <2>2, <2>3, CommentTaken
<1>6. CASE UNCHANGED commentsVars
  <2>1. UNCHANGED <<comments, told, moderator>>
    BY <1>6 DEF commentsVars
  <2>2. CommentsShape'
    <3>1. \A m \in Moderators : HeldAsRead(m)' = HeldAsRead(m)
      BY <2>1 DEF HeldAsRead, Rests
    <3> QED
      BY <2>1, <3>1 DEF CommentsInv, CommentsShape
  <2>3. EventsTellHistory'
    <3>1. \A c : Told(c)' = Told(c)
      BY <2>1 DEF Told
    <3> QED
      BY <2>1, <3>1 DEF CommentsInv, EventsTellHistory
  <2>4. HeldAlone'
    BY <2>1 DEF CommentsInv, HeldAlone, Rests
  <2> QED
    BY <2>2, <2>3, <2>4 DEF CommentsInv
<1> QED
  BY <1>1, <1>2, <1>3, <1>4, <1>5, <1>6, DecisionIsTold DEF CommentsNext

\* The events of a comment are its history: as many as its versions, the last one its
\* status, and nothing after its deletion, a reply to it included (_get_for_update).
THEOREM EventsAreTheHistory == CommentsSpec => []EventsTellHistory
<1>1. CommentsInv => EventsTellHistory
  BY DEF CommentsInv
<1> QED
  BY <1>1, CommentsStart, CommentsStep, PTL DEF CommentsSpec


-----------------------------------------------------------------------------
(* Types: what each component keeps beside what its property is about.     *)

LEMMA ArchiveStart == ArchiveInit => ArchiveInv
BY DEF ArchiveInit, ArchiveInv, ArchiveTyped, DeskSound, DeliveredAsGranted

AttemptRows == [status : {"delivered", "proxy_required", "unknown", "failed"}, ref : BOOLEAN]

\* What a provider answers is recorded as one of four outcomes.
LEMMA DeliveriesAreRecorded == Deliveries \subseteq AttemptRows
<1> DEFINE Given == [status : {"redirect", "proxy_required", "unavailable", "unknown"}, ref : BOOLEAN]
<1>1. \A x \in Exchanges, b \in Bodies, ref \in BOOLEAN : OpenListDelivery(x, b, ref) \in Given
  BY DEF OpenListDelivery
<1>2. \A x \in Exchanges, b \in Bodies, ref \in BOOLEAN, direct \in BOOLEAN :
        GofileDelivery(x, b, ref, direct) \in Given
  BY DEF GofileDelivery
<1>3. \A a \in Given : [a EXCEPT !.status = AttemptStatus(@)] \in AttemptRows
  BY DEF AttemptStatus, AttemptRows
<1> DEFINE One == {OpenListDelivery(x, b, ref) : x \in Exchanges, b \in Bodies, ref \in BOOLEAN}
           Two == {GofileDelivery(x, b, ref, direct) :
                     x \in Exchanges, b \in Bodies, ref \in BOOLEAN, direct \in BOOLEAN}
           Lost == [status |-> "unknown", ref |-> FALSE]
<1>4. Lost \in Given
  OBVIOUS
<1>5. Deliveries = {[a EXCEPT !.status = AttemptStatus(@)] : a \in One \union Two \union {Lost}}
  BY DEF Deliveries
<1> HIDE DEF Given, Lost
<1>6. One \subseteq Given /\ Two \subseteq Given
  BY <1>1, <1>2
<1> HIDE DEF One, Two
<1> QED
  BY <1>3, <1>4, <1>5, <1>6

ArchiveRecords ==
    /\ attempts \in [Purchases -> Seq(AttemptRows)]
    /\ links \subseteq Purchases \X Locators

\* A link is of a purchase and of the file of its grant.
LEMMA ArchiveRecordsStep ==
  ASSUME ArchiveInv, ArchiveRecords, [ArchiveNext]_archiveVars
  PROVE  ArchiveRecords'
<1>1. ASSUME NEW d \in Desks, NEW delivery \in Deliveries, ResolveRecords(d, delivery)
      PROVE  ArchiveRecords'
  <2> DEFINE k == desk[d][2]
             number == desk[d][5]
             past == attempts[k]
             new == IF desk[d][4] THEN [past EXCEPT ![number] = delivery]
                    ELSE Append(past, delivery)
  <2>1. k \in Purchases /\ bought[k] # NoGrant /\ bought[k].file = desk[d][3]
    BY <1>1 DEF ArchiveInv, DeskSound, ResolveRecords, DeskIn
  <2>2. desk[d][3] \in Locators
    BY <2>1 DEF ArchiveInv, ArchiveTyped, GrantRows
  <2>3. attempts' = [attempts EXCEPT ![k] = new] /\ links' \subseteq links \union {<<k, desk[d][3]>>}
    BY <1>1 DEF ResolveRecords
  <2>4. delivery \in AttemptRows /\ past \in Seq(AttemptRows)
    BY <2>1, DeliveriesAreRecorded DEF ArchiveRecords
  <2>5. new \in Seq(AttemptRows)
    <3>1. Append(past, delivery) \in Seq(AttemptRows)
      BY <2>4
    <3>2. [past EXCEPT ![number] = delivery] \in Seq(AttemptRows)
      <4> DEFINE edited == [past EXCEPT ![number] = delivery]
      <4>1. past \in [1..Len(past) -> AttemptRows] /\ Len(past) \in Nat
        BY <2>4
      <4>2. edited \in [1..Len(past) -> AttemptRows]
        BY <2>4, <4>1
      <4> HIDE DEF edited, number
      <4> QED
        BY <4>1, <4>2 DEF Seq, edited
    <3> QED
      BY <3>1, <3>2
  <2> HIDE DEF k, new
  <2> QED
    BY <2>1, <2>2, <2>3, <2>5 DEF ArchiveRecords
<1>2. CASE ~\E d \in Desks, delivery \in Deliveries : ResolveRecords(d, delivery)
  <2>1. UNCHANGED <<attempts, links>>
    BY <1>2 DEF ArchiveNext, archiveVars, grantVars, RegisterArchiveItem, UpdateArchiveItem,
       ActivateArchiveItem, MarkArchiveItemUnavailable, RetireArchiveItem, VerifyReads,
       MigrateReads, VerifyArchiveItem, MigrateArchiveItemProvider, IssueReads, GrantReads,
       ResolvePrepares, IssueDownloadGrant, GrantWritten, ResolveRechecks, ArchiveGivesUp,
       ArchiveTimePasses
  <2> QED
    BY <2>1 DEF ArchiveRecords
<1> QED
  BY <1>1, <1>2

LEMMA ArchiveKeepsTypes == ArchiveSpec => []ArchiveTypeOK
<1> DEFINE Inv == ArchiveInv /\ ArchiveRecords
<1>1. ArchiveInit => Inv
  <2>1. ArchiveInit => ArchiveRecords
    BY DEF ArchiveInit, ArchiveRecords
  <2> QED
    BY <2>1, ArchiveStart
<1>2. Inv /\ [ArchiveNext]_archiveVars => Inv'
  BY ArchiveStep, ArchiveRecordsStep, ArchiveAssumption
<1>3. Inv => ArchiveTypeOK
  <2> SUFFICES ASSUME Inv PROVE ArchiveTypeOK
    OBVIOUS
  <2>1. \A k \in Purchases : \A n \in DOMAIN attempts[k] : attempts[k][n] \in AttemptRows
    BY DEF ArchiveRecords
  <2> QED
    BY <2>1 DEF ArchiveInv, ArchiveTyped, ArchiveRecords, ArchiveTypeOK, ItemRows, GrantRows, AttemptRows
<1> QED
  BY <1>1, <1>2, <1>3, PTL DEF ArchiveSpec

-----------------------------------------------------------------------------
LEMMA IdentityStart == IdentityAssumption /\ IdentityInit => IdentityInv
<1> HAVE IdentityAssumption /\ IdentityInit
<1>1. ChallengesSound(challenges) /\ ResetsSound(resets, challenges) /\ DOMAIN challenges = {}
  BY DEF IdentityInit, ChallengesSound, ResetsSound
<1>2. WindowsSound(window, challenges)
  BY DEF IdentityInit, WindowsSound
<1> QED
  BY <1>1, <1>2 DEF IdentityInit, IdentityInv

UserRows == [status : Statuses, verified : BOOLEAN, logins : SUBSET Providers]

\* Whoever acts on the account found it, and a challenge supersedes earlier ones only.
AccountKept ==
    /\ account = NoAccount \/ account \in UserRows
    /\ account = NoAccount => DOMAIN challenges = {}
    /\ \A w \in Windows :
         /\ window[w][1] \in {"requesting", "status", "unlinking"} => account \in UserRows
         /\ window[w][1] = "status" => window[w][3] \in Statuses
    /\ \A n \in DOMAIN challenges : challenges[n].seen \subseteq 1 .. n - 1

LEMMA NoUser == NoAccount \notin UserRows /\ NoAccount.status \notin Statuses
BY DEF NoAccount, UserRows, Statuses

LEMMA RequestEnds ==
  ASSUME IdentityInv, NEW w \in Windows, Shows(w, <<"idle">>)
  PROVE  window'[w] = <<"idle">> /\ \A v \in Windows : v # w => window'[v] = window[v]
BY OneWindowMoves DEF IdentityInv

\* An edit of the row by a request that ends or by none.
LEMMA AccountEdited ==
  ASSUME IdentityInv, AccountKept, account \in UserRows, account' \in UserRows,
         DOMAIN challenges' = DOMAIN challenges,
         \A n \in DOMAIN challenges : challenges'[n].seen = challenges[n].seen,
         UNCHANGED window \/ \E w \in Windows : Shows(w, <<"idle">>)
  PROVE  AccountKept'
<1>1. \A w \in Windows : window'[w] = window[w] \/ window'[w] = <<"idle">>
  BY RequestEnds
<1>2. account' # NoAccount
  BY NoUser
<1>3. ASSUME NEW w \in Windows, window'[w][1] = "status" PROVE window'[w][3] \in Statuses
  BY <1>1, <1>3 DEF AccountKept
<1> QED
  BY <1>2, <1>3 DEF AccountKept

LEMMA AccountStep ==
  ASSUME IdentityAssumption, IdentityInv, AccountKept, [IdentityNext]_identityVars
  PROVE  AccountKept'
<1>1. ASSUME NEW w \in Windows, NEW what, Shows(w, what), UNCHANGED <<account, challenges>>,
             what[1] \in {"requesting", "status", "unlinking"} => account \in UserRows,
             what[1] = "status" => what[3] \in Statuses
      PROVE  AccountKept'
  <2>1. window'[w] = what /\ \A v \in Windows : v # w => window'[v] = window[v]
    BY <1>1, OneWindowMoves DEF IdentityInv
  <2> QED
    BY <1>1, <2>1 DEF AccountKept
<1>2. \A n \in DOMAIN challenges : challenges[n] \in ChallengeRows
  BY DEF IdentityInv, ChallengesSound
<1>3. CASE RegisterLocalUser
  <2> DEFINE c == Challenge("email_verification", {})
  <2>1. DOMAIN challenges = {} /\ challenges \in Seq(ChallengeRows)
    BY <1>3 DEF RegisterLocalUser, AccountKept, IdentityInv, ChallengesSound
  <2>2. account' \in UserRows
    BY <1>3 DEF RegisterLocalUser, UserRows, Statuses, IdentityAssumption
  <2>3. challenges' = Append(challenges, c) /\ c.seen = {} /\ UNCHANGED window
    BY <1>3 DEF RegisterLocalUser, Issues, Challenge
  <2> HIDE DEF c
  <2>4. \A n \in DOMAIN challenges' : challenges'[n] = c
    BY <2>1, <2>3
  <2> QED
    BY <2>2, <2>3, <2>4, NoUser DEF AccountKept
<1>4. ASSUME NEW p \in Providers, LinkLoginIdentity(p) PROVE AccountKept'
  <2>1. account \in UserRows /\ account' \in UserRows /\ UNCHANGED <<challenges, window>>
    BY <1>4 DEF LinkLoginIdentity, UserRows, AccountKept
  <2> QED
    BY <2>1, AccountEdited
<1>5. ASSUME NEW w \in Windows, ResetRequestReads(w) PROVE AccountKept'
  <2>1. account \in UserRows
    BY <1>5, NoUser DEF ResetRequestReads, AccountKept, Statuses
  <2> QED
    BY <1>1, <1>5, <2>1 DEF ResetRequestReads
<1>6. ASSUME NEW w \in Windows, RequestPasswordReset(w) PROVE AccountKept'
  <2> DEFINE seen == window[w][2]
             c == Challenge("password_reset", seen)
             old == Consumed(seen)
  <2>1. /\ challenges' = Append(old, c) /\ c.seen = seen
        /\ Shows(w, <<"idle">>) /\ UNCHANGED account
    BY <1>6 DEF RequestPasswordReset, Challenge
  <2>2. seen \subseteq DOMAIN challenges
    BY <1>6 DEF RequestPasswordReset, WindowIn, IdentityInv, WindowsSound
  <2>3. challenges \in Seq(ChallengeRows)
    BY DEF IdentityInv, ChallengesSound
  <2>4. /\ old \in Seq(ChallengeRows) /\ Len(old) = Len(challenges) /\ Len(challenges) \in Nat
        /\ \A n \in 1 .. Len(challenges) : old[n].seen = challenges[n].seen
    <3>1. /\ DOMAIN challenges = 1 .. Len(challenges) /\ Len(challenges) \in Nat
          /\ old = [n \in 1 .. Len(challenges) |-> old[n]]
      BY <2>3 DEF Consumed
    <3>2. \A n \in 1 .. Len(challenges) : old[n] \in ChallengeRows /\ old[n].seen = challenges[n].seen
      BY <3>1, <1>2 DEF Consumed, ChallengeRows
    <3> HIDE DEF old
    <3> QED
      BY <3>1, <3>2
  <2> HIDE DEF old, c
  <2>5. /\ DOMAIN challenges' = 1 .. (Len(challenges) + 1)
        /\ \A n \in 1 .. Len(challenges) : challenges'[n] = old[n]
        /\ challenges'[Len(challenges) + 1] = c
    BY <2>1, <2>4
  <2>6. ASSUME NEW n \in DOMAIN challenges' PROVE challenges'[n].seen \subseteq 1 .. n - 1
    <3>1. CASE n \in 1 .. Len(challenges)
      BY <3>1, <2>3, <2>4, <2>5 DEF AccountKept
    <3>2. CASE n = Len(challenges) + 1
      <4>1. n - 1 = Len(challenges) /\ DOMAIN challenges = 1 .. Len(challenges)
        BY <3>2, <2>3, <2>4
      <4> QED
        BY <3>2, <4>1, <2>1, <2>2, <2>5
    <3> QED
      BY <3>1, <3>2, <2>4, <2>5, <2>6
  <2>7. window'[w] = <<"idle">> /\ \A v \in Windows : v # w => window'[v] = window[v]
    BY <2>1, RequestEnds
  <2>8. account \in UserRows /\ account # NoAccount /\ account' = account
    BY <1>6, <2>1, NoUser DEF AccountKept, RequestPasswordReset, WindowIn
  <2>9. ASSUME NEW v \in Windows
        PROVE  /\ window'[v][1] \in {"requesting", "status", "unlinking"} => account' \in UserRows
               /\ window'[v][1] = "status" => window'[v][3] \in Statuses
    <3>1. CASE v = w
      BY <2>7, <2>8, <3>1
    <3>2. CASE v # w
      BY <2>7, <2>8, <3>2 DEF AccountKept
    <3> QED
      BY <3>1, <3>2
  <2> QED
    BY <2>6, <2>8, <2>9 DEF AccountKept
<1>7. ASSUME NEW w \in Windows, NEW to \in Statuses, StatusReads(w, to) PROVE AccountKept'
  <2>1. account \in UserRows
    BY <1>7, NoUser DEF StatusReads, AccountKept, StatusFrom, Statuses
  <2> QED
    BY <1>1, <1>7, <2>1 DEF StatusReads
<1>8. ASSUME NEW w \in Windows, NEW p \in Providers, UnlinkReads(w, p) PROVE AccountKept'
  BY <1>1, <1>8 DEF UnlinkReads, AccountKept
<1>9. ASSUME NEW w \in Windows, NEW n \in DOMAIN challenges, ChallengeReads(w, n) PROVE AccountKept'
  BY <1>1, <1>9 DEF ChallengeReads
<1>10. ASSUME NEW w \in Windows, StatusWritten(w) PROVE AccountKept'
  <2>1. account \in UserRows /\ window[w][3] \in Statuses
    BY <1>10 DEF StatusWritten, WindowIn, AccountKept
  <2>2. account' \in UserRows
    BY <1>10, <2>1 DEF StatusWritten, UserRows
  <2> QED
    BY <1>10, <2>1, <2>2, AccountEdited DEF StatusWritten
<1>11. ASSUME NEW w \in Windows, UnlinkLoginIdentity(w) PROVE AccountKept'
  <2>1. account \in UserRows
    BY <1>11 DEF UnlinkLoginIdentity, WindowIn, AccountKept
  <2>2. account' \in UserRows
    BY <1>11, <2>1 DEF UnlinkLoginIdentity, UserRows
  <2> QED
    BY <1>11, <2>1, <2>2, AccountEdited DEF UnlinkLoginIdentity
<1>12. ASSUME NEW w \in Windows, VerifyEmail(w) \/ ResetPassword(w) PROVE AccountKept'
  <2>1. WindowIn(w, "using") /\ ConsumeChallenge(w) /\ Shows(w, <<"idle">>)
    BY <1>12 DEF VerifyEmail, ResetPassword, Uses
  <2>2. window[w][2] \in DOMAIN challenges
    BY <2>1 DEF WindowIn, IdentityInv, WindowsSound
  <2>3. account \in UserRows
    BY <2>2 DEF AccountKept
  <2>4. account' \in UserRows
    BY <1>12, <2>3 DEF VerifyEmail, ResetPassword, UserRows
  <2>5. DOMAIN challenges' = DOMAIN challenges
    BY <2>1 DEF ConsumeChallenge
  <2>6. \A n \in DOMAIN challenges : challenges'[n].seen = challenges[n].seen
    BY <1>2, <2>1, <2>2 DEF ConsumeChallenge, ChallengeRows
  <2> QED
    BY <2>1, <2>3, <2>4, <2>5, <2>6, AccountEdited
<1>13. ASSUME NEW w \in Windows, IdentityGivesUp(w) PROVE AccountKept'
  BY <1>1, <1>13 DEF IdentityGivesUp
<1>14. CASE IdentityTimePasses \/ UNCHANGED identityVars
  BY <1>14 DEF IdentityTimePasses, identityVars, AccountKept
<1> QED
  BY <1>3, <1>4, <1>5, <1>6, <1>7, <1>8, <1>9, <1>10, <1>11, <1>12, <1>13, <1>14 DEF IdentityNext

LEMMA IdentityKeepsTypes == IdentitySpec => []IdentityTypeOK
<1> DEFINE Inv == IdentityInv /\ AccountKept
<1>1. IdentityInit => Inv
  <2>1. IdentityInit => AccountKept
    BY DEF IdentityInit, AccountKept
  <2> QED
    BY <2>1, IdentityStart, IdentityAssumption
<1>2. Inv /\ [IdentityNext]_identityVars => Inv'
  BY IdentityKeeps, AccountStep, IdentityAssumption
<1>3. Inv => IdentityTypeOK
  <2> SUFFICES ASSUME Inv PROVE IdentityTypeOK
    OBVIOUS
  <2>1. \A n \in DOMAIN challenges : challenges[n] \in ChallengeRows
    BY DEF IdentityInv, ChallengesSound
  <2>2. ASSUME NEW n \in DOMAIN challenges
        PROVE  challenges[n] \in [purpose : Purposes, consumed : BOOLEAN, until : Nat,
                                  attempts : Nat, seen : SUBSET (1 .. n - 1)]
    BY <2>1 DEF ChallengeRows, AccountKept
  <2>3. ASSUME NEW i \in DOMAIN resets
        PROVE  resets[i] \in [challenge : DOMAIN challenges, superseded : BOOLEAN]
    <3>1. resets[i] \in ResetRows /\ resets[i].challenge \in DOMAIN challenges
      BY DEF IdentityInv, ResetsSound
    <3> QED
      BY <3>1 DEF ResetRows
  <2> QED
    BY <2>2, <2>3 DEF IdentityInv, WindowsSound, AccountKept, UserRows, IdentityTypeOK
<1> QED
  BY <1>1, <1>2, <1>3, PTL DEF IdentitySpec

\* A reply's parent was there before it.
ParentsFirst == \A c \in DOMAIN comments : comments[c].parent \in 0 .. c - 1

LEMMA ParentsStep ==
  ASSUME CommentsInv, ParentsFirst, [CommentsNext]_commentsVars PROVE ParentsFirst'
<1>1. comments \in Seq(CommentRow) /\ DOMAIN comments = 1 .. Len(comments) /\ Len(comments) \in Nat
  BY DEF CommentsInv, CommentsShape
<1>2. ASSUME NEW target, NEW parent \in 0 .. Len(comments), Inserted(target, parent)
      PROVE  ParentsFirst'
  <2> DEFINE new == [target |-> target, parent |-> parent, status |-> "pending", version |-> 1]
  <2>1. comments' = Append(comments, new) /\ new.parent = parent
    BY <1>2 DEF Inserted
  <2> HIDE DEF new
  <2>2. ASSUME NEW c \in DOMAIN comments' PROVE comments'[c].parent \in 0 .. c - 1
    <3>1. CASE c \in DOMAIN comments
      BY <1>1, <2>1, <3>1 DEF ParentsFirst
    <3>2. CASE c = Len(comments) + 1
      BY <1>1, <1>2, <2>1, <3>2
    <3> QED
      BY <1>1, <2>1, <3>1, <3>2
  <2> QED
    BY <2>2 DEF ParentsFirst
<1>3. ASSUME NEW m \in Moderators, ReplyCommits(m) PROVE ParentsFirst'
  <2>1. PICK c \in DOMAIN comments, target \in Targets : moderator[m] = <<"replying", c, target>>
    <3>1. HeldAsRead(m) /\ moderator[m][1] = "replying"
      BY <1>3 DEF CommentsInv, CommentsShape, ReplyCommits, Doing
    <3> QED
      BY <3>1 DEF HeldAsRead, Rests
  <2> QED
    BY <1>1, <1>2, <1>3, <2>1 DEF ReplyCommits
<1>4. ASSUME NEW m \in Moderators, DecisionCommits(m) PROVE ParentsFirst'
  <2>1. /\ DOMAIN comments' = DOMAIN comments
        /\ \A c \in DOMAIN comments : comments'[c].parent = comments[c].parent
    BY <1>1, <1>4 DEF DecisionCommits, CommentRow
  <2> QED
    BY <2>1 DEF ParentsFirst
<1>5. ASSUME NEW target \in Targets, SubmitComment(target) PROVE ParentsFirst'
  BY <1>1, <1>2, <1>5 DEF SubmitComment
<1>6. CASE UNCHANGED comments
  BY <1>6 DEF ParentsFirst
<1> QED
  BY <1>3, <1>4, <1>5, <1>6
  DEF CommentsNext, commentsVars, ReplyReads, DecisionReads, CommentGivesUp

LEMMA CommentsKeepTypes == CommentsSpec => []CommentsTypeOK
<1> DEFINE Inv == CommentsInv /\ ParentsFirst
<1>1. CommentsInit => Inv
  BY CommentsStart DEF CommentsInit, ParentsFirst
<1>2. Inv /\ [CommentsNext]_commentsVars => Inv'
  BY CommentsStep, ParentsStep
<1>3. Inv => CommentsTypeOK
  <2> SUFFICES ASSUME Inv PROVE CommentsTypeOK
    OBVIOUS
  <2>1. \A c \in DOMAIN comments : comments[c] \in CommentRow /\ comments[c].parent \in 0 .. c - 1
    BY DEF CommentsInv, CommentsShape, ParentsFirst
  <2>2. \A i \in DOMAIN told : told[i] \in CommentEvent /\ told[i].comment \in DOMAIN comments
    BY DEF CommentsInv, CommentsShape
  <2>3. DOMAIN moderator = Moderators
    BY DEF CommentsInv, CommentsShape
  <2> QED
    BY <2>1, <2>2, <2>3 DEF CommentsTypeOK, CommentRow, CommentEvent
<1> QED
  BY <1>1, <1>2, <1>3, PTL DEF CommentsSpec

TermsTyped ==
    /\ terms \in [Slugs -> {"none", "active", "archived"}]
    /\ \A r \in rows : r \in [term : Slugs, by : Nat]
    /\ \A l \in Librarians :
         librarian[l][1] \in {"choosing", "waiting", "replacing"} => librarian[l][3] \subseteq Slugs

LEMMA TermsStep ==
  ASSUME TaxonomyAssumption, TaxonomyInv, TermsTyped, [TaxonomyNext]_taxonomyVars
  PROVE  TermsTyped'
<1>1. ASSUME NEW l \in Librarians, NEW doing, Turns(l, doing), UNCHANGED terms,
             doing[1] \in {"choosing", "waiting", "replacing"} => doing[3] \subseteq Slugs,
             \A r \in rows' : r \in [term : Slugs, by : Nat]
      PROVE  TermsTyped'
  <2>1. \A k \in Librarians : librarian'[k] = IF k = l THEN doing ELSE librarian[k]
    BY <1>1 DEF Turns, TaxonomyInv
  <2> QED
    BY <1>1, <2>1 DEF TermsTyped
<1>2. \A r \in rows : r \in [term : Slugs, by : Nat]
  BY DEF TermsTyped
<1>3. CASE \E s \in Slugs : CreateTerm(s) \/ ArchiveTerm(s)
  BY <1>3 DEF CreateTerm, ArchiveTerm, TermsTyped
<1>4. ASSUME NEW l \in Librarians, NEW chosen \in SUBSET Slugs, AssignReadsTerms(l, chosen)
      PROVE  TermsTyped'
  BY <1>1, <1>2, <1>4 DEF AssignReadsTerms
<1>5. ASSUME NEW l \in Librarians, AssignReadsRows(l) PROVE TermsTyped'
  <2> DEFINE doing == <<"waiting", librarian[l][2], librarian[l][3], rows>>
  <2>1. Turns(l, doing) /\ doing[3] \subseteq Slugs /\ UNCHANGED <<terms, rows>>
    BY <1>5 DEF AssignReadsRows, ExistingRows, Works, TermsTyped
  <2> HIDE DEF doing
  <2> QED
    BY <1>1, <1>2, <2>1
<1>6. ASSUME NEW l \in Librarians, AssignLocksRows(l) PROVE TermsTyped'
  <2> DEFINE doing == <<"replacing", librarian[l][2], librarian[l][3], librarian[l][4] \intersect rows>>
  <2>1. Turns(l, doing) /\ doing[3] \subseteq Slugs /\ UNCHANGED <<terms, rows>>
    BY <1>6 DEF AssignLocksRows, Works, TermsTyped
  <2> HIDE DEF doing
  <2> QED
    BY <1>1, <1>2, <2>1
<1>7. ASSUME NEW l \in Librarians, AssignTerms(l) PROVE TermsTyped'
  <2>1. librarian[l][2] \in Nat /\ librarian[l][3] \subseteq Slugs
    BY <1>7 DEF AssignTerms, Works, TaxonomyInv, WorkSound, Underway, TermsTyped
  <2>2. \A r \in rows' : r \in [term : Slugs, by : Nat]
    BY <1>2, <1>7, <2>1 DEF AssignTerms
  <2> QED
    BY <1>1, <1>7, <2>2 DEF AssignTerms
<1>8. ASSUME NEW l \in Librarians, RemoveReads(l) PROVE TermsTyped'
  BY <1>1, <1>2, <1>8 DEF RemoveReads
<1>9. ASSUME NEW l \in Librarians, RemoveTargetAssignments(l) \/ TaxonomyGivesUp(l)
      PROVE  TermsTyped'
  <2>1. Turns(l, <<"idle">>) /\ UNCHANGED terms /\ rows' \subseteq rows
    BY <1>9 DEF RemoveTargetAssignments, TaxonomyGivesUp
  <2> QED
    BY <1>1, <1>2, <2>1
<1>10. CASE UNCHANGED taxonomyVars
  BY <1>10 DEF taxonomyVars, TermsTyped
<1> QED
  BY <1>3, <1>4, <1>5, <1>6, <1>7, <1>8, <1>9, <1>10 DEF TaxonomyNext

LEMMA TaxonomyKeepsTypes == TaxonomySpec => []TaxonomyTypeOK
<1> DEFINE Inv == TaxonomyInv /\ TermsTyped
<1>1. TaxonomyInit => Inv
  BY TaxonomyStart, TaxonomyAssumption DEF TaxonomyInit, TermsTyped
<1>2. Inv /\ [TaxonomyNext]_taxonomyVars => Inv'
  BY TaxonomyStep, TermsStep, TaxonomyAssumption
<1>3. Inv => TaxonomyTypeOK
  <2> SUFFICES ASSUME Inv PROVE TaxonomyTypeOK
    OBVIOUS
  <2>1. rows \subseteq [term : Slugs, by : 1 .. taxonomyCalls]
    BY DEF TaxonomyInv, TermsTyped
  <2> QED
    BY <2>1 DEF TaxonomyInv, TermsTyped, TaxonomyTypeOK
<1> QED
  BY <1>1, <1>2, <1>3, PTL DEF TaxonomySpec

SessionsKept ==
    /\ \A x \in Logins : logins[x] \in {Gone, NeverMade} \union [made : Nat]
    /\ \A s \in Sessions :
         stored[s] = Gone \/ stored[s] \in [kind : {"kept"}, created : Nat, seen : Nat, until : Nat]
    /\ uses \subseteq [session : Sessions, now : Nat, after : BOOLEAN]
    /\ \A t \in Tabs : TabIn(t, "refreshing") => tab[t][5] \in BOOLEAN

LEMMA SessionsKeptStep ==
  ASSUME SessionsTyped, RecordsInv, SessionsKept, [AdminSessionNext]_adminSessionVars
  PROVE  SessionsKept'
<1>1. ASSUME NEW t \in Tabs, NEW doing, Moves(t, doing),
             doing[1] = "refreshing" => doing[5] \in BOOLEAN
      PROVE  \A u \in Tabs : TabIn(u, "refreshing")' => tab'[u][5] \in BOOLEAN
  <2>1. \A u \in Tabs : tab'[u] = IF u = t THEN doing ELSE tab[u]
    BY <1>1 DEF Moves, SessionsTyped
  <2> QED
    BY <1>1, <2>1 DEF TabIn, SessionsKept
<1>2. sessionTime \in Nat /\ Absolute \in Nat /\ Idle \in Nat
  BY AdminSessionAssumption DEF SessionsTyped
<1>3. ASSUME NEW s \in Sessions, NEW created \in Nat, NEW seen \in Nat, NEW until \in Nat,
             stored' = [stored EXCEPT ![s] = Record(created, seen, until)]
      PROVE  \A r \in Sessions :
               \/ stored'[r] = Gone
               \/ stored'[r] \in [kind : {"kept"}, created : Nat, seen : Nat, until : Nat]
  <2> DEFINE record == Record(created, seen, until)
  <2>1. record \in [kind : {"kept"}, created : Nat, seen : Nat, until : Nat]
    BY DEF Record
  <2>2. stored' = [stored EXCEPT ![s] = record]
    BY <1>3
  <2> HIDE DEF record
  <2> QED
    BY <2>1, <2>2 DEF SessionsTyped, SessionsKept
<1>4. ASSUME NEW s \in Sessions, NEW by, Created(s, by)
       PROVE  \A r \in Sessions :
                \/ stored'[r] = Gone
                \/ stored'[r] \in [kind : {"kept"}, created : Nat, seen : Nat, until : Nat]
  <2>1. stored' = [stored EXCEPT ![s] = Record(sessionTime, sessionTime, sessionTime + Absolute)]
    BY <1>4 DEF Created
  <2>2. sessionTime + Absolute \in Nat
    BY <1>2
  <2> QED
    BY <1>2, <1>3, <2>1, <2>2
<1>5. ASSUME NEW x \in Logins, CreateTransaction(x) PROVE SessionsKept'
  <2> DEFINE record == [made |-> sessionTime]
  <2>1. record \in [made : Nat]
    BY <1>2
  <2>2. logins' = [logins EXCEPT ![x] = record] /\ UNCHANGED <<stored, uses, tab>>
    BY <1>5 DEF CreateTransaction
  <2> HIDE DEF record
  <2> QED
    BY <2>1, <2>2 DEF SessionsTyped, SessionsKept, TabIn
<1>6. ASSUME NEW t \in Tabs, NEW x \in Logins, ConsumeTransaction(t, x) PROVE SessionsKept'
  <2>1. /\ \A u \in Tabs : TabIn(u, "refreshing")' => tab'[u][5] \in BOOLEAN
        /\ logins' = [logins EXCEPT ![x] = Gone] /\ UNCHANGED <<stored, uses>>
    BY <1>1, <1>6 DEF ConsumeTransaction, GetDel, TabIn, SessionsKept
  <2> QED
    BY <2>1 DEF SessionsTyped, SessionsKept
<1>7. ASSUME NEW t \in Tabs, NEW s \in Sessions, ExchangeCreates(t, s) PROVE SessionsKept'
  <2>1. \A u \in Tabs : TabIn(u, "refreshing")' => tab'[u][5] \in BOOLEAN
    BY <1>1, <1>7 DEF ExchangeCreates
  <2> QED
    BY <1>7, <1>4, <2>1 DEF ExchangeCreates, SessionsKept
<1>8. ASSUME NEW s \in Sessions, BearerCreates(s) PROVE SessionsKept'
  BY <1>8, <1>4 DEF BearerCreates, SessionsKept, TabIn
<1>9. ASSUME NEW t \in Tabs, NEW s \in Sessions, NEW logout \in BOOLEAN, LoadReads(t, s, logout)
      PROVE  SessionsKept'
  <2> DEFINE drops == <<"dropping", s>>
             reads(created) == <<"refreshing", s, created, sessionTime, s \in left, logout>>
  <2>1. drops[1] # "refreshing" /\ \A created : reads(created)[5] \in BOOLEAN
    OBVIOUS
  <2>2. Moves(t, drops) \/ \E created : Moves(t, reads(created))
    BY <1>9 DEF LoadReads
  <2> HIDE DEF drops, reads
  <2>3. \A u \in Tabs : TabIn(u, "refreshing")' => tab'[u][5] \in BOOLEAN
    BY <1>1, <2>1, <2>2
  <2> QED
    BY <1>9, <2>3 DEF LoadReads, SessionsKept
<1>10. ASSUME NEW t \in Tabs, LoadRefreshes(t) PROVE SessionsKept'
  <2> DEFINE s == tab[t][2]
             created == tab[t][3]
             now == tab[t][4]
             remaining == AtLeastOne(Less(Idle, created + Absolute - now))
             goes == IF tab[t][6] THEN <<"leaving", s>> ELSE <<"idle">>
  <2>1. TabSound(tab[t], opened, uses, sessionTime) /\ tab[t][1] = "refreshing"
    BY <1>10 DEF LoadRefreshes, TabIn, RecordsInv
  <2>2. s \in Sessions /\ created \in Nat /\ now \in Nat /\ tab[t][5] \in BOOLEAN
    BY <1>10, <2>1 DEF TabSound, SessionsTyped, SessionsKept, LoadRefreshes
  <2>3. remaining \in Nat
    BY <1>2, <2>2 DEF AtLeastOne, Less
  <2>4. /\ stored' = [stored EXCEPT ![s] = Record(created, now, sessionTime + remaining)]
        /\ uses' = uses \union {[session |-> s, now |-> now, after |-> tab[t][5]]}
        /\ Moves(t, goes) /\ goes[1] # "refreshing" /\ logins' = logins
    BY <1>10 DEF LoadRefreshes
  <2>5. uses' \subseteq [session : Sessions, now : Nat, after : BOOLEAN]
    BY <2>2, <2>4 DEF SessionsKept
  <2>6. sessionTime + remaining \in Nat
    BY <1>2, <2>3
  <2> HIDE DEF s, created, now, remaining, goes
  <2>7. \A u \in Tabs : TabIn(u, "refreshing")' => tab'[u][5] \in BOOLEAN
    BY <1>1, <2>4
  <2> QED
    BY <1>3, <2>2, <2>4, <2>5, <2>6, <2>7 DEF SessionsKept
<1>11. ASSUME NEW t \in Tabs, LoadDrops(t) \/ Logout(t) PROVE SessionsKept'
  <2>1. \A u \in Tabs : TabIn(u, "refreshing")' => tab'[u][5] \in BOOLEAN
    BY <1>1, <1>11 DEF LoadDrops, Logout
  <2>2. stored' = Dropped(tab[t][2]) /\ UNCHANGED <<logins, uses>>
    BY <1>11 DEF LoadDrops, Logout
  <2>3. \A s \in Sessions : stored'[s] = stored[s] \/ stored'[s] = Gone
    BY <2>2 DEF Dropped, SessionsTyped
  <2> QED
    BY <2>1, <2>2, <2>3 DEF SessionsKept
<1>12. ASSUME NEW t \in Tabs, TabGivesUp(t) PROVE SessionsKept'
  <2>1. \A u \in Tabs : TabIn(u, "refreshing")' => tab'[u][5] \in BOOLEAN
    BY <1>1, <1>12 DEF TabGivesUp
  <2> QED
    BY <1>12, <2>1 DEF TabGivesUp, SessionsKept
<1>13. CASE SessionTimePasses \/ UNCHANGED adminSessionVars
  BY <1>13 DEF SessionTimePasses, adminSessionVars, SessionsKept, TabIn
<1> QED
  BY <1>5, <1>6, <1>7, <1>8, <1>9, <1>10, <1>11, <1>12, <1>13 DEF AdminSessionNext

LEMMA AdminSessionKeepsTypes == AdminSessionSpec => []AdminSessionTypeOK
<1> DEFINE Inv == SessionsTyped /\ LoginsInv /\ RecordsInv /\ SessionsKept
<1>1. AdminSessionInit => Inv
  <2>1. AdminSessionInit => SessionsKept
    BY DEF AdminSessionInit, SessionsKept, TabIn
  <2> QED
    BY <2>1, AdminSessionStart
<1>2. Inv /\ [AdminSessionNext]_adminSessionVars => Inv'
  BY SessionsTypedStep, LoginsStep, RecordsStep, SessionsKeptStep, AdminSessionAssumption
<1>3. Inv => AdminSessionTypeOK
  BY DEF SessionsTyped, RecordsInv, SessionsKept, AdminSessionTypeOK
<1> QED
  BY <1>1, <1>2, <1>3, PTL DEF AdminSessionSpec

QuotesNamed ==
    /\ release \in 1 .. MaxReleases + 1
    /\ \A q \in DOMAIN quotes : quotes[q].amount <= MaxPoints
    /\ \A k \in Keys :
         orders[k].status \in {"none", "started", "resolving", "validated", "charged", "failed"}
    /\ \A c \in charges : c = <<c[1], c[2]>>

LEMMA QuotesNamedStep ==
  ASSUME QuotesInv, QuotesNamed, [QuotesNext]_quotesVars PROVE QuotesNamed'
<1>1. quotes \in Seq(QuoteRow) /\ orders = [k \in Keys |-> orders[k]]
  BY DEF QuotesInv
<1>2. MaxReleases \in Nat /\ MaxPoints \in Nat
  BY QuotesAssumption
<1>3. ASSUME NEW k \in Keys, NEW o, orders' = [orders EXCEPT ![k] = o],
             o.status \in {"started", "resolving", "validated", "charged", "failed"},
             UNCHANGED <<release, quotes>>, \A c \in charges' : c = <<c[1], c[2]>>
      PROVE  QuotesNamed'
  BY <1>1, <1>3 DEF QuotesNamed
<1>4. CASE UNCHANGED <<release, quotes, orders>> /\ \A c \in charges' : c = <<c[1], c[2]>>
  BY <1>4 DEF QuotesNamed
<1>5. CASE Deploys
  BY <1>2, <1>5 DEF Deploys, QuotesNamed
<1>6. ASSUME NEW b \in Buyers, QuoteBusinessProduct(b) PROVE QuotesNamed'
  <2> DEFINE q == [buyer |-> b, amount |-> PartsAmount(work), of |-> work, digest |-> Digest(work),
                   release |-> release, until |-> quoteTime + QuoteTtl]
  <2>1. /\ quotes' = Append(quotes, q) /\ q.amount = PartsAmount(work)
        /\ PartsAmount(work) <= MaxPoints /\ UNCHANGED <<release, orders, charges>>
    BY <1>6 DEF QuoteBusinessProduct
  <2> HIDE DEF q
  <2>2. \A n \in DOMAIN quotes' : quotes'[n] = q \/ (n \in DOMAIN quotes /\ quotes'[n] = quotes[n])
    BY <1>1, <2>1
  <2> QED
    BY <2>1, <2>2 DEF QuotesNamed
<1>7. ASSUME NEW k \in Keys, Consume(k) PROVE QuotesNamed'
  BY <1>3, <1>7 DEF Consume, QuotesNamed
<1>8. ASSUME NEW k \in Keys, ValidateReads(k) PROVE QuotesNamed'
  BY <1>3, <1>8 DEF ValidateReads, QuotesNamed
<1>9. ASSUME NEW k \in Keys, ValidateQuote(k) PROVE QuotesNamed'
  BY <1>3, <1>9 DEF ValidateQuote, QuotesNamed
<1>10. ASSUME NEW k \in Keys, NEW status \in {"started", "failed"}, ValidateFails(k, status)
       PROVE  QuotesNamed'
  BY <1>3, <1>10 DEF ValidateFails, QuotesNamed
<1>11. ASSUME NEW k \in Keys, Debit(k) PROVE QuotesNamed'
  <2>1. orders[k] \in [status : Validated, at : Nat, saw : Manifests]
    BY <1>11 DEF Debit, QuotesInv, OrderSound, Validated
  <2> DEFINE o == [orders[k] EXCEPT !.status = "charged"]
  <2>2. o.status = "charged"
    BY <2>1
  <2>3. UNCHANGED <<release, quotes>> /\ (orders' = orders \/ orders' = [orders EXCEPT ![k] = o])
    BY <1>11 DEF Debit
  <2>4. \A c \in charges' : c = <<c[1], c[2]>>
    BY <1>11 DEF Debit, QuotesNamed
  <2> HIDE DEF o
  <2> QED
    BY <1>3, <1>4, <2>2, <2>3, <2>4
<1>12. CASE UNCHANGED <<release, quotes, orders, charges>>
  BY <1>4, <1>12 DEF QuotesNamed
<1> QED
  BY <1>5, <1>6, <1>7, <1>8, <1>9, <1>10, <1>11, <1>12
  DEF QuotesNext, quotesVars, WorkChanges, QuoteTimePasses

LEMMA QuotesKeepTypes == QuotesSpec => []QuotesTypeOK
<1> DEFINE Inv == QuotesInv /\ QuotesNamed
<1>1. QuotesInit => Inv
  <2>1. QuotesInit => QuotesNamed
    BY QuotesAssumption DEF QuotesInit, QuotesNamed, NotStarted
  <2> QED
    BY <2>1, QuotesStart
<1>2. Inv /\ [QuotesNext]_quotesVars => Inv'
  BY QuotesStep, QuotesNamedStep
<1>3. Inv => QuotesTypeOK
  <2> SUFFICES ASSUME Inv PROVE QuotesTypeOK
    OBVIOUS
  <2>1. \A q \in DOMAIN quotes : quotes[q] \in QuoteRow
    BY DEF QuotesInv
  <2>2. ASSUME NEW c \in charges PROVE c \in Keys \X Nat
    <3>1. c[1] \in Keys /\ orders[c[1]].status \in Validated /\ c[2] = quotes[c[1][2]].amount
      BY DEF QuotesInv
    <3>2. c[1][2] \in DOMAIN quotes
      BY <3>1 DEF QuotesInv, OrderSound, Validated
    <3>3. c[2] \in Nat
      BY <2>1, <3>1, <3>2 DEF QuoteRow
    <3> QED
      BY <3>1, <3>3 DEF QuotesNamed
  <2> QED
    BY <2>1, <2>2 DEF QuotesTypeOK, QuotesInv, QuotesNamed, QuoteRow
<1> QED
  BY <1>1, <1>2, <1>3, PTL DEF QuotesSpec

EntriesNamed ==
    /\ standing \in {"active", "debt"}
    /\ Len(entries) <= MaxEntries
    /\ \A i \in DOMAIN entries : entries[i].of \in 0 .. (i - 1)

LEMMA EntriesNamedStep ==
  ASSUME ReplayInv, EntriesNamed, [ReplayNext]_replayVars PROVE EntriesNamed'
<1>1. entries \in Seq(ReplayRow) /\ Len(entries) \in Nat /\ DOMAIN entries = 1 .. Len(entries)
  BY DEF ReplayInv, RowsReplayable
<1>2. ASSUME NEW kind, NEW n, NEW pot, NEW of \in 0 .. Len(entries), NEW out, NEW holds,
             Writes(kind, n, pot, of, out, holds)
      PROVE  EntriesNamed'
  <2> DEFINE e == [kind |-> kind, amount |-> n, pot |-> pot, of |-> of, taken |-> out]
  <2>1. /\ Len(entries) < MaxEntries /\ entries' = Append(entries, e) /\ e.of = of
        /\ standing' \in {"active", "debt"}
    BY <1>2 DEF Writes, StandingOf
  <2> HIDE DEF e
  <2>2. /\ Len(entries') = Len(entries) + 1 /\ DOMAIN entries' = 1 .. (Len(entries) + 1)
        /\ \A i \in 1 .. Len(entries) : entries'[i] = entries[i]
        /\ entries'[Len(entries) + 1] = e
    BY <1>1, <2>1
  <2>3. ASSUME NEW i \in DOMAIN entries' PROVE entries'[i].of \in 0 .. (i - 1)
    <3>1. CASE i \in 1 .. Len(entries)
      BY <1>1, <2>2, <3>1 DEF EntriesNamed
    <3>2. CASE i = Len(entries) + 1
      BY <1>1, <1>2, <2>1, <2>2, <3>2
    <3> QED
      BY <1>1, <2>2, <3>1, <3>2
  <2>4. Len(entries') <= MaxEntries
    BY <1>1, <2>1, <2>2, ReplayAssumption
  <2> QED
    BY <2>1, <2>3, <2>4 DEF EntriesNamed
<1>3. NoEntry \in 0 .. Len(entries)
  BY <1>1 DEF NoEntry
<1>4. ASSUME NEW n, PotRaise(n) \/ PotDebit(n) \/ PotLower(n) \/ LowerOvertaken(n)
      PROVE  EntriesNamed'
  BY <1>2, <1>3, <1>4 DEF PotRaise, PotDebit, PotLower, LowerOvertaken, PotTakes
<1>5. ASSUME NEW p, NEW n, PotCredit(p, n) \/ PotExpires(p) PROVE EntriesNamed'
  BY <1>2, <1>3, <1>5 DEF PotCredit, PotExpires
<1>6. ASSUME NEW i \in DOMAIN entries, PotReverses(i) PROVE EntriesNamed'
  <2>1. i \in 0 .. Len(entries)
    BY <1>1
  <2> QED
    BY <1>2, <1>6, <2>1 DEF PotReverses, PotTakes
<1>7. CASE RebuildBalance
  BY <1>7 DEF RebuildBalance, StandingOf, EntriesNamed
<1>8. CASE UNCHANGED replayVars
  BY <1>8 DEF replayVars, EntriesNamed
<1> QED
  BY <1>4, <1>5, <1>6, <1>7, <1>8 DEF ReplayNext

LEMMA ReplayKeepsTypes == ReplaySpec => []ReplayTypeOK
<1> DEFINE Inv == ReplayInv /\ EntriesNamed
<1>1. ReplayInit => Inv
  <2>1. ReplayInit => EntriesNamed
    BY ReplayAssumption DEF ReplayInit, EntriesNamed
  <2> QED
    BY <2>1, ReplayStart
<1>2. Inv /\ [ReplayNext]_replayVars => Inv'
  BY ReplayStep, EntriesNamedStep
<1>3. Inv => ReplayTypeOK
  <2>1. ReplayInv => \A i \in DOMAIN entries : entries[i] \in ReplayRow
    BY DEF ReplayInv, RowsReplayable
  <2> QED
    BY <2>1 DEF ReplayInv, EntriesNamed, ReplayTypeOK, ReplayRow
<1> QED
  BY <1>1, <1>2, <1>3, PTL DEF ReplaySpec

BooksOpen ==
    /\ \A p \in Gateways : configured[p] \in MerchantsOf(p) \union {Unset}
    /\ adapter.client \in {adapter.config, Unset}
    /\ \A m \in Merchants : books[m].paid \subseteq books[m].opened
    /\ stale \subseteq sent

LEMMA BooksOpenStep ==
  ASSUME ProvidersInv, BooksOpen, [ProvidersNext]_providersVars
  PROVE  BooksOpen'
<1>1. /\ configured \in [Gateways -> Merchants \union {Unset}]
      /\ books \in [Merchants -> BookRows]
  BY DEF ProvidersInv, ProvidersTyped
<1>2. ASSUME UNCHANGED <<configured, adapter, books, sent, stale>> PROVE BooksOpen'
  BY <1>2 DEF BooksOpen
<1>3. ASSUME NEW c \in Cashiers, CallCreate(c) \/ CallStatus(c) \/ CallRefund(c) \/ CallVerify(c)
      PROVE  BooksOpen'
  BY <1>2, <1>3 DEF CallCreate, CallStatus, CallRefund, CallVerify, OpensCall
<1>4. ASSUME NEW c \in Cashiers, Configure(c) PROVE BooksOpen'
  <2>1. adapter' = adapter \/ adapter' = Kept(cashier[c].account)
    BY <1>4 DEF Configure
  <2>2. adapter'.client \in {adapter'.config, Unset}
    BY <2>1 DEF Kept, BooksOpen
  <2> QED
    BY <1>4, <2>2 DEF Configure, Unbounded, BooksOpen
<1>5. ASSUME NEW c \in Cashiers, CreatePayment(c) PROVE BooksOpen'
  <2> DEFINE m == cashier[c].account
             a == cashier[c].attempt
  <2>1. /\ books' = [books EXCEPT ![m].opened = @ \union {a}]
        /\ UNCHANGED <<configured, adapter, sent, stale>>
    BY <1>5 DEF CreatePayment, Unbounded
  <2>2. ASSUME NEW o \in Merchants
        PROVE  books'[o].paid = books[o].paid /\ books[o].opened \subseteq books'[o].opened
    BY <1>1, <2>1 DEF BookRows
  <2> QED
    BY <2>1, <2>2 DEF BooksOpen
<1>6. ASSUME NEW c \in Cashiers, CreateRefund(c) PROVE BooksOpen'
  <2> DEFINE m == cashier[c].account
             made == [attempt |-> cashier[c].attempt, key |-> cashier[c].key]
             list == Append(books[m].refunds, made)
  <2>1. /\ UNCHANGED books \/ books' = [books EXCEPT ![m].refunds = list]
        /\ sent \subseteq sent' /\ UNCHANGED <<configured, adapter, stale>>
    BY <1>6 DEF CreateRefund, Unbounded
  <2> HIDE DEF list, m
  <2>2. ASSUME NEW o \in Merchants
        PROVE  books'[o].paid = books[o].paid /\ books'[o].opened = books[o].opened
    <3>1. CASE UNCHANGED books
      BY <3>1
    <3>2. CASE books' = [books EXCEPT ![m].refunds = list]
      <4>1. books[o] \in BookRows
        BY <1>1
      <4>2. books'[o] = books[o] \/ books'[o] = [books[o] EXCEPT !.refunds = list]
        BY <1>1, <3>2
      <4> QED
        BY <4>1, <4>2 DEF BookRows
    <3> QED
      BY <2>1, <3>1, <3>2
  <2> QED
    BY <2>1, <2>2 DEF BooksOpen
<1>7. ASSUME NEW c \in Cashiers, GetPayment(c) \/ ResolveCaptureRef(c) \/ FetchToken(c)
                                  \/ AcceptWebhook(c) \/ GivesUpCall(c)
      PROVE  BooksOpen'
  BY <1>2, <1>7 DEF GetPayment, ResolveCaptureRef, FetchToken, AcceptWebhook, GivesUpCall, Unbounded
<1>8. ASSUME NEW m \in Merchants, NEW a \in Attempts, Pays(m, a) PROVE BooksOpen'
  <2>1. /\ a \in books[m].opened /\ books' = [books EXCEPT ![m].paid = @ \union {a}]
        /\ sent \subseteq sent' /\ UNCHANGED <<configured, adapter, stale>>
    BY <1>8 DEF Pays, Unbounded
  <2>2. ASSUME NEW o \in Merchants
        PROVE  /\ books'[o].opened = books[o].opened
               /\ books'[o].paid \subseteq books[o].paid \union books[o].opened
    BY <1>1, <2>1 DEF BookRows
  <2> QED
    BY <2>1, <2>2 DEF BooksOpen
<1>9. ASSUME NEW n \in sent \ stale, Ages(n) PROVE BooksOpen'
  BY <1>9 DEF Ages, Unbounded, BooksOpen
<1>10. ASSUME NEW p \in Gateways, Reconfigure(p) PROVE BooksOpen'
  <2>1. PICK m \in MerchantsOf(p) \union {Unset} : configured' = [configured EXCEPT ![p] = m]
    BY <1>10 DEF Reconfigure
  <2>2. \A g \in Gateways : configured'[g] = IF g = p THEN m ELSE configured[g]
    BY <1>1, <2>1
  <2> QED
    BY <1>10, <2>2 DEF Reconfigure, BooksOpen
<1>11. CASE UNCHANGED providersVars
  BY <1>2, <1>11 DEF providersVars
<1> QED
  BY <1>3, <1>4, <1>5, <1>6, <1>7, <1>8, <1>9, <1>10, <1>11 DEF ProvidersNext, PortCall

LEMMA FactsAreTyped ==
  ASSUME ProvidersAssumption, ProvidersInv, learned \subseteq Facts, [ProvidersNext]_providersVars
  PROVE  (learned \subseteq Facts)'
<1>1. ASSUME NEW m \in Merchants, NEW kind \in {"capture", "refund"}, NEW a \in Attempts,
             NEW money \in Nat, Learns(m, kind, a, money)
      PROVE  learned' \subseteq Facts
  <2>1. Minor(money) \in Nat
    BY DEF Minor
  <2> QED
    BY <1>1, <2>1 DEF Learns, Facts
<1>2. ASSUME NEW c \in Cashiers, GetPayment(c) PROVE learned' \subseteq Facts
  <2>1. cashier[c] # NoCall /\ cashier[c].stage = "ready"
    BY <1>2 DEF GetPayment, InCall
  <2>2. cashier[c].account \in Merchants /\ cashier[c].attempt \in Attempts
    BY <2>1, InTheCall
  <2>3. Major(Charge) \in Nat
    BY DEF Major, ProvidersAssumption
  <2> QED
    BY <1>1, <1>2, <2>2, <2>3 DEF GetPayment
<1>3. ASSUME NEW c \in Cashiers, AcceptWebhook(c) PROVE learned' \subseteq Facts
  <2>1. cashier[c] # NoCall /\ cashier[c].stage \in {"token", "ready"} /\ cashier[c].op = "verify"
    BY <1>3 DEF AcceptWebhook, InCall
  <2>2. cashier[c].account \in Merchants /\ CallSound(cashier[c], sent, reference)
    BY <2>1, InTheCall
  <2>3. cashier[c].notice \in Notices
    BY <2>1, <2>2 DEF CallSound, ProvidersInv, ProvidersTyped
  <2> QED
    BY <1>1, <1>3, <2>2, <2>3 DEF AcceptWebhook, Notices
<1>4. ASSUME UNCHANGED learned PROVE learned' \subseteq Facts
  BY <1>4
<1>5. ASSUME NEW c \in Cashiers,
             \/ PortCall(c) \/ CreatePayment(c) \/ ResolveCaptureRef(c)
             \/ CreateRefund(c) \/ FetchToken(c) \/ GivesUpCall(c)
      PROVE  UNCHANGED learned
  BY <1>5 DEF PortCall, CallCreate, CallStatus, CallRefund, CallVerify, OpensCall, Configure,
     CreatePayment, ResolveCaptureRef, CreateRefund, FetchToken, GivesUpCall
<1>6. ASSUME \/ \E m \in Merchants, a \in Attempts : Pays(m, a)
             \/ \E n \in sent \ stale : Ages(n)
             \/ \E p \in Gateways : Reconfigure(p)
             \/ UNCHANGED providersVars
      PROVE  UNCHANGED learned
  BY <1>6 DEF Pays, Ages, Reconfigure, providersVars
<1> QED
  BY <1>2, <1>3, <1>4, <1>5, <1>6 DEF ProvidersNext

LEMMA ProvidersKeepTypes == ProvidersSpec => []ProvidersTypeOK
<1> DEFINE Inv == ProvidersInv /\ BooksOpen /\ learned \subseteq Facts
<1>1. ProvidersInit => Inv
  BY ProvidersStart DEF ProvidersInit, BooksOpen
<1>2. Inv /\ [ProvidersNext]_providersVars => Inv'
  BY ProvidersKeep, BooksOpenStep, FactsAreTyped, ProvidersAssumption
<1>3. Inv => ProvidersTypeOK
  <2> SUFFICES ASSUME Inv PROVE ProvidersTypeOK
    OBVIOUS
  <2>1. DOMAIN cashier = Cashiers
    BY DEF ProvidersInv, ProvidersTyped
  <2> QED
    BY <2>1 DEF ProvidersInv, ProvidersTyped, BooksOpen, ProvidersTypeOK
<1> QED
  BY <1>1, <1>2, <1>3, PTL DEF ProvidersSpec

LEMMA RowIds ==
  ASSUME NEW r \in ViewRows, NEW data, NEW stage
  PROVE  /\ Puts(r, data).id = r.id /\ Deletes(r, data).id = r.id /\ Destroys(r).id = NoId
         /\ GoesTo(r, stage).id = r.id
         /\ GoesTo(Puts(r, data), stage).id = r.id /\ GoesTo(Deletes(r, data), stage).id = r.id
         /\ GoesTo(Destroys(r), stage).id = NoId
<1>1. "id" \in DOMAIN r
  BY DEF ViewRows
<1>2. ASSUME NEW s, "id" \in DOMAIN s PROVE GoesTo(s, stage).id = s.id
  BY <1>2 DEF GoesTo
<1>3. /\ Puts(r, data).id = r.id /\ "id" \in DOMAIN Puts(r, data)
      /\ Deletes(r, data).id = r.id /\ "id" \in DOMAIN Deletes(r, data)
      /\ Destroys(r).id = NoId /\ "id" \in DOMAIN Destroys(r)
  BY <1>1 DEF Puts, Deletes, Destroys
<1> QED
  BY <1>1, <1>2, <1>3

LEMMA CurrentAuthId ==
  ASSUME NEW r \in ViewRows
  PROVE  CurrentAuth(r).id \in {NoId, r.id}
BY RowIds DEF CurrentAuth

VisitorIds == {NoId} \union Ids
IdsKept ==
    /\ DOMAIN shelf \subseteq Ids /\ cookie \in VisitorIds
    /\ \A v \in Views : view[v] # Free => view[v].id \in VisitorIds
    /\ codes \subseteq 1..txnCount /\ forked \in BOOLEAN

\* A step of one request that makes no session.
LEMMA OneIdGoes ==
  ASSUME SiteTyped, IdsKept, NEW v \in Views, view[v] # Free, NEW r, ViewGoes(v, r),
         r.id \in {NoId, view[v].id}, codes' \subseteq codes,
         UNCHANGED <<shelf, idCount, cookie, forked, txnCount>>
  PROVE  IdsKept'
<1>1. \A w \in Views : view'[w] = IF w = v THEN r ELSE view[w]
  BY DEF ViewGoes, SiteTyped
<1> QED
  BY <1>1 DEF IdsKept, VisitorIds, Ids

LEMMA RegeneratedIds ==
  ASSUME SiteTyped, IdsKept, NEW v \in Views, view[v] # Free, NEW data, Regenerates(v, data),
         codes' \subseteq 1..txnCount', UNCHANGED <<cookie, forked>>
  PROVE  IdsKept'
<1> DEFINE regenerated == [GoesTo(Puts(view[v], data), "finish") EXCEPT !.id = idCount + 1]
<1>1. idCount \in Nat /\ idCount' = idCount + 1
  BY DEF SiteTyped, Regenerates
<1>2. VisitorIds \subseteq VisitorIds' /\ Ids \subseteq Ids' /\ idCount + 1 \in Ids'
  BY <1>1 DEF VisitorIds, Ids
<1>3. DOMAIN shelf' \subseteq DOMAIN shelf
  BY DEF Regenerates, Restrict
<1>4. regenerated.id = idCount + 1
  <2>1. "id" \in DOMAIN view[v]
    BY DEF SiteTyped, ViewRows
  <2>2. "id" \in DOMAIN GoesTo(Puts(view[v], data), "finish")
    BY <2>1 DEF GoesTo, Puts
  <2> HIDE DEF IdsKept
  <2> QED
    BY <2>2
<1> HIDE DEF regenerated
<1>5. ASSUME NEW w \in Views
      PROVE  view'[w] \in {regenerated, view[w], [view[w] EXCEPT !.behind = TRUE]}
  BY DEF Regenerates, regenerated
<1>6. ASSUME NEW w \in Views, view'[w] # Free PROVE view'[w].id \in VisitorIds'
  <2>1. CASE view'[w] = regenerated
    BY <1>2, <1>4, <2>1 DEF VisitorIds
  <2>2. CASE view'[w] = view[w]
    BY <1>2, <1>6, <2>2 DEF IdsKept
  <2>3. CASE view'[w] = [view[w] EXCEPT !.behind = TRUE]
    <3>1. view[w] # Free
      BY <1>6, <2>3 DEF Free
    <3>2. "id" \in DOMAIN view[w]
      BY <3>1 DEF SiteTyped, ViewRows
    <3> QED
      BY <1>2, <2>3, <3>1, <3>2 DEF IdsKept
  <2> QED
    BY <1>5, <2>1, <2>2, <2>3
<1> QED
  BY <1>2, <1>3, <1>6 DEF IdsKept

LEMMA FinishedIds ==
  ASSUME SiteTyped, IdsKept, NEW v \in Views, Finish(v)
  PROVE  IdsKept'
<1> DEFINE r == view[v]
           new == r.dirty /\ r.id = NoId
           id == IF new THEN idCount + 1 ELSE r.id
           whole == IF r.dirty THEN With(id, r.data) ELSE shelf
<1>1. /\ r # Free /\ idCount' = (IF new THEN idCount + 1 ELSE idCount)
      /\ shelf' = Restrict(whole, DOMAIN whole \ r.drops)
      /\ cookie' = (CASE r.cookie = "set" -> id [] r.cookie = "drop" -> NoId [] OTHER -> cookie)
      /\ forked' \in BOOLEAN /\ UNCHANGED <<codes, txnCount>>
  BY DEF Finish, At, SameOutside
<1>2. idCount \in Nat /\ r \in ViewRows /\ r.id \in VisitorIds
  BY <1>1 DEF SiteTyped, IdsKept
<1>3. VisitorIds \subseteq VisitorIds' /\ Ids \subseteq Ids'
  BY <1>1, <1>2 DEF VisitorIds, Ids
<1>4. id \in VisitorIds' /\ (r.dirty => id \in Ids')
  BY <1>1, <1>2 DEF VisitorIds, Ids, NoId
<1>5. DOMAIN whole \subseteq Ids'
  <2>1. CASE r.dirty
    BY <1>3, <1>4, <2>1 DEF With, IdsKept
  <2>2. CASE ~r.dirty
    BY <1>3, <2>2 DEF IdsKept
  <2> QED
    BY <2>1, <2>2
<1> HIDE DEF whole, id
<1>6. DOMAIN shelf' \subseteq Ids'
  BY <1>1, <1>5 DEF Restrict
<1>7. cookie' \in VisitorIds'
  BY <1>1, <1>3, <1>4 DEF IdsKept, VisitorIds
<1>8. ASSUME NEW w \in Views, view'[w] # Free PROVE view'[w].id \in VisitorIds'
  <2>1. view'[w] \in {Free, view[w], [view[w] EXCEPT !.behind = TRUE]}
    BY DEF Finish
  <2>2. CASE view'[w] = view[w]
    BY <1>3, <1>8, <2>2 DEF IdsKept
  <2>3. CASE view'[w] = [view[w] EXCEPT !.behind = TRUE]
    <3>1. view[w] # Free
      BY <1>8, <2>3 DEF Free
    <3>2. "id" \in DOMAIN view[w]
      BY <3>1 DEF SiteTyped, ViewRows
    <3> QED
      BY <1>3, <2>3, <3>1, <3>2 DEF IdsKept
  <2> QED
    BY <1>8, <2>1, <2>2, <2>3
<1> QED
  BY <1>1, <1>6, <1>7, <1>8 DEF IdsKept

LEMMA IdsStep ==
  ASSUME SiteSessionInv, IdsKept, [SiteSessionNext]_siteSessionVars
  PROVE  IdsKept'
<1>1. SiteTyped
  BY DEF SiteSessionInv
<1>2. ASSUME NEW v \in Views, view[v] # Free PROVE view[v] \in ViewRows
  BY <1>1, <1>2 DEF SiteTyped
<1>3. ASSUME NEW v \in Views, OpenView(v) PROVE IdsKept'
  <2>1. PICK kind, arg : Open(v, kind, arg)
    BY <1>3 DEF OpenView
  <2>2. /\ \A w \in Views \ {v} : view'[w] = view[w]
        /\ view'[v].id = cookie /\ UNCHANGED <<shelf, cookie, codes, idCount, txnCount, forked>>
    BY <1>1, <2>1 DEF Open, ViewGoes, SiteTyped
  <2> QED
    BY <2>2 DEF IdsKept, VisitorIds, Ids
<1>4. ASSUME NEW v \in Views, Middleware(v) PROVE IdsKept'
  <2> DEFINE r == [view[v] EXCEPT !.data = Stored(view[v].id)]
  <2>1. /\ view[v] # Free /\ ViewGoes(v, CurrentAuth(r))
        /\ UNCHANGED <<shelf, idCount, cookie, forked, txnCount, codes>>
    BY <1>4 DEF Middleware, At, InStore, SameOutside
  <2>2. view[v] \in ViewRows /\ Stored(view[v].id) \in SiteData
    BY <1>1, <1>2, <2>1, BlankData DEF SiteTyped, Stored
  <2>3. r \in ViewRows /\ r.id = view[v].id
    BY <2>2 DEF ViewRows
  <2> HIDE DEF r
  <2> QED
    BY <1>1, <2>1, <2>3, CurrentAuthId, OneIdGoes
<1>5. ASSUME NEW v \in Views, CallApi(v) PROVE IdsKept'
  <2> DEFINE r == CurrentAuth(view[v])
             s == [GoesTo(r, "refresh") EXCEPT !.retried = TRUE]
  <2>1. /\ view[v] # Free /\ UNCHANGED <<shelf, idCount, cookie, forked, txnCount, codes>>
        /\ ViewGoes(v, r) \/ ViewGoes(v, s)
    BY <1>5 DEF CallApi, Handles, At, InStore, SameOutside
  <2>2. view[v] \in ViewRows /\ siteNow \in Nat
    BY <1>1, <1>2, <2>1 DEF SiteTyped
  <2>3. r \in ViewRows /\ r.id \in {NoId, view[v].id}
    BY <2>2, CurrentAuthId, CurrentAuthGoesOn DEF Continues
  <2> HIDE DEF r
  <2>4. s.id = r.id
    BY <2>3 DEF GoesTo, ViewRows
  <2> HIDE DEF s
  <2> QED
    BY <1>1, <2>1, <2>3, <2>4, OneIdGoes
<1>6. ASSUME NEW v \in Views, view[v] # Free, NEW data, NEW stage,
             \/ ViewGoes(v, GoesTo(view[v], stage))
             \/ ViewGoes(v, GoesTo(Deletes(view[v], data), stage))
             \/ ViewGoes(v, GoesTo(Destroys(view[v]), stage)),
             codes' \subseteq codes, UNCHANGED <<shelf, idCount, cookie, forked, txnCount>>
      PROVE  IdsKept'
  <2>1. view[v] \in ViewRows
    BY <1>2, <1>6
  <2>2. /\ GoesTo(view[v], stage).id = view[v].id
        /\ GoesTo(Deletes(view[v], data), stage).id = view[v].id
        /\ GoesTo(Destroys(view[v]), stage).id = NoId
    BY <2>1, RowIds
  <2> QED
    BY <1>1, <1>6, <2>2, OneIdGoes
<1>7. ASSUME NEW v \in Views,
             ForceRefresh(v) \/ Render(v) \/ Redirect(v) \/ VerifyForm(v) \/ EndSession(v)
      PROVE  IdsKept'
  BY <1>6, <1>7 DEF ForceRefresh, Render, Redirect, VerifyForm, EndSession, Handles, At, InStore,
     SameOutside
<1>8. ASSUME NEW v \in Views, CheckTransaction(v) PROVE IdsKept'
  BY <1>6, <1>8 DEF CheckTransaction, Handles, At, InStore, SameOutside
<1>9. ASSUME NEW v \in Views, BeginAuthorization(v) PROVE IdsKept'
  <2> DEFINE data == [view[v].data EXCEPT !.txn = [number |-> txnCount + 1, created |-> siteNow]]
  <2>1. /\ view[v] # Free /\ txnCount' = txnCount + 1 /\ codes' = codes \union {txnCount + 1}
        /\ Regenerates(v, data) /\ UNCHANGED <<cookie, forked>>
    BY <1>9 DEF BeginAuthorization, Handles, At
  <2> HIDE DEF data
  <2>2. codes' \subseteq 1..txnCount'
    BY <1>1, <2>1 DEF SiteTyped, IdsKept
  <2> QED
    BY <1>1, <2>1, <2>2, RegeneratedIds
<1>10. ASSUME NEW v \in Views, CompleteAuthorization(v) PROVE IdsKept'
  <2>1. view[v] # Free /\ codes' \subseteq codes /\ UNCHANGED <<cookie, txnCount, forked>>
    BY <1>10 DEF CompleteAuthorization, At
  <2>2. CASE view[v].arg \in codes
    <3>1. Regenerates(v, SignedIn(Len(families) + 1))
      BY <1>10, <2>2 DEF CompleteAuthorization
    <3> QED
      BY <1>1, <2>1, <3>1, RegeneratedIds DEF IdsKept
  <2>3. CASE view[v].arg \notin codes
    BY <1>6, <1>10, <2>1, <2>3 DEF CompleteAuthorization, InStore
  <2> QED
    BY <2>2, <2>3
<1>11. ASSUME NEW v \in Views, Finish(v) PROVE IdsKept'
  BY <1>1, <1>11, FinishedIds
<1>12. ASSUME NEW t \in DOMAIN flights, Settle(t) PROVE IdsKept'
  <2>1. UNCHANGED <<shelf, idCount, cookie, forked, txnCount, codes>>
    BY <1>12 DEF Settle, InStore, SameOutside
  <2>2. ASSUME NEW v \in Views, view'[v] # Free
        PROVE  view'[v].id \in VisitorIds
    <3>1. CASE ~(At(v, "waiting") /\ Held(v) = t)
      BY <1>12, <2>2, <3>1 DEF Settle, IdsKept
    <3>2. CASE At(v, "waiting") /\ Held(v) = t
      <4> DEFINE data == [view[v].data EXCEPT !.auth = FromTokens(view[v].data.auth, flights[t])]
                 next == IF flights[t] = Refusal THEN Destroys(view[v]) ELSE Puts(view[v], data)
      <4>1. view[v] # Free /\ view[v] \in ViewRows
        BY <1>2, <3>2 DEF At
      <4>2. view'[v] = [GoesTo(next, "handle") EXCEPT !.ahead = TRUE]
        BY <1>12, <3>2 DEF Settle, Answered
      <4> HIDE DEF data
      <4>3. next.id \in {NoId, view[v].id} /\ "id" \in DOMAIN next
        BY <4>1, RowIds DEF Destroys, Puts, ViewRows
      <4> HIDE DEF next
      <4>4. view'[v].id = next.id
        BY <4>2, <4>3 DEF GoesTo
      <4> QED
        BY <4>1, <4>3, <4>4 DEF IdsKept, VisitorIds
    <3> QED
      BY <3>1, <3>2
  <2> QED
    BY <2>1, <2>2 DEF IdsKept, VisitorIds, Ids
<1>13. CASE Restart
  BY <1>13 DEF Restart, InStore, SameOutside, IdsKept, VisitorIds, Ids
<1>14. ASSUME \/ \E t \in DOMAIN flights : Present(t)
              \/ SiteTimePasses \/ UNCHANGED siteSessionVars
       PROVE  IdsKept'
  BY <1>14 DEF Present, SiteTimePasses, siteSessionVars, IdsKept, VisitorIds, Ids
<1> QED
  BY <1>3, <1>4, <1>5, <1>7, <1>8, <1>9, <1>10, <1>11, <1>12, <1>13, <1>14
     DEF SiteSessionNext, ServesView

LEMMA SiteSessionKeepsTypes == SiteSessionSpec => []SiteSessionTypeOK
<1> DEFINE Inv == SiteSessionInv /\ IdsKept
<1>1. SiteSessionInit => Inv
  <2> SUFFICES ASSUME SiteSessionInit PROVE Inv
    OBVIOUS
  <2>1. /\ DOMAIN shelf = {} /\ cookie = NoId /\ codes = {} /\ forked = FALSE
        /\ \A v \in Views : view[v] = Free
    BY DEF SiteSessionInit, Free
  <2> QED
    BY <2>1, SiteSessionBegins DEF IdsKept, VisitorIds
<1>2. Inv /\ [SiteSessionNext]_siteSessionVars => Inv'
  BY SiteSessionKeeps, IdsStep
<1>3. Inv => SiteSessionTypeOK
  <2> SUFFICES ASSUME Inv PROVE SiteSessionTypeOK
    OBVIOUS
  <2>1. DOMAIN view = Views /\ families \in Seq(Nat)
    BY DEF SiteSessionInv, SiteTyped
  <2>2. \A v \in Views : view[v] # Free => view[v].stage \in Stages
    BY DEF SiteSessionInv, SiteTyped, ViewRows
  <2>3. \A t \in DOMAIN flights : flights[t] \in Nat
    BY DEF SiteSessionInv, SessionSound, FlightsSound
  <2> QED
    BY <2>1, <2>2, <2>3 DEF IdsKept, VisitorIds, SiteSessionTypeOK
<1> QED
  BY <1>1, <1>2, <1>3, PTL DEF SiteSessionSpec

MailRowTyped ==
    /\ row.status \in Settled \union {"pending", "sending", "unknown"}
    /\ flow.tries \in 0..MaxMails /\ (flow.live => flow.tries < MaxMails)
RestTyped == sending # NoRun => sending.rest \in Seq(Mailboxes) \ {<<>>}
MailSettingsTyped ==
    selected \in Mailboxes /\ switch \in [Mailboxes -> {"on", "off", "incomplete"}]

LEMMA ConclusionTyped ==
  ASSUME MailersAssumption, MailersInv, MailRowTyped, sending # NoRun, NEW result, Concludes(result),
         result.status \in {"delivered", "unknown", "failed"}
  PROVE  MailRowTyped' /\ sending' = NoRun
<1> DEFINE passing == result.status = "failed" /\ ~result.permanent
           again == passing /\ row.attempt + 1 < MaxMails
<1>1. /\ sending' = NoRun
      /\ row' = [attempt |-> row.attempt + 1,
                 status |-> IF again THEN "pending" ELSE IF passing THEN "dead" ELSE result.status]
      /\ flow' = IF again THEN StepFails ELSE StepDone
  BY DEF Concludes
<1>2. flow.live = TRUE /\ flow.tries \in 0..MaxMails /\ flow.tries < MaxMails
  BY DEF MailersInv, MailersTyped, MailRowTyped
<1>3. DOMAIN flow = {"live", "tries", "key"} /\ MaxMails \in Nat
  BY DEF MailersInv, MailersTyped, MailersAssumption
<1>4. /\ StepFails.tries = flow.tries + 1 /\ (StepFails.live => flow.tries + 1 < MaxMails)
      /\ StepDone.tries = flow.tries /\ StepDone.live = FALSE
  BY <1>3 DEF StepFails, StepDone
<1>5. row'.status \in Settled \union {"pending", "sending", "unknown"}
  BY <1>1 DEF Settled
<1> HIDE DEF again
<1>6. CASE again
  <2>1. flow' = StepFails
    BY <1>1, <1>6
  <2>2. flow'.tries \in 0..MaxMails /\ (flow'.live => flow'.tries < MaxMails)
    BY <1>2, <1>3, <1>4, <2>1
  <2> QED
    BY <1>1, <1>5, <2>2 DEF MailRowTyped
<1>7. CASE ~again
  <2>1. flow' = StepDone
    BY <1>1, <1>7
  <2>2. flow'.tries \in 0..MaxMails /\ ~flow'.live
    BY <1>2, <1>3, <1>4, <2>1
  <2> QED
    BY <1>1, <1>5, <2>2 DEF MailRowTyped
<1> QED
  BY <1>1, <1>6, <1>7

LEMMA MoreToTry ==
  ASSUME NEW S, NEW s \in Seq(S), s # <<>>, Len(s) # 1
  PROVE  Tail(s) \in Seq(S) /\ Tail(s) # <<>>
<1>1. Len(s) \in Nat /\ Len(s) # 0
  OBVIOUS
<1>2. Tail(s) \in Seq(S) /\ Len(Tail(s)) = Len(s) - 1
  BY <1>1
<1>3. \A n \in Nat : n # 1 => n - 1 # 0
  OBVIOUS
<1>4. Len(Tail(s)) # 0
  BY <1>1, <1>2, <1>3, Zenon
<1>5. Len(<<>>) = 0
  OBVIOUS
<1>6. Tail(s) # <<>>
  BY <1>4, <1>5, Zenon
<1> QED
  BY <1>2, <1>6, Zenon

LEMMA AnswersTyped ==
  ASSUME MailersAssumption, MailersInv, MailRowTyped, RestTyped, sending # NoRun,
         NEW result \in {Sent, Unknown, Unavailable, Passing, Permanent, BadLogin}, Answers(result)
  PROVE  MailRowTyped' /\ RestTyped'
<1>1. sending.last \in {Unavailable, Passing, BadLogin} /\ sending.rest \in Seq(Mailboxes) \ {<<>>}
  BY DEF MailersInv, MailersTyped, Running, RestTyped
<1>2. /\ Unknown.status = "unknown" /\ Passing.status = "failed" /\ Permanent.status = "failed"
      /\ BadLogin.status = "failed" /\ Unavailable.status = "unavailable" /\ Sent.status = "delivered"
  BY DEF Unknown, Passing, Permanent, BadLogin, Unavailable, Sent
<1> DEFINE safe == result.status = "failed" /\ result.fallback
           last == IF safe THEN result ELSE sending.last
<1>3. last \in {Unavailable, Passing, BadLogin}
  BY <1>1, <1>2 DEF Unknown, Passing, Permanent, BadLogin, Unavailable, Sent
<1>4. ChainEnds(last).status = "failed"
  BY <1>2, <1>3 DEF ChainEnds
<1>5. CASE ~safe /\ result # Unavailable
  <2>1. Concludes(result) /\ result.status \in {"delivered", "unknown", "failed"}
    BY <1>2, <1>5 DEF Answers
  <2> QED
    BY <2>1, ConclusionTyped DEF RestTyped
<1>6. CASE ~(~safe /\ result # Unavailable) /\ Len(sending.rest) = 1
  <2>1. Concludes(ChainEnds(last))
    BY <1>6 DEF Answers
  <2> QED
    BY <1>4, <2>1, ConclusionTyped DEF RestTyped
<1>7. CASE ~(~safe /\ result # Unavailable) /\ Len(sending.rest) # 1
  <2>1. /\ sending' = [stage |-> "settings", rest |-> Tail(sending.rest), last |-> last]
        /\ UNCHANGED <<row, flow>>
    BY <1>7 DEF Answers
  <2>2. Tail(sending.rest) \in Seq(Mailboxes) \ {<<>>}
    BY <1>1, <1>7, MoreToTry
  <2> QED
    BY <2>1, <2>2 DEF RestTyped, MailRowTyped
<1> QED
  BY <1>5, <1>6, <1>7

LEMMA MailTypesStep ==
  ASSUME MailersAssumption, MailersInv, MailRowTyped, RestTyped, MailSettingsTyped,
         [MailersNext]_mailersVars
  PROVE  MailRowTyped' /\ RestTyped' /\ MailSettingsTyped'
<1>1. ASSUME InSettings PROVE MailSettingsTyped'
  BY <1>1 DEF InSettings, MailSettingsTyped
<1>2. ASSUME NEW stage, MailAt("settings") \/ MailAt("open") \/ MailAt("handing"),
             MailGoes(stage), UNCHANGED <<row, flow>>
      PROVE  MailRowTyped' /\ RestTyped'
  <2>1. DOMAIN sending = {"stage", "rest", "last"} /\ sending # NoRun
    BY <1>2 DEF MailAt, MailersInv, MailersTyped, Running
  <2>2. sending'.rest = sending.rest
    BY <1>2, <2>1 DEF MailGoes
  <2> QED
    BY <1>2, <2>1, <2>2 DEF MailRowTyped, RestTyped
<1>3. CASE BeginSending
  <2>1. MailSettingsTyped'
    BY <1>1, <1>3 DEF BeginSending
  <2>2. CASE row.status \in Settled
    <3>1. flow'.tries = flow.tries /\ flow'.live = FALSE /\ UNCHANGED <<row, sending>>
      BY <1>3, <2>2 DEF BeginSending, MailersInv, MailersTyped
    <3> QED
      BY <2>1, <3>1 DEF MailRowTyped, RestTyped
  <2>3. CASE row.status \notin Settled
    <3>1. sending' = [stage |-> "settings", rest |-> Chain, last |-> Unavailable]
          /\ UNCHANGED <<row, flow>>
      BY <1>3, <2>3 DEF BeginSending
    <3>2. selected \in Mailboxes /\ "smtp" \in Mailboxes /\ "smtp2go" \in Mailboxes
      BY DEF MailSettingsTyped, Mailboxes
    <3>3. /\ <<selected>> \in Seq(Mailboxes) \ {<<>>}
          /\ <<"smtp", "smtp2go">> \in Seq(Mailboxes) \ {<<>>}
      BY <3>2
    <3> QED
      BY <2>1, <3>1, <3>3 DEF Chain, MailRowTyped, RestTyped
  <2> QED
    BY <2>2, <2>3
<1>4. CASE ReadSettings
  <2>1. sending # NoRun
    BY <1>4 DEF ReadSettings, MailAt
  <2>2. CASE MailGoes("open") /\ UNCHANGED <<row, flow>>
    BY <1>1, <1>2, <1>4, <2>2 DEF ReadSettings
  <2>3. CASE \E result \in {Unavailable, Unknown} : Answers(result)
    BY <1>1, <1>4, <2>1, <2>3, AnswersTyped DEF ReadSettings
  <2> QED
    BY <1>4, <2>2, <2>3 DEF ReadSettings
<1>5. CASE OpenConnection
  <2>1. sending # NoRun
    BY <1>5 DEF OpenConnection, MailAt
  <2>2. CASE MailGoes("handing") /\ UNCHANGED <<row, flow>>
    BY <1>1, <1>2, <1>5, <2>2 DEF OpenConnection
  <2>3. CASE \E result \in ProviderOpens(Provider) \union {Unknown} : Answers(result)
    BY <1>1, <1>5, <2>1, <2>3, AnswersTyped DEF OpenConnection, ProviderOpens, SmtpOpens, PostOpens
  <2> QED
    BY <1>5, <2>2, <2>3 DEF OpenConnection
<1>6. CASE HandOver
  <2>1. sending # NoRun
    BY <1>6 DEF HandOver, MailAt
  <2>2. CASE MailGoes("close") /\ UNCHANGED <<row, flow>>
    BY <1>1, <1>2, <1>6, <2>2 DEF HandOver
  <2>3. CASE \E result \in ProviderTells(Provider, FALSE) : Answers(result)
    BY <1>1, <1>6, <2>1, <2>3, AnswersTyped DEF HandOver, ProviderTells, SmtpTells, PostTells
  <2> QED
    BY <1>6, <2>2, <2>3 DEF HandOver
<1>7. CASE ReadAnswer
  <2>1. sending # NoRun
    BY <1>7 DEF ReadAnswer, MailAt
  <2> QED
    BY <1>1, <1>7, <2>1, AnswersTyped DEF ReadAnswer, ProviderTells, SmtpTells, PostTells
<1>8. CASE CutShort
  <2>1. MailSettingsTyped' /\ RestTyped'
    BY <1>1, <1>8 DEF CutShort, RestTyped
  <2>2. CASE UNCHANGED <<row, flow>>
    BY <2>1, <2>2 DEF MailRowTyped
  <2>3. CASE row' = [status |-> "sending", attempt |-> row.attempt + 1] /\ flow' = StepFails
    <3>1. /\ flow.tries \in 0..MaxMails /\ flow.tries < MaxMails
          /\ DOMAIN flow = {"live", "tries", "key"} /\ MaxMails \in Nat
      BY <1>8 DEF CutShort, MailersInv, MailersTyped, MailRowTyped, MailersAssumption
    <3>2. StepFails.tries = flow.tries + 1 /\ (StepFails.live => flow.tries + 1 < MaxMails)
      BY <3>1 DEF StepFails
    <3> QED
      BY <2>1, <2>3, <3>1, <3>2 DEF MailRowTyped
  <2> QED
    BY <1>8, <2>2, <2>3 DEF CutShort
<1>9. CASE CancelMail
  <2>1. row'.status = "cancelled"
    BY <1>9 DEF CancelMail, MailersInv, MailersTyped
  <2> QED
    BY <1>1, <1>9, <2>1 DEF CancelMail, MailRowTyped, RestTyped, Settled
<1>10. CASE RetryMail
  <2>1. row'.status = "pending"
    BY <1>10 DEF RetryMail, MailersInv, MailersTyped
  <2>2. flow' = flow \/ flow'.tries = 0
    BY <1>10 DEF RetryMail
  <2> QED
    BY <1>1, <1>10, <2>1, <2>2 DEF RetryMail, MailRowTyped, RestTyped, MailersAssumption
<1>11. CASE EditMailSettings
  <2>1. MailSettingsTyped'
    BY <1>11 DEF EditMailSettings, MailSettingsTyped
  <2> QED
    BY <1>11, <2>1 DEF EditMailSettings, MailRowTyped, RestTyped
<1>12. CASE LoosePost \/ UNCHANGED mailersVars
  BY <1>12 DEF LoosePost, InSettings, mailersVars, MailRowTyped, RestTyped, MailSettingsTyped
<1> QED
  BY <1>3, <1>4, <1>5, <1>6, <1>7, <1>8, <1>9, <1>10, <1>11, <1>12 DEF MailersNext

LEMMA MailersKeepTypes == MailersSpec => []MailersTypeOK
<1> DEFINE Inv == MailersInv /\ MailRowTyped /\ RestTyped /\ MailSettingsTyped
<1>1. MailersInit => Inv
  <2> SUFFICES ASSUME MailersInit PROVE Inv
    OBVIOUS
  <2>1. MailRowTyped /\ RestTyped
    BY MailersAssumption DEF MailersInit, MailRowTyped, RestTyped, MailersAssumption
  <2>2. MailSettingsTyped
    BY DEF MailersInit, MailSettingsTyped, Mailboxes
  <2> QED
    BY MailersStart, <2>1, <2>2
<1>2. Inv /\ [MailersNext]_mailersVars => Inv'
  BY MailersStep, MailTypesStep, MailersAssumption
<1>3. Inv => MailersTypeOK
  BY DEF MailersInv, MailersTyped, Running, MailRowTyped, RestTyped, MailSettingsTyped, MailersTypeOK
<1> QED
  BY <1>1, <1>2, <1>3, PTL DEF MailersSpec

TriesBounded(reward) ==
    /\ reward.tries \in 0..MaxCheckTries
    /\ reward.status \in {"absent", "pending"} => reward.tries < MaxCheckTries
AnswerRows == [status : {"rewarded", "already_rewarded"}, date : Dates, entry : Nat]
ClicksBounded ==
    (\A d \in Dates : TriesBounded(rewards[d])) /\ answers \subseteq AnswerRows

LEMMA ClicksBoundedStep ==
  ASSUME CheckInsAssumption, CheckInsInv, ClicksBounded, [CheckInsNext]_checkInsVars
  PROVE  ClicksBounded'
<1> USE DEF CheckInsAssumption
<1>1. rewards \in [Dates -> RewardRows]
  BY DEF CheckInsInv, RewardsSound
<1>2. ASSUME UNCHANGED <<rewards, answers>> PROVE ClicksBounded'
  BY <1>2 DEF ClicksBounded
<1>3. ASSUME NEW d \in Dates, NEW new, TriesBounded(new), rewards' = [rewards EXCEPT ![d] = new],
             UNCHANGED answers
      PROVE  ClicksBounded'
  BY <1>1, <1>3 DEF ClicksBounded
<1>4. ASSUME NEW c \in Clickers, clicker[c].does \in ClickStages
      PROVE  DateOf(c) \in Dates /\ Step(c) \in RewardRows /\ TriesBounded(Step(c))
  <2>1. clicker[c] # AtRest /\ ClickSound(clicker[c], credits, today)
    BY <1>4 DEF CheckInsInv, AtRest, ClickStages
  <2>2. DateOf(c) \in Dates
    BY <2>1 DEF ClickSound, ClickRows, DateOf
  <2> QED
    BY <1>1, <2>2 DEF Step, ClicksBounded
<1>5. ASSUME NEW c \in Clickers, StartCheckIn(c) PROVE ClicksBounded'
  <2>1. DateOf(c) \in Dates /\ Step(c) \in RewardRows /\ TriesBounded(Step(c))
    BY <1>4, <1>5 DEF StartCheckIn, ClickerAt, ClickStages
  <2>2. CASE Step(c).status = "absent"
    <3> DEFINE new == [Step(c) EXCEPT !.status = "pending"]
    <3>1. TriesBounded(new)
      BY <2>1, <2>2 DEF TriesBounded, RewardRows
    <3>2. rewards' = [rewards EXCEPT ![DateOf(c)] = new] /\ UNCHANGED answers
      BY <1>1, <1>5, <2>1, <2>2 DEF StartCheckIn, Step
    <3> HIDE DEF new
    <3> QED
      BY <1>3, <2>1, <3>1, <3>2
  <2>3. CASE Step(c).status # "absent"
    BY <1>2, <1>5, <2>3 DEF StartCheckIn
  <2> QED
    BY <2>2, <2>3
<1>6. ASSUME NEW c \in Clickers, Advance(c) PROVE ClicksBounded'
  <2>1. DateOf(c) \in Dates /\ Step(c) \in RewardRows /\ TriesBounded(Step(c))
    BY <1>4, <1>6 DEF Advance, ClickerAt, ClickStages
  <2>2. CASE Step(c).status = "executed"
    <3> DEFINE new == [Step(c) EXCEPT !.status = "completed"]
    <3>1. TriesBounded(new)
      BY <2>1, <2>2 DEF TriesBounded, RewardRows
    <3>2. rewards' = [rewards EXCEPT ![DateOf(c)] = new] /\ UNCHANGED answers
      BY <1>1, <1>6, <2>1, <2>2 DEF Advance, Step
    <3> HIDE DEF new
    <3> QED
      BY <1>3, <2>1, <3>1, <3>2
  <2>3. CASE Step(c).status # "executed"
    BY <1>2, <1>6, <2>3 DEF Advance
  <2> QED
    BY <2>2, <2>3
<1>7. ASSUME NEW c \in Clickers, clicker[c].does \in ClickStages, NEW permanent \in BOOLEAN,
             FailsStep(c, permanent)
      PROVE  ClicksBounded'
  <2>1. DateOf(c) \in Dates /\ Step(c) \in RewardRows /\ TriesBounded(Step(c))
    BY <1>4, <1>7
  <2>2. CASE MayRecord(c)
    <3>1. TriesBounded(Failed(c, permanent))
      BY <2>1, <2>2 DEF TriesBounded, RewardRows, Failed, MayRecord
    <3> QED
      BY <1>3, <1>7, <2>1, <2>2, <3>1 DEF FailsStep
  <2>3. CASE ~MayRecord(c)
    BY <1>2, <1>7, <2>3 DEF FailsStep
  <2> QED
    BY <2>2, <2>3
<1>8. ASSUME NEW c \in Clickers, LimitReached(c) \/ CreditConflicts(c) \/ CreditFails(c)
      PROVE  ClicksBounded'
  <2>1. /\ clicker[c].does \in ClickStages
        /\ \E permanent \in BOOLEAN : FailsStep(c, permanent)
    BY <1>8 DEF LimitReached, CreditConflicts, CreditFails, ClickerAt, ClickStages
  <2> QED
    BY <1>7, <2>1
<1>9. ASSUME NEW c \in Clickers, RecordStep(c) PROVE ClicksBounded'
  <2>1. DateOf(c) \in Dates /\ Step(c) \in RewardRows /\ TriesBounded(Step(c))
    BY <1>4, <1>9 DEF RecordStep, ClickerAt, ClickStages
  <2>2. CASE MayRecord(c)
    <3> DEFINE new == [status |-> "executed", tries |-> clicker[c].number, entry |-> clicker[c].entry]
    <3>1. TriesBounded(new)
      BY <2>1, <2>2 DEF TriesBounded, RewardRows, MayRecord
    <3>2. rewards' = [rewards EXCEPT ![DateOf(c)] = new] /\ UNCHANGED answers
      BY <1>9, <2>2 DEF RecordStep
    <3> HIDE DEF new
    <3> QED
      BY <1>3, <2>1, <3>1, <3>2
  <2>3. CASE ~MayRecord(c)
    BY <1>2, <1>9, <2>3 DEF RecordStep
  <2> QED
    BY <2>2, <2>3
<1>10. ASSUME NEW c \in Clickers, Answer(c) PROVE ClicksBounded'
  <2>1. DateOf(c) \in Dates /\ Step(c).entry \in Nat
    BY <1>4, <1>10 DEF Answer, ClickerAt, ClickStages, RewardRows
  <2>2. answers' \subseteq AnswerRows
    BY <1>10, <2>1 DEF Answer, AnswerRows, ClicksBounded
  <2> QED
    BY <1>10, <2>2 DEF Answer, ClicksBounded
<1>11. ASSUME NEW c \in Clickers, CheckIn(c) \/ RunDue(c) \/ FindCredit(c) \/ ValidateLimits(c)
                                    \/ ReadBalance(c) \/ CommitCredit(c) \/ StopsClicking(c)
       PROVE  ClicksBounded'
  BY <1>2, <1>11 DEF CheckIn, RunDue, Clicks, FindCredit, ValidateLimits, ReadBalance, CommitCredit,
     StopsClicking
<1>12. CASE Midnight \/ UNCHANGED checkInsVars
  BY <1>2, <1>12 DEF Midnight, checkInsVars
<1> QED
  BY <1>5, <1>6, <1>8, <1>9, <1>10, <1>11, <1>12 DEF CheckInsNext

LEMMA CheckInsKeepTypes == CheckInsSpec => []CheckInsTypeOK
<1> DEFINE Inv == CheckInsInv /\ ClicksBounded
<1>1. CheckInsInit => Inv
  <2> SUFFICES ASSUME CheckInsInit PROVE Inv
    OBVIOUS
  <2>1. answers = {} /\ \A d \in Dates : rewards[d].tries = 0
    BY DEF CheckInsInit
  <2> QED
    BY CheckInsStart, CheckInsAssumption, <2>1 DEF CheckInsAssumption, ClicksBounded, TriesBounded
<1>2. Inv /\ [CheckInsNext]_checkInsVars => Inv'
  BY CheckInsKeep, ClicksBoundedStep, CheckInsAssumption
<1>3. Inv => CheckInsTypeOK
  <2> SUFFICES ASSUME Inv PROVE CheckInsTypeOK
    OBVIOUS
  <2>1. ASSUME NEW d \in Dates
        PROVE  /\ rewards[d].status \in {"absent", "pending", "executed", "completed", "failed"}
               /\ rewards[d].tries \in 0..MaxCheckTries
               /\ rewards[d].entry \in {NotCredited} \union DOMAIN credits
    <3>1. rewards[d] \in RewardRows /\ (rewards[d].entry # 0 => OwnEntry(credits, d, rewards[d].entry))
      BY DEF CheckInsInv, RewardsSound
    <3>2. rewards[d].tries \in 0..MaxCheckTries
      BY DEF ClicksBounded, TriesBounded
    <3> QED
      BY <3>1, <3>2 DEF RewardRows, OwnEntry, NotCredited
  <2>2. \A n \in DOMAIN credits : credits[n] \in [key : Dates, on : Dates]
    <3>1. credits \in Seq(CreditRows)
      BY DEF CheckInsInv, CreditsSound
    <3>2. \A n \in DOMAIN credits : credits[n] \in CreditRows
      BY <3>1
    <3> QED
      BY <3>2 DEF CreditRows
  <2>3. \A c \in Clickers : clicker[c].does \in {"rest"} \union ClickStages
    BY DEF CheckInsInv, ClickSound, ClickRows, AtRest
  <2> QED
    BY <2>1, <2>2, <2>3 DEF CheckInsInv, ClicksBounded, AnswerRows, ClickStages, CheckInsTypeOK
<1> QED
  BY <1>1, <1>2, <1>3, PTL DEF CheckInsSpec

LEMMA ProgramsKeepTypes == ProgramsSpec => []ProgramsTypeOK
<1>1. ProgramsInv => ProgramsTypeOK
  BY DEF ProgramsInv, ProgramsTyped, TaskTyped, ProgramsTypeOK, ProgramRows, AccountRows
<1> QED
  BY <1>1, ProgramsStart, ProgramsStep, PTL DEF ProgramsSpec

LEMMA UnsettledStep ==
  ASSUME LevelsInv, unsettled \subseteq Nodes \X LevelKeys, [LevelsNext]_levelsVars
  PROVE  (unsettled \subseteq Nodes \X LevelKeys)'
<1> DEFINE Pairs == Nodes \X LevelKeys
<1>1. ASSUME NEW m \in Managers, NEW n \in Nodes, NEW k \in LevelKeys, NEW edit, BeginsEdit(m, n, k, edit)
      PROVE  unsettled' \subseteq Pairs
  BY <1>1 DEF BeginsEdit
<1>2. ASSUME NEW n \in Nodes, NEW k \in LevelKeys, NEW level, CommitsEdit(n, k, level)
      PROVE  unsettled' \subseteq Pairs
  BY <1>2 DEF CommitsEdit
<1>3. ASSUME NEW m \in Managers,
             managing[m].step \in {"creating", "created", "updating", "updated"}
      PROVE  managing[m].node \in Nodes /\ managing[m].key \in LevelKeys
  BY <1>3 DEF LevelsInv, LevelsTyped, ManagerTyped, CreateRows, UpdateRows, ListRows
<1>4. ASSUME NEW m \in Managers, NEW n \in Nodes, NEW k \in LevelKeys,
             \/ \E g \in Grants : CreateReads(m, n, k, g) \/ UpdateReads(m, n, k, "grant", g)
             \/ \E s \in {"active", "archived"} : UpdateReads(m, n, k, "status", s)
             \/ RequireLevel(m, n, k)
      PROVE  unsettled' \subseteq Pairs
  BY <1>1, <1>4 DEF CreateReads, UpdateReads, RequireLevel, LevelsRead
<1>5. ASSUME NEW m \in Managers, CreateCommits(m) \/ UpdateCommits(m)
      PROVE  unsettled' \subseteq Pairs
  BY <1>2, <1>3, <1>5 DEF CreateCommits, UpdateCommits, Managing
<1>6. ASSUME NEW m \in Managers, CreateRegisters(m) \/ UpdateRegisters(m) \/ LevelsListed(m)
      PROVE  unsettled' \subseteq Pairs
  BY <1>6 DEF CreateRegisters, UpdateRegisters, LevelsListed
<1>7. ASSUME NEW m \in Managers, ManagerGivesUp(m) PROVE unsettled' \subseteq Pairs
  BY <1>3, <1>7 DEF ManagerGivesUp
<1>8. ASSUME NEW n \in Nodes,
             NodeRestarts(n) \/ \E m \in Managers : ListLevels(m, n)
      PROVE  unsettled' \subseteq Pairs
  BY <1>8 DEF NodeRestarts, ListLevels, LevelsRead
<1>9. CASE UNCHANGED levelsVars
  BY <1>9 DEF levelsVars
<1> QED
  BY <1>4, <1>5, <1>6, <1>7, <1>8, <1>9 DEF LevelsNext

LEMMA LevelsKeepTypes == LevelsSpec => []LevelsTypeOK
<1> DEFINE Inv == LevelsInv /\ unsettled \subseteq Nodes \X LevelKeys
<1>1. LevelsInit => Inv
  BY LevelsStart DEF LevelsInit
<1>2. Inv /\ [LevelsNext]_levelsVars => Inv'
  BY LevelsKeep, UnsettledStep
<1>3. Inv => LevelsTypeOK
  BY DEF LevelsInv, LevelsTyped, LevelsTypeOK, Known
<1> QED
  BY <1>1, <1>2, <1>3, PTL DEF LevelsSpec

WithinBounds ==
    listing \in Listings /\ Len(listed) <= MaxRows /\ walk.total \in 0 .. MaxRows

LEMMA BoundsStep ==
  ASSUME PagingInv, WithinBounds, [PagingNext]_pagingVars
  PROVE  WithinBounds'
<1> USE PagingAssumption
<1>1. listed \in Seq(Marks) /\ Len(listed) \in Nat /\ walk \in WalkRows
  BY DEF PagingInv
<1>2. CASE UNCHANGED pagingVars
  BY <1>2 DEF pagingVars, WithinBounds
<1>3. CASE FetchCount
  BY <1>1, <1>3 DEF FetchCount, WithinBounds, WalkRows
<1>4. CASE FetchRows
  <2>1. DOMAIN listed' = 1 .. Len(listed)
    BY <1>1, <1>4 DEF FetchRows
  <2>2. listed' \in Seq(Marks)'
    BY PagingStep, <1>4 DEF PagingNext, PagingInv
  <2>3. Len(listed') = Len(listed)
    BY <1>1, <2>1, <2>2 DEF Marks
  <2>4. walk'.total = walk.total
    BY <1>1, <1>4 DEF FetchRows, WalkRows
  <2> QED
    BY <1>4, <2>3, <2>4 DEF FetchRows, WithinBounds
<1>5. ASSUME NEW new, walk' = [walk EXCEPT !.late = new] \/ walk' = [walk EXCEPT !.shifted = new]
      PROVE  walk'.total = walk.total
  BY <1>1, <1>5 DEF WalkRows
<1>6. CASE RowComes
  <2>1. PICK i \in 1 .. Len(listed) + 1 : listed' = InsertAt(listed, i, "other")
    BY <1>6 DEF RowComes
  <2>2. Len(listed') = Len(listed) + 1
    <3>1. HasInserted(Marks, listed, i, "other", InsertAt(listed, i, "other"))
      BY <1>1, <2>1, InsertedAt DEF Marks
    <3> QED
      BY <2>1, <3>1 DEF HasInserted
  <2>3. walk'.total = walk.total /\ listing' = listing /\ Len(listed) < MaxRows
    BY <1>5, <1>6 DEF RowComes
  <2> QED
    BY <1>1, <2>2, <2>3 DEF WithinBounds
<1>7. CASE RowGoes
  <2>1. PICK i \in DOMAIN listed :
          listed' = RemoveAt(listed, i) /\ walk' = [walk EXCEPT !.shifted = @ \/ i <= Turned]
    BY <1>7 DEF RowGoes
  <2>2. Len(listed') = Len(listed) - 1
    BY <1>1, <2>1, RemovedAt
  <2>3. walk'.total = walk.total /\ listing' = listing
    BY <1>5, <1>7, <2>1 DEF RowGoes
  <2> QED
    BY <1>1, <2>2, <2>3 DEF WithinBounds
<1>8. CASE RowMoves
  <2>1. PICK i, j \in DOMAIN listed :
          /\ listed' = InsertAt(RemoveAt(listed, i), j, listed[i])
          /\ walk' = [walk EXCEPT !.shifted = @ \/ (i <= Turned) # (j <= Turned)]
    BY <1>8 DEF RowMoves
  <2>2. RemoveAt(listed, i) \in Seq(Marks) /\ Len(RemoveAt(listed, i)) = Len(listed) - 1
    BY <1>1, RemovedAt
  <2>3. listed[i] \in Marks /\ j \in 1 .. (Len(listed) - 1) + 1
    BY <1>1
  <2>4. Len(listed') = Len(listed)
    <3> DEFINE rest == RemoveAt(listed, i)
               mark == listed[i]
    <3>1. rest \in Seq(Marks) /\ mark \in Marks /\ j \in 1 .. Len(rest) + 1
      BY <2>2, <2>3
    <3>2. Len(rest) + 1 = Len(listed) /\ listed' = InsertAt(rest, j, mark)
      BY <1>1, <2>1, <2>2
    <3> HIDE DEF rest, mark
    <3>3. HasInserted(Marks, rest, j, mark, InsertAt(rest, j, mark))
      BY <3>1, InsertedAt
    <3> QED
      BY <3>2, <3>3 DEF HasInserted
  <2>5. walk'.total = walk.total /\ listing' = listing
    BY <1>5, <1>8, <2>1 DEF RowMoves
  <2> QED
    BY <2>4, <2>5 DEF WithinBounds
<1> QED
  BY <1>2, <1>3, <1>4, <1>6, <1>7, <1>8 DEF PagingNext

LEMMA PagingKeepsTypes == PagingSpec => []PagingTypeOK
<1> USE PagingAssumption
<1> DEFINE Inv == PagingInv /\ WithinBounds
<1>1. PagingInit => Inv
  <2> SUFFICES ASSUME PagingInit PROVE Inv
    OBVIOUS
  <2>1. PICK n \in 0 .. MaxFirst : listed = [i \in 1 .. n |-> "owed"]
    BY DEF PagingInit
  <2>2. Len(listed) = n /\ n <= MaxRows
    BY <2>1
  <2>3. walk.total = 0 /\ listing \in Listings
    BY DEF PagingInit
  <2> QED
    BY PagingStart, <2>2, <2>3 DEF WithinBounds
<1>2. Inv /\ [PagingNext]_pagingVars => Inv'
  BY PagingStep, BoundsStep
<1>3. Inv => PagingTypeOK
  BY DEF PagingInv, WithinBounds, PagingTypeOK, Marks, WalkRows
<1> QED
  BY <1>1, <1>2, <1>3, PTL DEF PagingSpec

(* Every component of MCSite behaves as its own specification says: while  *)
(* another one takes the steps it stands still.                            *)

LEMMA SiteSteps ==
  ASSUME [SiteNext]_siteVars
  PROVE  /\ active' = active
         /\ [ArchiveNext]_archiveVars
         /\ [IdentityNext]_identityVars
         /\ [CommentsNext]_commentsVars
         /\ [TaxonomyNext]_taxonomyVars
         /\ [AdminSessionNext]_adminSessionVars
         /\ [QuotesNext]_quotesVars
         /\ [ReplayNext]_replayVars
         /\ [ProvidersNext]_providersVars
         /\ [SiteSessionNext]_siteSessionVars
         /\ [MailersNext]_mailersVars
         /\ [CheckInsNext]_checkInsVars
         /\ [ProgramsNext]_programsVars
         /\ [LevelsNext]_levelsVars
         /\ [PagingNext]_pagingVars
<1>1. CASE UNCHANGED siteVars
  BY <1>1 DEF siteVars, a_, i_, c_, t_, s_, q_, r_, p_, w_, m_, k_, g_, l_, o_
<1>2. CASE SiteNext
  BY <1>2 DEF SiteNext, a_, i_, c_, t_, s_, q_, r_, p_, w_, m_, k_, g_, l_, o_
<1> QED
  BY <1>1, <1>2

\* The component that takes steps keeps to its types: for all parameters of all of them.
THEOREM SiteKeepsTypes == SiteSpec => []SiteTypeOK
<1> DEFINE OfAPart == active \in Parts
<1>1. SiteInit => /\ OfAPart
                  /\ ArchiveInit
                  /\ IdentityInit
                  /\ CommentsInit
                  /\ TaxonomyInit
                  /\ AdminSessionInit
                  /\ QuotesInit
                  /\ ReplayInit
                  /\ ProvidersInit
                  /\ SiteSessionInit
                  /\ MailersInit
                  /\ CheckInsInit
                  /\ ProgramsInit
                  /\ LevelsInit
                  /\ PagingInit
  BY DEF SiteInit
<1>2. [SiteNext]_siteVars => (OfAPart => OfAPart')
  BY SiteSteps
<1>3. SiteSpec => []ArchiveTypeOK
  <2>1. [SiteNext]_siteVars => [ArchiveNext]_archiveVars
    BY SiteSteps
  <2> QED
    BY <1>1, <2>1, ArchiveKeepsTypes, PTL DEF SiteSpec, ArchiveSpec
<1>4. SiteSpec => []IdentityTypeOK
  <2>1. [SiteNext]_siteVars => [IdentityNext]_identityVars
    BY SiteSteps
  <2> QED
    BY <1>1, <2>1, IdentityKeepsTypes, PTL DEF SiteSpec, IdentitySpec
<1>5. SiteSpec => []CommentsTypeOK
  <2>1. [SiteNext]_siteVars => [CommentsNext]_commentsVars
    BY SiteSteps
  <2> QED
    BY <1>1, <2>1, CommentsKeepTypes, PTL DEF SiteSpec, CommentsSpec
<1>6. SiteSpec => []TaxonomyTypeOK
  <2>1. [SiteNext]_siteVars => [TaxonomyNext]_taxonomyVars
    BY SiteSteps
  <2> QED
    BY <1>1, <2>1, TaxonomyKeepsTypes, PTL DEF SiteSpec, TaxonomySpec
<1>7. SiteSpec => []AdminSessionTypeOK
  <2>1. [SiteNext]_siteVars => [AdminSessionNext]_adminSessionVars
    BY SiteSteps
  <2> QED
    BY <1>1, <2>1, AdminSessionKeepsTypes, PTL DEF SiteSpec, AdminSessionSpec
<1>8. SiteSpec => []QuotesTypeOK
  <2>1. [SiteNext]_siteVars => [QuotesNext]_quotesVars
    BY SiteSteps
  <2> QED
    BY <1>1, <2>1, QuotesKeepTypes, PTL DEF SiteSpec, QuotesSpec
<1>9. SiteSpec => []ReplayTypeOK
  <2>1. [SiteNext]_siteVars => [ReplayNext]_replayVars
    BY SiteSteps
  <2> QED
    BY <1>1, <2>1, ReplayKeepsTypes, PTL DEF SiteSpec, ReplaySpec
<1>10. SiteSpec => []ProvidersTypeOK
  <2>1. [SiteNext]_siteVars => [ProvidersNext]_providersVars
    BY SiteSteps
  <2> QED
    BY <1>1, <2>1, ProvidersKeepTypes, PTL DEF SiteSpec, ProvidersSpec
<1>11. SiteSpec => []SiteSessionTypeOK
  <2>1. [SiteNext]_siteVars => [SiteSessionNext]_siteSessionVars
    BY SiteSteps
  <2> QED
    BY <1>1, <2>1, SiteSessionKeepsTypes, PTL DEF SiteSpec, SiteSessionSpec
<1>12. SiteSpec => []MailersTypeOK
  <2>1. [SiteNext]_siteVars => [MailersNext]_mailersVars
    BY SiteSteps
  <2> QED
    BY <1>1, <2>1, MailersKeepTypes, PTL DEF SiteSpec, MailersSpec
<1>13. SiteSpec => []CheckInsTypeOK
  <2>1. [SiteNext]_siteVars => [CheckInsNext]_checkInsVars
    BY SiteSteps
  <2> QED
    BY <1>1, <2>1, CheckInsKeepTypes, PTL DEF SiteSpec, CheckInsSpec
<1>14. SiteSpec => []ProgramsTypeOK
  <2>1. [SiteNext]_siteVars => [ProgramsNext]_programsVars
    BY SiteSteps
  <2> QED
    BY <1>1, <2>1, ProgramsKeepTypes, PTL DEF SiteSpec, ProgramsSpec
<1>15. SiteSpec => []LevelsTypeOK
  <2>1. [SiteNext]_siteVars => [LevelsNext]_levelsVars
    BY SiteSteps
  <2> QED
    BY <1>1, <2>1, LevelsKeepTypes, PTL DEF SiteSpec, LevelsSpec
<1>16. SiteSpec => []PagingTypeOK
  <2>1. [SiteNext]_siteVars => [PagingNext]_pagingVars
    BY SiteSteps
  <2> QED
    BY <1>1, <2>1, PagingKeepsTypes, PTL DEF SiteSpec, PagingSpec
<1>17. OfAPart /\ ArchiveTypeOK /\ IdentityTypeOK /\ CommentsTypeOK /\ TaxonomyTypeOK /\ AdminSessionTypeOK /\ QuotesTypeOK /\ ReplayTypeOK /\ ProvidersTypeOK /\ SiteSessionTypeOK /\ MailersTypeOK /\ CheckInsTypeOK /\ ProgramsTypeOK /\ LevelsTypeOK /\ PagingTypeOK => SiteTypeOK
  BY DEF SiteTypeOK, Parts
<1> QED
  BY <1>1, <1>2, <1>3, <1>4, <1>5, <1>6, <1>7, <1>8, <1>9, <1>10, <1>11, <1>12, <1>13, <1>14, <1>15, <1>16, <1>17, PTL DEF SiteSpec
=============================================================================
