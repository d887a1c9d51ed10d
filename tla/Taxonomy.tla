------------------------------- MODULE Taxonomy -------------------------------
(***************************************************************************)
(* The taxonomy capability: the terms of one dimension and the terms       *)
(* assigned to one target.                                                 *)
(*                                                                         *)
(* A replacement locks the rows it finds, deletes them and inserts its     *)
(* own.  Rows that are not there yet cannot be locked: two replacements    *)
(* that overlap may both insert.                                           *)
(***************************************************************************)
EXTENDS Naturals, FiniteSets

CONSTANTS
    Slugs,             \* slugs of terms
    MinItems, MaxItems,
    Librarians,        \* requests in progress at one time
    MaxTaxonomyCalls   \* bound: replacements and removals begun

ASSUME TaxonomyAssumption ==
    MinItems \in Nat /\ MaxItems \in Nat \ {0} /\ MaxTaxonomyCalls \in Nat

VARIABLES
    terms,      \* slug -> status of its taxonomy_terms row
    rows,       \* the taxonomy_assignments rows of the target: the term and the
                \* replacement that inserted it
    settled,    \* replacement -> those that had committed when it read the rows
    librarian,  \* what each request is in the middle of
    ended,      \* the replacements that have committed
    taxonomyCalls

taxonomyVars == <<terms, rows, settled, librarian, ended, taxonomyCalls>>

TaxonomyTypeOK ==
    /\ terms \in [Slugs -> {"none", "active", "archived"}]
    /\ rows \subseteq [term : Slugs, by : 1 .. taxonomyCalls]
    /\ DOMAIN librarian = Librarians
    /\ ended \subseteq 1 .. taxonomyCalls
    /\ \A n \in 1 .. MaxTaxonomyCalls : settled[n] \subseteq ended

TaxonomyInit ==
    /\ terms = [s \in Slugs |-> "none"]
    /\ rows = {}
    /\ settled = [n \in 1 .. MaxTaxonomyCalls |-> {}]
    /\ librarian = [l \in Librarians |-> <<"idle">>]
    /\ ended = {}
    /\ taxonomyCalls = 0

Waits(l) == librarian[l] = <<"idle">>
Works(l, what) == librarian[l][1] = what
Turns(l, what) == librarian' = [librarian EXCEPT ![l] = what]

TaxonomyCall == taxonomyCalls < MaxTaxonomyCalls /\ taxonomyCalls' = taxonomyCalls + 1

(* The rows a replacement under way has locked.                            *)
LockedRows == UNION {librarian[l][4] : l \in {k \in Librarians : Works(k, "replacing")}}

(***************************************************************************)
(* Terms.  The slug is unique; an archived term keeps it.                  *)
(***************************************************************************)
CreateTerm(s) ==
    /\ terms[s] = "none"
    /\ terms' = [terms EXCEPT ![s] = "active"]
    /\ UNCHANGED <<rows, settled, librarian, ended, taxonomyCalls>>

ArchiveTerm(s) ==
    /\ terms[s] = "active"
    /\ terms' = [terms EXCEPT ![s] = "archived"]
    /\ UNCHANGED <<rows, settled, librarian, ended, taxonomyCalls>>

(***************************************************************************)
(* AssignTerms.                                                            *)
(***************************************************************************)
ChosenFit(chosen) == Cardinality(chosen) \in MinItems .. MaxItems

AssignReadsTerms(l, chosen) ==
    /\ TaxonomyCall
    /\ Waits(l)
    /\ ChosenFit(chosen)
    /\ \A s \in chosen : terms[s] = "active"
    /\ Turns(l, <<"choosing", taxonomyCalls + 1, chosen>>)
    /\ UNCHANGED <<terms, rows, settled, ended>>

(* SELECT ... FOR UPDATE finds the rows of now, and waits where another    *)
(* replacement locked one; of those it then gets the ones that are left.   *)
OnlyOfActiveTerms == {r \in rows : terms[r.term] = "active"}
ExistingRows == rows

AssignReadsRows(l) ==
    /\ Works(l, "choosing")
    /\ LET n == librarian[l][2]
       IN /\ Turns(l, <<"waiting", n, librarian[l][3], ExistingRows>>)
          /\ settled' = [settled EXCEPT ![n] = ended]
    /\ UNCHANGED <<terms, rows, ended, taxonomyCalls>>

AssignLocksRows(l) ==
    /\ Works(l, "waiting")
    /\ librarian[l][4] \intersect LockedRows = {}
    /\ Turns(l, <<"replacing", librarian[l][2], librarian[l][3],
                  librarian[l][4] \intersect rows>>)
    /\ UNCHANGED <<terms, rows, settled, ended, taxonomyCalls>>

(* A term is assigned to a target once: an insert of a second row fails,   *)
(* and the replacement with it.                                            *)
AssignTerms(l) ==
    /\ Works(l, "replacing")
    /\ LET n == librarian[l][2]
           chosen == librarian[l][3]
           left == rows \ librarian[l][4]
       IN /\ \A r \in left : r.term \notin chosen
          /\ rows' = left \union [term : chosen, by : {n}]
          /\ ended' = ended \union {n}
    /\ Turns(l, <<"idle">>)
    /\ UNCHANGED <<terms, settled, taxonomyCalls>>

(* The rows are read without locks; a deletion waits for the lock of the   *)
(* row, and a row that is gone by then is left at that.                    *)
RemoveReads(l) ==
    /\ TaxonomyCall
    /\ Waits(l)
    /\ Turns(l, <<"removing", taxonomyCalls + 1, {}, rows>>)
    /\ UNCHANGED <<terms, rows, settled, ended>>

RemoveTargetAssignments(l) ==
    /\ Works(l, "removing")
    /\ librarian[l][4] \intersect LockedRows = {}
    /\ rows' = rows \ librarian[l][4]
    /\ ended' = ended \union {librarian[l][2]}
    /\ Turns(l, <<"idle">>)
    /\ UNCHANGED <<terms, settled, taxonomyCalls>>

TaxonomyGivesUp(l) ==
    /\ ~Waits(l)
    /\ Turns(l, <<"idle">>)
    /\ UNCHANGED <<terms, rows, settled, ended, taxonomyCalls>>

TaxonomyNext ==
    \/ \E s \in Slugs : CreateTerm(s) \/ ArchiveTerm(s)
    \/ \E l \in Librarians, chosen \in SUBSET Slugs : AssignReadsTerms(l, chosen)
    \/ \E l \in Librarians : \/ AssignReadsRows(l) \/ AssignLocksRows(l) \/ AssignTerms(l)
                             \/ RemoveReads(l) \/ RemoveTargetAssignments(l)
                             \/ TaxonomyGivesUp(l)

TaxonomySpec == TaxonomyInit /\ [][TaxonomyNext]_taxonomyVars

(* A target carries the terms of one replacement, or of replacements that  *)
(* overlapped: none of a replacement outlives one that began to replace    *)
(* after it had committed (AssignTerms, commands.py of the capability).    *)
ReplacedWhole ==
    \A r, q \in rows : r.by \notin settled[q.by]
=============================================================================
