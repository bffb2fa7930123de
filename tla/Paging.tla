------------------------------- MODULE Paging -------------------------------
(***************************************************************************)
(* Lists that the core hands out in pages, as the entities and drivers are *)
(* loaded: the items are numbers, listed in their order, and a page is cut *)
(* from the list as it stands when the core answers.                       *)
(***************************************************************************)
EXTENDS Naturals, FiniteSets

CONSTANT PageSize     \* items in a page (100)

ASSUME PageSizeAssumption == PageSize \in Nat \ {0}

\* The place of an item in the list.
Rank(items, i) == Cardinality({j \in items : j <= i})

PageOf(items, page) ==
  {i \in items : (page - 1) * PageSize < Rank(items, i) /\ Rank(items, i) <= page * PageSize}

\* Mutant: a page that is not full is not counted.
FullPages(count) == count \div PageSize

\* Util::pageCount()
PageCount(count) == IF count = 0 THEN 1 ELSE (count + PageSize - 1) \div PageSize

=============================================================================
