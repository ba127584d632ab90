----------------------------- MODULE Pagination -----------------------------
(***************************************************************************)
(* The page arithmetic of the list endpoints (mapping.go, paginate).  Page *)
(* numbers and sizes are Go int32 values: every product wraps at the width *)
(* MaxInt fixes, so that small instances meet the wrap-around too.         *)
(***************************************************************************)
EXTENDS Integers

CONSTANTS
    DefaultPerPage,  \* defaultPerPage, 20 in the source
    MaxPerPage,      \* maxPerPage, 100 in the source
    MaxInt,          \* the greatest int32, 2^31 - 1 in the source
    None             \* a nil pointer, an absent field, a missing identity

ASSUME PagingAssumption ==
    /\ MaxInt \in Nat
    /\ MaxPerPage \in 1..MaxInt
    /\ DefaultPerPage \in 1..MaxPerPage
    /\ None \notin Int

\* What an int32 holds after an operation whose exact result is n.
Wrapped(n) == ((n + MaxInt + 1) % (2 * MaxInt + 2)) - MaxInt - 1

\* The effective page and page size: absent and non-positive values fall back
\* to the defaults, a page size above the cap is cut to it.
EffectivePage(page) == IF page # None /\ page > 0 THEN page ELSE 1

\* MUTANT of EffectivePerPage: the cap is forgotten.
UncappedPerPage(perPage) ==
    IF perPage # None /\ perPage > 0 THEN perPage ELSE DefaultPerPage

EffectivePerPage(perPage) ==
    LET asked == IF perPage # None /\ perPage > 0 THEN perPage ELSE DefaultPerPage
    IN  IF asked > MaxPerPage THEN MaxPerPage ELSE asked

\* MUTANT of Paginate: pages count from 0.
PaginateFromZero(page, perPage) ==
    [limit  |-> EffectivePerPage(perPage),
     offset |-> Wrapped(EffectivePage(page) * EffectivePerPage(perPage))]

\* MUTANT of Paginate: a row more than the page is asked for.
PaginateWithNext(page, perPage) ==
    [limit  |-> EffectivePerPage(perPage) + 1,
     offset |-> Wrapped((EffectivePage(page) - 1) * EffectivePerPage(perPage))]

Paginate(page, perPage) ==
    [limit  |-> EffectivePerPage(perPage),
     offset |-> Wrapped((EffectivePage(page) - 1) * EffectivePerPage(perPage))]
=============================================================================
