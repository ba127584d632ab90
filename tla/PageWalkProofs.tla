--------------------------- MODULE PageWalkProofs ---------------------------
(***************************************************************************)
(* Proofs about Pagination and PageWalk: what paginate returns, and that a *)
(* page is the one that was asked for where its offset does not wrap.      *)
(***************************************************************************)
EXTENDS PageWalk, TLAPS, FiniteSetTheorems

-----------------------------------------------------------------------------
(* The page arithmetic.                                                    *)

\* A value that fits is not changed by the width.
LEMMA Fits ==
    ASSUME NEW n \in 0..MaxInt
    PROVE  Wrapped(n) = n
<1>1. MaxInt \in Nat
  BY PagingAssumption
<1>2. n + MaxInt + 1 \in 0..(2 * MaxInt + 1)
  BY <1>1
<1>3. (n + MaxInt + 1) % (2 * MaxInt + 2) = n + MaxInt + 1
  BY <1>1, <1>2
<1> QED BY <1>1, <1>3 DEF Wrapped

\* The page size is never zero and never above the cap.
LEMMA SizeInBounds ==
    ASSUME NEW asking, asking = None \/ asking \in Int
    PROVE  EffectivePerPage(asking) \in 1..MaxPerPage
BY PagingAssumption DEF EffectivePerPage

\* paginate (mapping.go:28): the offset of every page is exact, as long as it
\* is an int32, and the limit is a page size within the cap.
THEOREM OffsetIsExact ==
    ASSUME NEW number \in 1..MaxInt, NEW asking, asking = None \/ asking \in Int,
           (number - 1) * EffectivePerPage(asking) <= MaxInt
    PROVE  /\ Paginate(number, asking).limit = EffectivePerPage(asking)
           /\ Paginate(number, asking).limit \in 1..MaxPerPage
           /\ Paginate(number, asking).offset = (number - 1) * EffectivePerPage(asking)
<1> DEFINE size == EffectivePerPage(asking)
<1>1. size \in 1..MaxPerPage
  BY SizeInBounds
<1>2. EffectivePage(number) = number
  BY PagingAssumption DEF EffectivePage
<1>3. (number - 1) * size \in 0..MaxInt
  <2>1. size \in Nat /\ number - 1 \in Nat
    BY <1>1, PagingAssumption
  <2> HIDE DEF size
  <2>2. (number - 1) * size \in Nat
    BY <2>1
  <2> QED BY <2>2, PagingAssumption DEF size
<1>4. Wrapped((number - 1) * size) = (number - 1) * size
  BY <1>3, Fits
<1> QED BY <1>1, <1>2, <1>4 DEF Paginate

-----------------------------------------------------------------------------
(* The walk.                                                               *)

\* A page is some of the rows in the order they are read, no more than asked.
LEMMA SliceOfRows ==
    ASSUME NEW rows \in Seq(Rows), NEW limit \in Nat, NEW offset \in Nat
    PROVE  /\ Slice(rows, limit, offset) \in Seq(Rows)
           /\ Len(Slice(rows, limit, offset)) <= limit
<1>1. CASE offset + limit < Len(rows)
  BY <1>1 DEF Slice
<1>2. CASE ~(offset + limit < Len(rows))
  BY <1>2 DEF Slice
<1> QED BY <1>1, <1>2

\* The orders in which a statement may read the list are sequences of rows.
LEMMA ArrangedRows ==
    ASSUME live \subseteq Rows, NEW rows \in Arrangements
    PROVE  rows \in Seq(Rows)
<1>1. rows \in SetToSeqs(live) /\ Cardinality(live) \in Nat
  BY WalkAssumption, FS_Subset, FS_CardinalityType DEF Arrangements
<1>2. rows \in [1..Cardinality(live) -> live]
  BY <1>1 DEF SetToSeqs
<1> QED BY <1>1, <1>2

\* The client asks for the pages one after the other, and what it was given is
\* what it asked for.
WalkInv ==
    /\ WalkTypeOK
    /\ got \in Seq(Seq(Rows))
    /\ phase \in {"asking", "failed"} => page = first + Len(got)
    /\ phase \in {"counting", "done"} => page = first + Len(got) - 1 /\ Len(got) >= 1
    /\ PageIsShownUnlessWrapped

\* The size of a page that is asked for.
LEMMA Sizes ==
    ASSUME WalkTypeOK
    PROVE  /\ perPage = None \/ perPage \in Int
           /\ EffectivePerPage(perPage) \in 1..MaxPerPage
           /\ MaxPerPage \in Nat /\ MaxInt \in Nat
           /\ first \in 1..MaxInt /\ page \in 1..MaxInt
<1>1. perPage = None \/ perPage \in Int
  BY WalkAssumption, PagingAssumption DEF WalkTypeOK
<1> QED BY <1>1, SizeInBounds, WalkAssumption, PagingAssumption DEF WalkTypeOK

\* The statement of a page keeps the invariant.
LEMMA ListKeepsInv ==
    ASSUME WalkInv, List
    PROVE  WalkInv'
<1> DEFINE window == Paginate(page, perPage)
           size   == EffectivePerPage(perPage)
<1>0. /\ WalkTypeOK /\ PageIsShownUnlessWrapped /\ got \in Seq(Seq(Rows))
      /\ page = first + Len(got) /\ phase = "asking"
      /\ UNCHANGED <<order, created, live, first, perPage, page, stayed, entered, left>>
  BY DEF WalkInv, List, table, asked
<1>1. CASE window.offset < 0 /\ phase' = "failed" /\ UNCHANGED got
  <2>1. WalkTypeOK'
    BY <1>0, <1>1 DEF WalkTypeOK
  <2>2. PageIsShownUnlessWrapped'
    BY <1>0, <1>1 DEF PageIsShownUnlessWrapped, Undisturbed, Exact, Arrangements, Sorted,
                      Precedes
  <2> QED BY <1>0, <1>1, <2>1, <2>2 DEF WalkInv
<1>2. ASSUME NEW rows \in Arrangements, window.offset >= 0, phase' = "counting",
             got' = Append(got, Slice(rows, window.limit, window.offset))
      PROVE  WalkInv'
  <2> DEFINE given == Slice(rows, window.limit, window.offset)
  <2>1. /\ size \in 1..MaxPerPage /\ MaxPerPage \in Nat /\ window.limit = size
        /\ MaxInt \in Nat /\ first \in 1..MaxInt /\ page \in 1..MaxInt
    BY <1>0, Sizes DEF Paginate
  <2>2. window.offset \in Nat
    <3>1. EffectivePage(page) \in Int /\ size \in Int
      BY <2>1 DEF EffectivePage
    <3> HIDE DEF size
    <3>2. (EffectivePage(page) - 1) * size \in Int
      BY <3>1
    <3>3. window.offset = Wrapped((EffectivePage(page) - 1) * size)
      BY DEF Paginate, size
    <3>4. window.offset \in Int
      BY <3>2, <3>3, <2>1 DEF Wrapped
    <3> QED BY <3>4, <1>2
  <2>3. given \in Seq(Rows) /\ Len(given) <= MaxPerPage
    <3>1. rows \in Seq(Rows)
      BY <1>0, ArrangedRows DEF WalkTypeOK
    <3> HIDE DEF window, size
    <3>2. given \in Seq(Rows) /\ Len(given) <= window.limit
      BY <2>1, <2>2, <3>1, SliceOfRows
    <3> QED BY <2>1, <3>2
  <2> HIDE DEF given
  <2>4. /\ got' \in Seq(Seq(Rows)) /\ Len(got') = Len(got) + 1
        /\ DOMAIN got' = 1..(Len(got) + 1) /\ DOMAIN got = 1..Len(got)
        /\ got'[Len(got) + 1] = given
        /\ \A i \in DOMAIN got : got'[i] = got[i]
    <3>1. got' = Append(got, given)
      BY <1>2 DEF given
    <3> QED BY <1>0, <2>3, <3>1
  <2>5. \A i \in DOMAIN got' : got'[i] \in Seq(Rows) /\ Len(got'[i]) <= MaxPerPage
    <3>1. \A i \in DOMAIN got : got[i] \in Seq(Rows) /\ Len(got[i]) <= MaxPerPage
      BY <1>0 DEF WalkTypeOK
    <3> SUFFICES ASSUME NEW i \in DOMAIN got'
                 PROVE  got'[i] \in Seq(Rows) /\ Len(got'[i]) <= MaxPerPage
      OBVIOUS
    <3>2. i \in DOMAIN got \/ i = Len(got) + 1
      BY <1>0, <2>4
    <3>3. CASE i \in DOMAIN got
      BY <2>4, <3>1, <3>3
    <3>4. CASE i = Len(got) + 1
      BY <2>3, <2>4, <3>4
    <3> QED BY <3>2, <3>3, <3>4
  <2>6. WalkTypeOK'
    BY <1>0, <1>2, <2>5 DEF WalkTypeOK
  <2>7. ASSUME NEW i \in Int PROVE Exact(i)' = Exact(i)
    BY <1>0 DEF Exact, Arrangements, Sorted, Precedes
  <2>8. PageIsShownUnlessWrapped'
    <3> SUFFICES ASSUME Undisturbed', (page - 1) * size <= MaxInt, NEW i \in DOMAIN got'
                 PROVE  got'[i] \in Exact(i)
      BY <1>0, <2>4, <2>7 DEF PageIsShownUnlessWrapped
    <3>1. Undisturbed
      BY <1>0 DEF Undisturbed
    <3>2. CASE i \in DOMAIN got
      BY <1>0, <2>4, <3>1, <3>2 DEF PageIsShownUnlessWrapped
    <3>3. CASE i = Len(got) + 1
      <4>1. window.offset = (page - 1) * size
        BY <2>1, <1>0, Sizes, OffsetIsExact
      <4>2. first + i - 2 = page - 1
        BY <1>0, <2>1, <3>3
      <4>3. given = Slice(rows, size, (first + i - 2) * size)
        BY <2>1, <4>1, <4>2 DEF given
      <4> QED BY <1>2, <2>4, <3>3, <4>3 DEF Exact
    <3> QED BY <2>4, <3>2, <3>3
  <2> QED BY <1>0, <1>2, <2>1, <2>4, <2>6, <2>8 DEF WalkInv
<1> QED BY <1>1, <1>2 DEF List

\* The statement of the total keeps it: the offset of a page is at most that of
\* the next.
LEMMA CountKeepsInv ==
    ASSUME WalkInv, Count
    PROVE  WalkInv'
<1> DEFINE size == EffectivePerPage(perPage)
<1>0. /\ WalkTypeOK /\ PageIsShownUnlessWrapped /\ got \in Seq(Seq(Rows))
      /\ page = first + Len(got) - 1 /\ Len(got) >= 1
      /\ UNCHANGED <<order, created, live, first, perPage, got, stayed, entered, left>>
      /\ \/ page' = page + 1 /\ phase' = "asking" /\ page < MaxInt
         \/ page' = page /\ phase' = "done"
  BY DEF WalkInv, Count, table, asked
<1>1. /\ size \in Nat /\ MaxInt \in Nat /\ first \in 1..MaxInt /\ page \in 1..MaxInt
      /\ page \in first..MaxInt
  BY <1>0, Sizes DEF WalkTypeOK
<1>2. page' \in first..MaxInt
  BY <1>0, <1>1
<1>3. WalkTypeOK'
  BY <1>0, <1>2 DEF WalkTypeOK
<1>4. (page' - 1) * size <= MaxInt => (page - 1) * size <= MaxInt
  <2> HIDE DEF size
  <2>1. CASE page' = page
    BY <2>1
  <2>2. CASE page' = page + 1
    <3>1. (page' - 1) * size = page * size
      BY <2>2, <1>1
    <3>2. page * size = (page - 1) * size + size
      BY <1>1
    <3>3. (page - 1) * size \in Int
      BY <1>1
    <3> QED BY <1>1, <3>1, <3>2, <3>3
  <2> QED BY <1>0, <2>1, <2>2
<1>5. ASSUME NEW i PROVE Exact(i)' = Exact(i)
  BY <1>0 DEF Exact, Arrangements, Sorted, Precedes
<1>6. PageIsShownUnlessWrapped'
  BY <1>0, <1>4, <1>5 DEF PageIsShownUnlessWrapped, Undisturbed
<1> QED BY <1>0, <1>1, <1>3, <1>6 DEF WalkInv

\* Once a row entered or left, the list is not undisturbed again.
LEMMA ChangesDisturb ==
    ASSUME WalkTypeOK, NEW r \in Rows, Enter(r) \/ Leave(r)
    PROVE  ~Undisturbed'
<1>1. CASE Enter(r)
  BY <1>1 DEF Enter, Undisturbed, WalkTypeOK
<1>2. CASE Leave(r)
  BY <1>2 DEF Leave, Undisturbed, WalkTypeOK
<1> QED BY <1>1, <1>2

\* The counters stay within the bound on the changes.
LEMMA CountersBounded ==
    ASSUME WalkTypeOK, Changing, NEW t
    PROVE  /\ Counted(entered, t) \in 0..MaxChanges
           /\ Counted(left, t) \in 0..MaxChanges
<1>1. Cardinality(live \ stayed) \in Nat
  BY WalkAssumption, FS_Subset, FS_Difference, FS_CardinalityType DEF WalkTypeOK
<1> QED BY <1>1, WalkAssumption DEF Counted, Changing, WalkTypeOK

\* What enters and leaves keeps the invariant.
LEMMA ChangesKeepInv ==
    ASSUME WalkInv, NEW r \in Rows, Enter(r) \/ Leave(r)
    PROVE  WalkInv'
<1>0. WalkTypeOK /\ ~Undisturbed'
  BY ChangesDisturb DEF WalkInv
<1>1. UNCHANGED <<order, asked, page, phase, got>>
  BY DEF Enter, Leave
<1>2. CASE Enter(r)
  <2>1. PICK t \in Times : /\ created' = [created EXCEPT ![r] = t]
                           /\ entered' = Counted(entered, t)
    BY <1>0, <1>2 DEF Enter, WalkTypeOK
  <2>2. entered' \in 0..MaxChanges
    BY <1>0, <1>2, <2>1, CountersBounded DEF Enter
  <2>3. /\ created' \in [Rows -> Times \cup {None}]
        /\ \A q \in live' : created'[q] # None
        /\ live' \subseteq Rows /\ stayed' \subseteq live'
    BY <1>0, <1>2, <2>1, WalkAssumption DEF Enter, WalkTypeOK
  <2>4. WalkTypeOK'
    BY <1>0, <1>1, <1>2, <2>2, <2>3 DEF Enter, WalkTypeOK, asked
  <2> QED BY <1>0, <1>1, <2>4 DEF WalkInv, PageIsShownUnlessWrapped, asked
<1>3. CASE Leave(r)
  <2>1. left' \in 0..MaxChanges
    BY <1>0, <1>3, CountersBounded DEF Leave
  <2>2. WalkTypeOK'
    BY <1>0, <1>1, <1>3, <2>1 DEF Leave, WalkTypeOK, asked
  <2> QED BY <1>0, <1>1, <2>2 DEF WalkInv, PageIsShownUnlessWrapped, asked
<1> QED BY <1>2, <1>3

LEMMA WalkInvHolds == Spec => []WalkInv
<1>1. Init => WalkInv
  <2> SUFFICES ASSUME Init PROVE WalkInv
    OBVIOUS
  <2>1. PICK time \in [live -> Times] :
            created = [r \in Rows |-> IF r \in live THEN time[r] ELSE None]
    BY DEF Init
  <2>2. /\ created \in [Rows -> Times \cup {None}]
        /\ \A r \in live : created[r] # None
    BY <2>1, WalkAssumption DEF Init
  <2>3. page \in first..MaxInt
    BY WalkAssumption, PagingAssumption DEF Init
  <2>4. got = <<>> /\ Len(got) = 0 /\ DOMAIN got = {} /\ got \in Seq(Seq(Rows))
    BY DEF Init
  <2>5. WalkTypeOK
    BY <2>2, <2>3, <2>4, WalkAssumption DEF Init, WalkTypeOK
  <2>6. page = first + Len(got)
    BY <2>3, <2>4, WalkAssumption, PagingAssumption DEF Init
  <2> QED BY <2>4, <2>5, <2>6 DEF Init, WalkInv, PageIsShownUnlessWrapped
<1>2. WalkInv /\ [Next]_vars => WalkInv'
  <2> SUFFICES ASSUME WalkInv, [Next]_vars PROVE WalkInv'
    OBVIOUS
  <2>1. CASE UNCHANGED vars
    BY <2>1 DEF vars, table, asked, WalkInv, WalkTypeOK, PageIsShownUnlessWrapped,
                Undisturbed, Exact, Arrangements, Sorted, Precedes
  <2> QED BY <2>1, ListKeepsInv, CountKeepsInv, ChangesKeepInv DEF Next
<1> QED BY <1>1, <1>2, PTL DEF Spec

\* The variables of a walk hold values of their kinds; no page is longer than
\* maxPerPage.
THEOREM WalkTypes == Spec => []WalkTypeOK
BY WalkInvHolds, PTL DEF WalkInv

\* In a list nobody changes, every page a client was given is the one it asked
\* for, whatever page it began with, as long as the offset is an int32.
THEOREM PagesShown == Spec => []PageIsShownUnlessWrapped
BY WalkInvHolds, PTL DEF WalkInv
=============================================================================
