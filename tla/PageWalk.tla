------------------------------ MODULE PageWalk ------------------------------
(***************************************************************************)
(* A client that reads a list page by page, from some page on, while other *)
(* requests make rows enter and leave the list.  Each page is two          *)
(* statements, the page and the count, with anything in between.           *)
(*                                                                         *)
(* A list is sorted by created_at alone: rows that were created at one     *)
(* time, as the seeded users are, come in any order, and in another one    *)
(* for the next statement.  A row enters at any place: its time is that of *)
(* the begin of its transaction, and a post enters and leaves the list of  *)
(* one status when its status changes.                                     *)
(***************************************************************************)
EXTENDS Pagination, FiniteSets, SequencesExt

CONSTANTS
    Rows,          \* the rows that may be in the list
    Times,         \* the values of created_at
    FirstPages,    \* the pages a client may begin with
    PerPageArgs,   \* the values of ?per_page
    MaxSeeded,     \* BOUND: the rows in the list before the walk
    MaxChanges     \* BOUND: the rows that enter or leave during the walk

ASSUME WalkAssumption ==
    /\ FirstPages \subseteq 1..MaxInt
    /\ PerPageArgs \subseteq {None} \cup (-MaxInt .. MaxInt)
    /\ Times \subseteq Nat /\ None \notin Times
    /\ IsFiniteSet(Rows) /\ MaxSeeded \in Nat /\ MaxChanges \in Nat

VARIABLES
    order,     \* of the list: "ASC" (comments) or "DESC" (posts, users)
    created,   \* created[r]: the time of row r, None before it is made
    live,      \* the rows that are in the list
    first,     \* the page the client began with
    page,      \* the page it asks for
    perPage,   \* the page size it asks for
    phase,     \* "asking", "counting", "done" or "failed"
    got,       \* the pages it was given
    stayed,    \* the rows that were in the list all the time
    entered, left  \* of the rows that came before the end of what it was given,
                   \* how many entered and how many left

table == <<order, created, live>>
asked == <<first, perPage>>
vars  == <<table, asked, page, phase, got, stayed, entered, left>>

Init ==
    /\ order \in {"ASC", "DESC"}
    /\ live \in SUBSET Rows /\ Cardinality(live) <= MaxSeeded
    /\ \E time \in [live -> Times] :
          created = [r \in Rows |-> IF r \in live THEN time[r] ELSE None]
    /\ first \in FirstPages /\ page = first
    /\ perPage \in PerPageArgs
    /\ phase = "asking" /\ got = <<>>
    /\ stayed = live /\ entered = 0 /\ left = 0

-----------------------------------------------------------------------------
(* The order of a list.                                                    *)

\* MUTANT of Precedes: no ORDER BY.
PrecedesNone(s, t) == FALSE

\* A row of time s comes before one of time t.
Precedes(s, t) == IF order = "ASC" THEN s < t ELSE t < s

Sorted(rows) ==
    \A i, j \in DOMAIN rows : i < j => ~Precedes(created[rows[j]], created[rows[i]])

\* The orders in which a statement may read the list.
Arrangements == {rows \in SetToSeqs(live) : Sorted(rows)}

\* LIMIT and OFFSET.
Slice(rows, limit, offset) ==
    SubSeq(rows, offset + 1, IF offset + limit < Len(rows) THEN offset + limit ELSE Len(rows))

-----------------------------------------------------------------------------
(* The client and its requests.                                            *)

Given == FlattenSeq(got)

\* The statement of the page.  Postgres refuses a negative offset.
List ==
    LET window == Paginate(page, perPage)
    IN  /\ phase = "asking"
        /\ \/ /\ window.offset < 0
              /\ phase' = "failed" /\ UNCHANGED got
           \/ /\ window.offset >= 0
              /\ \E rows \in Arrangements :
                    got' = Append(got, Slice(rows, window.limit, window.offset))
              /\ phase' = "counting"
        /\ UNCHANGED <<table, asked, page, stayed, entered, left>>

\* The statement of the total.  With the meta of the answer the client is done
\* or asks for the next page.
Count ==
    /\ phase = "counting"
    /\ IF page * EffectivePerPage(perPage) < Cardinality(live) /\ page < MaxInt
          THEN page' = page + 1 /\ phase' = "asking"
          ELSE phase' = "done" /\ UNCHANGED page
    /\ UNCHANGED <<table, asked, got, stayed, entered, left>>

\* How many rows entered or left so far is bounded.
Changing ==
    /\ phase \in {"asking", "counting"}
    /\ Cardinality(live \ stayed) + entered + left < MaxChanges

\* A row of time t comes before, or at, the end of what the client was given.
Covered(t) == Given # <<>> /\ ~Precedes(created[Last(Given)], t)

Counted(counter, t) == IF Covered(t) THEN counter + 1 ELSE counter

\* A row enters the list: a new one, or one that was in it before.
Enter(r) ==
    /\ Changing /\ r \notin live
    /\ \E t \in (IF created[r] = None THEN Times ELSE {created[r]}) :
          /\ created' = [created EXCEPT ![r] = t]
          /\ entered' = Counted(entered, t)
    /\ live' = live \cup {r}
    /\ UNCHANGED <<order, asked, page, phase, got, stayed, left>>

\* A row leaves the list.
Leave(r) ==
    /\ Changing /\ r \in live
    /\ live' = live \ {r} /\ stayed' = stayed \ {r}
    /\ left' = Counted(left, created[r])
    /\ UNCHANGED <<order, created, asked, page, phase, got, entered>>

Next == List \/ Count \/ \E r \in Rows : Enter(r) \/ Leave(r)

Spec == Init /\ [][Next]_vars

-----------------------------------------------------------------------------
(* Properties.                                                             *)

WalkTypeOK ==
    /\ order \in {"ASC", "DESC"}
    /\ created \in [Rows -> Times \cup {None}]
    /\ live \subseteq Rows /\ stayed \subseteq live
    /\ \A r \in live : created[r] # None
    /\ first \in FirstPages /\ page \in first..MaxInt
    /\ perPage \in PerPageArgs
    /\ phase \in {"asking", "counting", "done", "failed"}
    /\ \A i \in DOMAIN got : got[i] \in Seq(Rows) /\ Len(got[i]) <= MaxPerPage
    /\ entered \in 0..MaxChanges /\ left \in 0..MaxChanges

\* No two rows were created at one time.
NoTies == \A r, s \in Rows : created[r] = created[s] => r = s \/ created[r] = None

\* The rows of the i-th page the client was given, were the list as it is now.
Exact(i) ==
    {Slice(rows, EffectivePerPage(perPage), (first + i - 2) * EffectivePerPage(perPage)) :
        rows \in Arrangements}

Undisturbed == /\ stayed = live /\ \A r \in Rows : created[r] # None => r \in live

\* While no row enters or leaves, a client that begins with the first page is
\* given as many rows as there are, with ties and all; without ties the pages
\* are the list, cut up (query.sql.go:486).
WholeListWalked ==
    phase = "done" /\ first = 1 /\ Undisturbed =>
        /\ Len(Given) = Cardinality(live)
        /\ NoTies => Given \in Arrangements

\* Without ties, a row that was in the list all the time is missed only for a
\* row that left before it: no more rows are missed than left (query.sql.go:486).
MissesAreBounded ==
    phase = "done" /\ first = 1 /\ NoTies =>
        Cardinality({r \in stayed : \A i \in DOMAIN Given : Given[i] # r}) <= left

\* Without ties, a row is given again only for one that entered before it: what
\* enters at the end, as new comments do, makes no row come twice.
RepeatsAreBounded ==
    NoTies => Len(Given) - Cardinality({Given[i] : i \in DOMAIN Given}) <= entered

\* meta.page (mapping.go:44), the "current 1-based page number" of schema.yaml,
\* names the page that the rows are of.
MetaPageIsShown ==
    Undisturbed => \A i \in DOMAIN got : got[i] \in Exact(i)

\* It does where the offset of the page is an int32 (mapping.go:40).
PageIsShownUnlessWrapped ==
    Undisturbed /\ (page - 1) * EffectivePerPage(perPage) <= MaxInt =>
        \A i \in DOMAIN got : got[i] \in Exact(i)
=============================================================================
