--------------------------- MODULE PageWalkCounts ---------------------------
(***************************************************************************)
(* Proofs about PageWalk: how many of the rows a client is given, misses   *)
(* and is given again.                                                     *)
(***************************************************************************)
EXTENDS PageWalkProofs, WellFoundedInduction

-----------------------------------------------------------------------------
(* Numbers.                                                                *)

\* A set of numbers that is not empty has a smallest member.
LEMMA Smallest ==
    ASSUME NEW S \in SUBSET Nat, S # {}
    PROVE  \E m \in S : \A k \in S : m <= k
<1> DEFINE R == OpToRel(<, Nat)
<1>1. IsWellFoundedOn(R, Nat)
  BY NatLessThanWellFounded
<1>2. \A x, y \in Nat : <<x, y>> \in R <=> x < y
  BY DEF OpToRel
<1> HIDE DEF R
<1>3. PICK m \in S : \A k \in S : <<k, m>> \notin R
  BY <1>1, WFMin
<1>4. \A k \in S : ~(k < m)
  BY <1>2, <1>3
<1>5. m \in Nat /\ m \in S
  BY <1>3
<1>6. \A k \in S : m <= k
  BY <1>4, <1>5
<1> QED BY <1>5, <1>6

\* A set that holds 0 and the successor of each of its members holds every
\* number.
LEMMA Induction ==
    ASSUME NEW S, 0 \in S, \A n \in Nat : n \in S => n + 1 \in S
    PROVE  Nat \subseteq S
<1> SUFFICES ASSUME Nat \ S # {} PROVE FALSE
  OBVIOUS
<1>1. PICK m \in Nat \ S : \A k \in Nat \ S : m <= k
  BY Smallest
<1>2. m # 0 /\ m - 1 \in Nat /\ m = (m - 1) + 1
  BY <1>1
<1>3. m - 1 \in S
  BY <1>1, <1>2
<1> QED BY <1>1, <1>2, <1>3

\* Division by q leaves a remainder.
LEMMA Division ==
    ASSUME NEW q \in Nat \ {0}, NEW x \in Int
    PROVE  /\ x = q * (x \div q) + (x % q)
           /\ x % q \in 0..(q - 1) /\ x \div q \in Int
OBVIOUS

\* The remainder is that of the division.
LEMMA Remainder ==
    ASSUME NEW q \in Nat \ {0}, NEW d \in Int, NEW r \in 0..(q - 1)
    PROVE  (q * d + r) % q = r
OBVIOUS

\* The remainder of a sum.
LEMMA RemainderOfSum ==
    ASSUME NEW q \in Nat \ {0}, NEW x \in Int, NEW s \in 0..(q - 1)
    PROVE  /\ x % q \in 0..(q - 1)
           /\ (x + s) % q = (IF (x % q) + s < q THEN (x % q) + s ELSE (x % q) + s - q)
<1>1. PICK d \in Int, r \in 0..(q - 1) : x = q * d + r
  BY Division
<1>2. x % q = r
  BY <1>1, Remainder
<1>3. PICK p \in Int : p = q * d
  BY <1>1
<1>4. CASE r + s < q
  <2>1. PICK t \in Int : t = r + s
    BY <1>1
  <2>2. t \in 0..(q - 1)
    BY <1>1, <1>4, <2>1
  <2>3. x + s = q * d + t
    BY <1>1, <1>3, <2>1
  <2>4. (q * d + t) % q = t
    BY <1>1, <2>2, Remainder
  <2> QED BY <1>1, <1>2, <1>4, <2>1, <2>3, <2>4
<1>5. CASE ~(r + s < q)
  <2>1. PICK e \in Int : e = d + 1
    BY <1>1
  <2>2. PICK t \in Int : t = r + s - q
    BY <1>1
  <2>3. t \in 0..(q - 1)
    BY <1>1, <1>5, <2>2
  <2>4. q * e = p + q
    BY <1>1, <1>3, <2>1
  <2>5. x + s = q * e + t
    BY <1>1, <1>3, <2>1, <2>2, <2>4
  <2>6. (q * e + t) % q = t
    BY <2>1, <2>3, Remainder
  <2> QED BY <1>1, <1>2, <1>5, <2>2, <2>5, <2>6
<1> QED BY <1>4, <1>5

-----------------------------------------------------------------------------
(* What the client was given, Given == FlattenSeq(got), grows at its end.  *)

\* The function by which FlattenSeq is defined.
Flat(seqs, f) ==
    f = [i \in 1..Len(seqs) |-> IF i = 1 THEN seqs[i] ELSE f[i - 1] \o seqs[i]]

\* Up to n it puts the first n sequences together.
FlatUpTo(seqs, f, n) ==
    /\ f = [i \in 1..n |-> f[i]]
    /\ \A i \in 1..n : f[i] = (IF i = 1 THEN seqs[i] ELSE f[i - 1] \o seqs[i])

\* FlattenSeq chooses the concatenations of the first n sequences, for each n.
LEMMA FlattenDef ==
    ASSUME NEW seqs, Len(seqs) # 0
    PROVE  FlattenSeq(seqs) = (CHOOSE f : Flat(seqs, f))[Len(seqs)]
BY DEF FlattenSeq, Flat

\* There is such a choice: for every n, by induction.
LEMMA FlatExists ==
    ASSUME NEW seqs, Len(seqs) \in Nat
    PROVE  \E f : Flat(seqs, f)
<1> DEFINE S == {n \in Nat : \E f : FlatUpTo(seqs, f, n)}
<1>1. 0 \in S
  <2>1. FlatUpTo(seqs, [i \in 1..0 |-> {}], 0)
    BY DEF FlatUpTo
  <2> QED BY <2>1
<1>2. ASSUME NEW n \in Nat, n \in S PROVE n + 1 \in S
  <2>1. PICK f : FlatUpTo(seqs, f, n)
    BY <1>2
  <2> DEFINE next == IF n + 1 = 1 THEN seqs[n + 1] ELSE f[n] \o seqs[n + 1]
             g    == [i \in 1..(n + 1) |-> IF i <= n THEN f[i] ELSE next]
  <2>2. \A i \in 1..(n + 1) : i \in 1..n \/ i = n + 1
    OBVIOUS
  <2> HIDE DEF next
  <2>3. g[n + 1] = next /\ \A i \in 1..n : g[i] = f[i]
    OBVIOUS
  <2>4. g = [i \in 1..(n + 1) |-> g[i]]
    OBVIOUS
  <2> HIDE DEF g
  <2>5. ASSUME NEW i \in 1..(n + 1)
        PROVE  g[i] = (IF i = 1 THEN seqs[i] ELSE g[i - 1] \o seqs[i])
    <3>1. CASE i \in 1..n
      <4>1. f[i] = (IF i = 1 THEN seqs[i] ELSE f[i - 1] \o seqs[i])
        BY <2>1, <3>1 DEF FlatUpTo
      <4>2. i # 1 => i - 1 \in 1..n
        BY <3>1
      <4> QED BY <2>3, <3>1, <4>1, <4>2
    <3>2. CASE i = n + 1
      <4>1. i # 1 => i - 1 \in 1..n /\ i - 1 = n
        BY <3>2
      <4> QED BY <2>3, <3>2, <4>1 DEF next
    <3> QED BY <2>2, <3>1, <3>2
  <2>6. FlatUpTo(seqs, g, n + 1)
    BY <2>4, <2>5 DEF FlatUpTo
  <2> QED BY <2>6
<1> HIDE DEF S
<1>3. Len(seqs) \in S
  BY <1>1, <1>2, Induction
<1>4. PICK f : FlatUpTo(seqs, f, Len(seqs))
  BY <1>3 DEF S
<1>5. Flat(seqs, f)
  BY <1>4 DEF Flat, FlatUpTo
<1> QED BY <1>5

\* Each is the one before it with one sequence more.
LEMMA FlatValue ==
    ASSUME NEW seqs, NEW f, Flat(seqs, f), NEW i \in 1..Len(seqs)
    PROVE  f[i] = (IF i = 1 THEN seqs[i] ELSE f[i - 1] \o seqs[i])
BY DEF Flat

\* One list of sequences begins with another.
Begins(seqs, more) == \A i \in 1..Len(seqs) : more[i] = seqs[i]

\* Its values are fixed by the sequences: put together from sequences over R
\* they are sequences over R, and they do not change when one more follows.
LEMMA FlatValues ==
    ASSUME NEW R, NEW seqs \in Seq(Seq(R)), NEW f, Flat(seqs, f),
           NEW more, NEW g, Flat(more, g), Len(more) \in Nat, Len(seqs) <= Len(more),
           Begins(seqs, more)
    PROVE  \A i \in 1..Len(seqs) : f[i] \in Seq(R) /\ g[i] = f[i]
<1>0. /\ \A i \in 1..Len(seqs) : f[i] = (IF i = 1 THEN seqs[i] ELSE f[i - 1] \o seqs[i])
      /\ \A i \in 1..Len(more) : g[i] = (IF i = 1 THEN more[i] ELSE g[i - 1] \o more[i])
  BY FlatValue
<1>1. (\A i \in 1..Len(seqs) : seqs[i] \in Seq(R)) /\ Len(seqs) \in Nat
  OBVIOUS
<1> DEFINE Bad == {i \in 1..Len(seqs) : ~(f[i] \in Seq(R) /\ g[i] = f[i])}
<1> SUFFICES ASSUME Bad # {} PROVE FALSE
  OBVIOUS
<1>2. Bad \in SUBSET Nat
  OBVIOUS
<1>3. PICK m \in Bad : \A k \in Bad : m <= k
  BY <1>2, Smallest
<1>4. m \in 1..Len(seqs) /\ m \in 1..Len(more) /\ more[m] = seqs[m] /\ seqs[m] \in Seq(R)
  BY <1>1, <1>3 DEF Begins
<1>5. CASE m = 1
  BY <1>0, <1>1, <1>3, <1>4, <1>5
<1>6. CASE m # 1
  <2>1. m - 1 \in 1..Len(seqs) /\ m - 1 \notin Bad
    BY <1>1, <1>3, <1>4, <1>6
  <2>2. f[m - 1] \in Seq(R) /\ g[m - 1] = f[m - 1]
    BY <2>1
  <2>3. f[m] = f[m - 1] \o seqs[m] /\ g[m] = g[m - 1] \o more[m]
    BY <1>0, <1>4, <1>6
  <2>4. f[m] \in Seq(R) /\ g[m] = f[m]
    BY <1>4, <2>2, <2>3
  <2> QED BY <1>3, <2>4
<1> QED BY <1>5, <1>6

\* FlattenSeq of one sequence more has that sequence at its end.
LEMMA FlattenOfAppend ==
    ASSUME NEW R, NEW seqs \in Seq(Seq(R)), NEW s \in Seq(R)
    PROVE  /\ FlattenSeq(seqs) \in Seq(R)
           /\ FlattenSeq(Append(seqs, s)) = FlattenSeq(seqs) \o s
<1> DEFINE more == Append(seqs, s)
           n    == Len(seqs)
<1>1. /\ n \in Nat /\ more \in Seq(Seq(R)) /\ Len(more) = n + 1 /\ more[n + 1] = s
      /\ \A i \in 1..n : more[i] = seqs[i]
  OBVIOUS
<1>2. PICK f : Flat(seqs, f) /\ f = CHOOSE h : Flat(seqs, h)
  <2>1. \E h : Flat(seqs, h)
    BY <1>1, FlatExists
  <2> QED BY <2>1
<1>3. PICK g : Flat(more, g) /\ g = CHOOSE h : Flat(more, h)
  <2> HIDE DEF more
  <2>1. \E h : Flat(more, h)
    BY <1>1, FlatExists
  <2> QED BY <2>1
<1>4. FlattenSeq(more) = g[n + 1] /\ (n # 0 => FlattenSeq(seqs) = f[n])
  <2>1. n + 1 # 0
    BY <1>1
  <2> HIDE DEF more
  <2> QED BY <1>1, <1>2, <1>3, <2>1, FlattenDef
<1> HIDE DEF more
<1>5. g[n + 1] = (IF n + 1 = 1 THEN more[n + 1] ELSE g[n] \o more[n + 1])
  <2>1. n + 1 \in 1..Len(more) /\ (n + 1) - 1 = n
    BY <1>1
  <2> QED BY <1>3, <2>1, FlatValue
<1>6. CASE n = 0
  <2>1. seqs = <<>> /\ FlattenSeq(seqs) = seqs
    BY <1>6 DEF FlattenSeq
  <2>2. FlattenSeq(more) = s
    BY <1>1, <1>4, <1>5, <1>6
  <2>3. seqs \in Seq(R) /\ seqs \o s = s
    BY <2>1
  <2> QED BY <2>1, <2>2, <2>3 DEF more
<1>7. CASE n # 0
  <2>1. \A i \in 1..Len(seqs) : f[i] \in Seq(R) /\ g[i] = f[i]
    <3>1. /\ Len(seqs) <= Len(more) /\ Len(more) \in Nat
          /\ Begins(seqs, more)
      BY <1>1 DEF Begins
    <3>2. Flat(seqs, f) /\ Flat(more, g)
      BY <1>2, <1>3
    <3> HIDE DEF n
    <3> QED BY <3>1, <3>2, FlatValues
  <2>2. n \in 1..n
    BY <1>1, <1>7
  <2>3. FlattenSeq(seqs) = f[n] /\ f[n] \in Seq(R) /\ g[n] = f[n]
    BY <1>4, <1>7, <2>1, <2>2
  <2>4. FlattenSeq(more) = g[n] \o s
    BY <1>1, <1>4, <1>5, <1>7
  <2> QED BY <2>3, <2>4 DEF more
<1> QED BY <1>6, <1>7

-----------------------------------------------------------------------------
(* Where a page lies in its list, when no two rows were created at one     *)
(* time.                                                                   *)

\* The rows at or before the time t, and the rows past it.
UpTo(rows, t) == {r \in rows : ~Precedes(t, created[r])}
Past(rows, t) == {r \in rows : Precedes(t, created[r])}

\* The times of a list are ordered.
LEMMA TimesOrdered ==
    ASSUME WalkTypeOK, NEW s \in Times, NEW t \in Times
    PROVE  /\ ~Precedes(s, s)
           /\ Precedes(s, t) => ~Precedes(t, s)
           /\ Precedes(s, t) \/ Precedes(t, s) \/ s = t
           /\ \A u \in Times : Precedes(s, t) /\ Precedes(t, u) => Precedes(s, u)
           /\ \A u \in Times : ~Precedes(t, s) /\ Precedes(t, u) => Precedes(s, u)
           /\ \A u \in Times : Precedes(s, t) /\ ~Precedes(u, t) => Precedes(s, u)
<1>1. s \in Nat /\ t \in Nat /\ \A u \in Times : u \in Nat
  BY WalkAssumption
<1>2. CASE order = "ASC"
  BY <1>1, <1>2 DEF Precedes
<1>3. CASE order = "DESC"
  BY <1>1, <1>3 DEF Precedes
<1> QED BY <1>2, <1>3 DEF WalkTypeOK

\* The first n rows are different rows.
Different(rows, n) == \A i, j \in 1..n : i # j => rows[i] # rows[j]

\* The rows after the a-th, up to the b-th.
Between(rows, a, b) == {rows[i] : i \in (a + 1)..b}

\* A sequence without repetition holds as many rows as positions.
LEMMA Stretch ==
    ASSUME NEW n \in Nat, NEW rows, NEW a \in Nat, NEW b \in Nat, a <= b, b <= n,
           Different(rows, n)
    PROVE  IsFiniteSet(Between(rows, a, b)) /\ Cardinality(Between(rows, a, b)) = b - a
<1> DEFINE D == (a + 1)..b
           T == {rows[i] : i \in D}
           f == [i \in D |-> rows[i]]
<1>1. IsFiniteSet(D) /\ Cardinality(D) = b - a
  <2>1. PICK c \in Int : c = a + 1
    OBVIOUS
  <2>2. IsFiniteSet(c..b) /\ Cardinality(c..b) = IF c > b THEN 0 ELSE b - c + 1
    BY <2>1, FS_Interval
  <2>3. b - c + 1 = b - a /\ (c > b => b - a = 0)
    BY <2>1
  <2> QED BY <2>1, <2>2, <2>3
<1>2. D \subseteq 1..n
  OBVIOUS
<1>3. f \in [D -> T] /\ \A x \in D : f[x] = rows[x]
  OBVIOUS
<1>4. \A t \in T : \E x \in D : f[x] = t
  BY <1>3
<1>5. \A x, y \in D : f[x] = f[y] => x = y
  BY <1>2, <1>3 DEF Different
<1> HIDE DEF D, T, f
<1>6. f \in Surjection(D, T) /\ f \in Injection(D, T)
  BY <1>3, <1>4, <1>5 DEF Surjection, Injection, IsInjective
<1>7. IsFiniteSet(T) /\ Cardinality(T) = Cardinality(D)
  BY <1>1, <1>6, FS_Surjection
<1> QED BY <1>1, <1>7 DEF D, T, Between

\* An arrangement has every row of the list at one position.
LEMMA Arranged ==
    ASSUME WalkTypeOK, NEW rows \in Arrangements
    PROVE  /\ Cardinality(live) \in Nat /\ IsFiniteSet(live)
           /\ rows \in Seq(Rows) /\ rows \in [1..Cardinality(live) -> live]
           /\ Len(rows) = Cardinality(live)
           /\ Different(rows, Cardinality(live))
           /\ \A r \in live : \E i \in 1..Cardinality(live) : rows[i] = r
<1> DEFINE n == Cardinality(live)
<1>1. IsFiniteSet(live) /\ n \in Nat
  BY WalkAssumption, FS_Subset, FS_CardinalityType DEF WalkTypeOK
<1>2. rows \in SetToSeqs(live) /\ rows \in Seq(Rows)
  BY ArrangedRows DEF Arrangements, WalkTypeOK
<1>3. rows \in [1..n -> live] /\ Different(rows, n)
  BY <1>2 DEF SetToSeqs, Different
<1>4. Len(rows) = n
  BY <1>1, <1>2, <1>3
<1> HIDE DEF n
<1>5. rows \in Injection(1..n, live)
  BY <1>3 DEF Injection, IsInjective, Different
<1>6. Cardinality(1..n) = n
  BY <1>1, FS_Interval
<1>7. rows \in Surjection(1..n, live)
  <2>1. Cardinality(1..n) = Cardinality(live)
    BY <1>6 DEF n
  <2> QED BY <1>1, <1>5, <2>1, FS_Injection
<1>8. \A r \in live : \E i \in 1..n : rows[i] = r
  BY <1>7 DEF Surjection
<1> QED BY <1>1, <1>2, <1>3, <1>4, <1>8 DEF n

\* Without ties it is sorted by time, strictly.
LEMMA Increasing ==
    ASSUME WalkTypeOK, NoTies, NEW rows \in Arrangements,
           NEW i \in 1..Cardinality(live), NEW j \in 1..Cardinality(live)
    PROVE  /\ i < j => Precedes(created[rows[i]], created[rows[j]])
           /\ i <= j <=> ~Precedes(created[rows[j]], created[rows[i]])
<1> DEFINE n == Cardinality(live)
           time(k) == created[rows[k]]
<1>1. /\ n \in Nat /\ Len(rows) = n /\ rows \in [1..n -> live] /\ rows \in Seq(Rows)
      /\ Different(rows, n)
  BY Arranged
<1>2. Sorted(rows) /\ DOMAIN rows = 1..n
  BY <1>1 DEF Arrangements
<1>3. \A k \in 1..n : rows[k] \in live /\ rows[k] \in Rows /\ time(k) \in Times
  BY <1>1 DEF WalkTypeOK
<1>4. ASSUME NEW k \in 1..n, NEW l \in 1..n, k < l
      PROVE  Precedes(time(k), time(l))
  <2>1. ~Precedes(time(l), time(k))
    BY <1>2, <1>4 DEF Sorted
  <2>2. rows[k] # rows[l] /\ rows[k] \in Rows /\ rows[l] \in Rows /\ rows[k] \in live
    BY <1>1, <1>3, <1>4 DEF Different
  <2>3. time(k) # time(l)
    BY <2>2 DEF NoTies, WalkTypeOK
  <2> QED BY <1>3, <2>1, <2>3, TimesOrdered
<1>5. time(i) \in Times /\ time(j) \in Times
  BY <1>3
<1>6. CASE i < j
  BY <1>4, <1>5, <1>6, TimesOrdered
<1>7. CASE j < i
  BY <1>1, <1>4, <1>7
<1>8. CASE i = j
  BY <1>5, <1>8, TimesOrdered
<1> QED BY <1>1, <1>6, <1>7, <1>8

\* The rows up to a position are the rows up to its time; a row has the
\* position that the list gives it.
LEMMA Positions ==
    ASSUME WalkTypeOK, NoTies, NEW rows \in Arrangements, NEW k \in 1..Cardinality(live)
    PROVE  /\ Between(rows, 0, k) = UpTo(live, created[rows[k]])
           /\ Cardinality(UpTo(live, created[rows[k]])) = k
<1> DEFINE n == Cardinality(live)
<1>1. /\ n \in Nat /\ rows \in [1..n -> live]
      /\ Different(rows, n)
      /\ \A r \in live : \E i \in 1..n : rows[i] = r
  BY Arranged
<1>2. \A i \in 1..n : i <= k <=> ~Precedes(created[rows[k]], created[rows[i]])
  BY Increasing
<1> HIDE DEF n
<1>3. k \in 1..n
  BY DEF n
<1>4. {rows[i] : i \in 1..k} \subseteq UpTo(live, created[rows[k]])
  BY <1>1, <1>2, <1>3 DEF UpTo
<1>5. UpTo(live, created[rows[k]]) \subseteq {rows[i] : i \in 1..k}
  <2> SUFFICES ASSUME NEW r \in live, ~Precedes(created[rows[k]], created[r])
               PROVE  \E i \in 1..k : r = rows[i]
    BY DEF UpTo
  <2>1. PICK i \in 1..n : rows[i] = r
    BY <1>1
  <2>2. i \in 1..k
    BY <1>1, <1>2, <1>3, <2>1
  <2> QED BY <2>1, <2>2
<1>6. PICK a \in Nat : a = 0
  OBVIOUS
<1>7. k \in Nat /\ a <= k /\ k <= n /\ k - a = k
  BY <1>1, <1>3, <1>6
<1>8. Cardinality(Between(rows, a, k)) = k - a
  BY <1>1, <1>6, <1>7, Stretch
<1>9. Between(rows, 0, k) = {rows[i] : i \in 1..k}
  BY DEF Between
<1> QED BY <1>4, <1>5, <1>6, <1>7, <1>8, <1>9

\* A page s of at most so many rows, after so many others, cuts the list: the
\* rows before it end at the time of one of them, and so do they with the page;
\* a page that is not full ends the list.
Cut(before, s, size, offset) ==
    /\ before \subseteq live /\ Cardinality(before) <= offset
    /\ Range(s) \subseteq live /\ Cardinality(Range(s)) = Len(s) /\ Len(s) <= size
    /\ before \cap Range(s) = {}
    /\ before # {} => \E r \in before : before = UpTo(live, created[r])
    /\ s # <<>> => /\ Cardinality(before) = offset
                   /\ Last(s) \in Range(s)
                   /\ before \cup Range(s) = UpTo(live, created[Last(s)])
    /\ Len(s) < size => before \cup Range(s) = live

\* A page of any arrangement cuts the list.
LEMMA PageCuts ==
    ASSUME WalkTypeOK, NoTies, NEW rows \in Arrangements,
           NEW size \in Nat \ {0}, NEW offset \in Nat
    PROVE  \E before : Cut(before, Slice(rows, size, offset), size, offset)
<1> DEFINE n == Cardinality(live)
           s == Slice(rows, size, offset)
<1>1. /\ n \in Nat /\ IsFiniteSet(live) /\ rows \in Seq(Rows) /\ Len(rows) = n
      /\ rows \in [1..n -> live] /\ Different(rows, n)
      /\ \A r \in live : \E i \in 1..n : rows[i] = r
  BY Arranged
<1>2. ASSUME NEW k \in 1..n
      PROVE  /\ Between(rows, 0, k) = UpTo(live, created[rows[k]])
             /\ Cardinality(Between(rows, 0, k)) = k
             /\ rows[k] \in Between(rows, 0, k)
  <2>1. rows[k] \in Between(rows, 0, k)
    BY <1>1 DEF Between
  <2> QED BY <2>1, Positions
<1>3. Between(rows, 0, n) = live
  BY <1>1 DEF Between
<1>4. CASE n <= offset
  <2>1. s = <<>>
    <3>1. s = SubSeq(rows, offset + 1, n)
      BY <1>1, <1>4 DEF Slice
    <3> QED BY <1>1, <1>4, <3>1
  <2>2. Range(s) = {} /\ Len(s) = 0 /\ Cardinality(Range(s)) = 0
    BY <2>1, FS_EmptySet DEF Range
  <2>3. live # {} => \E r \in live : live = UpTo(live, created[r])
    <3> SUFFICES ASSUME live # {} PROVE \E r \in live : live = UpTo(live, created[r])
      OBVIOUS
    <3>1. n \in 1..n
      BY <1>1
    <3> QED BY <1>1, <1>2, <1>3, <3>1
  <2> HIDE DEF s
  <2>4. Cut(live, s, size, offset)
    BY <1>1, <1>4, <2>1, <2>2, <2>3 DEF Cut
  <2> QED BY <2>4 DEF s
<1>5. CASE offset < n
  <2> DEFINE before == Between(rows, 0, offset)
  <2>1. PICK b \in 1..n : /\ offset < b /\ b <= offset + size
                          /\ b < offset + size => b = n
                          /\ s = SubSeq(rows, offset + 1, b)
    <3>1. CASE offset + size < n
      BY <1>1, <1>5, <3>1 DEF Slice
    <3>2. CASE ~(offset + size < n)
      BY <1>1, <1>5, <3>2 DEF Slice
    <3> QED BY <3>1, <3>2
  <2> HIDE DEF s, n
  <2>2. /\ s \in Seq(Rows) /\ Len(s) = b - offset /\ Len(s) \in 1..size
        /\ \A i \in 1..Len(s) : s[i] = rows[offset + i]
    BY <1>1, <1>5, <2>1
  <2>3. Range(s) = Between(rows, offset, b)
    <3>1. DOMAIN s = 1..(b - offset)
      BY <2>2
    <3>2. ASSUME NEW i \in DOMAIN s PROVE s[i] \in Between(rows, offset, b)
      <4>1. i \in 1..Len(s) /\ offset + i \in (offset + 1)..b
        BY <2>1, <2>2, <3>1
      <4> QED BY <2>2, <4>1 DEF Between
    <3>3. ASSUME NEW i \in (offset + 1)..b PROVE rows[i] \in Range(s)
      <4>1. PICK k \in DOMAIN s : k \in 1..Len(s) /\ offset + k = i
        <5>1. i - offset \in DOMAIN s /\ i - offset \in 1..Len(s) /\ offset + (i - offset) = i
          BY <2>1, <2>2, <3>1
        <5> QED BY <5>1
      <4>2. s[k] = rows[i]
        BY <2>2, <4>1
      <4> QED BY <4>1, <4>2 DEF Range
    <3> QED BY <3>2, <3>3 DEF Range, Between
  <2>4. Cardinality(Range(s)) = Len(s)
    BY <1>1, <2>1, <2>2, <2>3, Stretch
  <2>5. Last(s) = rows[b] /\ Last(s) \in Range(s)
    <3>1. Last(s) = s[Len(s)] /\ Len(s) \in DOMAIN s /\ offset + Len(s) = b
      BY <2>1, <2>2 DEF Last
    <3> QED BY <2>2, <3>1 DEF Range
  <2>6. before \cup Range(s) = Between(rows, 0, b)
    <3>1. 1..b = (1..offset) \cup ((offset + 1)..b)
      BY <2>1
    <3> QED BY <2>3, <3>1 DEF Between
  <2>7. before \cap Range(s) = {}
    <3>1. \A i \in 1..offset, j \in (offset + 1)..b : i \in 1..n /\ j \in 1..n /\ i # j
      BY <1>1, <1>5, <2>1
    <3> QED BY <1>1, <2>3, <3>1 DEF Between, Different
  <2>8. /\ Cardinality(before) = offset
        /\ before # {} => \E r \in before : before = UpTo(live, created[r])
    <3>1. CASE offset = 0
      <4>1. before = {}
        BY <3>1 DEF Between
      <4> QED BY <3>1, <4>1, FS_EmptySet
    <3>2. CASE offset # 0
      <4>1. offset \in 1..n
        BY <1>1, <1>5, <3>2
      <4> QED BY <1>2, <4>1
    <3> QED BY <3>1, <3>2
  <2>9. before \cup Range(s) = UpTo(live, created[Last(s)])
    BY <1>2, <2>1, <2>5, <2>6
  <2>10. before \subseteq live /\ Range(s) \subseteq live
    BY <2>9 DEF UpTo
  <2>11. Len(s) < size => before \cup Range(s) = live
    <3>1. Len(s) < size => b = n
      <4>1. Len(s) < size => b < offset + size
        BY <2>2
      <4> QED BY <2>1, <4>1
    <3> QED BY <1>3, <2>6, <3>1
  <2> HIDE DEF before
  <2>12. Cut(before, s, size, offset)
    BY <2>2, <2>4, <2>5, <2>7, <2>8, <2>9, <2>10, <2>11 DEF Cut
  <2> QED BY <2>12 DEF s
<1> QED BY <1>1, <1>4, <1>5

-----------------------------------------------------------------------------
(* Rows that are given again.                                              *)

\* Sets of rows are finite.
LEMMA CountRows ==
    ASSUME NEW A \in SUBSET Rows, NEW B \in SUBSET Rows
    PROVE  /\ Cardinality(A) \in Nat /\ Cardinality(A \cap B) \in Nat
           /\ A \subseteq B => Cardinality(A) <= Cardinality(B)
           /\ Cardinality(A \cup B) = Cardinality(A) + Cardinality(B) - Cardinality(A \cap B)
           /\ Cardinality(A \ B) = Cardinality(A) - Cardinality(A \cap B)
<1>1. IsFiniteSet(A) /\ IsFiniteSet(B) /\ IsFiniteSet(A \cap B)
  BY WalkAssumption, FS_Subset, FS_Intersection
<1>2. Cardinality(A) \in Nat /\ Cardinality(A \cap B) \in Nat
  BY <1>1, FS_CardinalityType
<1>3. A \subseteq B => Cardinality(A) <= Cardinality(B)
  BY <1>1, FS_Subset
<1> QED BY <1>1, <1>2, <1>3, FS_Union, FS_Difference

\* Two sets apart from each other in a third are together no larger.
LEMMA CountApart ==
    ASSUME NEW A \in SUBSET Rows, NEW B \in SUBSET Rows, NEW C \in SUBSET Rows,
           A \subseteq C, B \subseteq C, A \cap B = {}
    PROVE  Cardinality(A) + Cardinality(B) <= Cardinality(C)
<1>1. /\ Cardinality(A \cup B) = Cardinality(A) + Cardinality(B) - Cardinality(A \cap B)
      /\ Cardinality(A) \in Nat /\ Cardinality(B) \in Nat /\ Cardinality(A \cap B) = 0
  BY CountRows, FS_EmptySet
<1>2. PICK D \in SUBSET Rows : D = A \cup B /\ D \subseteq C
  OBVIOUS
<1>3. Cardinality(D) <= Cardinality(C)
  BY <1>2, CountRows
<1> QED BY <1>1, <1>2, <1>3

\* The next page begins where the last one ended, or is refused: its offset
\* is an int32 that wrapped to a negative value.
LEMMA OffsetFollows ==
    ASSUME NEW number \in Nat \ {0}, NEW asking, asking = None \/ asking \in Int,
           Paginate(number, asking).offset >= 0, Paginate(number + 1, asking).offset >= 0
    PROVE  Paginate(number + 1, asking).offset
             = Paginate(number, asking).offset + EffectivePerPage(asking)
<1>1. PICK size \in 1..MaxPerPage : size = EffectivePerPage(asking)
  BY SizeInBounds
<1>2. /\ MaxInt \in Nat /\ MaxPerPage \in 1..MaxInt /\ number \in Int /\ number + 1 \in Int
      /\ number # None /\ number + 1 # None
  BY PagingAssumption
<1>3. EffectivePage(number) - 1 = number - 1 /\ EffectivePage(number + 1) - 1 = number
  BY <1>2 DEF EffectivePage
<1>4. PICK n \in Nat : n = (number - 1) * size
  <2>1. number - 1 \in Nat /\ size \in Nat
    BY <1>1, <1>2
  <2>2. (number - 1) * size \in Nat
    BY <2>1
  <2> QED BY <2>2
<1>5. number * size = n + size
  BY <1>1, <1>2, <1>4
<1>6. /\ Paginate(number, asking).offset = Wrapped(n)
      /\ Paginate(number + 1, asking).offset = Wrapped(n + size)
  BY <1>1, <1>3, <1>4, <1>5 DEF Paginate
<1>7. PICK q \in Nat \ {0} : q = 2 * MaxInt + 2
  BY <1>2
<1>8. PICK x \in Int : x = n + MaxInt + 1
  BY <1>2, <1>4
<1>9. size \in 0..(q - 1)
  BY <1>1, <1>2, <1>7
<1>10. PICK r \in 0..(q - 1) : r = x % q
  BY <1>7, <1>8, <1>9, RemainderOfSum
<1>11. PICK t : t = (IF r + size < q THEN r + size ELSE r + size - q)
  OBVIOUS
<1>12. (x + size) % q = t
  BY <1>7, <1>8, <1>9, <1>10, <1>11, RemainderOfSum
<1>13. Wrapped(n) = r - MaxInt - 1 /\ Wrapped(n + size) = t - MaxInt - 1
  <2>1. n + size + MaxInt + 1 = x + size
    BY <1>1, <1>2, <1>4, <1>8
  <2> QED BY <1>7, <1>8, <1>10, <1>12, <2>1 DEF Wrapped
<1>14. r \in 0..(q - 1)
  BY <1>10
<1>15. CASE r + size < q
  <2>1. t = r + size
    BY <1>11, <1>15
  <2>2. Wrapped(n + size) = Wrapped(n) + size
    BY <1>1, <1>2, <1>7, <1>13, <1>14, <2>1
  <2>3. EffectivePerPage(asking) = size
    BY <1>1
  <2> QED BY <1>6, <2>2, <2>3
<1>16. CASE ~(r + size < q)
  <2>1. t \in Int /\ t < MaxInt + 1
    BY <1>1, <1>2, <1>7, <1>11, <1>14, <1>16
  <2>2. Wrapped(n + size) \in Int /\ Wrapped(n + size) < 0
    BY <1>2, <1>13, <2>1
  <2> QED BY <1>6, <2>2
<1> QED BY <1>15, <1>16

\* The rows R have times.
Made(R) == \A r \in R : created[r] \in Times

\* So many rows of R were given again, and there are offset positions of the
\* list behind: at every time, what was given again and what was given of later
\* rows is bounded, or so it is together with the rows of the list up to then.
Bounded(R, repeats, offset, bound) ==
    \A t \in Times :
        \/ repeats + Cardinality(Past(R, t)) <= bound
        \/ repeats + Cardinality(Past(R, t)) + Cardinality(UpTo(live, t)) <= offset + bound

\* X holds the rows of R that come after all of the rows before the page s, and
\* those of the page.
Beyond(X, R, before, s) ==
    /\ R \cap Range(s) \subseteq X
    /\ \A t \in Times : (\A r \in before : ~Precedes(t, created[r])) => Past(R, t) \subseteq X

\* A page s follows the rows R that were given.  The rows of R that come after
\* all the rows before the page are as many as are given again at most.
LEMMA GivenBeyond ==
    ASSUME WalkTypeOK, NEW R \in SUBSET Rows, Made(R),
           NEW before, NEW s, NEW size, NEW offset \in Nat, Cut(before, s, size, offset),
           offset = 0 => R = {},
           NEW repeats \in Int, NEW bound \in Int, R = {} => repeats <= bound, s # <<>>,
           Bounded(R, repeats, offset, bound)
    PROVE  \E X \in SUBSET R : Beyond(X, R, before, s) /\ repeats + Cardinality(X) <= bound
<1>1. /\ before \subseteq live /\ Range(s) \subseteq live /\ before \cap Range(s) = {}
      /\ Cardinality(before) = offset
      /\ before # {} => \E r \in before : before = UpTo(live, created[r])
  BY DEF Cut
<1>2. \A r \in live : created[r] \in Times
  BY DEF WalkTypeOK
<1>3. CASE before = {}
  <2>1. R = {}
    BY <1>1, <1>3, FS_EmptySet
  <2>2. repeats + Cardinality(R) <= bound
    BY <2>1, FS_EmptySet
  <2>3. Beyond(R, R, before, s)
    BY DEF Beyond, Past
  <2> QED BY <2>2, <2>3
<1>4. CASE before # {}
  <2>1. PICK p \in before : before = UpTo(live, created[p])
    BY <1>1, <1>4
  <2>2. PICK t \in Times : t = created[p]
    BY <1>1, <1>2, <2>1
  <2>3. PICK X \in SUBSET R : X = Past(R, t)
    BY DEF Past
  <2>4. Cardinality(X) \in Nat
    BY <2>3, CountRows
  <2>5. repeats + Cardinality(X) <= bound
    <3>1. before = UpTo(live, t)
      BY <2>1, <2>2
    <3>2. \/ repeats + Cardinality(X) <= bound
          \/ repeats + Cardinality(X) + offset <= offset + bound
      BY <1>1, <2>2, <2>3, <3>1 DEF Bounded
    <3> QED BY <2>4, <3>2
  <2>6. R \cap Range(s) \subseteq X
    BY <1>1, <2>1, <2>2, <2>3 DEF Past, UpTo
  <2>7. ASSUME NEW u \in Times, ~Precedes(u, created[p])
        PROVE  Past(R, u) \subseteq X
    <3> SUFFICES ASSUME NEW r \in R, Precedes(u, created[r]) PROVE Precedes(t, created[r])
      BY <2>3 DEF Past
    <3>1. created[r] \in Times /\ ~Precedes(u, t)
      BY <2>2, <2>7 DEF Made
    <3> QED BY <2>2, <3>1, TimesOrdered
  <2>8. Beyond(X, R, before, s)
    BY <2>1, <2>6, <2>7 DEF Beyond
  <2> QED BY <2>5, <2>8
<1> QED BY <1>3, <1>4

\* What holds of the rows given again before the page holds after it.
LEMMA PageRepeats ==
    ASSUME WalkTypeOK, NEW R \in SUBSET Rows, Made(R),
           NEW before, NEW s, NEW size \in Nat, NEW offset \in Nat,
           Cut(before, s, size, offset), offset = 0 => R = {},
           NEW repeats \in Int, NEW bound \in Int, R = {} => repeats <= bound, s # <<>>,
           Bounded(R, repeats, offset, bound),
           NEW again, again = Cardinality(R \cap Range(s)), NEW t \in Times
    PROVE  /\ ~Precedes(t, created[Last(s)])
                => repeats + again + Cardinality(Past(R \cup Range(s), t)) <= bound
           /\ ~Precedes(created[Last(s)], t)
                => repeats + again + Cardinality(Past(R \cup Range(s), t))
                     + Cardinality(UpTo(live, t)) <= offset + size + bound
<1>1. PICK X \in SUBSET R : Beyond(X, R, before, s) /\ repeats + Cardinality(X) <= bound
  BY GivenBeyond
<1>2. PICK S \in SUBSET Rows : S = Range(s) /\ S \subseteq live
  BY DEF Cut, WalkTypeOK
<1>0. PICK I \in SUBSET Rows : I = R \cap S /\ I \subseteq X /\ again = Cardinality(I)
  BY <1>1, <1>2 DEF Beyond
<1>3. PICK last \in Times : last = created[Last(s)]
  BY DEF Cut, WalkTypeOK
<1>4. /\ before \in SUBSET Rows /\ before \subseteq live /\ before \cap S = {}
      /\ Cardinality(before) = offset /\ Cardinality(S) <= size
      /\ before # {} => \E r \in before : before = UpTo(live, created[r])
      /\ before \cup S = UpTo(live, last)
  BY <1>2, <1>3 DEF Cut, WalkTypeOK
<1>5. \A r \in live : created[r] \in Times /\ r \in Rows
  BY DEF WalkTypeOK
<1>6. PICK P \in SUBSET R : P = Past(R, t)
  BY DEF Past
<1>7. PICK U \in SUBSET Rows : U = UpTo(live, t)
  BY <1>5 DEF UpTo
<1>8. PICK A \in SUBSET S : A = Past(S, t)
  BY DEF Past
<1>9. PICK Q \in SUBSET Rows : Q = Past(R \cup S, t) /\ Q = P \cup A
  BY <1>2, <1>6, <1>8 DEF Past
<1>10. PICK x \in Nat, p \in Nat, u \in Nat, a \in Nat, q \in Nat, n \in Nat, m \in Nat :
           /\ x = Cardinality(X) /\ p = Cardinality(P) /\ u = Cardinality(U)
           /\ a = Cardinality(A) /\ q = Cardinality(Q) /\ n = Cardinality(S)
           /\ m = again
  <2>1. /\ X \in SUBSET Rows /\ P \in SUBSET Rows /\ U \in SUBSET Rows
        /\ A \in SUBSET Rows /\ Q \in SUBSET Rows /\ S \in SUBSET Rows /\ I \in SUBSET Rows
    OBVIOUS
  <2>2. \A B \in SUBSET Rows : Cardinality(B) \in Nat
    BY CountRows
  <2>3. /\ Cardinality(X) \in Nat /\ Cardinality(P) \in Nat /\ Cardinality(U) \in Nat
        /\ Cardinality(A) \in Nat /\ Cardinality(Q) \in Nat /\ Cardinality(S) \in Nat
        /\ again \in Nat
    BY <1>0, <2>1, <2>2
  <2> QED BY <2>3
<1>11. repeats + x <= bound /\ n <= size
  BY <1>1, <1>4, <1>10
<1>12. ASSUME ~Precedes(t, last) PROVE repeats + m + q <= bound
  <2>1. \A r \in before : ~Precedes(t, created[r])
    <3> SUFFICES ASSUME NEW r \in before PROVE ~Precedes(t, created[r])
      OBVIOUS
    <3>1. created[r] \in Times /\ ~Precedes(last, created[r])
      BY <1>4, <1>5 DEF UpTo
    <3> QED BY <1>3, <1>12, <3>1, TimesOrdered
  <2>2. P \subseteq X
    BY <1>1, <1>6, <2>1 DEF Beyond
  <2>3. A = {}
    <3> SUFFICES ASSUME NEW r \in S PROVE ~Precedes(t, created[r])
      BY <1>8 DEF Past
    <3>1. created[r] \in Times /\ ~Precedes(last, created[r])
      BY <1>2, <1>4, <1>5 DEF UpTo
    <3> QED BY <1>3, <1>12, <3>1, TimesOrdered
  <2>4. P \cap S = {}
    <3> SUFFICES ASSUME NEW r \in S, r \in P PROVE FALSE
      OBVIOUS
    <3>1. r \in A
      BY <1>6, <1>8 DEF Past
    <3> QED BY <2>3, <3>1
  <2>5. Q = P
    BY <1>9, <2>3
  <2>6. Cardinality(I) + Cardinality(P) <= Cardinality(X)
    BY <1>0, <2>2, <2>4, CountApart
  <2>7. m + q <= x
    BY <1>0, <1>10, <2>5, <2>6
  <2> QED BY <1>11, <2>7
<1>13. ASSUME ~Precedes(last, t)
       PROVE  repeats + m + q + u <= offset + size + bound
  <2>1. U \subseteq before \cup S
    <3> SUFFICES ASSUME NEW r \in live, ~Precedes(t, created[r])
                 PROVE  ~Precedes(last, created[r])
      BY <1>4, <1>7 DEF UpTo
    <3>1. created[r] \in Times
      BY <1>5
    <3> QED BY <1>3, <1>13, <3>1, TimesOrdered
  <2>2. U \cap A = {}
    BY <1>7, <1>8 DEF UpTo, Past
  <2>3. CASE \A r \in before : ~Precedes(t, created[r])
    <3>1. P \subseteq X
      BY <1>1, <1>6, <2>3 DEF Beyond
    <3>2. PICK B \in SUBSET Rows : B = P \ S
      OBVIOUS
    <3>3. PICK b \in Nat : b = Cardinality(B)
      BY CountRows
    <3>4. q = b + a
      <4>1. P \cap S \subseteq A
        BY <1>6, <1>8 DEF Past
      <4>2. Q = B \cup A /\ B \cap A = {}
        BY <1>9, <3>2, <4>1
      <4>3. Cardinality(B \cup A) = Cardinality(B) + Cardinality(A) - Cardinality(B \cap A)
        BY CountRows
      <4>4. Cardinality(B \cup A) = q /\ Cardinality(B \cap A) = 0
        BY <1>10, <4>2, FS_EmptySet
      <4>5. q = b + a - 0
        BY <1>10, <3>3, <4>3, <4>4
      <4> QED BY <4>5
    <3>5. u + a <= offset + size
      <4>1. PICK W \in SUBSET Rows : W = before \cup S
        BY <1>4
      <4>2. Cardinality(U) + Cardinality(A) <= Cardinality(W)
        BY <1>7, <1>8, <2>1, <2>2, <4>1, CountApart
      <4>3. Cardinality(W) = Cardinality(before) + Cardinality(S) - Cardinality(before \cap S)
        BY <1>4, <4>1, CountRows
      <4>4. Cardinality(before \cap S) = 0
        BY <1>4, FS_EmptySet
      <4>5. PICK w \in Nat : w = Cardinality(W)
        BY CountRows
      <4>6. u + a <= w
        BY <1>10, <4>2, <4>5
      <4>7. w = offset + n - 0
        BY <1>4, <1>10, <4>3, <4>4, <4>5
      <4> QED BY <1>11, <4>6, <4>7
    <3>6. m + b <= x
      <4>1. Cardinality(I) + Cardinality(B) <= Cardinality(X)
        BY <1>0, <3>1, <3>2, CountApart
      <4> QED BY <1>0, <1>10, <3>3, <4>1
    <3> QED BY <1>11, <3>4, <3>5, <3>6
  <2>4. CASE ~(\A r \in before : ~Precedes(t, created[r]))
    <3>1. PICK r \in before : Precedes(t, created[r])
      BY <2>4
    <3>2. A = S
      <4> SUFFICES ASSUME NEW y \in S PROVE Precedes(t, created[y])
        BY <1>8 DEF Past
      <4>1. PICK z \in before : before = UpTo(live, created[z])
        BY <1>4, <3>1
      <4>2. created[z] \in Times /\ created[y] \in Times /\ created[r] \in Times
        BY <1>2, <1>4, <1>5, <3>1, <4>1
      <4>3. ~Precedes(created[z], created[r]) /\ Precedes(created[z], created[y])
        BY <1>2, <1>4, <3>1, <4>1 DEF UpTo
      <4>4. ~Precedes(created[y], created[r])
        BY <4>2, <4>3, TimesOrdered
      <4> QED BY <3>1, <4>2, <4>4, TimesOrdered
    <3>3. U \subseteq before
      BY <2>1, <2>2, <3>2
    <3>4. u <= offset
      <4>1. Cardinality(U) <= Cardinality(before)
        BY <1>4, <3>3, CountRows
      <4> QED BY <1>4, <1>10, <4>1
    <3>5. I \subseteq P
      BY <1>0, <1>6, <1>8, <3>2 DEF Past
    <3>6. q = p + n - m
      <4>1. Cardinality(P \cup S) = Cardinality(P) + Cardinality(S) - Cardinality(P \cap S)
        BY CountRows
      <4>2. Q = P \cup S /\ P \cap S = I
        BY <1>0, <1>9, <3>2, <3>5
      <4> QED BY <1>0, <1>10, <4>1, <4>2
    <3>7. repeats + p <= bound \/ repeats + p + u <= offset + bound
      <4>1. \/ repeats + Cardinality(P) <= bound
            \/ repeats + Cardinality(P) + Cardinality(U) <= offset + bound
        BY <1>6, <1>7 DEF Bounded
      <4> QED BY <1>10, <4>1
    <3> QED BY <1>11, <3>4, <3>6, <3>7
  <2> QED BY <2>3, <2>4
<1> QED BY <1>2, <1>3, <1>7, <1>9, <1>10, <1>12, <1>13

-----------------------------------------------------------------------------
(* The rows the client was given.                                          *)

GivenRows == Range(Given)

\* What was given are rows, and nothing was where no page has a row.
LEMMA GivenType ==
    ASSUME WalkInv
    PROVE  /\ Given \in Seq(Rows) /\ Len(Given) \in Nat /\ GivenRows \in SUBSET Rows
           /\ got = <<>> => Given = <<>>
           /\ Given = <<>> <=> GivenRows = {}
           /\ Given = <<>> => Len(Given) = 0
           /\ Given # <<>> => Last(Given) \in GivenRows
<1>1. got \in Seq(Seq(Rows))
  BY DEF WalkInv
<1>2. PICK s \in Seq(Rows) : TRUE
  <2>1. <<>> \in Seq(Rows)
    OBVIOUS
  <2> QED BY <2>1
<1>3. PICK given \in Seq(Rows) : given = Given
  BY <1>1, <1>2, FlattenOfAppend DEF Given
<1>4. got = <<>> => Given = <<>>
  BY DEF Given, FlattenSeq
<1>5. Range(given) \in SUBSET Rows /\ (given = <<>> <=> Range(given) = {})
  <2>1. DOMAIN given = 1..Len(given) /\ \A i \in DOMAIN given : given[i] \in Rows
    BY <1>3
  <2>2. Range(given) \in SUBSET Rows
    BY <2>1 DEF Range
  <2>3. CASE given = <<>>
    BY <2>2, <2>3 DEF Range
  <2>4. CASE given # <<>>
    <3>1. 1 \in DOMAIN given
      BY <1>3, <2>1, <2>4
    <3> QED BY <2>2, <2>4, <3>1 DEF Range
  <2> QED BY <2>3, <2>4
<1>6. given # <<>> => Last(given) \in Range(given)
  BY <1>3 DEF Range, Last
<1>7. Len(given) \in Nat
  BY <1>3
<1> QED BY <1>3, <1>4, <1>5, <1>6, <1>7 DEF GivenRows

\* A page is put behind what was given before.
LEMMA GivenGrows ==
    ASSUME WalkInv, NEW s \in Seq(Rows), got' = Append(got, s)
    PROVE  /\ Given' \in Seq(Rows)
           /\ Given' = Given \o s
           /\ Len(Given') = Len(Given) + Len(s)
           /\ GivenRows' = GivenRows \cup Range(s)
           /\ s = <<>> => Given' = Given
           /\ s # <<>> => Given' # <<>> /\ Last(Given') = Last(s)
<1>1. PICK given \in Seq(Rows) : given = Given
  BY GivenType
<1>2. PICK more : more = Given'
  OBVIOUS
<1>3. more = given \o s
  <2>1. got \in Seq(Seq(Rows))
    BY DEF WalkInv
  <2> QED BY <1>1, <1>2, <2>1, FlattenOfAppend DEF Given
<1>4. /\ more \in Seq(Rows) /\ Len(more) = Len(given) + Len(s)
      /\ s = <<>> => more = given
      /\ s # <<>> => more # <<>> /\ Last(more) = Last(s)
  BY <1>1, <1>3 DEF Last
<1>5. Range(more) = Range(given) \cup Range(s)
  <2>1. /\ DOMAIN more = 1..(Len(given) + Len(s))
        /\ DOMAIN given = 1..Len(given) /\ DOMAIN s = 1..Len(s)
        /\ \A i \in 1..Len(given) : more[i] = given[i]
        /\ \A i \in 1..Len(s) : more[Len(given) + i] = s[i]
    BY <1>1, <1>3
  <2>2. Range(more) \subseteq Range(given) \cup Range(s)
    <3> SUFFICES ASSUME NEW i \in DOMAIN more
                 PROVE  more[i] \in Range(given) \cup Range(s)
      BY DEF Range
    <3>1. CASE i \in 1..Len(given)
      BY <2>1, <3>1 DEF Range
    <3>2. CASE i \notin 1..Len(given)
      <4>1. PICK k \in 1..Len(s) : i = Len(given) + k
        <5>1. i - Len(given) \in 1..Len(s) /\ i = Len(given) + (i - Len(given))
          BY <1>1, <2>1, <3>2
        <5> QED BY <5>1
      <4> QED BY <2>1, <4>1 DEF Range
    <3> QED BY <3>1, <3>2
  <2>3. Range(given) \subseteq Range(more)
    <3>1. 1..Len(given) \subseteq 1..(Len(given) + Len(s))
      BY <1>1
    <3> QED BY <2>1, <3>1 DEF Range
  <2>4. Range(s) \subseteq Range(more)
    <3> SUFFICES ASSUME NEW i \in 1..Len(s) PROVE s[i] \in Range(more)
      BY <2>1 DEF Range
    <3>1. PICK k \in 1..(Len(given) + Len(s)) : k = Len(given) + i
      BY <1>1
    <3>2. more[k] = s[i]
      BY <2>1, <3>1
    <3> QED BY <2>1, <3>1, <3>2 DEF Range
  <2> QED BY <2>2, <2>3, <2>4
<1> QED BY <1>1, <1>2, <1>3, <1>4, <1>5 DEF GivenRows

-----------------------------------------------------------------------------
(* Rows that are given again, along the walk.                              *)

Size    == EffectivePerPage(perPage)
Repeats == Len(Given) - Cardinality(GivenRows)

\* The positions of the list up to the end of the last page.
Behind == Paginate(first + Len(got) - 1, perPage).offset + Size

\* A time that is not before the end of what was given.
Ended(t) == Given = <<>> \/ ~Precedes(t, created[Last(Given)])

\* At the end, the rows given again and the rows given of later ones are paid
\* for by rows that entered; at a time inside, they and the rows of the list up
\* to it are no more than the positions behind and the rows that entered.
RepeatsAt(t) ==
    /\ Ended(t) => Repeats + Cardinality(Past(GivenRows, t)) <= entered
    /\ Covered(t) => Repeats + Cardinality(Past(GivenRows, t)) + Cardinality(UpTo(live, t))
                       <= Behind + entered

RepeatsInv ==
    /\ got # <<>> => Paginate(first + Len(got) - 1, perPage).offset \in Nat
    /\ NoTies => Made(GivenRows) /\ \A t \in Times : RepeatsAt(t)

\* What the statement of a page does.
LEMMA ListStep ==
    ASSUME WalkInv, List
    PROVE  /\ WalkTypeOK /\ page = first + Len(got) /\ page \in 1..MaxInt
           /\ first \in 1..MaxInt /\ Len(got) \in Nat
           /\ Size \in 1..MaxPerPage /\ Size \in Nat \ {0}
           /\ perPage = None \/ perPage \in Int
           /\ UNCHANGED <<order, created, live, first, page, perPage, stayed, entered, left>>
           /\ \/ got' = got /\ phase' = "failed" /\ Paginate(page, perPage).offset < 0
              \/ \E rows \in Arrangements :
                    /\ phase' = "counting"
                    /\ Paginate(page, perPage).offset \in Nat
                    /\ Slice(rows, Size, Paginate(page, perPage).offset) \in Seq(Rows)
                    /\ got' = Append(got, Slice(rows, Size, Paginate(page, perPage).offset))
<1>1. /\ WalkTypeOK /\ page = first + Len(got) /\ got \in Seq(Seq(Rows))
      /\ UNCHANGED <<order, created, live, first, page, perPage, stayed, entered, left>>
  BY DEF WalkInv, List, table, asked
<1>2. /\ Size \in 1..MaxPerPage /\ MaxPerPage \in Nat /\ MaxInt \in Nat
      /\ page \in 1..MaxInt /\ first \in 1..MaxInt
      /\ perPage = None \/ perPage \in Int
  BY <1>1, Sizes DEF Size
<1>3. Paginate(page, perPage).limit = Size /\ Paginate(page, perPage).offset \in Int
  <2>1. EffectivePage(page) \in Int
    BY <1>2 DEF EffectivePage
  <2>2. PICK n \in Int : n = (EffectivePage(page) - 1) * Size
    BY <1>2, <2>1
  <2>3. Paginate(page, perPage).offset = Wrapped(n)
    BY <2>2 DEF Paginate, Size
  <2>4. Wrapped(n) \in Int
    BY <1>2, <2>2 DEF Wrapped
  <2> QED BY <2>3, <2>4 DEF Paginate, Size
<1>4. ASSUME NEW rows \in Arrangements, NEW offset \in Nat
      PROVE  Slice(rows, Size, offset) \in Seq(Rows)
  <2>1. rows \in Seq(Rows) /\ Size \in Nat
    BY <1>1, <1>2, ArrangedRows DEF WalkTypeOK
  <2> QED BY <2>1, SliceOfRows
<1>5. \/ got' = got /\ phase' = "failed" /\ Paginate(page, perPage).offset < 0
      \/ \E rows \in Arrangements :
            /\ phase' = "counting" /\ Paginate(page, perPage).offset >= 0
            /\ got' = Append(got, Slice(rows, Size, Paginate(page, perPage).offset))
  BY <1>3 DEF List
<1>6. ASSUME NEW rows \in Arrangements, phase' = "counting", Paginate(page, perPage).offset >= 0,
             got' = Append(got, Slice(rows, Size, Paginate(page, perPage).offset))
      PROVE  /\ phase' = "counting"
             /\ Paginate(page, perPage).offset \in Nat
             /\ Slice(rows, Size, Paginate(page, perPage).offset) \in Seq(Rows)
             /\ got' = Append(got, Slice(rows, Size, Paginate(page, perPage).offset))
  <2>1. PICK offset \in Nat : offset = Paginate(page, perPage).offset
    BY <1>3, <1>6
  <2> QED BY <1>4, <1>6, <2>1
<1>7. \/ got' = got /\ phase' = "failed" /\ Paginate(page, perPage).offset < 0
      \/ \E rows \in Arrangements :
            /\ phase' = "counting"
            /\ Paginate(page, perPage).offset \in Nat
            /\ Slice(rows, Size, Paginate(page, perPage).offset) \in Seq(Rows)
            /\ got' = Append(got, Slice(rows, Size, Paginate(page, perPage).offset))
  BY <1>5, <1>6, Zenon
<1>8. Size \in Nat \ {0} /\ Len(got) \in Nat
  BY <1>1, <1>2
<1> QED BY <1>1, <1>2, <1>7, <1>8, Zenon

\* The invariant is about the list, what was given and what entered.
LEMMA RepeatsUnchanged ==
    ASSUME RepeatsInv, UNCHANGED <<order, created, live, first, perPage, got, entered>>
    PROVE  RepeatsInv'
BY DEF RepeatsInv, NoTies, Made, RepeatsAt, Repeats, GivenRows, Given, Behind, Size, Ended,
       Covered, Past, UpTo, Precedes

\* A page that follows keeps it.
LEMMA PageKeepsRepeats ==
    ASSUME WalkInv, RepeatsInv, List, NEW rows \in Arrangements, NEW offset \in Nat,
           offset = Paginate(page, perPage).offset, NEW s \in Seq(Rows),
           s = Slice(rows, Size, offset), got' = Append(got, s)
    PROVE  RepeatsInv'
<1>1. /\ WalkTypeOK /\ page = first + Len(got) /\ page \in 1..MaxInt
      /\ first \in 1..MaxInt /\ Len(got) \in Nat /\ Size \in Nat \ {0}
      /\ perPage = None \/ perPage \in Int
      /\ UNCHANGED <<order, created, live, first, page, perPage, stayed, entered, left>>
  BY ListStep
<1>2. MaxInt \in Nat /\ got \in Seq(Seq(Rows)) /\ entered \in Nat
  BY <1>1, PagingAssumption, WalkAssumption DEF WalkInv, WalkTypeOK
<1>3. /\ Len(Given') = Len(Given) + Len(s)
      /\ GivenRows' = GivenRows \cup Range(s)
      /\ s = <<>> => Given' = Given
      /\ s # <<>> => Given' # <<>> /\ Last(Given') = Last(s)
  BY GivenGrows
<1>4. first' + Len(got') - 1 = page
  BY <1>1, <1>2
<1>5. Behind' = offset + Size /\ Paginate(first' + Len(got') - 1, perPage').offset = offset
  BY <1>1, <1>4 DEF Behind, Size
<1>6. got # <<>> => offset = Behind
  <2> SUFFICES ASSUME got # <<>> PROVE offset = Behind
    OBVIOUS
  <2>0. Len(got) >= 1
    BY <1>2
  <2>1. PICK number \in Nat \ {0} : number = first + Len(got) - 1 /\ page = number + 1
    <3>1. first + Len(got) - 1 \in Nat \ {0} /\ page = (first + Len(got) - 1) + 1
      BY <1>1, <2>0
    <3> QED BY <3>1
  <2>2. Paginate(number, perPage).offset >= 0 /\ Paginate(number + 1, perPage).offset >= 0
    <3>1. Paginate(number, perPage).offset \in Nat
      BY <2>1 DEF RepeatsInv
    <3> QED BY <2>1, <3>1
  <2>3. Paginate(number + 1, perPage).offset
          = Paginate(number, perPage).offset + EffectivePerPage(perPage)
    BY <1>1, <2>1, <2>2, OffsetFollows
  <2> QED BY <2>1, <2>3 DEF Behind, Size
<1>7. got # <<>> => offset # 0
  <2> SUFFICES ASSUME got # <<>> PROVE offset # 0
    OBVIOUS
  <2>1. PICK n \in Nat : n = Paginate(first + Len(got) - 1, perPage).offset
    BY DEF RepeatsInv
  <2>2. offset = n + Size
    BY <1>6, <2>1 DEF Behind
  <2> QED BY <1>1, <2>1, <2>2
<1>8. ASSUME NoTies PROVE Made(GivenRows)' /\ \A t \in Times : RepeatsAt(t)'
  <2>1. Made(GivenRows) /\ \A t \in Times : RepeatsAt(t)
    BY <1>8 DEF RepeatsInv
  <2>2. PICK before : Cut(before, s, Size, offset)
    BY <1>1, <1>8, PageCuts
  <2>3. PICK R \in SUBSET Rows : R = GivenRows
    BY GivenType
  <2>4. PICK repeats \in Int : repeats = Repeats /\ (R = {} => repeats = 0)
    <3>1. Len(Given) \in Nat /\ Cardinality(R) \in Nat
      BY <2>3, GivenType, CountRows
    <3>2. R = {} => Len(Given) = 0 /\ Cardinality(R) = 0
      BY <2>3, GivenType, FS_EmptySet
    <3> QED BY <2>3, <3>1, <3>2 DEF Repeats
  <2>5. PICK again \in Nat : again = Cardinality(R \cap Range(s))
    <3>1. Range(s) \in SUBSET Rows
      BY <1>1, <2>2 DEF Cut, WalkTypeOK
    <3> QED BY <3>1, CountRows
  <2>6. Repeats' = repeats + again
    <3>1. PICK S \in SUBSET Rows : S = Range(s) /\ Cardinality(S) = Len(s)
      BY <1>1, <2>2 DEF Cut, WalkTypeOK
    <3>2. Cardinality(R \cup S) = Cardinality(R) + Cardinality(S) - Cardinality(R \cap S)
      BY CountRows
    <3>3. Cardinality(R) \in Nat /\ Cardinality(S) \in Nat /\ Len(Given) \in Nat
      BY CountRows, GivenType
    <3>4. Repeats' = Len(Given) + Len(s) - Cardinality(R \cup S)
      <4>1. PICK n, W : n = Len(Given') /\ W = GivenRows'
        OBVIOUS
      <4>2. Repeats' = n - Cardinality(W)
        BY <4>1 DEF Repeats
      <4>3. W = R \cup S
        BY <1>3, <2>3, <3>1, <4>1
      <4>4. n = Len(Given) + Len(s)
        BY <1>3, <4>1
      <4>5. Cardinality(W) = Cardinality(R \cup S) /\ Cardinality(W) \in Nat
        BY <4>3, CountRows
      <4>6. Len(s) \in Nat
        BY <3>1, <3>3
      <4> QED BY <3>3, <4>2, <4>4, <4>5, <4>6
    <3>5. repeats = Len(Given) - Cardinality(R)
      BY <2>3, <2>4 DEF Repeats
    <3>6. again = Cardinality(R \cap S)
      BY <2>5, <3>1
    <3>7. PICK a \in Nat, k \in Nat, n \in Nat :
             a = Cardinality(R) /\ k = Cardinality(S) /\ n = Len(Given)
      BY <3>3
    <3>8. Cardinality(R \cup S) = a + k - again
      BY <3>2, <3>6, <3>7
    <3>9. Repeats' = n + k - (a + k - again) /\ repeats = n - a
      BY <3>1, <3>4, <3>5, <3>7, <3>8
    <3>10. n + k - (a + k - again) = (n - a) + again
      <4>1. a \in Int /\ k \in Int /\ n \in Int /\ again \in Int
        BY <2>5, <3>7
      <4> QED BY ONLY <4>1
    <3> QED BY <3>9, <3>10
  <2>7. Made(R \cup Range(s)) /\ Made(R)
    BY <1>1, <2>1, <2>2, <2>3 DEF Cut, Made, WalkTypeOK
  <2>8. Made(GivenRows)'
    BY <1>1, <1>3, <2>3, <2>7 DEF Made
  <2>9. got = <<>> => R = {}
    BY <2>3, GivenType
  <2>10. Bounded(R, repeats, offset, entered)
    <3> SUFFICES ASSUME NEW t \in Times
                 PROVE  \/ repeats + Cardinality(Past(R, t)) <= entered
                        \/ repeats + Cardinality(Past(R, t)) + Cardinality(UpTo(live, t))
                             <= offset + entered
      BY DEF Bounded
    <3>1. RepeatsAt(t)
      BY <2>1
    <3>2. CASE Given = <<>>
      BY <2>3, <2>4, <3>1, <3>2 DEF RepeatsAt, Ended
    <3>3. CASE Given # <<>>
      <4>1. got # <<>> /\ Behind = offset
        BY <1>6, <3>3, GivenType
      <4>2. Ended(t) \/ Covered(t)
        <5>1. created[Last(Given)] \in Times
          BY <2>1, <3>3, GivenType DEF Made
        <5> QED BY <1>1, <3>3, <5>1, TimesOrdered DEF Ended, Covered
      <4> QED BY <2>3, <2>4, <3>1, <4>1, <4>2 DEF RepeatsAt
    <3> QED BY <3>2, <3>3
  <2>11. ASSUME NEW t \in Times, s = <<>> PROVE RepeatsAt(t)'
    <3>1. RepeatsAt(t)
      BY <2>1
    <3>2. /\ Ended(t)' = Ended(t) /\ Covered(t)' = Covered(t)
          /\ UpTo(live, t)' = UpTo(live, t) /\ entered' = entered
      BY <1>1, <1>3, <2>11 DEF Ended, Covered, UpTo, Precedes
    <3>3. Given' = Given /\ GivenRows' = GivenRows /\ Repeats' = Repeats
      BY <1>3, <2>11 DEF GivenRows, Repeats
    <3>4. Past(GivenRows, t)' = Past(GivenRows, t)
      BY <1>1, <3>3 DEF Past, Precedes
    <3>5. Covered(t) => Behind' = Behind + Size
      BY <1>5, <1>6, GivenType DEF Covered
    <3>6. Repeats \in Int /\ Cardinality(Past(GivenRows, t)) \in Nat
          /\ Cardinality(UpTo(live, t)) \in Nat
      <4>1. Past(GivenRows, t) \in SUBSET Rows /\ UpTo(live, t) \in SUBSET Rows
        BY <1>1, <2>3 DEF Past, UpTo, WalkTypeOK
      <4> QED BY <2>4, <4>1, CountRows
    <3>7. Covered(t) => Behind \in Int
      BY <1>6, GivenType DEF Covered
    <3>8. PICK k \in Int : k = Repeats + Cardinality(Past(GivenRows, t))
      BY <3>6
    <3>9. Repeats' + Cardinality(Past(GivenRows, t)') = k
      BY <3>3, <3>4, <3>8
    <3>10. Ended(t)' => k <= entered'
      BY <3>1, <3>2, <3>8 DEF RepeatsAt
    <3>11. ASSUME Covered(t)' PROVE k + Cardinality(UpTo(live, t)') <= Behind' + entered'
      <4>1. PICK u \in Nat, b \in Int, z \in Nat, e \in Int :
               u = Cardinality(UpTo(live, t)) /\ b = Behind /\ z = Size /\ e = entered
        BY <1>1, <1>2, <3>2, <3>6, <3>7, <3>11
      <4>2. k + u <= b + e
        BY <3>1, <3>2, <3>8, <3>11, <4>1 DEF RepeatsAt
      <4>3. Behind' = b + z /\ entered' = e /\ Cardinality(UpTo(live, t)') = u
        BY <3>2, <3>5, <3>11, <4>1
      <4>4. k + u <= b + z + e
        BY <4>2
      <4> QED BY <4>3, <4>4
    <3> QED BY <3>9, <3>10, <3>11 DEF RepeatsAt
  <2>12. ASSUME NEW t \in Times, s # <<>> PROVE RepeatsAt(t)'
    <3>1. PICK size \in Nat : size = Size
      BY <1>1
    <3>2. offset = 0 => R = {}
      BY <1>7, <2>9
    <3>3. /\ ~Precedes(t, created[Last(s)])
               => repeats + again + Cardinality(Past(R \cup Range(s), t)) <= entered
          /\ ~Precedes(created[Last(s)], t)
               => repeats + again + Cardinality(Past(R \cup Range(s), t))
                    + Cardinality(UpTo(live, t)) <= offset + size + entered
      <4>1. PICK bound \in Int : bound = entered
        BY <1>2
      <4>2. R = {} => repeats <= bound
        BY <1>2, <2>4, <4>1
      <4>3. Cut(before, s, size, offset) /\ Bounded(R, repeats, offset, bound)
        BY <2>2, <2>10, <3>1, <4>1
      <4>4. WalkTypeOK /\ Made(R) /\ (offset = 0 => R = {}) /\ again = Cardinality(R \cap Range(s))
        BY <1>1, <2>5, <2>7, <3>2
      <4>5. /\ ~Precedes(t, created[Last(s)])
                 => repeats + again + Cardinality(Past(R \cup Range(s), t)) <= bound
            /\ ~Precedes(created[Last(s)], t)
                 => repeats + again + Cardinality(Past(R \cup Range(s), t))
                      + Cardinality(UpTo(live, t)) <= offset + size + bound
        BY <2>12, <4>2, <4>3, <4>4, PageRepeats
      <4> QED BY <4>1, <4>5
    <3>4. /\ Ended(t)' => ~Precedes(t, created[Last(s)])
          /\ Covered(t)' => ~Precedes(created[Last(s)], t)
          /\ UpTo(live, t)' = UpTo(live, t) /\ entered' = entered
      BY <1>1, <1>3, <2>12 DEF Ended, Covered, UpTo, Precedes
    <3>5. Past(GivenRows, t)' = Past(R \cup Range(s), t)
      BY <1>1, <1>3, <2>3 DEF Past, Precedes
    <3> QED BY <1>5, <2>6, <3>1, <3>3, <3>4, <3>5 DEF RepeatsAt
  <2> QED BY <2>8, <2>11, <2>12
<1>9. NoTies' => NoTies
  BY <1>1 DEF NoTies
<1>10. got' # <<>> => (Paginate(first + Len(got) - 1, perPage).offset)' \in Nat
  BY <1>5
<1> QED BY <1>8, <1>9, <1>10 DEF RepeatsInv

\* The tallies are numbers.
LEMMA TallyTypes ==
    ASSUME WalkInv, RepeatsInv, NEW t
    PROVE  /\ Repeats \in Int /\ Cardinality(Past(GivenRows, t)) \in Nat /\ entered \in Nat
           /\ Covered(t) => Behind \in Int
<1>1. Past(GivenRows, t) \in SUBSET Rows
  BY GivenType DEF Past
<1>2. Cardinality(Past(GivenRows, t)) \in Nat
  BY <1>1, CountRows
<1>3. Cardinality(GivenRows) \in Nat /\ Len(Given) \in Nat
  BY GivenType, CountRows
<1>4. Repeats \in Int
  BY <1>3 DEF Repeats
<1>5. WalkTypeOK
  BY DEF WalkInv
<1>6. entered \in Nat /\ Size \in Int
  BY <1>5, WalkAssumption, Sizes DEF WalkTypeOK, Size
<1>7. Covered(t) => Paginate(first + Len(got) - 1, perPage).offset \in Nat
  BY GivenType DEF Covered, RepeatsInv
<1>8. Covered(t) => Behind \in Int
  BY <1>6, <1>7 DEF Behind
<1> QED BY <1>2, <1>4, <1>6, <1>8

\* A row that enters changes no row that has a time.
LEMMA EnterStep ==
    ASSUME WalkInv, NEW r \in Rows, Enter(r)
    PROVE  /\ WalkTypeOK /\ r \notin live /\ live' = live \cup {r}
           /\ UNCHANGED <<order, first, page, perPage, phase, got, stayed, left>>
           /\ \A q \in Rows : created[q] # None => created'[q] = created[q]
           /\ NoTies' => NoTies
           /\ \E t \in Times : created'[r] = t /\ entered' = Counted(entered, t)
<1>1. WalkTypeOK /\ created \in [Rows -> Times \cup {None}]
  BY DEF WalkInv, WalkTypeOK
<1>2. PICK t \in Times : /\ created' = [created EXCEPT ![r] = t]
                         /\ entered' = Counted(entered, t)
                         /\ created[r] = None \/ created[r] = t
  BY <1>1 DEF Enter
<1>3. /\ \A q \in Rows : created[q] # None => created'[q] = created[q]
      /\ created'[r] = t
  BY <1>1, <1>2
<1>4. NoTies' => NoTies
  BY <1>3 DEF NoTies
<1>5. /\ r \notin live /\ live' = live \cup {r}
      /\ UNCHANGED <<order, first, page, perPage, phase, got, stayed, left>>
  BY DEF Enter, asked
<1> QED BY <1>1, <1>2, <1>3, <1>4, <1>5

\* A tally that stays as it is holds when the rows up to its time do not grow
\* by more than those that entered are counted.
LEMMA TallyKept ==
    ASSUME WalkInv, RepeatsInv, NEW t, RepeatsAt(t), Ended(t)' = Ended(t), Covered(t)' = Covered(t),
           Repeats' = Repeats, Past(GivenRows, t)' = Past(GivenRows, t), Behind' = Behind,
           NEW u \in Int, NEW v \in Int, NEW e \in Int, NEW f \in Int,
           u = Cardinality(UpTo(live, t)), v = Cardinality(UpTo(live, t)'),
           e = entered, f = entered', e <= f, Covered(t) => v + e <= u + f
    PROVE  RepeatsAt(t)'
<1>1. PICK k \in Int : k = Repeats + Cardinality(Past(GivenRows, t))
  BY TallyTypes
<1>2. Repeats' + Cardinality(Past(GivenRows, t)') = k
  BY <1>1
<1>3. Ended(t)' => k <= entered'
  <2> SUFFICES ASSUME Ended(t) PROVE k <= f
    OBVIOUS
  <2>1. k <= e
    BY <1>1 DEF RepeatsAt
  <2> QED BY <2>1
<1>4. ASSUME Covered(t)' PROVE k + Cardinality(UpTo(live, t)') <= Behind' + entered'
  <2>1. PICK b \in Int : b = Behind
    BY <1>4, TallyTypes
  <2>2. k + u <= b + e
    BY <1>1, <1>4, <2>1 DEF RepeatsAt
  <2>3. k + v <= b + f
    BY <1>4, <2>2
  <2> QED BY <2>1, <2>3
<1> QED BY <1>2, <1>3, <1>4 DEF RepeatsAt

\* A row that enters at or before the end is counted, a later one is not behind.
LEMMA EnterKeepsRepeats ==
    ASSUME WalkInv, RepeatsInv, NEW r \in Rows, Enter(r)
    PROVE  RepeatsInv'
<1>1. /\ WalkTypeOK /\ r \notin live /\ live' = live \cup {r}
      /\ UNCHANGED <<order, first, page, perPage, phase, got, stayed, left>>
      /\ \A q \in Rows : created[q] # None => created'[q] = created[q]
      /\ NoTies' => NoTies
  BY EnterStep
<1>2. PICK time \in Times : created'[r] = time /\ entered' = Counted(entered, time)
  BY EnterStep
<1>3. /\ Given' = Given /\ GivenRows' = GivenRows /\ Repeats' = Repeats /\ Behind' = Behind
      /\ (Paginate(first + Len(got) - 1, perPage).offset)' = Paginate(first + Len(got) - 1, perPage).offset
  BY <1>1 DEF Given, GivenRows, Repeats, Behind, Size
<1>4. ASSUME NoTies PROVE Made(GivenRows)' /\ \A t \in Times : RepeatsAt(t)'
  <2>1. Made(GivenRows) /\ \A t \in Times : RepeatsAt(t)
    BY <1>4 DEF RepeatsInv
  <2>2. \A q \in GivenRows : q \in Rows /\ created[q] \in Times /\ created'[q] = created[q]
    BY <1>1, <2>1, GivenType, WalkAssumption DEF Made
  <2>3. Made(GivenRows)'
    BY <1>3, <2>2 DEF Made
  <2>4. ASSUME NEW t \in Times PROVE RepeatsAt(t)'
    <3>1. RepeatsAt(t)
      BY <2>1
    <3>2. Ended(t)' = Ended(t) /\ Covered(t)' = Covered(t)
      BY <1>1, <1>3, <2>2, GivenType DEF Ended, Covered, Precedes
    <3>3. Past(GivenRows, t)' = Past(GivenRows, t)
      BY <1>1, <1>3, <2>2 DEF Past, Precedes
    <3>4. PICK U \in SUBSET Rows : U = UpTo(live, t)
      BY <1>1 DEF UpTo, WalkTypeOK
    <3>5. PICK V \in SUBSET Rows : V = UpTo(live, t)'
      BY <1>1 DEF UpTo, WalkTypeOK
    <3>6. \A q \in live : created'[q] = created[q]
      BY <1>1 DEF WalkTypeOK
    <3>7. V = U \/ (~Precedes(t, time) /\ V = U \cup {r})
      BY <1>1, <1>2, <3>4, <3>5, <3>6 DEF UpTo, Precedes
    <3>8. /\ Cardinality(U) \in Nat /\ Cardinality(V) \in Nat
          /\ V = U \cup {r} => Cardinality(V) <= Cardinality(U) + 1
      <4>1. IsFiniteSet(U)
        BY WalkAssumption, FS_Subset
      <4>2. Cardinality(U \cup {r})
              = IF r \in U THEN Cardinality(U) ELSE Cardinality(U) + 1
        BY <4>1, FS_AddElement
      <4>3. V = U \cup {r} => Cardinality(V) = Cardinality(U \cup {r})
        OBVIOUS
      <4>4. Cardinality(U) \in Nat /\ Cardinality(V) \in Nat
        BY CountRows
      <4> QED BY <4>2, <4>3, <4>4
    <3>9. /\ Repeats \in Int /\ Cardinality(Past(GivenRows, t)) \in Nat /\ entered \in Nat
          /\ Covered(t) => Behind \in Int
      BY TallyTypes
    <3>10. CASE Covered(time)
      <4>1. entered' = entered + 1
        BY <1>2, <3>10 DEF Counted
      <4>2. Cardinality(V) <= Cardinality(U) + 1
        BY <3>7, <3>8
      <4>3. PICK u \in Nat, v \in Nat, e \in Nat :
               u = Cardinality(U) /\ v = Cardinality(V) /\ e = entered
        BY <3>8, <3>9
      <4>4. v + e <= u + (e + 1) /\ e <= e + 1
        BY <4>2, <4>3
      <4>5. e + 1 \in Int /\ e + 1 = entered'
        BY <4>1, <4>3
      <4> QED BY <1>3, <3>1, <3>2, <3>3, <3>4, <3>5, <4>3, <4>4, <4>5, TallyKept
    <3>11. CASE ~Covered(time)
      <4>1. entered' = entered
        BY <1>2, <3>11 DEF Counted
      <4>2. Covered(t) => V = U
        <5> SUFFICES ASSUME Covered(t) PROVE Precedes(t, time)
          BY <3>7
        <5>1. /\ Precedes(created[Last(Given)], time)
              /\ ~Precedes(created[Last(Given)], t)
          BY <3>11 DEF Covered
        <5>2. created[Last(Given)] \in Times
          BY <2>2, GivenType DEF Covered
        <5> QED BY <1>1, <5>1, <5>2, TimesOrdered
      <4>3. PICK u \in Nat, v \in Nat, e \in Nat :
               u = Cardinality(U) /\ v = Cardinality(V) /\ e = entered
        BY <3>8, <3>9
      <4>4. e <= e /\ (Covered(t) => v + e <= u + e)
        BY <4>2, <4>3
      <4>5. e = entered'
        BY <4>1, <4>3
      <4> QED BY <1>3, <3>1, <3>2, <3>3, <3>4, <3>5, <4>3, <4>4, <4>5, TallyKept
    <3> QED BY <3>10, <3>11
  <2> QED BY <2>3, <2>4
<1> QED BY <1>1, <1>3, <1>4 DEF RepeatsInv

\* A row that leaves only makes the list smaller.
LEMMA LeaveKeepsRepeats ==
    ASSUME WalkInv, RepeatsInv, NEW r \in Rows, Leave(r)
    PROVE  RepeatsInv'
<1>1. /\ WalkTypeOK /\ live' = live \ {r}
      /\ UNCHANGED <<order, created, first, page, perPage, phase, got, entered>>
  BY DEF Leave, WalkInv, asked
<1>2. /\ Given' = Given /\ GivenRows' = GivenRows /\ Repeats' = Repeats /\ Behind' = Behind
      /\ (Paginate(first + Len(got) - 1, perPage).offset)' = Paginate(first + Len(got) - 1, perPage).offset
      /\ NoTies' = NoTies /\ Made(GivenRows)' = Made(GivenRows)
  BY <1>1 DEF Given, GivenRows, Repeats, Behind, Size, NoTies, Made
<1>3. ASSUME NEW t \in Times, RepeatsAt(t) PROVE RepeatsAt(t)'
  <2>1. /\ Ended(t)' = Ended(t) /\ Covered(t)' = Covered(t)
        /\ Past(GivenRows, t)' = Past(GivenRows, t)
    BY <1>1, <1>2 DEF Ended, Covered, Past, Precedes
  <2>2. PICK U \in SUBSET Rows, V \in SUBSET Rows : U = UpTo(live, t) /\ V = UpTo(live, t)'
    BY <1>1 DEF UpTo, WalkTypeOK
  <2>3. V \subseteq U
    BY <1>1, <2>2 DEF UpTo, Precedes
  <2>4. Cardinality(V) <= Cardinality(U) /\ Cardinality(U) \in Nat /\ Cardinality(V) \in Nat
    BY <2>3, CountRows
  <2>5. /\ Repeats \in Int /\ Cardinality(Past(GivenRows, t)) \in Nat /\ entered \in Nat
        /\ Covered(t) => Behind \in Int
    BY TallyTypes
  <2>6. PICK u \in Nat, v \in Nat, e \in Nat :
           u = Cardinality(U) /\ v = Cardinality(V) /\ e = entered
    BY <2>4, <2>5
  <2>7. v + e <= u + e /\ e <= e /\ e = entered'
    BY <1>1, <2>4, <2>6
  <2> QED BY <1>2, <1>3, <2>1, <2>2, <2>6, <2>7, TallyKept
<1> QED BY <1>1, <1>2, <1>3 DEF RepeatsInv

LEMMA RepeatsInvHolds == Spec => []RepeatsInv
<1>1. Init => RepeatsInv
  <2> SUFFICES ASSUME Init PROVE RepeatsInv
    OBVIOUS
  <2>1. Given = <<>> /\ GivenRows = {} /\ Repeats = 0 /\ got = <<>> /\ entered = 0
    <3>1. Given = <<>> /\ got = <<>> /\ entered = 0
      BY DEF Init, Given, FlattenSeq
    <3>2. GivenRows = {} /\ Len(Given) = 0
      BY <3>1 DEF GivenRows, Range
    <3> QED BY <3>1, <3>2, FS_EmptySet DEF Repeats
  <2>2. \A t : Past(GivenRows, t) = {}
    BY <2>1 DEF Past
  <2>3. \A t : RepeatsAt(t)
    BY <2>1, <2>2, FS_EmptySet DEF RepeatsAt, Covered
  <2> QED BY <2>1, <2>3 DEF RepeatsInv, Made
<1>2. WalkInv /\ RepeatsInv /\ [Next]_vars => RepeatsInv'
  <2> SUFFICES ASSUME WalkInv, RepeatsInv, [Next]_vars PROVE RepeatsInv'
    OBVIOUS
  <2>1. CASE List
    <3>1. CASE got' = got
      BY <2>1, <3>1, ListStep, RepeatsUnchanged
    <3>2. CASE got' # got
      <4>1. PICK rows \in Arrangements :
               /\ Paginate(page, perPage).offset \in Nat
               /\ Slice(rows, Size, Paginate(page, perPage).offset) \in Seq(Rows)
               /\ got' = Append(got, Slice(rows, Size, Paginate(page, perPage).offset))
        BY <2>1, <3>2, ListStep
      <4>2. PICK offset \in Nat : offset = Paginate(page, perPage).offset
        BY <4>1
      <4>3. PICK s \in Seq(Rows) : s = Slice(rows, Size, offset)
        BY <4>1, <4>2
      <4>4. got' = Append(got, s)
        BY <4>1, <4>2, <4>3
      <4> QED BY <2>1, <4>1, <4>2, <4>3, <4>4, PageKeepsRepeats
    <3> QED BY <3>1, <3>2
  <2>2. CASE Count
    BY <2>2, RepeatsUnchanged DEF Count, table, asked
  <2>3. CASE UNCHANGED vars
    BY <2>3, RepeatsUnchanged DEF vars, table, asked
  <2> QED BY <2>1, <2>2, <2>3, EnterKeepsRepeats, LeaveKeepsRepeats DEF Next
<1> QED BY <1>1, <1>2, WalkInvHolds, PTL DEF Spec

\* query.sql.go:486: the pages are read with OFFSET, in a list that changes.
\* Without ties no more rows are given again than entered before the end of what
\* was given, whatever page the client began with.
THEOREM RepeatsBounded == Spec => []RepeatsAreBounded
<1>1. WalkInv /\ RepeatsInv => RepeatsAreBounded
  <2> SUFFICES ASSUME WalkInv, RepeatsInv, NoTies PROVE Repeats <= entered
    BY DEF RepeatsAreBounded, Repeats, GivenRows, Range
  <2>1. WalkTypeOK /\ entered \in Nat
    BY WalkAssumption DEF WalkInv, WalkTypeOK
  <2>2. Made(GivenRows) /\ \A t \in Times : RepeatsAt(t)
    BY DEF RepeatsInv
  <2>3. Repeats \in Int
    <3>1. Cardinality(GivenRows) \in Nat /\ Len(Given) \in Nat
      BY GivenType, CountRows
    <3> QED BY <3>1 DEF Repeats
  <2>4. CASE Given = <<>>
    <3>1. Len(Given) = 0 /\ Cardinality(GivenRows) = 0
      BY <2>4, GivenType, FS_EmptySet
    <3> QED BY <2>1, <3>1 DEF Repeats
  <2>5. CASE Given # <<>>
    <3>1. PICK t \in Times : t = created[Last(Given)]
      BY <2>2, <2>5, GivenType DEF Made
    <3>2. Ended(t)
      BY <2>1, <3>1, TimesOrdered DEF Ended
    <3>3. Cardinality(Past(GivenRows, t)) \in Nat
      <4>1. Past(GivenRows, t) \in SUBSET Rows
        BY GivenType DEF Past
      <4> QED BY <4>1, CountRows
    <3>4. Repeats + Cardinality(Past(GivenRows, t)) <= entered
      BY <2>2, <3>2 DEF RepeatsAt
    <3> QED BY <2>1, <2>3, <3>3, <3>4
  <2> QED BY <2>4, <2>5
<1> QED BY <1>1, WalkInvHolds, RepeatsInvHolds, PTL

-----------------------------------------------------------------------------
(* A walk from the first page.  There are no more rows than an int32 counts *)
(* pages: the client stops at page MaxInt, and rows beyond are not read.   *)

Countable == Cardinality(Rows) <= MaxInt

\* The positions of the list that a walk from the first page has behind it.
Asked == Len(got) * Size

\* The offset of the page it asks for is an int32.
OffsetInv == first = 1 => (page - 1) * Size <= MaxInt

\* The list has no more rows than an int32 counts.
LEMMA LiveCountable ==
    ASSUME Countable, WalkTypeOK
    PROVE  Cardinality(live) \in Nat /\ Cardinality(live) <= MaxInt
<1>1. Cardinality(live) \in Nat /\ Cardinality(live) <= Cardinality(Rows) /\ Cardinality(Rows) \in Nat
  BY CountRows DEF WalkTypeOK
<1> QED BY <1>1, PagingAssumption DEF Countable

\* A client that is done has the whole list behind it.
LEMMA CountStep ==
    ASSUME Countable, WalkInv, Count, first = 1
    PROVE  /\ WalkTypeOK
           /\ UNCHANGED <<order, created, live, first, perPage, got, stayed, entered, left>>
           /\ page = Len(got) /\ Asked = page * Size /\ Asked \in Nat
           /\ \/ phase' = "asking" /\ page' = page + 1 /\ Asked < Cardinality(live)
              \/ phase' = "done" /\ page' = page /\ Cardinality(live) <= Asked
<1>1. /\ WalkTypeOK /\ page = first + Len(got) - 1 /\ got \in Seq(Seq(Rows))
      /\ UNCHANGED <<order, created, live, first, perPage, got, stayed, entered, left>>
  BY DEF WalkInv, Count, table, asked
<1>2. /\ Size \in 1..MaxPerPage /\ MaxPerPage \in Nat /\ MaxInt \in Nat /\ page \in 1..MaxInt
  BY <1>1, Sizes DEF Size
<1>3. page = Len(got)
  BY <1>1
<1>4. PICK n \in Nat : n = page * Size /\ n >= page
  <2>1. page * Size \in Nat /\ page * Size >= page
    BY <1>2
  <2> QED BY <2>1
<1>5. Asked = n
  BY <1>3, <1>4 DEF Asked
<1>6. \/ phase' = "asking" /\ page' = page + 1 /\ n < Cardinality(live)
      \/ phase' = "done" /\ page' = page /\ ~(n < Cardinality(live) /\ page < MaxInt)
  BY <1>4 DEF Count, Size
<1>7. ~(n < Cardinality(live) /\ page < MaxInt) => Cardinality(live) <= n
  BY <1>1, <1>2, <1>4, LiveCountable
<1> QED BY <1>1, <1>3, <1>4, <1>5, <1>6, <1>7

\* In a walk from the first page no page is refused, and each begins where the
\* pages before it end.
LEMMA ListFromStart ==
    ASSUME WalkInv, OffsetInv, List, first = 1
    PROVE  \E rows \in Arrangements, s \in Seq(Rows) :
              /\ Asked \in Nat /\ s = Slice(rows, Size, Asked)
              /\ got' = Append(got, s) /\ phase' = "counting" /\ Asked' = Asked + Size
<1>1. /\ WalkTypeOK /\ page = first + Len(got) /\ page \in 1..MaxInt /\ Len(got) \in Nat
      /\ Size \in Nat \ {0}
      /\ perPage = None \/ perPage \in Int
      /\ UNCHANGED <<first, perPage>>
  BY ListStep
<1>2. (page - 1) * EffectivePerPage(perPage) <= MaxInt
  BY DEF OffsetInv, Size
<1>3. Paginate(page, perPage).offset = (page - 1) * EffectivePerPage(perPage)
  BY <1>1, <1>2, OffsetIsExact
<1>4. PICK n \in Nat : n = Len(got) * Size
  <2>1. Len(got) * Size \in Nat
    BY <1>1
  <2> QED BY <2>1
<1>5. Paginate(page, perPage).offset = n
  <2>1. page - 1 = Len(got)
    BY <1>1
  <2> QED BY <1>3, <1>4, <2>1 DEF Size
<1>6. PICK rows \in Arrangements :
         /\ phase' = "counting"
         /\ Slice(rows, Size, n) \in Seq(Rows)
         /\ got' = Append(got, Slice(rows, Size, n))
  BY <1>5, ListStep
<1>7. PICK s \in Seq(Rows) : s = Slice(rows, Size, n)
  BY <1>6
<1>8. got' = Append(got, s) /\ phase' = "counting"
  BY <1>6, <1>7
<1>9. Asked' = n + Size
  <2>1. got \in Seq(Seq(Rows))
    BY DEF WalkInv
  <2>2. Len(got') = Len(got) + 1
    BY <1>8, <2>1
  <2>3. (Len(got) + 1) * Size = n + Size
    BY <1>1, <1>4
  <2>4. Size' = Size
    BY <1>1 DEF Size
  <2> QED BY <2>2, <2>3, <2>4 DEF Asked
<1> QED BY <1>4, <1>7, <1>8, <1>9 DEF Asked

\* The client asks for a further page only while there are rows beyond.
LEMMA OffsetInvHolds ==
    ASSUME Countable
    PROVE  Spec => []OffsetInv
<1>1. Init => OffsetInv
  <2> SUFFICES ASSUME Init, first = 1 PROVE (page - 1) * Size <= MaxInt
    BY DEF OffsetInv
  <2>1. perPage = None \/ perPage \in Int
    BY WalkAssumption, PagingAssumption DEF Init
  <2>2. Size \in Nat
    BY <2>1, SizeInBounds, PagingAssumption DEF Size
  <2> QED BY <2>2, PagingAssumption DEF Init
<1>2. WalkInv /\ OffsetInv /\ [Next]_vars => OffsetInv'
  <2> SUFFICES ASSUME WalkInv, OffsetInv, [Next]_vars, first' = 1
               PROVE  (page' - 1) * Size' <= MaxInt
    BY DEF OffsetInv
  <2>1. first' = first /\ Size' = Size
    BY DEF Next, List, Count, Enter, Leave, vars, asked, Size
  <2>2. CASE page' = page
    BY <2>1, <2>2 DEF OffsetInv
  <2>3. CASE Count
    <3>1. /\ WalkTypeOK /\ page = Len(got) /\ Asked = page * Size /\ Asked \in Nat
          /\ page' = page \/ (page' = page + 1 /\ Asked < Cardinality(live))
      BY <2>1, <2>3, CountStep
    <3>2. page' = page + 1 => (page' - 1) * Size' = Asked
      <4>1. page \in Nat
        BY <3>1, Sizes
      <4>2. page' = page + 1 => page' - 1 = page
        BY <4>1
      <4> QED BY <2>1, <3>1, <4>2
    <3> QED BY <2>2, <3>1, <3>2, LiveCountable, PagingAssumption
  <2> QED BY <2>2, <2>3 DEF Next, List, Enter, Leave, vars, asked
<1> QED BY <1>1, <1>2, WalkInvHolds, PTL DEF Spec

-----------------------------------------------------------------------------
(* Rows that are missed.                                                   *)

\* The rows of the list before, or at, the end of what the client was given,
\* and those of them that stayed all the time and were not given.
CoveredRows == {r \in live : Covered(created[r])}
Missed      == (stayed \cap CoveredRows) \ GivenRows

\* Of the rows that stayed no more are missed than left.
Settled == Cardinality(stayed \ GivenRows) <= left

\* So it is for the rows missed so far, with the positions by which the client
\* is ahead of the list.
Pending ==
    /\ Cardinality(Missed) <= left
    /\ Cardinality(Missed) + Asked <= left + Cardinality(CoveredRows)

MissesInv == first = 1 /\ NoTies => Settled \/ (phase # "done" /\ Pending)

\* The rows B are the first ones of the list.
Lower(B) ==
    /\ B \subseteq live
    /\ \A r \in B, q \in live \ B : Precedes(created[r], created[q])

\* The rows up to a time are first ones, and so are those covered.
LEMMA LowerSets ==
    ASSUME WalkTypeOK
    PROVE  /\ Lower({}) /\ Lower(live)
           /\ \A t \in Times : Lower(UpTo(live, t))
           /\ (\A r \in GivenRows : created[r] \in Times) /\ (Given # <<>> => Last(Given) \in GivenRows)
                => Lower(CoveredRows)
<1>1. \A r \in live : created[r] \in Times
  BY DEF WalkTypeOK
<1>2. Lower({}) /\ Lower(live)
  BY DEF Lower
<1>3. ASSUME NEW t \in Times PROVE Lower(UpTo(live, t))
  <2> SUFFICES ASSUME NEW r \in live, ~Precedes(t, created[r]),
                      NEW q \in live, Precedes(t, created[q])
               PROVE  Precedes(created[r], created[q])
    BY DEF Lower, UpTo
  <2> QED BY <1>1, TimesOrdered
<1>4. ASSUME \A r \in GivenRows : created[r] \in Times, Given # <<>> => Last(Given) \in GivenRows
      PROVE  Lower(CoveredRows)
  <2>1. CASE Given = <<>>
    <3>1. CoveredRows = {}
      BY <2>1 DEF CoveredRows, Covered
    <3> QED BY <1>2, <3>1
  <2>2. CASE Given # <<>>
    <3>1. PICK t \in Times : t = created[Last(Given)]
      BY <1>4, <2>2
    <3>2. CoveredRows = UpTo(live, t)
      BY <2>2, <3>1 DEF CoveredRows, Covered, UpTo
    <3> QED BY <1>3, <3>1, <3>2
  <2> QED BY <2>1, <2>2
<1> QED BY <1>2, <1>3, <1>4

\* Of the first rows of the list no more are missed than left, when they are no
\* more than the positions behind.
LEMMA FirstRowsGiven ==
    ASSUME WalkTypeOK, NEW R \in SUBSET Rows, NEW K, Lower(K), NEW B, Lower(B),
           NEW offset \in Int, NEW bound \in Int, Cardinality(B) <= offset,
           NEW M, M = (stayed \cap K) \ R,
           Cardinality(M) <= bound, Cardinality(M) + offset <= bound + Cardinality(K)
    PROVE  Cardinality((stayed \cap B) \ R) <= bound
<1>1. /\ K \in SUBSET Rows /\ B \in SUBSET Rows /\ M \in SUBSET Rows
      /\ \A r \in live : created[r] \in Times
  BY DEF Lower, WalkTypeOK
<1>2. PICK N \in SUBSET Rows : N = (stayed \cap B) \ R
  BY <1>1
<1>3. K \subseteq B \/ B \subseteq K
  <2> SUFFICES ASSUME NEW k \in K, k \notin B, NEW b \in B, b \notin K PROVE FALSE
    OBVIOUS
  <2>1. Precedes(created[k], created[b]) /\ Precedes(created[b], created[k])
    BY DEF Lower
  <2>2. created[k] \in Times /\ created[b] \in Times
    BY <1>1 DEF Lower
  <2> QED BY <2>1, <2>2, TimesOrdered
<1>4. /\ Cardinality(K) \in Nat /\ Cardinality(B) \in Nat /\ Cardinality(M) \in Nat
      /\ Cardinality(N) \in Nat
  BY <1>1, CountRows
<1>5. CASE B \subseteq K
  <2>1. N \subseteq M
    BY <1>2, <1>5
  <2>2. Cardinality(N) <= Cardinality(M)
    BY <1>1, <2>1, CountRows
  <2> QED BY <1>2, <1>4, <2>2
<1>6. CASE K \subseteq B
  <2>1. PICK D \in SUBSET Rows : D = B \ K
    BY <1>1
  <2>2. Cardinality(D) + Cardinality(K) <= Cardinality(B)
    BY <1>1, <1>6, <2>1, CountApart
  <2>3. N \ D \subseteq M /\ N = (N \ D) \cup (N \cap D)
    BY <1>2, <2>1
  <2>4. Cardinality(N \ D) <= Cardinality(M)
    BY <1>1, <2>3, CountRows
  <2>5. Cardinality(N \ D) = Cardinality(N) - Cardinality(N \cap D)
    BY CountRows
  <2>6. PICK E \in SUBSET Rows : E = N \cap D /\ E \subseteq D
    OBVIOUS
  <2>7. Cardinality(E) <= Cardinality(D) /\ Cardinality(E) \in Nat /\ Cardinality(D) \in Nat
    BY <2>6, CountRows
  <2>8. Cardinality(N \ D) = Cardinality(N) - Cardinality(E)
    BY <2>5, <2>6
  <2>9. Cardinality(N) <= Cardinality(M) + Cardinality(D)
    BY <1>4, <2>4, <2>7, <2>8
  <2>10. Cardinality(M) + Cardinality(D) <= bound
    BY <1>4, <2>2, <2>7
  <2>11. Cardinality(N) <= bound
    BY <1>4, <2>7, <2>9, <2>10
  <2> QED BY <1>2, <2>11
<1> QED BY <1>3, <1>5, <1>6

\* They are about the list, what was given, what stayed and what left.
LEMMA MissesUnchanged ==
    ASSUME UNCHANGED <<order, created, live, first, perPage, got, stayed, left>>
    PROVE  /\ Settled' = Settled /\ Pending' = Pending /\ NoTies' = NoTies
           /\ GivenRows' = GivenRows
BY DEF Settled, Pending, NoTies, Missed, CoveredRows, Covered, GivenRows, Given, Asked, Size,
       Precedes

\* The sets and numbers of the invariant have their types.
LEMMA MissesTypes ==
    ASSUME WalkInv
    PROVE  /\ left \in Nat /\ Missed \in SUBSET Rows /\ CoveredRows \in SUBSET Rows
           /\ stayed \in SUBSET Rows /\ stayed \subseteq live /\ live \in SUBSET Rows
           /\ (stayed \ GivenRows) \in SUBSET Rows
           /\ Cardinality(Missed) \in Nat /\ Cardinality(CoveredRows) \in Nat
           /\ Cardinality(stayed \ GivenRows) \in Nat
<1>1. WalkTypeOK
  BY DEF WalkInv
<1>2. left \in Nat
  BY <1>1, WalkAssumption DEF WalkTypeOK
<1>3. /\ stayed \in SUBSET Rows /\ stayed \subseteq live /\ live \in SUBSET Rows
      /\ CoveredRows \in SUBSET Rows
  BY <1>1 DEF WalkTypeOK, CoveredRows
<1>4. Missed \in SUBSET Rows /\ (stayed \ GivenRows) \in SUBSET Rows
  BY <1>3 DEF Missed
<1> QED BY <1>2, <1>3, <1>4, CountRows

\* A page pays for the positions it asks with the rows it gives.
LEMMA ListKeepsMisses ==
    ASSUME WalkInv, OffsetInv, RepeatsInv, MissesInv, List, first = 1, NoTies
    PROVE  Settled' \/ (phase' # "done" /\ Pending')
<1>1. /\ WalkTypeOK /\ Size \in Nat \ {0} /\ phase = "asking"
      /\ UNCHANGED <<order, created, live, first, page, perPage, stayed, entered, left>>
  BY ListStep DEF List
<1>2. PICK rows \in Arrangements, s \in Seq(Rows) :
         /\ Asked \in Nat /\ s = Slice(rows, Size, Asked)
         /\ got' = Append(got, s) /\ phase' = "counting" /\ Asked' = Asked + Size
  BY ListFromStart
<1>3. PICK before : Cut(before, s, Size, Asked)
  BY <1>1, <1>2, PageCuts
<1>4. PICK S \in SUBSET Rows : S = Range(s)
  BY <1>1, <1>3 DEF Cut, WalkTypeOK
<1>5. /\ GivenRows' = GivenRows \cup S
      /\ s = <<>> => Given' = Given
      /\ s # <<>> => Given' # <<>> /\ Last(Given') = Last(s)
  BY <1>2, <1>4, GivenGrows
<1>6. /\ left' = left /\ stayed' = stayed /\ left \in Nat /\ stayed \subseteq live
      /\ stayed \in SUBSET Rows /\ live \in SUBSET Rows /\ GivenRows \in SUBSET Rows
  BY <1>1, MissesTypes, GivenType
<1>7. CASE Settled
  <2>1. PICK A \in SUBSET Rows, B \in SUBSET Rows :
           A = stayed \ GivenRows /\ B = (stayed \ GivenRows)' /\ B \subseteq A
    <3>1. (stayed \ GivenRows)' = stayed \ (GivenRows \cup S)
      BY <1>5, <1>6
    <3>2. /\ (stayed \ GivenRows) \in SUBSET Rows
          /\ (stayed \ (GivenRows \cup S)) \in SUBSET Rows
          /\ (stayed \ (GivenRows \cup S)) \subseteq (stayed \ GivenRows)
      BY <1>6
    <3> QED BY <3>1, <3>2
  <2>2. Cardinality(B) <= Cardinality(A) /\ Cardinality(A) \in Nat /\ Cardinality(B) \in Nat
    BY <2>1, CountRows
  <2>3. Cardinality(B) <= left
    BY <1>6, <1>7, <2>1, <2>2 DEF Settled
  <2> QED BY <1>6, <2>1, <2>3 DEF Settled
<1>8. CASE Pending
  <2>1. Made(GivenRows) /\ Lower(CoveredRows)
    <3>1. Made(GivenRows)
      BY DEF RepeatsInv
    <3> QED BY <1>1, <3>1, LowerSets, GivenType DEF Made
  <2>2. /\ before \subseteq live /\ Cardinality(before) <= Asked /\ S \subseteq live
        /\ Cardinality(S) = Len(s) /\ before \cap S = {}
        /\ before # {} => \E r \in before : before = UpTo(live, created[r])
        /\ s # <<>> => /\ Cardinality(before) = Asked
                       /\ before \cup S = UpTo(live, created[Last(s)])
        /\ Len(s) < Size => before \cup S = live
        /\ Len(s) <= Size
    BY <1>3, <1>4 DEF Cut
  <2>3. Lower(before)
    BY <1>1, <2>2, LowerSets DEF WalkTypeOK
  <2>4. Cardinality((stayed \cap before) \ GivenRows) <= left
    <3>1. PICK R \in SUBSET Rows : R = GivenRows
      BY <1>6
    <3>2. PICK K : K = CoveredRows
      OBVIOUS
    <3>3. PICK M : M = Missed /\ M = (stayed \cap K) \ R
      BY <3>1, <3>2 DEF Missed
    <3>4. PICK offset \in Int, bound \in Int : offset = Asked /\ bound = left
      BY <1>2, <1>6
    <3>5. /\ Cardinality(before) <= offset /\ Cardinality(M) <= bound
          /\ Cardinality(M) + offset <= bound + Cardinality(K)
      BY <1>8, <2>2, <3>2, <3>3, <3>4 DEF Pending
    <3>6. Lower(K) /\ M = (stayed \cap K) \ R
      BY <2>1, <3>2, <3>3
    <3>7. Cardinality((stayed \cap before) \ R) <= bound
      BY <1>1, <2>3, <3>5, <3>6, FirstRowsGiven
    <3> QED BY <3>1, <3>4, <3>7
  <2>5. PICK N \in SUBSET Rows : N = (stayed \cap before) \ GivenRows
    BY <1>6
  <2>6. Cardinality(N) <= left /\ Cardinality(N) \in Nat
    BY <2>4, <2>5, CountRows
  <2>7. CASE Len(s) < Size
    <3>1. PICK B \in SUBSET Rows : B = (stayed \ GivenRows)'
      BY <1>6
    <3>2. B \subseteq N
      BY <1>5, <1>6, <2>2, <2>5, <2>7, <3>1
    <3>3. Cardinality(B) <= left
      <4>1. Cardinality(B) <= Cardinality(N) /\ Cardinality(B) \in Nat
        BY <3>2, CountRows
      <4> QED BY <1>6, <2>6, <4>1
    <3> QED BY <1>6, <3>1, <3>3 DEF Settled
  <2>8. CASE ~(Len(s) < Size)
    <3>1. Len(s) = Size /\ s # <<>>
      <4>1. Len(s) \in Nat /\ (s = <<>> => Len(s) = 0)
        BY <1>2
      <4> QED BY <1>1, <2>2, <2>8, <4>1
    <3>2. PICK K \in SUBSET Rows : K = CoveredRows' /\ K = before \cup S
      <4>1. CoveredRows' = UpTo(live, created[Last(s)])
        BY <1>1, <1>5, <3>1 DEF CoveredRows, Covered, UpTo, Precedes
      <4> QED BY <1>4, <1>6, <2>2, <3>1, <4>1
    <3>3. PICK M \in SUBSET Rows : M = Missed' /\ M \subseteq N
      <4>1. Missed' = (stayed \cap K) \ (GivenRows \cup S)
        BY <1>5, <1>6, <3>2 DEF Missed
      <4> QED BY <1>6, <2>5, <3>2, <4>1
    <3>4. Cardinality(M) <= left /\ Cardinality(M) \in Nat
      <4>1. Cardinality(M) <= Cardinality(N) /\ Cardinality(M) \in Nat
        BY <3>3, CountRows
      <4> QED BY <1>6, <2>6, <4>1
    <3>5. Cardinality(K) = Asked + Size
      <4>1. before \in SUBSET Rows
        BY <1>6, <2>2
      <4>2. Cardinality(before \cup S)
              = Cardinality(before) + Cardinality(S) - Cardinality(before \cap S)
        BY <4>1, CountRows
      <4>3. Cardinality(before \cap S) = 0
        BY <2>2, FS_EmptySet
      <4>4. Cardinality(K) = Cardinality(before \cup S)
        BY <3>2
      <4>5. Cardinality(before) = Asked /\ Cardinality(S) = Size
        BY <2>2, <3>1
      <4> QED BY <1>1, <1>2, <4>2, <4>3, <4>4, <4>5
    <3>6. Cardinality(M) + (Asked + Size) <= left + Cardinality(K)
      BY <1>1, <1>2, <1>6, <3>4, <3>5
    <3> QED BY <1>2, <1>6, <3>2, <3>3, <3>4, <3>6 DEF Pending
  <2> QED BY <2>7, <2>8
<1> QED BY <1>1, <1>7, <1>8 DEF MissesInv

\* The total says whether the list has ended.
LEMMA CountKeepsMisses ==
    ASSUME Countable, WalkInv, RepeatsInv, MissesInv, Count, first = 1, NoTies
    PROVE  Settled' \/ (phase' # "done" /\ Pending')
<1>1. /\ WalkTypeOK /\ Asked \in Nat
      /\ UNCHANGED <<order, created, live, first, perPage, got, stayed, entered, left>>
      /\ \/ phase' = "asking"
         \/ phase' = "done" /\ Cardinality(live) <= Asked
  BY CountStep
<1>2. Settled' = Settled /\ Pending' = Pending
  BY <1>1, MissesUnchanged
<1>3. CASE Settled \/ phase' = "asking"
  BY <1>2, <1>3 DEF MissesInv
<1>4. CASE Pending /\ Cardinality(live) <= Asked
  <2>1. Lower(live) /\ Lower(CoveredRows)
    <3>1. Made(GivenRows)
      BY DEF RepeatsInv
    <3> QED BY <1>1, <3>1, LowerSets, GivenType DEF Made
  <2>2. PICK R \in SUBSET Rows : R = GivenRows
    BY GivenType
  <2>3. PICK K, M : K = CoveredRows /\ M = Missed
    OBVIOUS
  <2>4. PICK offset \in Int, bound \in Int : offset = Asked /\ bound = left
    BY <1>1, MissesTypes
  <2>5. /\ Cardinality(live) <= offset /\ Cardinality(M) <= bound
        /\ Cardinality(M) + offset <= bound + Cardinality(K)
        /\ M = (stayed \cap K) \ R /\ Lower(K)
    BY <1>4, <2>1, <2>2, <2>3, <2>4 DEF Pending, Missed
  <2>6. Cardinality((stayed \cap live) \ R) <= bound
    BY <1>1, <2>1, <2>5, FirstRowsGiven
  <2>7. (stayed \cap live) \ R = stayed \ GivenRows
    BY <2>2, MissesTypes
  <2>8. Cardinality(stayed \ GivenRows) <= left
    BY <2>4, <2>6, <2>7
  <2> QED BY <1>2, <2>8 DEF Settled
<1> QED BY <1>1, <1>3, <1>4 DEF MissesInv

\* A row that enters did not stay, so that it is not missed.
LEMMA EnterKeepsMisses ==
    ASSUME WalkInv, RepeatsInv, MissesInv, NEW r \in Rows, Enter(r), first = 1, NoTies'
    PROVE  Settled' \/ (phase' # "done" /\ Pending')
<1>1. /\ WalkTypeOK /\ r \notin live /\ live' = live \cup {r} /\ NoTies
      /\ UNCHANGED <<order, first, page, perPage, phase, got, stayed, left>>
      /\ \A q \in Rows : created[q] # None => created'[q] = created[q]
  BY EnterStep
<1>2. Given' = Given /\ GivenRows' = GivenRows /\ Asked' = Asked
  BY <1>1 DEF Given, GivenRows, Asked, Size
<1>3. Settled' = Settled
  BY <1>1, <1>2 DEF Settled
<1>4. ASSUME Pending PROVE Pending'
  <2>1. Given # <<>> => created'[Last(Given)] = created[Last(Given)]
    <3>1. Made(GivenRows)
      BY <1>1 DEF RepeatsInv
    <3> QED BY <1>1, <3>1, GivenType, WalkAssumption DEF Made
  <2>2. ASSUME NEW q \in live
        PROVE  created'[q] = created[q] /\ Covered(created[q])' = Covered(created[q])
    <3>1. created'[q] = created[q]
      BY <1>1 DEF WalkTypeOK
    <3> QED BY <1>1, <1>2, <2>1, <3>1 DEF Covered, Precedes
  <2>3. PICK K \in SUBSET Rows, L \in SUBSET Rows :
           K = CoveredRows /\ L = CoveredRows' /\ K \subseteq L /\ L \subseteq K \cup {r}
    <3>1. CoveredRows \in SUBSET Rows /\ CoveredRows' \in SUBSET Rows
      BY <1>1 DEF CoveredRows, WalkTypeOK
    <3>2. CoveredRows \subseteq CoveredRows' /\ CoveredRows' \subseteq CoveredRows \cup {r}
      BY <1>1, <2>2 DEF CoveredRows
    <3> QED BY <3>1, <3>2
  <2>4. Missed' = Missed
    <3>1. r \notin stayed
      BY <1>1 DEF WalkTypeOK
    <3> QED BY <1>1, <1>2, <2>3, <3>1 DEF Missed
  <2>5. Cardinality(K) <= Cardinality(L) /\ Cardinality(K) \in Nat /\ Cardinality(L) \in Nat
    BY <2>3, CountRows
  <2>6. left \in Nat /\ Cardinality(Missed) \in Nat /\ Asked \in Int
    <3>1. Len(got) \in Nat /\ Size \in Int
      BY <1>1, Sizes DEF WalkInv, Size
    <3> QED BY <3>1, MissesTypes DEF Asked
  <2>7. Cardinality(Missed) + Asked <= left + Cardinality(L)
    BY <1>4, <2>3, <2>5, <2>6 DEF Pending
  <2> QED BY <1>1, <1>2, <1>4, <2>3, <2>4, <2>7 DEF Pending
<1> QED BY <1>1, <1>3, <1>4 DEF MissesInv

\* A row that leaves before the end is counted, a later one was not covered.
LEMMA LeaveKeepsMisses ==
    ASSUME WalkInv, MissesInv, NEW r \in Rows, Leave(r), first = 1, NoTies
    PROVE  Settled' \/ (phase' # "done" /\ Pending')
<1>1. /\ WalkTypeOK /\ live' = live \ {r} /\ stayed' = stayed \ {r} /\ r \in live
      /\ UNCHANGED <<order, created, first, page, perPage, phase, got, entered>>
      /\ left' = Counted(left, created[r])
  BY DEF Leave, WalkInv, asked
<1>2. /\ Given' = Given /\ GivenRows' = GivenRows /\ Asked' = Asked
      /\ \A t : Covered(t)' = Covered(t)
  BY <1>1 DEF Given, GivenRows, Asked, Size, Covered, Precedes
<1>3. /\ left \in Nat /\ left' \in Nat /\ left <= left'
      /\ left' = IF Covered(created[r]) THEN left + 1 ELSE left
  BY <1>1, MissesTypes DEF Counted
<1>4. ASSUME Settled PROVE Settled'
  <2>1. PICK A \in SUBSET Rows, B \in SUBSET Rows :
           A = stayed \ GivenRows /\ B = (stayed \ GivenRows)' /\ B \subseteq A
    <3>1. stayed \ GivenRows \in SUBSET Rows
      BY MissesTypes
    <3>2. (stayed \ GivenRows)' = (stayed \ GivenRows) \ {r}
      BY <1>1, <1>2
    <3> QED BY <3>1, <3>2
  <2>2. Cardinality(B) <= Cardinality(A) /\ Cardinality(A) \in Nat /\ Cardinality(B) \in Nat
    BY <2>1, CountRows
  <2>3. Cardinality(B) <= left'
    BY <1>3, <1>4, <2>1, <2>2 DEF Settled
  <2> QED BY <2>1, <2>3 DEF Settled
<1>5. ASSUME Pending PROVE Pending'
  <2>1. PICK K \in SUBSET Rows, L \in SUBSET Rows :
           K = CoveredRows /\ L = CoveredRows' /\ L = K \ {r}
    <3>1. CoveredRows' = CoveredRows \ {r}
      BY <1>1, <1>2 DEF CoveredRows
    <3> QED BY <3>1, MissesTypes
  <2>2. PICK M \in SUBSET Rows, N \in SUBSET Rows :
           M = Missed /\ N = Missed' /\ N \subseteq M
    <3>1. Missed' \subseteq Missed
      BY <1>1, <1>2, <2>1 DEF Missed
    <3> QED BY <3>1, MissesTypes
  <2>3. Cardinality(N) <= Cardinality(M) /\ Cardinality(M) \in Nat /\ Cardinality(N) \in Nat
    BY <2>2, CountRows
  <2>4. r \in K <=> Covered(created[r])
    BY <1>1, <2>1 DEF CoveredRows
  <2>5. Cardinality(L) = IF r \in K THEN Cardinality(K) - 1 ELSE Cardinality(K)
    <3>1. IsFiniteSet(K)
      BY WalkAssumption, FS_Subset
    <3>2. Cardinality(K \ {r}) = IF r \in K THEN Cardinality(K) - 1 ELSE Cardinality(K)
      BY <3>1, FS_RemoveElement
    <3>3. Cardinality(L) = Cardinality(K \ {r})
      BY <2>1
    <3> QED BY <3>2, <3>3
  <2>6. Cardinality(K) \in Nat /\ Asked \in Int
    <3>1. Len(got) \in Nat /\ Size \in Int
      BY <1>1, Sizes DEF WalkInv, Size
    <3>2. Asked \in Int
      BY <3>1 DEF Asked
    <3>3. Cardinality(K) \in Nat
      BY CountRows
    <3> QED BY <3>2, <3>3
  <2>7. left' + Cardinality(L) = left + Cardinality(K)
    BY <1>3, <2>4, <2>5, <2>6
  <2>8. Cardinality(M) <= left /\ Cardinality(M) + Asked <= left + Cardinality(K)
    BY <1>5, <2>1, <2>2 DEF Pending
  <2>9. Cardinality(N) <= left' /\ Cardinality(N) + Asked <= left' + Cardinality(L)
    BY <1>3, <2>3, <2>6, <2>7, <2>8
  <2> QED BY <1>2, <2>1, <2>2, <2>9 DEF Pending
<1> QED BY <1>1, <1>4, <1>5 DEF MissesInv

LEMMA MissesInvHolds ==
    ASSUME Countable
    PROVE  Spec => []MissesInv
<1>1. Init => MissesInv
  <2> SUFFICES ASSUME Init PROVE MissesInv
    OBVIOUS
  <2>1. Given = <<>> /\ Len(got) = 0 /\ left = 0 /\ phase = "asking"
    BY DEF Init, Given, FlattenSeq
  <2>2. CoveredRows = {} /\ Missed = {}
    BY <2>1 DEF CoveredRows, Covered, Missed
  <2>3. Asked = 0
    <3>1. perPage = None \/ perPage \in Int
      BY WalkAssumption, PagingAssumption DEF Init
    <3>2. Size \in Int
      BY <3>1, SizeInBounds, PagingAssumption DEF Size
    <3> QED BY <2>1, <3>2 DEF Asked
  <2>4. Pending
    BY <2>1, <2>2, <2>3, FS_EmptySet DEF Pending
  <2> QED BY <2>1, <2>4 DEF MissesInv
<1>2. WalkInv /\ OffsetInv /\ RepeatsInv /\ MissesInv /\ [Next]_vars => MissesInv'
  <2> SUFFICES ASSUME WalkInv, OffsetInv, RepeatsInv, MissesInv, [Next]_vars,
                      first' = 1, NoTies'
               PROVE  Settled' \/ (phase' # "done" /\ Pending')
    BY DEF MissesInv
  <2>1. first = 1
    BY DEF Next, List, Count, Enter, Leave, vars, asked
  <2>2. CASE List
    BY <2>1, <2>2, ListStep, ListKeepsMisses DEF NoTies
  <2>3. CASE Count
    BY <2>1, <2>3, CountStep, CountKeepsMisses DEF NoTies
  <2>4. ASSUME NEW r \in Rows, Enter(r) PROVE Settled' \/ (phase' # "done" /\ Pending')
    BY <2>1, <2>4, EnterKeepsMisses
  <2>5. ASSUME NEW r \in Rows, Leave(r) PROVE Settled' \/ (phase' # "done" /\ Pending')
    <3>1. NoTies
      BY <2>5 DEF Leave, NoTies
    <3> QED BY <2>1, <2>5, <3>1, LeaveKeepsMisses
  <2>6. CASE UNCHANGED vars
    <3>1. /\ Settled' = Settled /\ Pending' = Pending /\ NoTies' = NoTies
          /\ phase' = phase
      BY <2>6, MissesUnchanged DEF vars, table, asked
    <3> QED BY <2>1, <3>1 DEF MissesInv
  <2> QED BY <2>2, <2>3, <2>4, <2>5, <2>6 DEF Next
<1> QED BY <1>1, <1>2, WalkInvHolds, OffsetInvHolds, RepeatsInvHolds, PTL DEF Spec

\* query.sql.go:486: a row that leaves moves the later ones towards the pages
\* that were read.  Without ties a client that begins with the first page misses
\* no more of the rows that stayed than left before them.
THEOREM MissesBounded ==
    ASSUME Countable
    PROVE  Spec => []MissesAreBounded
<1>1. WalkInv /\ MissesInv => MissesAreBounded
  <2> SUFFICES ASSUME WalkInv, MissesInv, phase = "done", first = 1, NoTies
               PROVE  Cardinality({r \in stayed : \A i \in DOMAIN Given : Given[i] # r}) <= left
    BY DEF MissesAreBounded
  <2>1. {r \in stayed : \A i \in DOMAIN Given : Given[i] # r} = stayed \ GivenRows
    BY DEF GivenRows, Range
  <2>2. Cardinality(stayed \ GivenRows) <= left
    BY DEF MissesInv, Settled
  <2> QED BY <2>1, <2>2
<1> QED BY <1>1, WalkInvHolds, MissesInvHolds, PTL

-----------------------------------------------------------------------------
(* A list that nobody changes.                                             *)

\* A page has the rows of its positions.
LEMMA SlicePositions ==
    ASSUME NEW rows \in Seq(Rows), NEW size \in Nat, NEW offset \in Nat,
           NEW s, s = Slice(rows, size, offset)
    PROVE  /\ Len(s) = IF Len(rows) <= offset THEN 0
                       ELSE IF offset + size < Len(rows) THEN size ELSE Len(rows) - offset
           /\ \A i \in 1..Len(s) : offset + i \in 1..Len(rows) /\ s[i] = rows[offset + i]
<1>1. CASE offset + size < Len(rows)
  <2>1. s = SubSeq(rows, offset + 1, offset + size)
    BY <1>1 DEF Slice
  <2> QED BY <1>1, <2>1
<1>2. CASE ~(offset + size < Len(rows))
  <2>1. s = SubSeq(rows, offset + 1, Len(rows))
    BY <1>2 DEF Slice
  <2> QED BY <1>2, <2>1
<1> QED BY <1>1, <1>2

\* Without ties every statement reads the list in the same order.
LEMMA OneArrangement ==
    ASSUME WalkTypeOK, NoTies, NEW rows \in Arrangements, NEW other \in Arrangements,
           NEW k \in 1..Cardinality(live)
    PROVE  rows[k] = other[k]
<1>1. rows[k] \in live
  BY Arranged
<1>2. PICK j \in 1..Cardinality(live) : other[j] = rows[k]
  BY <1>1, Arranged
<1>3. Cardinality(UpTo(live, created[rows[k]])) = k
  BY Positions
<1>4. Cardinality(UpTo(live, created[other[j]])) = j
  BY Positions
<1> QED BY <1>2, <1>3, <1>4

\* The client has the first Asked rows of the list, or all of them.
WholeInv ==
    first = 1 /\ Undisturbed =>
        /\ Len(Given) = IF Asked <= Cardinality(live) THEN Asked ELSE Cardinality(live)
        /\ NoTies /\ got # <<>> =>
              \E rows \in Arrangements : \A i \in DOMAIN Given : Given[i] = rows[i]
        /\ phase = "done" => Cardinality(live) <= Asked

LEMMA WholeUnchanged ==
    ASSUME UNCHANGED <<order, created, live, first, perPage, got, stayed>>
    PROVE  /\ Undisturbed' = Undisturbed /\ NoTies' = NoTies /\ Asked' = Asked
           /\ Given' = Given /\ Arrangements' = Arrangements
BY DEF Undisturbed, NoTies, Asked, Size, Given, Arrangements, Sorted, Precedes

\* A page puts the next rows of the list behind those given.
LEMMA ListKeepsWhole ==
    ASSUME WalkInv, OffsetInv, WholeInv, List
    PROVE  WholeInv'
<1>1. /\ WalkTypeOK /\ Size \in Nat \ {0} /\ Len(got) \in Nat
      /\ UNCHANGED <<order, created, live, first, page, perPage, stayed, entered, left>>
  BY ListStep
<1> SUFFICES ASSUME first = 1, Undisturbed
             PROVE  /\ Len(Given') = IF Asked' <= Cardinality(live)
                                     THEN Asked' ELSE Cardinality(live)
                    /\ NoTies => \E rows \in Arrangements :
                                    \A i \in DOMAIN Given' : Given'[i] = rows[i]
                    /\ phase' # "done"
  BY <1>1 DEF WholeInv, Undisturbed, NoTies, Arrangements, Sorted, Precedes
<1>2. PICK rows \in Arrangements, s \in Seq(Rows) :
         /\ Asked \in Nat /\ s = Slice(rows, Size, Asked)
         /\ got' = Append(got, s) /\ phase' = "counting" /\ Asked' = Asked + Size
  BY ListFromStart
<1>3. PICK n \in Nat : /\ n = Cardinality(live) /\ rows \in Seq(Rows) /\ Len(rows) = n
  BY <1>1, Arranged
<1>4. PICK offset \in Nat, size \in Nat \ {0} : offset = Asked /\ size = Size
  BY <1>1, <1>2
<1>5. /\ Len(s) = IF n <= offset THEN 0 ELSE IF offset + size < n THEN size ELSE n - offset
      /\ \A i \in 1..Len(s) : offset + i \in 1..n /\ s[i] = rows[offset + i]
  BY <1>2, <1>3, <1>4, SlicePositions
<1>6. PICK given \in Seq(Rows) : given = Given
  BY GivenType
<1>7. Len(given) = IF offset <= n THEN offset ELSE n
  BY <1>3, <1>4, <1>6 DEF WholeInv
<1>8. PICK more \in Seq(Rows) : more = Given' /\ more = given \o s
  BY <1>2, <1>6, GivenGrows
<1>9. Len(more) = Len(given) + Len(s)
  BY <1>8
<1>10. Len(more) = IF offset + size <= n THEN offset + size ELSE n
  BY <1>5, <1>7, <1>9
<1>11. ASSUME NoTies PROVE \A i \in DOMAIN more : more[i] = rows[i]
  <2>1. ASSUME NEW i \in 1..Len(given) PROVE given[i] = rows[i]
    <3>1. given # <<>> /\ got # <<>>
      BY <1>6, <2>1, GivenType
    <3>2. PICK other \in Arrangements : \A j \in DOMAIN given : given[j] = other[j]
      BY <1>6, <1>11, <3>1 DEF WholeInv
    <3>3. i \in DOMAIN given /\ i \in 1..n
      BY <1>6, <1>7, <2>1
    <3>4. rows[i] = other[i]
      BY <1>1, <1>3, <1>11, <3>3, OneArrangement
    <3> QED BY <3>2, <3>3, <3>4
  <2>2. ASSUME NEW i \in 1..Len(s) PROVE s[i] = rows[Len(given) + i]
    <3>1. Len(given) = offset
      BY <1>5, <1>7, <2>2
    <3> QED BY <1>5, <2>2, <3>1
  <2> SUFFICES ASSUME NEW i \in DOMAIN more PROVE more[i] = rows[i]
    OBVIOUS
  <2>3. i \in 1..(Len(given) + Len(s)) /\ Len(given) \in Nat /\ Len(s) \in Nat
    BY <1>2, <1>6, <1>8, <1>9
  <2>4. CASE i <= Len(given)
    <3>1. more[i] = given[i] /\ i \in 1..Len(given)
      BY <1>6, <1>8, <2>3, <2>4
    <3> QED BY <2>1, <3>1
  <2>5. CASE ~(i <= Len(given))
    <3>1. PICK k \in 1..Len(s) : i = Len(given) + k
      <4>1. i - Len(given) \in 1..Len(s) /\ i = Len(given) + (i - Len(given))
        BY <2>3, <2>5
      <4> QED BY <4>1
    <3>2. more[i] = s[k]
      BY <1>2, <1>6, <1>8, <3>1
    <3> QED BY <2>2, <3>1, <3>2
  <2> QED BY <2>4, <2>5
<1> QED BY <1>2, <1>3, <1>4, <1>8, <1>10, <1>11

\* The client stops when it has asked for as many rows as there are.
LEMMA CountKeepsWhole ==
    ASSUME Countable, WalkInv, WholeInv, Count
    PROVE  WholeInv'
<1>1. UNCHANGED <<order, created, live, first, perPage, got, stayed>>
  BY DEF Count, table, asked
<1>2. /\ Undisturbed' = Undisturbed /\ NoTies' = NoTies /\ Asked' = Asked
      /\ Given' = Given /\ Arrangements' = Arrangements
  BY <1>1, WholeUnchanged
<1>3. first = 1 /\ phase' = "done" => Cardinality(live) <= Asked
  BY CountStep
<1> QED BY <1>1, <1>2, <1>3 DEF WholeInv

LEMMA WholeInvHolds ==
    ASSUME Countable
    PROVE  Spec => []WholeInv
<1>1. Init => WholeInv
  <2> SUFFICES ASSUME Init PROVE WholeInv
    OBVIOUS
  <2>1. Given = <<>> /\ got = <<>> /\ Len(got) = 0 /\ Len(Given) = 0 /\ phase = "asking"
    BY DEF Init, Given, FlattenSeq
  <2>2. Asked = 0
    <3>1. perPage = None \/ perPage \in Int
      BY WalkAssumption, PagingAssumption DEF Init
    <3>2. Size \in Int
      BY <3>1, SizeInBounds, PagingAssumption DEF Size
    <3> QED BY <2>1, <3>2 DEF Asked
  <2>3. Cardinality(live) \in Nat
    <3>1. live \in SUBSET Rows
      BY DEF Init
    <3> QED BY <3>1, CountRows
  <2> QED BY <2>1, <2>2, <2>3 DEF WholeInv
<1>2. WalkInv /\ OffsetInv /\ WholeInv /\ [Next]_vars => WholeInv'
  <2> SUFFICES ASSUME WalkInv, OffsetInv, WholeInv, [Next]_vars PROVE WholeInv'
    OBVIOUS
  <2>1. ASSUME NEW r \in Rows, Enter(r) \/ Leave(r) PROVE WholeInv'
    BY <2>1, ChangesDisturb DEF WholeInv, WalkInv
  <2>2. CASE UNCHANGED vars
    <3>1. UNCHANGED <<order, created, live, first, perPage, got, stayed, phase>>
      BY <2>2 DEF vars, table, asked
    <3>2. /\ Undisturbed' = Undisturbed /\ NoTies' = NoTies /\ Asked' = Asked
          /\ Given' = Given /\ Arrangements' = Arrangements
      BY <3>1, WholeUnchanged
    <3> QED BY <3>1, <3>2 DEF WholeInv
  <2> QED BY <2>1, <2>2, ListKeepsWhole, CountKeepsWhole DEF Next
<1> QED BY <1>1, <1>2, WalkInvHolds, OffsetInvHolds, PTL DEF Spec

\* query.sql.go:486: in a list nobody changes, a client that begins with the
\* first page and follows the totals is given as many rows as there are, though
\* rows of one time come in any order; without ties it is given the list.
THEOREM WholeList ==
    ASSUME Countable
    PROVE  Spec => []WholeListWalked
<1>1. WalkInv /\ WholeInv => WholeListWalked
  <2> SUFFICES ASSUME WalkInv, WholeInv, phase = "done", first = 1, Undisturbed
               PROVE  /\ Len(Given) = Cardinality(live)
                      /\ NoTies => Given \in Arrangements
    BY DEF WholeListWalked
  <2>1. PICK n : n = Cardinality(live)
    OBVIOUS
  <2>2. Len(Given) = n
    <3>1. Len(Given) = (IF Asked <= n THEN Asked ELSE n) /\ n <= Asked
      BY <2>1 DEF WholeInv
    <3>2. n \in Nat /\ Asked \in Int
      <4>1. WalkTypeOK /\ got \in Seq(Seq(Rows)) /\ live \in SUBSET Rows
        BY DEF WalkInv, WalkTypeOK
      <4>2. Size \in Int /\ Len(got) \in Nat
        BY <4>1, Sizes DEF Size
      <4>3. Asked \in Int
        BY <4>2 DEF Asked
      <4> QED BY <2>1, <4>1, <4>3, CountRows
    <3> QED BY <3>1, <3>2
  <2>3. ASSUME NoTies PROVE Given \in Arrangements
    <3>1. got # <<>>
      BY DEF WalkInv
    <3>2. PICK rows \in Arrangements : \A i \in DOMAIN Given : Given[i] = rows[i]
      BY <2>3, <3>1 DEF WholeInv
    <3>3. PICK given \in Seq(Rows) : given = Given
      BY GivenType
    <3>4. rows \in Seq(Rows) /\ Len(rows) = n
      BY <2>1, <3>2, Arranged DEF WalkInv
    <3>5. \A i \in 1..n : given[i] = rows[i]
      BY <2>2, <3>2, <3>3
    <3>6. given = rows
      BY <2>2, <3>3, <3>4, <3>5
    <3> QED BY <3>2, <3>3, <3>6
  <2> QED BY <2>1, <2>2, <2>3
<1> QED BY <1>1, WalkInvHolds, WholeInvHolds, PTL
=============================================================================
