------------------------- MODULE CachedContext_proofs -------------------------
(***************************************************************************)
(* Proofs about CachedContext, for any memory, registers, regions and      *)
(* numbers of runs and failures: what the operators of MemoryCache make of *)
(* intervals, and that the caches are coherent and reads current.          *)
(***************************************************************************)
EXTENDS CachedContext, SequenceTheorems, FiniteSetTheorems, WellFoundedInduction, TLAPS

-----------------------------------------------------------------------------
(* Numbers                                                                 *)

(* A nonempty set of natural numbers has a least element: of the intervals *)
(* that end in its members one is minimal for inclusion.                   *)
LEMMA LeastNumber ==
  ASSUME NEW S \in SUBSET Nat, S # {}
  PROVE  \E m \in S : \A j \in S : m <= j
<1> DEFINE I == {0..n : n \in S}
           R == StrictSubsetOrdering(Nat)
<1>1. I \subseteq FiniteSubsetsOf(Nat) /\ I # {}
  <2>1. \A n \in S : IsFiniteSet(0..n) /\ (0..n) \subseteq Nat
    BY FS_Interval
  <2> QED
    BY <2>1 DEF FiniteSubsetsOf
<1>2. IsWellFoundedOn(R, FiniteSubsetsOf(Nat))
  BY FS_StrictSubsetOrderingWellFounded
<1> HIDE DEF R
<1>3. PICK x \in I : \A y \in I : <<y, x>> \notin R
  BY <1>1, <1>2, WFMin
<1>4. PICK m \in S : x = 0..m
  OBVIOUS
<1>5. ASSUME NEW j \in S, j < m PROVE FALSE
  <2>1. (0..j) \subseteq Nat /\ (0..m) \subseteq Nat
        /\ (0..j) \subseteq (0..m) /\ m \in (0..m) /\ m \notin (0..j)
    BY <1>5
  <2>2. <<0..j, 0..m>> \in R
    BY <2>1 DEF R, StrictSubsetOrdering
  <2> QED
    BY <1>3, <1>4, <2>2
<1> QED
  BY <1>5

(* The place of an address in the text that starts at x.                   *)
LEMMA PlaceOf ==
  ASSUME NEW x \in Int, NEW y \in Int, NEW a \in Int, x <= a, a <= y - 1
  PROVE  a - x + 1 \in 1..(y - x) /\ x + (a - x + 1) - 1 = a
  OBVIOUS

(* The last of some places in a list.                                      *)
LEMMA LastPlace ==
  ASSUME NEW n \in Nat, NEW S \in SUBSET (1..n), S # {}
  PROVE  Max(S) \in S /\ \A j \in S : j <= Max(S)
<1> DEFINE T == {n - i : i \in S}
<1>1. T \in SUBSET Nat /\ T # {}
  <2>1. \A i \in S : n - i \in Nat
    OBVIOUS
  <2> QED
    BY <2>1
<1>2. PICK m \in T : \A j \in T : m <= j
  BY <1>1, LeastNumber
<1>3. PICK i \in S : m = n - i
  OBVIOUS
<1>4. \A j \in S : i >= j
  <2> SUFFICES ASSUME NEW j \in S PROVE i >= j
    OBVIOUS
  <2>1. n - j \in T /\ i \in 1..n /\ j \in 1..n
    OBVIOUS
  <2> QED
    BY <1>2, <1>3, <2>1
<1>5. Max(S) \in S /\ \A j \in S : Max(S) >= j
  BY <1>4 DEF Max
<1> QED
  BY <1>5

-----------------------------------------------------------------------------
(* Lists of intervals                                                      *)

Cell == [begin : Nat, end : Nat, data : Seq(Byte)]

(* Ascending lists its intervals, each once, in the order of their first   *)
(* addresses, when these differ.                                           *)
Lists(s, S) ==
  /\ s \in Seq(S)
  /\ \A i, j \in 1..Len(s) : i < j => s[i].begin < s[j].begin
  /\ \A iv \in S : \E i \in 1..Len(s) : s[i] = iv

LEMMA AscendingLists ==
  ASSUME NEW S \in SUBSET Cell, IsFiniteSet(S),
         \A p, q \in S : p.begin = q.begin => p = q
  PROVE  Lists(Ascending(S), S)
<1> DEFINE n == Cardinality(S)
           upTo(p) == {q \in S : q.begin <= p.begin}
           rank == [p \in S |-> Cardinality(upTo(p))]
<1>0. \A p \in S : p.begin \in Nat
  BY DEF Cell
<1>1. n \in Nat
  BY FS_CardinalityType
<1>2. ASSUME NEW p \in S
      PROVE  IsFiniteSet(upTo(p)) /\ rank[p] \in 1..n
  <2>1. IsFiniteSet(upTo(p)) /\ Cardinality(upTo(p)) <= n
    BY FS_Subset
  <2>2. p \in upTo(p)
    BY <1>0
  <2>3. Cardinality(upTo(p)) \in Nat /\ Cardinality(upTo(p)) # 0
    BY <2>1, <2>2, FS_CardinalityType, FS_EmptySet
  <2> QED
    BY <1>1, <2>1, <2>3
<1>3. ASSUME NEW p \in S, NEW r \in S, p.begin < r.begin
      PROVE  rank[p] < rank[r]
  <2>1. upTo(p) \subseteq upTo(r)
    BY <1>0, <1>3
  <2>2. r \in upTo(r) /\ r \notin upTo(p)
    BY <1>0, <1>3
  <2>3. Cardinality(upTo(p)) <= Cardinality(upTo(r)) /\ Cardinality(upTo(p)) # Cardinality(upTo(r))
    BY <1>2, <2>1, <2>2, FS_Subset
  <2>4. rank[p] \in Int /\ rank[r] \in Int
    BY <1>2
  <2> QED
    BY <2>3, <2>4
<1>4. \A p, r \in S : rank[p] = rank[r] => p = r
  <2> SUFFICES ASSUME NEW p \in S, NEW r \in S, rank[p] = rank[r], p # r PROVE FALSE
    OBVIOUS
  <2>1. p.begin < r.begin \/ r.begin < p.begin
    BY <1>0
  <2>2. rank[p] \in Int /\ rank[r] \in Int
    BY <1>2
  <2> HIDE DEF rank
  <2> QED
    BY <1>3, <2>1, <2>2
<1>5. rank \in [S -> 1..n]
  BY <1>2
<1>6. \A p \in S : rank[p] = Cardinality({q \in S : q.begin <= p.begin})
  OBVIOUS
<1> HIDE DEF rank
<1>7. rank \in Surjection(S, 1..n)
  <2>1. rank \in Injection(S, 1..n)
    BY <1>4, <1>5 DEF Injection, IsInjective
  <2>2. IsFiniteSet(1..n) /\ Cardinality(1..n) = n
    BY <1>1, FS_Interval
  <2> QED
    BY <2>1, <2>2, FS_Injection
<1>8. \A i \in 1..n : \E p \in S : rank[p] = i
  BY <1>7 DEF Surjection
<1> DEFINE s == Ascending(S)
<1>9. s = [i \in 1..n |-> CHOOSE p \in S : Cardinality({q \in S : q.begin <= p.begin}) = i]
  BY DEF Ascending
<1>10. ASSUME NEW i \in 1..n PROVE s[i] \in S /\ rank[s[i]] = i
  <2>1. \E p \in S : Cardinality({q \in S : q.begin <= p.begin}) = i
    BY <1>6, <1>8
  <2>2. s[i] = CHOOSE p \in S : Cardinality({q \in S : q.begin <= p.begin}) = i
    BY <1>9
  <2>3. s[i] \in S /\ Cardinality({q \in S : q.begin <= s[i].begin}) = i
    BY <2>1, <2>2
  <2> QED
    BY <1>6, <2>3
<1> HIDE DEF s, n
<1>11. s \in Seq(S) /\ Len(s) = n
  <2>1. s \in [1..n -> S]
    BY <1>9, <1>10
  <2> QED
    BY <1>1, <2>1
<1>12. ASSUME NEW i \in 1..n, NEW j \in 1..n, i < j
       PROVE  s[i].begin < s[j].begin
  <2>1. s[i] \in S /\ s[j] \in S /\ rank[s[i]] = i /\ rank[s[j]] = j
    BY <1>10
  <2>2. s[i] # s[j]
    BY <1>1, <1>12, <2>1
  <2>3. s[i].begin \in Nat /\ s[j].begin \in Nat /\ s[i].begin # s[j].begin
    BY <1>0, <2>1, <2>2
  <2>4. ~(s[j].begin < s[i].begin)
    BY <1>1, <1>3, <1>12, <2>1
  <2> QED
    BY <2>3, <2>4
<1>13. ASSUME NEW iv \in S PROVE \E i \in 1..Len(s) : s[i] = iv
  <2>1. rank[iv] \in 1..n
    BY <1>5
  <2>2. s[rank[iv]] \in S /\ rank[s[rank[iv]]] = rank[iv]
    BY <1>10, <2>1
  <2> QED
    BY <1>4, <1>11, <2>1, <2>2
<1>14. Lists(s, S)
  BY <1>11, <1>12, <1>13 DEF Lists
<1> QED
  BY <1>14 DEF s

(* In a tree of intervals that are apart, those that share an address with *)
(* [b, e) are finitely many and begin at different addresses.              *)
LEMMA OverlapFinite ==
  ASSUME NEW S \in SUBSET Cell, WellFormed(S), NEW b \in Nat, NEW e \in Nat
  PROVE  /\ Overlap(S, b, e) \in SUBSET Cell
         /\ \A p, q \in S : p.begin = q.begin => p = q
         /\ IsFiniteSet(Overlap(S, b, e))
<1>1. \A p \in S : p.begin \in Nat /\ p.end \in Nat /\ p.begin < p.end
  BY DEF Cell, WellFormed
<1>2. \A p, q \in S : p.begin = q.begin => p = q
  BY <1>1 DEF WellFormed
<1> DEFINE O == Overlap(S, b, e)
           f == [p \in O |-> p.begin]
<1>3. O \subseteq S /\ \A p \in O : p.begin \in 0..e
  BY <1>1 DEF Overlap
<1> HIDE DEF O
<1>4. f \in Injection(O, 0..e)
  BY <1>2, <1>3 DEF Injection, IsInjective
<1>5. IsFiniteSet(0..e)
  BY FS_Interval
<1>6. IsFiniteSet(O)
  BY <1>4, <1>5, FS_Injection
<1> QED
  BY <1>2, <1>3, <1>6 DEF O

-----------------------------------------------------------------------------
(* What is not cached                                                      *)

Gap == [begin : Nat, end : Nat]

Apart(p, q) == p.end <= q.begin \/ q.end <= p.begin
Within(a, p) == p.begin <= a /\ a < p.end

(* What an interval leaves of a range: parts of it that are apart from the *)
(* interval and from each other, and that together with it make the range. *)
LEMMA CutParts ==
  ASSUME NEW r \in Gap, r.begin < r.end, NEW iv \in Cell, iv.begin < iv.end
  PROVE  /\ \A p \in Cut(r, iv) : /\ p \in Gap /\ p.begin < p.end
                                  /\ r.begin <= p.begin /\ p.end <= r.end
                                  /\ Apart(p, iv)
         /\ \A p, q \in Cut(r, iv) : p = q \/ Apart(p, q)
         /\ \A a \in Nat : Within(a, r) =>
              Within(a, iv) \/ \E p \in Cut(r, iv) : Within(a, p)
<1>1. r.begin \in Nat /\ r.end \in Nat /\ iv.begin \in Nat /\ iv.end \in Nat
  BY DEF Gap, Cell
<1>2. CASE iv.end < r.begin \/ iv.begin > r.end
  <2>1. Cut(r, iv) = {r}
    BY <1>2 DEF Cut
  <2> QED
    BY <1>1, <1>2, <2>1 DEF Apart, Within
<1>3. CASE ~(iv.end < r.begin \/ iv.begin > r.end)
  <2> DEFINE u == [begin |-> r.begin, end |-> iv.begin]
             v == [begin |-> iv.end, end |-> r.end]
  <2>1. \A p : p \in Cut(r, iv) <=> (p = u /\ u.begin < u.end) \/ (p = v /\ v.begin < v.end)
    BY <1>3 DEF Cut
  <2>2. /\ u \in Gap /\ u.begin = r.begin /\ u.end = iv.begin
        /\ v \in Gap /\ v.begin = iv.end /\ v.end = r.end
    BY <1>1 DEF Gap
  <2> HIDE DEF u, v
  <2> QED
    BY <1>1, <1>3, <2>1, <2>2 DEF Apart, Within
<1> QED
  BY <1>2, <1>3

(* Cutting the first n of a list of intervals out of [b, e).               *)
Remains(ranges, iv) == UNION {Cut(range, iv) : range \in ranges}
Rest(list, b, e, n, f) ==
  f = [k \in 0..n |-> IF k = 0 THEN {[begin |-> b, end |-> e]} ELSE Remains(f[k - 1], list[k])]

(* There is always such a function.                                        *)
LEMMA RestExists ==
  ASSUME NEW list, NEW b, NEW e, NEW n \in Nat
  PROVE  \E f : Rest(list, b, e, n, f)
<1> DEFINE Bad == {m \in 0..n : ~ \E f : Rest(list, b, e, m, f)}
<1> SUFFICES ASSUME Bad # {} PROVE FALSE
  OBVIOUS
<1>1. PICK m \in Bad : \A j \in Bad : m <= j
  <2>1. Bad \in SUBSET Nat
    OBVIOUS
  <2> QED
    BY <2>1, LeastNumber
<1>2. m \in 0..n /\ ~ \E f : Rest(list, b, e, m, f)
  OBVIOUS
<1>3. CASE m = 0
  <2>1. Rest(list, b, e, m, [k \in 0..m |-> {[begin |-> b, end |-> e]}])
    BY <1>3 DEF Rest
  <2> QED
    BY <1>2, <2>1
<1>4. CASE m # 0
  <2>1. m - 1 \in 0..n /\ m - 1 \notin Bad
    BY <1>1, <1>2, <1>4
  <2>2. PICK f : Rest(list, b, e, m - 1, f)
    BY <2>1
  <2> DEFINE g == [k \in 0..m |-> IF k = 0 THEN {[begin |-> b, end |-> e]}
                                           ELSE Remains(f[k - 1], list[k])]
  <2>3. \A k \in 0..(m - 1) : g[k] = f[k]
    <3>1. \A k \in 0..(m - 1) : f[k] = IF k = 0 THEN {[begin |-> b, end |-> e]}
                                              ELSE Remains(f[k - 1], list[k])
      BY <2>2 DEF Rest
    <3>2. m \in Nat
      BY <1>2
    <3> SUFFICES ASSUME NEW k \in 0..(m - 1) PROVE g[k] = f[k]
      OBVIOUS
    <3>3. k \in 0..m
      BY <3>2
    <3>4. g[k] = IF k = 0 THEN {[begin |-> b, end |-> e]} ELSE Remains(f[k - 1], list[k])
      BY <3>3
    <3> QED
      BY <3>1, <3>4
  <2>4. \A k \in 0..m : k # 0 => g[k - 1] = f[k - 1]
    <3> SUFFICES ASSUME NEW k \in 0..m, k # 0 PROVE g[k - 1] = f[k - 1]
      OBVIOUS
    <3>1. k - 1 \in 0..(m - 1)
      BY <1>2
    <3> QED
      BY <2>3, <3>1
  <2>5. g = [k \in 0..m |-> IF k = 0 THEN {[begin |-> b, end |-> e]}
                                     ELSE Remains(g[k - 1], list[k])]
    <3>1. \A k \in 0..m : g[k] = IF k = 0 THEN {[begin |-> b, end |-> e]}
                                        ELSE Remains(g[k - 1], list[k])
      BY <2>4
    <3> HIDE DEF g
    <3>2. g = [k \in 0..m |-> g[k]]
      BY DEF g
    <3> QED
      BY <3>1, <3>2
  <2> QED
    BY <1>2, <2>5 DEF Rest
<1> QED
  BY <1>3, <1>4

(* What all the intervals of a list leave is the last value of one.        *)
LEMMA CutAllUnfolds ==
  ASSUME NEW list, NEW b, NEW e, Len(list) \in Nat
  PROVE  \E f : Rest(list, b, e, Len(list), f) /\ CutAll(list, b, e) = f[Len(list)]
<1> DEFINE n == Len(list)
           g == CHOOSE f : f = [k \in 0..n |-> IF k = 0 THEN {[begin |-> b, end |-> e]}
                                  ELSE UNION {Cut(range, list[k]) : range \in f[k - 1]}]
<1>1. CutAll(list, b, e) = g[n]
  BY DEF CutAll
<1>2. PICK f : Rest(list, b, e, n, f)
  BY RestExists
<1>3. f = [k \in 0..n |-> IF k = 0 THEN {[begin |-> b, end |-> e]}
                          ELSE UNION {Cut(range, list[k]) : range \in f[k - 1]}]
  BY <1>2 DEF Rest, Remains
<1>4. g = [k \in 0..n |-> IF k = 0 THEN {[begin |-> b, end |-> e]}
                          ELSE UNION {Cut(range, list[k]) : range \in g[k - 1]}]
  BY <1>3, Zenon
<1>5. Rest(list, b, e, n, g)
  BY <1>4, Zenon DEF Rest, Remains
<1> HIDE DEF g
<1> QED
  BY <1>1, <1>5

(* The ranges are what the first k intervals leave of [b, e): apart from   *)
(* these and from each other, and together with these all of it.           *)
LeftBy(list, b, e, k, ranges) ==
  /\ \A p \in ranges : /\ p \in Gap /\ p.begin < p.end
                       /\ b <= p.begin /\ p.end <= e
                       /\ \A i \in 1..k : Apart(p, list[i])
  /\ \A p, q \in ranges : p = q \/ Apart(p, q)
  /\ \A a \in Nat : Within(a, [begin |-> b, end |-> e]) =>
       \/ \E i \in 1..k : Within(a, list[i])
       \/ \E p \in ranges : Within(a, p)

(* One interval more.                                                      *)
LEMMA CutOneMore ==
  ASSUME NEW list \in Seq(Cell), NEW b \in Nat, NEW e \in Nat, NEW k \in 1..Len(list),
         list[k].begin < list[k].end, NEW ranges, LeftBy(list, b, e, k - 1, ranges)
  PROVE  LeftBy(list, b, e, k, Remains(ranges, list[k]))
<1> DEFINE iv == list[k]
           new == Remains(ranges, iv)
<1>0. iv \in Cell /\ iv.begin < iv.end /\ k \in Nat
  OBVIOUS
<1>1. ASSUME NEW r \in ranges
      PROVE  r \in Gap /\ r.begin < r.end /\ b <= r.begin /\ r.end <= e
             /\ \A i \in 1..(k - 1) : Apart(r, list[i])
  BY DEF LeftBy
<1>2. ASSUME NEW p \in new
      PROVE  \E r \in ranges : p \in Cut(r, iv)
  BY DEF Remains
<1>3. ASSUME NEW r \in ranges, NEW p \in Cut(r, iv)
      PROVE  p \in Gap /\ p.begin < p.end /\ r.begin <= p.begin /\ p.end <= r.end /\ Apart(p, iv)
  BY <1>0, <1>1, CutParts
<1> HIDE DEF iv, new
<1>4. ASSUME NEW p \in Gap, NEW r \in Gap, r.begin <= p.begin, p.end <= r.end,
             NEW q \in Gap, NEW t \in Gap, t.begin <= q.begin, q.end <= t.end, Apart(r, t)
      PROVE  Apart(p, q)
  BY <1>4 DEF Gap, Apart
<1>5. ASSUME NEW p \in new
      PROVE  /\ p \in Gap /\ p.begin < p.end /\ b <= p.begin /\ p.end <= e
             /\ \A i \in 1..k : Apart(p, list[i])
  <2>1. PICK r \in ranges : p \in Cut(r, iv)
    BY <1>2
  <2>2. p \in Gap /\ p.begin < p.end /\ r.begin <= p.begin /\ p.end <= r.end /\ Apart(p, iv)
    BY <1>3, <2>1
  <2>3. r \in Gap /\ b <= r.begin /\ r.end <= e
    BY <1>1
  <2>4. b <= p.begin /\ p.end <= e
    BY <2>2, <2>3 DEF Gap
  <2>5. ASSUME NEW i \in 1..k PROVE Apart(p, list[i])
    <3>1. CASE i = k
      BY <2>2, <3>1 DEF iv
    <3>2. CASE i # k
      <4>1. i \in 1..(k - 1) /\ list[i] \in Cell
        BY <1>0, <3>2
      <4>2. Apart(r, list[i])
        BY <1>1, <4>1
      <4>3. p.begin \in Nat /\ p.end \in Nat /\ r.begin \in Nat /\ r.end \in Nat
        BY <2>2, <2>3 DEF Gap
      <4>4. list[i].begin \in Nat /\ list[i].end \in Nat
        BY <4>1 DEF Cell
      <4>5. r.begin <= p.begin /\ p.end <= r.end
        BY <2>2
      <4> QED
        BY <4>2, <4>3, <4>4, <4>5 DEF Apart
    <3> QED
      BY <3>1, <3>2
  <2> QED
    BY <2>2, <2>4, <2>5
<1>6. ASSUME NEW p \in new, NEW q \in new, p # q
      PROVE  Apart(p, q)
  <2>1. PICK r \in ranges : p \in Cut(r, iv)
    BY <1>2
  <2>2. PICK t \in ranges : q \in Cut(t, iv)
    BY <1>2
  <2>3. CASE r = t
    BY <1>0, <1>1, <1>6, <2>1, <2>2, <2>3, CutParts
  <2>4. CASE r # t
    <3>1. Apart(r, t)
      BY <2>4 DEF LeftBy
    <3> QED
      BY <1>1, <1>3, <1>4, <2>1, <2>2, <3>1
  <2> QED
    BY <2>3, <2>4
<1>7. ASSUME NEW a \in Nat, Within(a, [begin |-> b, end |-> e])
      PROVE  \/ \E i \in 1..k : Within(a, list[i])
             \/ \E p \in new : Within(a, p)
  <2>1. CASE \E i \in 1..(k - 1) : Within(a, list[i])
    <3>1. PICK i \in 1..(k - 1) : Within(a, list[i])
      BY <2>1
    <3>2. i \in 1..k
      BY <1>0
    <3> QED
      BY <3>1, <3>2
  <2>2. CASE \E r \in ranges : Within(a, r)
    <3>1. PICK r \in ranges : Within(a, r)
      BY <2>2
    <3>2. Within(a, iv) \/ \E p \in Cut(r, iv) : Within(a, p)
      BY <1>0, <1>1, <3>1, CutParts
    <3>3. \A p \in Cut(r, iv) : p \in new
      BY DEF new, Remains
    <3>4. k \in 1..k
      BY <1>0
    <3> QED
      BY <3>2, <3>3, <3>4 DEF iv
  <2> QED
    BY <1>7, <2>1, <2>2 DEF LeftBy
<1>8. LeftBy(list, b, e, k, new)
  BY <1>5, <1>6, <1>7 DEF LeftBy
<1> QED
  BY <1>8 DEF new, iv

(* All of them.                                                            *)
LEMMA CutAllParts ==
  ASSUME NEW list \in Seq(Cell), \A i \in 1..Len(list) : list[i].begin < list[i].end,
         NEW b \in Nat, NEW e \in Nat, b < e
  PROVE  LeftBy(list, b, e, Len(list), CutAll(list, b, e))
<1> DEFINE n == Len(list)
           whole == {[begin |-> b, end |-> e]}
<1>0. n \in Nat
  OBVIOUS
<1>1. PICK f : Rest(list, b, e, n, f) /\ CutAll(list, b, e) = f[n]
  BY <1>0, CutAllUnfolds
<1>2. \A k \in 0..n : f[k] = IF k = 0 THEN whole ELSE Remains(f[k - 1], list[k])
  BY <1>1 DEF Rest
<1> DEFINE Bad == {k \in 0..n : ~LeftBy(list, b, e, k, f[k])}
<1>3. LeftBy(list, b, e, 0, whole)
  BY DEF LeftBy, Gap, Apart
<1> HIDE DEF n, whole
<1>4. ASSUME Bad # {} PROVE FALSE
  <2>1. Bad \in SUBSET Nat
    BY <1>0
  <2>2. PICK k \in Bad : \A j \in Bad : k <= j
    BY <1>4, <2>1, LeastNumber
  <2>3. k \in 0..n /\ ~LeftBy(list, b, e, k, f[k])
    OBVIOUS
  <2>4. k # 0
    BY <1>0, <1>2, <1>3, <2>3
  <2>5. k - 1 \in 0..n /\ k \in 1..n
    BY <1>0, <2>3, <2>4
  <2>6. k - 1 \notin Bad
    BY <1>0, <2>2, <2>3
  <2>7. LeftBy(list, b, e, k - 1, f[k - 1])
    BY <2>5, <2>6
  <2>8. LeftBy(list, b, e, k, Remains(f[k - 1], list[k]))
    BY <2>5, <2>7, CutOneMore DEF n
  <2> QED
    BY <1>2, <2>3, <2>4, <2>8
<1>5. n \in 0..n
  BY <1>0
<1> QED
  BY <1>1, <1>4, <1>5 DEF n

(* What is not cached of a range: apart from all that is, and with it all  *)
(* of the range.                                                           *)
LEMMA UncachedParts ==
  ASSUME NEW S \in SUBSET Cell, WellFormed(S), NEW b \in Nat, NEW e \in Nat, b < e
  PROVE  LET ranges == Uncached(S, b, e)
         IN /\ \A p \in ranges : /\ p \in Gap /\ p.begin < p.end
                                 /\ b <= p.begin /\ p.end <= e
                                 /\ \A iv \in S : Apart(p, iv)
            /\ \A p, q \in ranges : p = q \/ Apart(p, q)
            /\ \A a \in Nat : b <= a /\ a < e =>
                 \/ \E iv \in Overlap(S, b, e) : Within(a, iv)
                 \/ \E p \in ranges : Within(a, p)
<1> DEFINE O == Overlap(S, b, e)
           list == Ascending(O)
           ranges == Uncached(S, b, e)
<1>1. O \in SUBSET Cell /\ IsFiniteSet(O) /\ O \subseteq S
  BY OverlapFinite DEF Overlap
<1>2. \A p, q \in O : p.begin = q.begin => p = q
  BY <1>1, OverlapFinite
<1> HIDE DEF O
<1>3. Lists(list, O)
  BY <1>1, <1>2, AscendingLists
<1> HIDE DEF list
<1>4. list \in Seq(O) /\ \A iv \in O : \E i \in 1..Len(list) : list[i] = iv
  BY <1>3 DEF Lists
<1>5. list \in Seq(Cell) /\ \A i \in 1..Len(list) : list[i] \in O
  BY <1>1, <1>4
<1>6. \A i \in 1..Len(list) : list[i].begin < list[i].end
  BY <1>1, <1>5 DEF WellFormed
<1>7. LeftBy(list, b, e, Len(list), ranges)
  BY <1>5, <1>6, CutAllParts DEF Uncached, list, O
<1> HIDE DEF ranges
<1>8. ASSUME NEW p \in ranges, NEW iv \in S PROVE Apart(p, iv)
  <2>1. p \in Gap /\ b <= p.begin /\ p.end <= e /\ \A i \in 1..Len(list) : Apart(p, list[i])
    BY <1>7 DEF LeftBy
  <2>2. CASE iv \in O
    BY <1>4, <2>1, <2>2
  <2>3. CASE iv \notin O
    BY <2>1, <2>3 DEF O, Overlap, Apart, Cell, Gap
  <2> QED
    BY <2>2, <2>3
<1>9. ASSUME NEW a \in Nat, b <= a, a < e
      PROVE  (\E iv \in O : Within(a, iv)) \/ \E p \in ranges : Within(a, p)
  <2>1. Within(a, [begin |-> b, end |-> e])
    BY <1>9 DEF Within
  <2>2. (\E i \in 1..Len(list) : Within(a, list[i])) \/ \E p \in ranges : Within(a, p)
    BY <1>7, <2>1 DEF LeftBy
  <2> QED
    BY <1>5, <2>2
<1>10. /\ \A p \in ranges : p \in Gap /\ p.begin < p.end /\ b <= p.begin /\ p.end <= e
       /\ \A p, q \in ranges : p = q \/ Apart(p, q)
  BY <1>7 DEF LeftBy
<1> QED
  BY <1>8, <1>9, <1>10 DEF ranges, O

-----------------------------------------------------------------------------
(* Bytes of memory                                                         *)

Memory == [Address -> Byte]

(* A sequence of the bytes from x to y, as many as there are, and those of *)
(* a memory.                                                               *)
Fills(s, x, y) == s \in Seq(Byte) /\ Len(s) = y - x
Text(s, x, y, m) == Fills(s, x, y) /\ \A a \in x..(y - 1) : s[a - x + 1] = m[a]

(* Intervals of a tree hold their bytes, are of the memory, and apart.     *)
Sound(iv) ==
  iv \in Cell /\ iv.begin < iv.end /\ iv.begin..(iv.end - 1) \subseteq Address
  /\ Len(iv.data) = iv.end - iv.begin
Tree(S) == (\A iv \in S : Sound(iv)) /\ \A p, q \in S : p = q \/ Apart(p, q)

LEMMA TreeIsWellFormed ==
  ASSUME NEW S, Tree(S)
  PROVE  S \in SUBSET Cell /\ WellFormed(S)
  BY DEF Tree, Sound, Apart, WellFormed

(* One sequence after the other.                                           *)
LEMMA TextsJoin ==
  ASSUME NEW x \in Nat, NEW y \in Nat, NEW z \in Nat, NEW s, NEW t,
         Fills(s, x, y), Fills(t, y, z)
  PROVE  /\ Fills(s \o t, x, z)
         /\ \A m : Text(s, x, y, m) /\ Text(t, y, z, m) => Text(s \o t, x, z, m)
<1>1. s \in Seq(Byte) /\ t \in Seq(Byte) /\ Len(s) = y - x /\ Len(t) = z - y
  BY DEF Fills
<1>2. /\ s \o t \in Seq(Byte) /\ Len(s \o t) = z - x
      /\ \A i \in 1..(z - x) : (s \o t)[i] = IF i <= y - x THEN s[i] ELSE t[i - (y - x)]
  BY <1>1
<1>3. ASSUME NEW m, Text(s, x, y, m), Text(t, y, z, m)
      PROVE  Text(s \o t, x, z, m)
  <2> SUFFICES ASSUME NEW a \in x..(z - 1) PROVE (s \o t)[a - x + 1] = m[a]
    BY <1>2 DEF Text, Fills
  <2>1. a - x + 1 \in 1..(z - x)
    OBVIOUS
  <2>2. CASE a < y
    <3>1. a \in x..(y - 1) /\ a - x + 1 <= y - x
      BY <2>2
    <3>2. s[a - x + 1] = m[a]
      BY <1>3, <3>1 DEF Text
    <3> QED
      BY <1>2, <2>1, <3>1, <3>2
  <2>3. CASE ~(a < y)
    <3>1. a \in y..(z - 1) /\ ~(a - x + 1 <= y - x) /\ a - x + 1 - (y - x) = a - y + 1
      BY <2>3
    <3>2. t[a - y + 1] = m[a]
      BY <1>3, <3>1 DEF Text
    <3>3. (s \o t)[a - x + 1] = t[(a - x + 1) - (y - x)]
      BY <1>2, <2>1, <3>1
    <3>4. (a - x + 1) - (y - x) = a - y + 1
      OBVIOUS
    <3> QED
      BY <3>2, <3>3, <3>4
  <2> QED
    BY <2>2, <2>3
<1> QED
  BY <1>2, <1>3 DEF Fills

(* A slice of an interval.                                                 *)
LEMMA SliceText ==
  ASSUME NEW iv, Sound(iv), NEW x \in Nat, NEW y \in Nat, iv.begin <= x, x <= y, y <= iv.end
  PROVE  /\ Fills(Slice(iv, x, y), x, y)
         /\ \A m : Text(iv.data, iv.begin, iv.end, m) => Text(Slice(iv, x, y), x, y, m)
<1> DEFINE c == x - iv.begin + 1
           d == y - iv.begin
           s == Slice(iv, x, y)
<1>1. /\ iv.begin \in Nat /\ iv.end \in Nat /\ iv.data \in Seq(Byte)
      /\ Len(iv.data) = iv.end - iv.begin
  BY DEF Sound, Cell
<1>2. /\ c \in Int /\ d \in Int /\ d - c + 1 = y - x
      /\ \A i \in c..d : i \in 1..Len(iv.data)
  <2>1. c \in Int /\ d \in Int /\ d - c + 1 = y - x /\ 1 <= c /\ d <= iv.end - iv.begin
    BY <1>1
  <2> HIDE DEF c, d
  <2> QED
    BY <1>1, <2>1
<1>3. \A i \in c..d : iv.data[i] \in Byte
  <2> HIDE DEF c, d
  <2>1. \A i \in 1..Len(iv.data) : iv.data[i] \in Byte
    BY <1>1
  <2> QED
    BY <1>2, <2>1
<1> HIDE DEF c, d
<1>4. /\ SubSeq(iv.data, c, d) \in Seq(Byte)
      /\ Len(SubSeq(iv.data, c, d)) = IF c <= d THEN d - c + 1 ELSE 0
      /\ \A i \in 1..(d - c + 1) : SubSeq(iv.data, c, d)[i] = iv.data[c + i - 1]
  BY <1>2, <1>3, SubSeqProperties
<1>5. s = SubSeq(iv.data, c, d)
  BY DEF Slice, c, d
<1> HIDE DEF s
<1>6. Fills(s, x, y)
  BY <1>2, <1>4, <1>5 DEF Fills
<1>7. ASSUME NEW m, Text(iv.data, iv.begin, iv.end, m), NEW a \in x..(y - 1)
      PROVE  s[a - x + 1] = m[a]
  <2>1. a - x + 1 \in 1..(d - c + 1)
    BY <1>2, PlaceOf
  <2>2. c + (a - x + 1) - 1 = a - iv.begin + 1
    BY <1>1 DEF c
  <2>3. s[a - x + 1] = iv.data[a - iv.begin + 1]
    BY <1>4, <1>5, <2>1, <2>2
  <2>4. a \in iv.begin..(iv.end - 1)
    BY <1>1
  <2> QED
    BY <1>7, <2>3, <2>4 DEF Text
<1> QED
  BY <1>6, <1>7 DEF s, Text

(* Nothing, and what two memories have in common.                          *)
LEMMA NoText ==
  ASSUME NEW x \in Nat
  PROVE  Fills(<<>>, x, x) /\ \A m : Text(<<>>, x, x, m)
  BY DEF Fills, Text

LEMMA SameText ==
  ASSUME NEW x \in Nat, NEW y \in Nat, NEW s, NEW m, NEW n, Text(s, x, y, m),
         \A a \in x..(y - 1) : m[a] = n[a]
  PROVE  Text(s, x, y, n)
  BY DEF Text

(* A tree mirrors a memory if each interval holds its bytes.               *)
Mirrors(S, m) ==
  \A iv \in S : \A a \in iv.begin..(iv.end - 1) : iv.data[a - iv.begin + 1] = m[a]

LEMMA MirrorsTexts ==
  ASSUME NEW S, Tree(S), NEW m
  PROVE  Mirrors(S, m) <=> \A iv \in S : Text(iv.data, iv.begin, iv.end, m)
<1>1. \A iv \in S : Fills(iv.data, iv.begin, iv.end)
  BY DEF Tree, Sound, Cell, Fills
<1> QED
  BY <1>1 DEF Mirrors, Text

(* A tree that mirrors the memory but at some addresses mirrors a memory   *)
(* that differs there only, and only where it holds bytes.                 *)
LEMMA Believed ==
  ASSUME NEW S, Tree(S), NEW m \in Memory, NEW but, MirrorsBut(S, m, but)
  PROVE  \E n \in Memory : /\ Mirrors(S, n)
                           /\ \A a \in Address : a \notin but \cap Held(S) => n[a] = m[a]
<1> DEFINE holder(a) == CHOOSE iv \in S : Within(a, iv)
           held(a) == \E iv \in S : Within(a, iv)
           n == [a \in Address |-> IF held(a) THEN holder(a).data[a - holder(a).begin + 1] ELSE m[a]]
<1>1. ASSUME NEW iv \in S, NEW a \in iv.begin..(iv.end - 1)
      PROVE  /\ a \in Address /\ n[a] = iv.data[a - iv.begin + 1]
             /\ iv.data[a - iv.begin + 1] \in Byte
  <2>1. /\ iv \in Cell /\ iv.begin..(iv.end - 1) \subseteq Address
        /\ Len(iv.data) = iv.end - iv.begin
    BY DEF Tree, Sound
  <2>2. iv.begin \in Int /\ iv.end \in Int /\ a \in Int /\ iv.begin <= a /\ a < iv.end
        /\ iv.data \in Seq(Byte)
    BY <2>1 DEF Cell
  <2>3. Within(a, iv)
    BY <2>2 DEF Within
  <2>4. holder(a) \in S /\ Within(a, holder(a))
    BY <2>3
  <2>5. holder(a) = iv
    <3> HIDE DEF holder
    <3>1. holder(a).begin \in Int /\ holder(a).end \in Int
      BY <2>4 DEF Tree, Sound, Cell
    <3>2. ~Apart(holder(a), iv)
      BY <2>2, <2>3, <2>4, <3>1 DEF Apart, Within
    <3> QED
      BY <2>4, <3>2 DEF Tree
  <2>6. a \in Address /\ held(a)
    BY <2>1, <2>3
  <2>7. n[a] = iv.data[a - iv.begin + 1]
    <3> HIDE DEF holder, held
    <3> QED
      BY <2>5, <2>6
  <2>8. a - iv.begin + 1 \in 1..Len(iv.data)
    BY <2>1, <2>2
  <2>9. iv.data[a - iv.begin + 1] \in Byte
    BY <2>2, <2>8
  <2> QED
    BY <2>6, <2>7, <2>9
<1>2. ASSUME NEW a \in Address, held(a)
      PROVE  \E iv \in S : a \in iv.begin..(iv.end - 1)
  <2>1. PICK iv \in S : Within(a, iv)
    BY <1>2
  <2>2. iv.begin \in Nat /\ iv.end \in Nat /\ a \in Nat
    BY ContextAssumption DEF Tree, Sound, Cell, ContextAssumption
  <2> QED
    BY <2>1, <2>2 DEF Within
<1>3. ASSUME NEW a \in Address PROVE n[a] \in Byte
  <2>1. CASE held(a)
    <3>1. PICK iv \in S : a \in iv.begin..(iv.end - 1)
      BY <1>2, <2>1
    <3> HIDE DEF n
    <3> QED
      BY <1>1, <3>1
  <2>2. CASE ~held(a)
    BY <2>2 DEF Memory
  <2> QED
    BY <2>1, <2>2
<1>4. n \in Memory
  <2>1. DOMAIN n = Address /\ n = [a \in Address |-> n[a]]
    OBVIOUS
  <2> HIDE DEF n
  <2> QED
    BY <1>3, <2>1 DEF Memory
<1>5. Mirrors(S, n)
  <2> HIDE DEF n
  <2> QED
    BY <1>1 DEF Mirrors
<1>6. ASSUME NEW a \in Address, a \notin but \cap Held(S) PROVE n[a] = m[a]
  <2>1. CASE held(a)
    <3>1. PICK iv \in S : a \in iv.begin..(iv.end - 1)
      BY <1>2, <2>1
    <3>2. a \in Held(S)
      BY <3>1 DEF Held
    <3>3. iv.data[a - iv.begin + 1] = m[a]
      BY <1>6, <3>1, <3>2 DEF MirrorsBut
    <3> HIDE DEF n
    <3> QED
      BY <1>1, <3>1, <3>3
  <2>2. CASE ~held(a)
    BY <2>2
  <2> QED
    BY <2>1, <2>2
<1> HIDE DEF n
<1> QED
  BY <1>4, <1>5, <1>6

(* And a tree that mirrors one such memory mirrors the other but there.    *)
LEMMA BelievedAgain ==
  ASSUME NEW S, Tree(S), NEW n, Mirrors(S, n), NEW m, NEW but,
         \A a \in Address : a \notin but => n[a] = m[a]
  PROVE  MirrorsBut(S, m, but)
<1> SUFFICES ASSUME NEW iv \in S, NEW a \in (iv.begin..(iv.end - 1)) \ but
             PROVE  iv.data[a - iv.begin + 1] = m[a]
  BY DEF MirrorsBut
<1>1. a \in Address
  BY DEF Tree, Sound
<1>2. iv.data[a - iv.begin + 1] = n[a]
  BY DEF Mirrors
<1> QED
  BY <1>1, <1>2

-----------------------------------------------------------------------------
(* What reads and writes make of the tree                                  *)

(* The range of an access.                                                 *)
Accessed(b, e) == b \in Nat /\ e \in Nat /\ b < e /\ b..(e - 1) \subseteq Address

(* Ranges that were read are sound intervals of what was there.            *)
LEMMA FetchedText ==
  ASSUME NEW m \in Memory, NEW p \in Gap, Accessed(p.begin, p.end),
         NEW iv, iv = [begin |-> p.begin, end |-> p.end,
                       data |-> [i \in 1..(p.end - p.begin) |-> m[p.begin + i - 1]]]
  PROVE  Sound(iv) /\ Text(iv.data, iv.begin, iv.end, m)
<1> DEFINE b == p.begin
           n == p.end - p.begin
           s == [i \in 1..n |-> m[b + i - 1]]
<1>1. b \in Nat /\ p.end \in Nat /\ n \in Nat /\ b..(p.end - 1) \subseteq Address /\ b < p.end
  BY DEF Accessed
<1>2. \A i \in 1..n : b + i - 1 \in b..(p.end - 1)
  BY <1>1
<1>3. \A i \in 1..n : m[b + i - 1] \in Byte
  BY <1>1, <1>2 DEF Memory
<1>4. s \in Seq(Byte) /\ Len(s) = n
  <2> DEFINE k == n
  <2>1. k \in Nat
    BY <1>1
  <2>2. s \in [1..k -> Byte]
    BY <1>3
  <2> HIDE DEF k, s
  <2>3. s \in Seq(Byte) /\ Len(s) = k
    BY <2>1, <2>2
  <2> QED
    BY <2>3 DEF k
<1>5. \A a \in b..(p.end - 1) : s[a - b + 1] = m[a]
  <2> SUFFICES ASSUME NEW a \in b..(p.end - 1) PROVE s[a - b + 1] = m[a]
    OBVIOUS
  <2>1. b \in Int /\ p.end \in Int /\ a \in Int /\ b <= a /\ a <= p.end - 1
    BY <1>1
  <2>2. a - b + 1 \in 1..n /\ b + (a - b + 1) - 1 = a
    BY <2>1, PlaceOf
  <2> QED
    BY <2>2
<1>6. iv.begin = b /\ iv.end = p.end /\ iv.data = s
  OBVIOUS
<1> HIDE DEF s
<1>7. iv \in Cell
  BY <1>1, <1>4, <1>6 DEF Cell
<1> QED
  BY <1>1, <1>4, <1>5, <1>6, <1>7 DEF Sound, Text, Fills

(* The tree after some ranges that were not cached have been read.         *)
LEMMA ReadKeepsTree ==
  ASSUME NEW S, Tree(S), NEW m \in Memory, NEW b, NEW e, Accessed(b, e),
         NEW some \in SUBSET Uncached(S, b, e)
  PROVE  /\ Tree(S \cup Fetched(some, m))
         /\ Mirrors(S, m) => Mirrors(S \cup Fetched(some, m), m)
<1> DEFINE F == Fetched(some, m)
<1>1. S \in SUBSET Cell /\ WellFormed(S) /\ b \in Nat /\ e \in Nat /\ b < e
  BY TreeIsWellFormed DEF Accessed
<1>2. ASSUME NEW p \in some
      PROVE  p \in Gap /\ p.begin < p.end /\ b <= p.begin /\ p.end <= e /\ \A iv \in S : Apart(p, iv)
  BY <1>1, UncachedParts
<1>3. \A p, q \in some : p = q \/ Apart(p, q)
  BY <1>1, UncachedParts
<1>4. ASSUME NEW p \in some PROVE Accessed(p.begin, p.end)
  <2>1. p.begin \in Nat /\ p.end \in Nat /\ p.begin < p.end /\ b <= p.begin /\ p.end <= e
    BY <1>2 DEF Gap
  <2> QED
    BY <1>1, <2>1 DEF Accessed
<1>5. ASSUME NEW iv \in F
      PROVE  Sound(iv) /\ Text(iv.data, iv.begin, iv.end, m)
             /\ \E p \in some : /\ iv.begin = p.begin /\ iv.end = p.end
                                /\ iv = [begin |-> p.begin, end |-> p.end,
                                         data |-> [i \in 1..(p.end - p.begin) |-> m[p.begin + i - 1]]]
  <2>1. PICK p \in some : iv = [begin |-> p.begin, end |-> p.end,
                                data |-> [i \in 1..(p.end - p.begin) |-> m[p.begin + i - 1]]]
    BY DEF Fetched
  <2>2. p \in Gap /\ Accessed(p.begin, p.end)
    BY <1>2, <1>4
  <2>3. Sound(iv) /\ Text(iv.data, iv.begin, iv.end, m)
    BY <2>1, <2>2, FetchedText
  <2> QED
    BY <2>1, <2>3
<1> HIDE DEF F
<1>6. ASSUME NEW iv \in F, NEW jv \in F, iv # jv PROVE Apart(iv, jv)
  <2>1. PICK p \in some : /\ iv.begin = p.begin /\ iv.end = p.end
                          /\ iv = [begin |-> p.begin, end |-> p.end,
                                   data |-> [i \in 1..(p.end - p.begin) |-> m[p.begin + i - 1]]]
    BY <1>5
  <2>2. PICK q \in some : /\ jv.begin = q.begin /\ jv.end = q.end
                          /\ jv = [begin |-> q.begin, end |-> q.end,
                                   data |-> [i \in 1..(q.end - q.begin) |-> m[q.begin + i - 1]]]
    BY <1>5
  <2>3. p # q
    BY <1>6, <2>1, <2>2
  <2>4. Apart(p, q)
    BY <1>3, <2>3
  <2> QED
    BY <2>1, <2>2, <2>4 DEF Apart
<1>7. ASSUME NEW iv \in F, NEW jv \in S PROVE Apart(iv, jv) /\ Apart(jv, iv)
  <2>1. PICK p \in some : iv.begin = p.begin /\ iv.end = p.end
    BY <1>5
  <2> QED
    BY <1>2, <2>1 DEF Apart
<1>8. Tree(S \cup F)
  BY <1>5, <1>6, <1>7 DEF Tree
<1>9. Mirrors(S, m) => Mirrors(S \cup F, m)
  BY <1>5, <1>8, MirrorsTexts
<1> QED
  BY <1>8, <1>9 DEF F

(* What is fetched is not held, so two memories that differ only where     *)
(* bytes are held give the same.                                           *)
LEMMA FetchedSame ==
  ASSUME NEW S, Tree(S), NEW b, NEW e, Accessed(b, e), NEW some \in SUBSET Uncached(S, b, e),
         NEW m, NEW n, \A a \in Address : a \notin Held(S) => n[a] = m[a]
  PROVE  Fetched(some, n) = Fetched(some, m)
<1> DEFINE item(p, x) == [begin |-> p.begin, end |-> p.end,
                          data |-> [i \in 1..(p.end - p.begin) |-> x[p.begin + i - 1]]]
<1>1. S \in SUBSET Cell /\ WellFormed(S) /\ b \in Nat /\ e \in Nat /\ b < e
      /\ b..(e - 1) \subseteq Address
  BY TreeIsWellFormed DEF Accessed
<1>2. ASSUME NEW p \in some PROVE item(p, n) = item(p, m)
  <2>1. p \in Gap /\ p.begin < p.end /\ b <= p.begin /\ p.end <= e /\ \A iv \in S : Apart(p, iv)
    BY <1>1, UncachedParts
  <2>2. ASSUME NEW i \in 1..(p.end - p.begin) PROVE n[p.begin + i - 1] = m[p.begin + i - 1]
    <3> DEFINE a == p.begin + i - 1
    <3>1. a \in Nat /\ p.begin <= a /\ a < p.end /\ a \in b..(e - 1)
      BY <1>1, <2>1 DEF Gap
    <3>2. ASSUME NEW iv \in S PROVE a \notin iv.begin..(iv.end - 1)
      <4>1. iv.begin \in Nat /\ iv.end \in Nat /\ Apart(p, iv)
        BY <1>1, <2>1 DEF Cell
      <4> HIDE DEF a
      <4> QED
        BY <2>1, <3>1, <4>1 DEF Apart, Gap
    <3> HIDE DEF a
    <3>3. a \notin Held(S)
      BY <3>2 DEF Held
    <3>4. n[a] = m[a]
      BY <1>1, <3>1, <3>3
    <3> QED
      BY <3>4 DEF a
  <2> QED
    BY <2>2
<1>3. Fetched(some, n) = {item(p, n) : p \in some} /\ Fetched(some, m) = {item(p, m) : p \in some}
  BY DEF Fetched
<1> HIDE DEF item
<1> QED
  BY <1>2, <1>3

(* The memory after a block was written.                                   *)
AfterStore(m, b, value) ==
  [a \in Address |-> IF b <= a /\ a < b + Len(value) THEN value[a - b + 1] ELSE m[a]]

(* In an interval that has all that is written the bytes are replaced.     *)
LEMMA PatchedText ==
  ASSUME NEW iv, Sound(iv), NEW b \in Nat, NEW value \in Seq(Byte),
         iv.begin <= b, b + Len(value) <= iv.end
  PROVE  LET new == Patched(iv, b, value)
         IN /\ Sound(new) /\ new.begin = iv.begin /\ new.end = iv.end
            /\ \A m : Text(iv.data, iv.begin, iv.end, m)
                 => Text(new.data, iv.begin, iv.end, AfterStore(m, b, value))
<1> DEFINE new == Patched(iv, b, value)
           byte(a) == IF b <= a /\ a < b + Len(value) THEN value[a - b + 1]
                      ELSE iv.data[a - iv.begin + 1]
<1>1. /\ iv.begin \in Nat /\ iv.end \in Nat /\ iv.data \in Seq(Byte)
      /\ Len(iv.data) = iv.end - iv.begin /\ iv.begin..(iv.end - 1) \subseteq Address
      /\ iv.begin < iv.end /\ iv \in Cell
  BY DEF Sound, Cell
<1>2. /\ new.begin = iv.begin /\ new.end = iv.end
      /\ new.data = [i \in DOMAIN iv.data |->
           LET a == iv.begin + i - 1
           IN IF b <= a /\ a < b + Len(value) THEN value[a - b + 1] ELSE iv.data[i]]
      /\ new \in [begin : Nat, end : Nat, data : {new.data}]
  <2> DEFINE text == [i \in DOMAIN iv.data |->
           LET a == iv.begin + i - 1
           IN IF b <= a /\ a < b + Len(value) THEN value[a - b + 1] ELSE iv.data[i]]
  <2>1. new = [iv EXCEPT !.data = text]
    BY DEF Patched
  <2> HIDE DEF text, new
  <2>2. new = [begin |-> iv.begin, end |-> iv.end, data |-> text]
    BY <1>1, <2>1 DEF Cell
  <2>3. new.begin = iv.begin /\ new.end = iv.end /\ new.data = text
    BY <2>2
  <2> QED
    BY <1>1, <2>2, <2>3 DEF text
<1>3. DOMAIN iv.data = 1..(iv.end - iv.begin)
  BY <1>1
<1> HIDE DEF new
<1>4. ASSUME NEW i \in 1..(iv.end - iv.begin)
      PROVE  new.data[i] = byte(iv.begin + i - 1) /\ new.data[i] \in Byte
  <2>1. (iv.begin + i - 1) - iv.begin + 1 = i
    BY <1>1
  <2>2. new.data[i] = byte(iv.begin + i - 1)
    BY <1>2, <1>3, <2>1
  <2>3. CASE b <= iv.begin + i - 1 /\ iv.begin + i - 1 < b + Len(value)
    <3> DEFINE a == iv.begin + i - 1
    <3>0. a \in Int /\ b <= a /\ a <= (b + Len(value)) - 1 /\ (b + Len(value)) - b = Len(value)
      BY <1>1, <2>3
    <3> HIDE DEF a
    <3>1. a - b + 1 \in 1..Len(value)
      BY <3>0, PlaceOf
    <3> USE DEF a
    <3> QED
      BY <2>2, <2>3, <3>1
  <2>4. CASE ~(b <= iv.begin + i - 1 /\ iv.begin + i - 1 < b + Len(value))
    <3>1. i \in 1..Len(iv.data)
      BY <1>1
    <3>2. iv.data[i] \in Byte
      BY <1>1, <3>1
    <3> QED
      BY <2>1, <2>2, <2>4, <3>2
  <2> QED
    BY <2>3, <2>4
<1>5. new.data \in Seq(Byte) /\ Len(new.data) = iv.end - iv.begin
  <2>1. iv.end - iv.begin \in Nat
    BY <1>1
  <2>2. new.data \in [1..(iv.end - iv.begin) -> Byte]
    BY <1>2, <1>3, <1>4
  <2> QED
    BY <2>1, <2>2
<1>6. Sound(new)
  BY <1>1, <1>2, <1>5 DEF Sound, Cell
<1>7. ASSUME NEW m, Text(iv.data, iv.begin, iv.end, m), NEW a \in iv.begin..(iv.end - 1)
      PROVE  new.data[a - iv.begin + 1] = AfterStore(m, b, value)[a]
  <2>0. iv.begin \in Int /\ iv.end \in Int /\ a \in Int /\ iv.begin <= a /\ a <= iv.end - 1
    BY <1>1
  <2>1. a - iv.begin + 1 \in 1..(iv.end - iv.begin) /\ iv.begin + (a - iv.begin + 1) - 1 = a
    BY <2>0, PlaceOf
  <2>2. new.data[a - iv.begin + 1] = byte(a)
    BY <1>4, <2>1
  <2>3. iv.data[a - iv.begin + 1] = m[a] /\ a \in Address
    BY <1>1, <1>7 DEF Text
  <2> QED
    BY <2>2, <2>3 DEF AfterStore
<1>8. ASSUME NEW m, Text(iv.data, iv.begin, iv.end, m)
      PROVE  Text(new.data, iv.begin, iv.end, AfterStore(m, b, value))
  BY <1>5, <1>7, <1>8 DEF Text, Fills
<1> QED
  BY <1>2, <1>6, <1>8 DEF new

(* What is written, as a text of the memory afterwards.                    *)
LEMMA StoredText ==
  ASSUME NEW b, NEW value \in Seq(Byte), Accessed(b, b + Len(value)), NEW m
  PROVE  Text(value, b, b + Len(value), AfterStore(m, b, value))
<1>1. b \in Nat /\ Len(value) \in Nat /\ b..(b + Len(value) - 1) \subseteq Address
  BY DEF Accessed
<1>2. Fills(value, b, b + Len(value))
  BY <1>1 DEF Fills
<1>3. \A a \in b..(b + Len(value) - 1) : value[a - b + 1] = AfterStore(m, b, value)[a]
  BY <1>1 DEF AfterStore
<1> DEFINE e == b + Len(value)
           n == AfterStore(m, b, value)
<1> HIDE DEF e
<1>4. Fills(value, b, e)
  BY <1>2 DEF e
<1>5. \A a \in b..(e - 1) : value[a - b + 1] = n[a]
  BY <1>1, <1>3 DEF e
<1> HIDE DEF n
<1>6. Text(value, b, e, n)
  BY <1>4, <1>5 DEF Text
<1> QED
  BY <1>6 DEF e, n

(* What was there before and after it still is.                            *)
LEMMA BesideStored ==
  ASSUME NEW b \in Nat, NEW value \in Seq(Byte), NEW m, NEW x \in Nat, NEW y \in Nat, NEW s,
         x..(y - 1) \subseteq Address, y <= b \/ b + Len(value) <= x, Text(s, x, y, m)
  PROVE  Text(s, x, y, AfterStore(m, b, value))
<1>1. Len(value) \in Nat
  OBVIOUS
<1>2. \A a \in x..(y - 1) : m[a] = AfterStore(m, b, value)[a]
  BY <1>1 DEF AfterStore
<1> QED
  BY <1>2, SameText

(* The intervals that a write touches become one, which reaches beyond     *)
(* what was written only where the first and the last of them did.         *)
LEMMA ContiguousText ==
  ASSUME NEW list, NEW b, NEW value \in Seq(Byte), Accessed(b, b + Len(value)),
         Sound(Head(list)), Sound(Last(list))
  PROVE  LET new == Contiguous(list, b, value)
         IN /\ Sound(new)
            /\ new.begin = b \/ (new.begin = Head(list).begin /\ new.begin < b /\ b < Head(list).end)
            /\ \/ new.end = b + Len(value)
               \/ /\ new.end = Last(list).end /\ b + Len(value) < new.end
                  /\ Last(list).begin < b + Len(value)
            /\ \A m : /\ Text(Head(list).data, Head(list).begin, Head(list).end, m)
                      /\ Text(Last(list).data, Last(list).begin, Last(list).end, m)
                      => Text(new.data, new.begin, new.end, AfterStore(m, b, value))
<1> DEFINE e == b + Len(value)
           first == Head(list)
           final == Last(list)
           leads == first.begin < b /\ first.end > b
           trails == final.begin < e /\ final.end > e
           x == IF leads THEN first.begin ELSE b
           y == IF trails THEN final.end ELSE e
           lead == IF leads THEN Slice(first, first.begin, b) ELSE <<>>
           trail == IF trails THEN Slice(final, e, final.end) ELSE <<>>
           new == Contiguous(list, b, value)
<1>1. new = [begin |-> x, end |-> y, data |-> lead \o value \o trail]
  BY DEF Contiguous
<1>2. b \in Nat /\ e \in Nat /\ b < e /\ b..(e - 1) \subseteq Address
  BY DEF Accessed
<1>3. /\ first.begin \in Nat /\ first.end \in Nat /\ final.begin \in Nat /\ final.end \in Nat
      /\ first.begin..(first.end - 1) \subseteq Address
      /\ final.begin..(final.end - 1) \subseteq Address
  BY DEF Sound, Cell
<1> HIDE DEF first, final, new
<1>4. /\ Fills(lead, x, b)
      /\ \A m : Text(first.data, first.begin, first.end, m) => Text(lead, x, b, AfterStore(m, b, value))
  <2>1. CASE leads
    <3>1. lead = Slice(first, first.begin, b) /\ x = first.begin
      BY <2>1
    <3>2. /\ Fills(lead, x, b)
          /\ \A m : Text(first.data, first.begin, first.end, m) => Text(lead, x, b, m)
      BY <1>2, <1>3, <2>1, <3>1, SliceText DEF first
    <3>3. x \in Nat /\ x..(b - 1) \subseteq Address
      BY <1>2, <1>3, <2>1, <3>1
    <3> HIDE DEF x, lead
    <3> QED
      BY <1>2, <3>2, <3>3, BesideStored
  <2>2. CASE ~leads
    BY <1>2, <2>2, NoText
  <2> QED
    BY <2>1, <2>2
<1>5. /\ Fills(trail, e, y)
      /\ \A m : Text(final.data, final.begin, final.end, m) => Text(trail, e, y, AfterStore(m, b, value))
  <2>1. CASE trails
    <3>1. trail = Slice(final, e, final.end) /\ y = final.end
      BY <2>1
    <3>2. /\ Fills(trail, e, y)
          /\ \A m : Text(final.data, final.begin, final.end, m) => Text(trail, e, y, m)
      BY <1>2, <1>3, <2>1, <3>1, SliceText DEF final
    <3>3. y \in Nat /\ e..(y - 1) \subseteq Address
      BY <1>2, <1>3, <2>1, <3>1
    <3> HIDE DEF y, trail
    <3> QED
      BY <1>2, <3>2, <3>3, BesideStored
  <2>2. CASE ~trails
    BY <1>2, <2>2, NoText
  <2> QED
    BY <2>1, <2>2
<1>6. x \in Nat /\ y \in Nat /\ x <= b /\ e <= y /\ x..(y - 1) \subseteq Address
  <2>1. x \in Nat /\ y \in Nat /\ x <= b /\ e <= y
    BY <1>2, <1>3
  <2>2. x..(b - 1) \subseteq Address
    BY <1>2, <1>3
  <2>3. e..(y - 1) \subseteq Address
    BY <1>2, <1>3
  <2>4. ASSUME NEW a \in x..(y - 1) PROVE a \in x..(b - 1) \/ a \in b..(e - 1) \/ a \in e..(y - 1)
    BY <1>2, <2>1
  <2> QED
    BY <1>2, <2>1, <2>2, <2>3, <2>4
<1>7. /\ x = b \/ (x = first.begin /\ x < b /\ b < first.end)
      /\ y = e \/ (y = final.end /\ e < y /\ final.begin < e)
  BY <1>2, <1>3
<1> HIDE DEF x, y, lead, trail
<1>8. /\ Fills(value, b, e)
      /\ \A m : Text(value, b, e, AfterStore(m, b, value))
  BY StoredText DEF Text
<1>9. /\ Fills(lead \o value, x, e)
      /\ \A m : Text(first.data, first.begin, first.end, m)
                  => Text(lead \o value, x, e, AfterStore(m, b, value))
  BY <1>2, <1>4, <1>6, <1>8, TextsJoin
<1>10. /\ Fills((lead \o value) \o trail, x, y)
       /\ \A m : /\ Text(first.data, first.begin, first.end, m)
                 /\ Text(final.data, final.begin, final.end, m)
                 => Text((lead \o value) \o trail, x, y, AfterStore(m, b, value))
  BY <1>2, <1>5, <1>6, <1>9, TextsJoin
<1>11. new.begin = x /\ new.end = y /\ new.data = (lead \o value) \o trail
  BY <1>1
<1>12. Sound(new)
  <2>1. new \in Cell
    BY <1>1, <1>6, <1>10 DEF Cell, Fills
  <2> QED
    BY <1>2, <1>6, <1>10, <1>11, <2>1 DEF Sound, Fills
<1> QED
  BY <1>7, <1>10, <1>11, <1>12 DEF new, first, final

(* The tree after a write, beside what the memory is then.                 *)
LEMMA WrittenKeepsTree ==
  ASSUME NEW S, Tree(S), NEW b, NEW value \in Seq(Byte), Accessed(b, b + Len(value)), NEW m
  PROVE  /\ Tree(Written(S, b, value))
         /\ Mirrors(S, m) => Mirrors(Written(S, b, value), AfterStore(m, b, value))
<1> DEFINE e == b + Len(value)
           O == Overlap(S, b, e)
           list == Ascending(O)
           rest == S \ O
           n == AfterStore(m, b, value)
<1>1. b \in Nat /\ e \in Nat /\ b < e /\ S \in SUBSET Cell /\ WellFormed(S)
  BY TreeIsWellFormed DEF Accessed
<1>2. O \in SUBSET Cell /\ IsFiniteSet(O) /\ O \subseteq S
  BY <1>1, OverlapFinite DEF Overlap
<1>3. Lists(list, O)
  BY <1>1, <1>2, OverlapFinite, AscendingLists
<1>4. ASSUME NEW iv \in rest
      PROVE  /\ iv \in S /\ Sound(iv) /\ iv.begin \in Nat /\ iv.end \in Nat
             /\ iv.end <= b \/ e <= iv.begin
             /\ \A m2 : Text(iv.data, iv.begin, iv.end, m2)
                  => Text(iv.data, iv.begin, iv.end, AfterStore(m2, b, value))
  <2>1. iv \in S /\ Sound(iv) /\ iv.begin \in Nat /\ iv.end \in Nat
        /\ iv.begin..(iv.end - 1) \subseteq Address
    BY DEF Tree, Sound, Cell
  <2>2. iv.end <= b \/ e <= iv.begin
    BY <1>1, <2>1 DEF Overlap
  <2> QED
    BY <1>1, <2>1, <2>2, BesideStored
<1>5. \A p, q \in S : p = q \/ Apart(p, q)
  BY DEF Tree
<1> HIDE DEF O, list, e, n
<1>6. ASSUME NEW new, Sound(new),
             \A iv \in rest : Apart(iv, new),
             Mirrors(S, m) => Text(new.data, new.begin, new.end, n)
      PROVE  /\ Tree(rest \cup {new})
             /\ Mirrors(S, m) => Mirrors(rest \cup {new}, n)
  <2>1. Tree(rest \cup {new})
    BY <1>4, <1>5, <1>6 DEF Tree, Apart
  <2>2. ASSUME Mirrors(S, m), NEW iv \in rest PROVE Text(iv.data, iv.begin, iv.end, n)
    BY <1>4, <2>2, MirrorsTexts DEF n
  <2>3. ASSUME Mirrors(S, m) PROVE Mirrors(rest \cup {new}, n)
    BY <1>6, <2>1, <2>2, <2>3, MirrorsTexts
  <2> QED
    BY <2>1, <2>3
<1>7. CASE list = <<>>
  <2> DEFINE new == [begin |-> b, end |-> e, data |-> value]
  <2>1. O = {}
    BY <1>3, <1>7 DEF Lists
  <2>2. Written(S, b, value) = rest \cup {new}
    BY <1>7, <2>1 DEF Written, list, O, e
  <2>3. Fills(value, b, e) /\ Text(value, b, e, n)
    BY StoredText DEF Text, e, n
  <2>4. Sound(new)
    BY <1>1, <2>3 DEF Sound, Cell, Fills, Accessed, e
  <2>5. \A iv \in rest : Apart(iv, new)
    BY <1>4 DEF Apart
  <2>6. Text(new.data, new.begin, new.end, n)
    BY <2>3
  <2> HIDE DEF new
  <2>7. Tree(rest \cup {new}) /\ (Mirrors(S, m) => Mirrors(rest \cup {new}, n))
    BY <1>6, <2>4, <2>5, <2>6
  <2> QED
    BY <2>2, <2>7 DEF n
<1>8. CASE list # <<>>
  <2>1. /\ list \in Seq(O) /\ Len(list) \in Nat /\ Len(list) # 0
    BY <1>3, <1>8 DEF Lists
  <2>2. Head(list) \in O /\ Last(list) \in O
    BY <2>1 DEF Last
  <2> DEFINE first == Head(list)
             final == Last(list)
  <2>3. first \in S /\ final \in S /\ Sound(first) /\ Sound(final)
    BY <1>2, <2>2 DEF Tree
  <2>4. /\ first.begin \in Nat /\ first.end \in Nat /\ final.begin \in Nat /\ final.end \in Nat
    BY <2>3 DEF Sound, Cell
  <2>5. CASE b >= first.begin /\ e <= first.end
    <3> DEFINE new == Patched(first, b, value)
    <3>1. Written(S, b, value) = rest \cup {new}
      BY <1>8, <2>5 DEF Written, list, O, e
    <3>2. first.begin <= b /\ b + Len(value) <= first.end
      BY <1>1, <2>4, <2>5 DEF e
    <3>3. /\ Sound(new) /\ new.begin = first.begin /\ new.end = first.end
          /\ Text(first.data, first.begin, first.end, m)
               => Text(new.data, first.begin, first.end, n)
      <4> HIDE DEF first
      <4> QED
        BY <1>1, <2>3, <3>2, PatchedText DEF n
    <3>4. ASSUME NEW iv \in rest PROVE Apart(iv, new)
      <4>1. iv # first
        BY <2>2
      <4>2. Apart(iv, first)
        BY <1>4, <1>5, <2>3, <4>1
      <4> QED
        BY <3>3, <4>2 DEF Apart
    <3>5. Mirrors(S, m) => Text(new.data, new.begin, new.end, n)
      BY <2>3, <3>3, MirrorsTexts
    <3> HIDE DEF new
    <3>6. Tree(rest \cup {new}) /\ (Mirrors(S, m) => Mirrors(rest \cup {new}, n))
      BY <1>6, <3>3, <3>4, <3>5
    <3> QED
      BY <3>1, <3>6 DEF n
  <2>6. CASE ~(b >= first.begin /\ e <= first.end)
    <3> DEFINE new == Contiguous(list, b, value)
    <3>1. Written(S, b, value) = rest \cup {new}
      BY <1>8, <2>6 DEF Written, list, O, e
    <3>2. /\ Sound(new)
          /\ new.begin = b \/ (new.begin = first.begin /\ new.begin < b /\ b < first.end)
          /\ new.end = e \/ (new.end = final.end /\ e < new.end /\ final.begin < e)
          /\ Text(first.data, first.begin, first.end, m) /\ Text(final.data, final.begin, final.end, m)
               => Text(new.data, new.begin, new.end, n)
      BY <2>3, ContiguousText DEF e, n
    <3>3. ASSUME NEW iv \in rest PROVE Apart(iv, new)
      <4>1. iv # first /\ iv # final
        BY <2>2
      <4>2. Apart(iv, first) /\ Apart(iv, final)
        BY <1>4, <1>5, <2>3, <4>1
      <4>3. iv.begin < iv.end /\ new.begin \in Nat /\ new.end \in Nat
        BY <1>4, <3>2 DEF Sound, Cell
      <4> HIDE DEF new, first, final
      <4> QED
        BY <1>1, <1>4, <2>4, <3>2, <4>2, <4>3 DEF Apart
    <3>4. Mirrors(S, m) => Text(new.data, new.begin, new.end, n)
      BY <2>3, <3>2, MirrorsTexts
    <3> HIDE DEF new
    <3>5. Tree(rest \cup {new}) /\ (Mirrors(S, m) => Mirrors(rest \cup {new}, n))
      BY <1>6, <3>2, <3>3, <3>4
    <3> QED
      BY <3>1, <3>5 DEF n
  <2> QED
    BY <2>5, <2>6
<1> QED
  BY <1>7, <1>8 DEF n

-----------------------------------------------------------------------------
(* What a read returns                                                     *)

(* The first n of some sequences, joined one after the other.              *)
Joined(seqs, n, f) == f = [i \in 1..n |-> IF i = 1 THEN seqs[i] ELSE f[i - 1] \o seqs[i]]

LEMMA JoinedExists ==
  ASSUME NEW seqs, NEW n \in Nat
  PROVE  \E f : Joined(seqs, n, f)
<1> DEFINE Bad == {m \in 0..n : ~ \E f : Joined(seqs, m, f)}
<1> SUFFICES ASSUME Bad # {} PROVE FALSE
  OBVIOUS
<1>1. PICK m \in Bad : \A j \in Bad : m <= j
  <2>1. Bad \in SUBSET Nat
    OBVIOUS
  <2> QED
    BY <2>1, LeastNumber
<1>2. m \in 0..n /\ m \in Nat /\ ~ \E f : Joined(seqs, m, f)
  OBVIOUS
<1>3. CASE m = 0
  <2>1. Joined(seqs, m, [i \in 1..m |-> seqs[i]])
    <3>1. 1..m = {}
      BY <1>3
    <3> QED
      BY <3>1 DEF Joined
  <2> QED
    BY <1>2, <2>1
<1>4. CASE m # 0
  <2>1. m - 1 \in 0..n /\ m - 1 \notin Bad
    BY <1>1, <1>2, <1>4
  <2>2. PICK f : Joined(seqs, m - 1, f)
    BY <2>1
  <2> DEFINE g == [i \in 1..m |-> IF i = 1 THEN seqs[i] ELSE f[i - 1] \o seqs[i]]
  <2>3. \A i \in 1..(m - 1) : f[i] = IF i = 1 THEN seqs[i] ELSE f[i - 1] \o seqs[i]
    BY <2>2 DEF Joined
  <2>4. ASSUME NEW i \in 1..(m - 1) PROVE g[i] = f[i]
    <3>1. i \in 1..m
      BY <1>2
    <3>2. g[i] = IF i = 1 THEN seqs[i] ELSE f[i - 1] \o seqs[i]
      BY <3>1
    <3> QED
      BY <2>3, <3>2
  <2>5. ASSUME NEW i \in 1..m, i # 1 PROVE g[i - 1] = f[i - 1]
    <3>1. i - 1 \in 1..(m - 1)
      BY <1>2, <2>5
    <3> QED
      BY <2>4, <3>1
  <2>6. \A i \in 1..m : g[i] = IF i = 1 THEN seqs[i] ELSE g[i - 1] \o seqs[i]
    BY <2>5
  <2>7. g = [i \in 1..m |-> g[i]]
    OBVIOUS
  <2> HIDE DEF g
  <2>8. Joined(seqs, m, g)
    BY <2>6, <2>7 DEF Joined
  <2> QED
    BY <1>2, <2>8
<1> QED
  BY <1>3, <1>4

LEMMA FlattenUnfolds ==
  ASSUME NEW seqs, Len(seqs) \in Nat \ {0}
  PROVE  \E f : Joined(seqs, Len(seqs), f) /\ FlattenSeq(seqs) = f[Len(seqs)]
<1> DEFINE n == Len(seqs)
           g == CHOOSE f : f = [i \in 1..n |-> IF i = 1 THEN seqs[i] ELSE f[i - 1] \o seqs[i]]
<1>1. FlattenSeq(seqs) = g[n]
  BY DEF FlattenSeq
<1>2. PICK f : Joined(seqs, n, f)
  BY JoinedExists
<1>3. f = [i \in 1..n |-> IF i = 1 THEN seqs[i] ELSE f[i - 1] \o seqs[i]]
  BY <1>2 DEF Joined
<1>4. g = [i \in 1..n |-> IF i = 1 THEN seqs[i] ELSE g[i - 1] \o seqs[i]]
  BY <1>3, Zenon
<1>5. Joined(seqs, n, g)
  BY <1>4, Zenon DEF Joined
<1> HIDE DEF g
<1> QED
  BY <1>1, <1>5

(* Intervals that hold the bytes of a memory from p to q, one after the    *)
(* other.                                                                  *)
Chain(list, p, q, m) ==
  /\ list \in Seq(Cell)
  /\ \A i \in 1..Len(list) : Sound(list[i]) /\ Text(list[i].data, list[i].begin, list[i].end, m)
  /\ \A i \in 1..(Len(list) - 1) : list[i].end = list[i + 1].begin
  /\ p \in Nat /\ q \in Nat
  /\ IF Len(list) = 0 THEN p = q ELSE list[1].begin = p /\ list[Len(list)].end = q

(* Their bytes make one text.                                              *)
LEMMA ChainText ==
  ASSUME NEW list, NEW p, NEW q, NEW m, Chain(list, p, q, m)
  PROVE  Text(FlattenSeq([i \in DOMAIN list |-> list[i].data]), p, q, m)
<1> DEFINE n == Len(list)
           seqs == [i \in DOMAIN list |-> list[i].data]
<1>0. list \in Seq(Cell) /\ \A i \in 1..Len(list) : list[i].begin \in Nat /\ list[i].end \in Nat
  <2>1. list \in Seq(Cell)
    BY DEF Chain
  <2>2. \A i \in 1..Len(list) : list[i] \in Cell
    BY <2>1
  <2> QED
    BY <2>1, <2>2 DEF Cell
<1>1. /\ list \in Seq(Cell) /\ n \in Nat /\ DOMAIN list = 1..n
      /\ p \in Nat /\ q \in Nat
      /\ \A i \in 1..n : /\ Text(list[i].data, list[i].begin, list[i].end, m)
                         /\ list[i].begin \in Nat /\ list[i].end \in Nat
      /\ \A i \in 1..(n - 1) : list[i].end = list[i + 1].begin
  BY <1>0 DEF Chain
<1>2. Len(seqs) = n
  BY <1>1
<1>3. CASE n = 0
  <2>1. seqs = <<>>
    BY <1>1, <1>2, <1>3
  <2>2. FlattenSeq(seqs) = <<>>
    BY <1>2, <1>3, <2>1 DEF FlattenSeq
  <2>3. p = q
    BY <1>3 DEF Chain
  <2> QED
    BY <1>1, <2>2, <2>3, NoText
<1>4. CASE n # 0
  <2>1. PICK f : Joined(seqs, n, f) /\ FlattenSeq(seqs) = f[n]
    BY <1>1, <1>2, <1>4, FlattenUnfolds
  <2>2. list[1].begin = p /\ list[n].end = q
    BY <1>4 DEF Chain
  <2>3. \A i \in 1..n : seqs[i] = list[i].data
    BY <1>1
  <2> HIDE DEF seqs
  <2>4. \A i \in 1..n : f[i] = IF i = 1 THEN seqs[i] ELSE f[i - 1] \o seqs[i]
    BY <2>1 DEF Joined
  <2> DEFINE Bad == {i \in 1..n : ~ Text(f[i], p, list[i].end, m)}
  <2>5. ASSUME Bad # {} PROVE FALSE
    <3>1. PICK k \in Bad : \A j \in Bad : k <= j
      <4>1. Bad \in SUBSET Nat
        OBVIOUS
      <4> QED
        BY <2>5, <4>1, LeastNumber
    <3>2. k \in 1..n /\ ~ Text(f[k], p, list[k].end, m)
      OBVIOUS
    <3>3. CASE k = 1
      BY <1>1, <2>2, <2>3, <2>4, <3>2, <3>3
    <3>4. CASE k # 1
      <4>1. k - 1 \in 1..n /\ k - 1 \in 1..(n - 1) /\ k - 1 \notin Bad /\ (k - 1) + 1 = k
        BY <1>1, <3>1, <3>2, <3>4
      <4>2. Text(f[k - 1], p, list[k - 1].end, m)
        BY <4>1
      <4>3. list[k - 1].end = list[k].begin
        BY <1>1, <4>1
      <4>4. Text(list[k].data, list[k].begin, list[k].end, m) /\ list[k].begin \in Nat /\ list[k].end \in Nat
        BY <1>1, <3>2
      <4>5. Text(f[k - 1] \o list[k].data, p, list[k].end, m)
        <5>1. Text(f[k - 1], p, list[k].begin, m)
          BY <4>2, <4>3
        <5>2. Fills(f[k - 1], p, list[k].begin) /\ Fills(list[k].data, list[k].begin, list[k].end)
          BY <4>4, <5>1 DEF Text
        <5> QED
          BY <1>1, <4>4, <5>1, <5>2, TextsJoin
      <4> QED
        BY <2>3, <2>4, <3>2, <3>4, <4>5
    <3> QED
      BY <3>3, <3>4
  <2>6. n \in 1..n
    BY <1>1, <1>4
  <2> QED
    BY <2>1, <2>2, <2>5, <2>6 DEF seqs
<1> QED
  BY <1>3, <1>4

(* Without the first of them, and without the last.                        *)
LEMMA ChainEnds ==
  ASSUME NEW list, NEW p, NEW q, NEW m, Chain(list, p, q, m), list # <<>>
  PROVE  /\ Chain(Tail(list), Head(list).end, q, m)
         /\ Chain(Front(list), p, Last(list).begin, m)
<1> DEFINE n == Len(list)
           t == Tail(list)
           u == Front(list)
<1>0. list \in Seq(Cell) /\ \A i \in 1..Len(list) : list[i].begin \in Nat /\ list[i].end \in Nat
  <2>1. list \in Seq(Cell)
    BY DEF Chain
  <2>2. \A i \in 1..Len(list) : list[i] \in Cell
    BY <2>1
  <2> QED
    BY <2>1, <2>2 DEF Cell
<1>1. /\ list \in Seq(Cell) /\ n \in Nat \ {0}
      /\ \A i \in 1..n : /\ Sound(list[i]) /\ Text(list[i].data, list[i].begin, list[i].end, m)
                         /\ list[i].begin \in Nat /\ list[i].end \in Nat
      /\ \A i \in 1..(n - 1) : list[i].end = list[i + 1].begin
      /\ p \in Nat /\ q \in Nat /\ list[1].begin = p /\ list[n].end = q
  BY <1>0 DEF Chain
<1>2. /\ t \in Seq(Cell) /\ Len(t) = n - 1 /\ \A i \in 1..(n - 1) : t[i] = list[i + 1]
      /\ Head(list) = list[1]
  BY <1>1
<1>3. u \in Seq(Cell) /\ Len(u) = n - 1 /\ \A i \in 1..(n - 1) : u[i] = list[i]
  <2>1. n - 1 \in Int /\ \A i \in 1..(n - 1) : i \in 1..n
    BY <1>1
  <2>2. \A i \in 1..(n - 1) : list[i] \in Cell
    BY <1>1, <2>1
  <2>3. u = SubSeq(list, 1, n - 1)
    BY DEF Front
  <2> HIDE DEF u
  <2>4. /\ u \in Seq(Cell) /\ Len(u) = (IF 1 <= n - 1 THEN n - 1 - 1 + 1 ELSE 0)
        /\ \A i \in 1..(n - 1 - 1 + 1) : u[i] = list[1 + i - 1]
    BY <1>1, <2>1, <2>2, <2>3, SubSeqProperties
  <2>5. Len(u) = n - 1
    <3>1. n \in Nat \ {0}
      BY <1>1
    <3> HIDE DEF n
    <3> QED
      BY <2>4, <3>1
  <2>6. ASSUME NEW i \in 1..(n - 1) PROVE u[i] = list[i]
    <3>1. i \in 1..(n - 1 - 1 + 1) /\ 1 + i - 1 = i
      BY <1>1
    <3> QED
      BY <2>4, <3>1
  <2> QED
    BY <2>4, <2>5, <2>6
<1>4. Last(list) = list[n]
  BY DEF Last
<1> HIDE DEF t, u, n
<1>5. Chain(t, list[1].end, q, m)
  <2>1. ASSUME NEW i \in 1..(n - 1)
        PROVE  Sound(t[i]) /\ Text(t[i].data, t[i].begin, t[i].end, m)
    <3>1. i + 1 \in 1..n
      BY <1>1
    <3> QED
      BY <1>1, <1>2, <3>1
  <2>2. ASSUME NEW i \in 1..(n - 1 - 1) PROVE t[i].end = t[i + 1].begin
    <3>1. i + 1 \in 1..(n - 1) /\ i \in 1..(n - 1)
      BY <1>1
    <3> QED
      BY <1>1, <1>2, <3>1
  <2>3. IF n - 1 = 0 THEN list[1].end = q ELSE t[1].begin = list[1].end /\ t[n - 1].end = q
    <3>1. CASE n = 1
      <4>1. n - 1 = 0 /\ list[n] = list[1]
        BY <3>1
      <4> QED
        BY <1>1, <4>1
    <3>2. CASE n # 1
      <4>1. 1 \in 1..(n - 1) /\ n - 1 \in 1..(n - 1) /\ (n - 1) + 1 = n
        <5>1. n \in Nat /\ n # 0
          BY <1>1
        <5> QED
          BY <3>2, <5>1
      <4>2. t[1] = list[1 + 1] /\ t[n - 1] = list[(n - 1) + 1] /\ list[1].end = list[1 + 1].begin
        BY <1>1, <1>2, <4>1
      <4> QED
        BY <1>1, <3>2, <4>1, <4>2
    <3> QED
      BY <3>1, <3>2
  <2> QED
    BY <1>1, <1>2, <2>1, <2>2, <2>3 DEF Chain
<1>6. Chain(u, p, list[n].begin, m)
  <2>1. ASSUME NEW i \in 1..(n - 1)
        PROVE  Sound(u[i]) /\ Text(u[i].data, u[i].begin, u[i].end, m)
    <3>1. i \in 1..n /\ u[i] = list[i]
      BY <1>1, <1>3
    <3>2. Sound(list[i]) /\ Text(list[i].data, list[i].begin, list[i].end, m)
      BY <1>1, <3>1
    <3> QED
      BY <3>1, <3>2
  <2>2. ASSUME NEW i \in 1..(n - 1 - 1) PROVE u[i].end = u[i + 1].begin
    <3>1. i + 1 \in 1..(n - 1) /\ i \in 1..(n - 1)
      BY <1>1
    <3> QED
      BY <1>1, <1>3, <3>1
  <2>3. IF n - 1 = 0 THEN p = list[n].begin ELSE u[1].begin = p /\ u[n - 1].end = list[n].begin
    <3>1. CASE n = 1
      <4>1. n - 1 = 0 /\ list[n] = list[1]
        BY <3>1
      <4> QED
        BY <1>1, <4>1
    <3>2. CASE n # 1
      <4>1. 1 \in 1..(n - 1) /\ n - 1 \in 1..(n - 1) /\ (n - 1) + 1 = n
        <5>1. n \in Nat /\ n # 0
          BY <1>1
        <5> QED
          BY <3>2, <5>1
      <4>2. u[1] = list[1] /\ u[n - 1] = list[n - 1] /\ list[n - 1].end = list[(n - 1) + 1].begin
        BY <1>1, <1>3, <4>1
      <4> QED
        BY <1>1, <3>2, <4>1, <4>2
    <3> QED
      BY <3>1, <3>2
  <2>4. list[n].begin \in Nat
    BY <1>1
  <2> QED
    BY <1>1, <1>3, <2>1, <2>2, <2>3, <2>4 DEF Chain
<1> QED
  BY <1>2, <1>4, <1>5, <1>6 DEF t, u, n

(* Intervals that touch [b, e) and together cover it, in ascending order,  *)
(* follow one another.                                                     *)
LEMMA CoverIsChain ==
  ASSUME NEW T, Tree(T), NEW list, Lists(list, T), NEW b \in Nat, NEW e \in Nat, b < e,
         \A iv \in T : iv.begin < e /\ b < iv.end,
         \A a \in Nat : b <= a /\ a < e => \E iv \in T : Within(a, iv),
         NEW m, \A iv \in T : Text(iv.data, iv.begin, iv.end, m)
  PROVE  /\ list # <<>>
         /\ Head(list).begin <= b /\ e <= Last(list).end
         /\ Chain(list, Head(list).begin, Last(list).end, m)
<1> DEFINE n == Len(list)
<1>1. /\ list \in Seq(T) /\ n \in Nat
      /\ \A i, j \in 1..n : i < j => list[i].begin < list[j].begin
      /\ \A iv \in T : \E i \in 1..n : list[i] = iv
  BY DEF Lists
<1>2. T \in SUBSET Cell /\ \A iv \in T : Sound(iv) /\ iv.begin \in Nat /\ iv.end \in Nat /\ iv.begin < iv.end
  BY DEF Tree, Sound, Cell
<1>3. list \in Seq(Cell)
  <2>1. \A i \in 1..n : list[i] \in Cell
    BY <1>1, <1>2
  <2> QED
    BY <1>1, <2>1
<1>4. \A i \in 1..n : /\ list[i] \in T /\ list[i].begin \in Nat /\ list[i].end \in Nat
                      /\ list[i].begin < e /\ b < list[i].end /\ list[i].begin < list[i].end
                      /\ Sound(list[i]) /\ Text(list[i].data, list[i].begin, list[i].end, m)
  BY <1>1, <1>2
<1> HIDE DEF n
<1>5. ASSUME NEW i \in 1..n, NEW j \in 1..n, i < j
      PROVE  list[i].end <= list[j].begin
  <2>1. list[i].begin < list[j].begin
    BY <1>1, <1>5
  <2>2. list[i] # list[j]
    BY <1>4, <2>1
  <2>3. Apart(list[i], list[j])
    BY <1>4, <2>2 DEF Tree
  <2> QED
    BY <1>4, <2>1, <2>3 DEF Apart
<1>6. ASSUME NEW a \in Nat, b <= a, a < e
      PROVE  \E j \in 1..n : list[j].begin <= a /\ a < list[j].end
  BY <1>1, <1>6 DEF Within
<1>7. n # 0 /\ list # <<>> /\ Head(list) = list[1] /\ Last(list) = list[n] /\ 1 \in 1..n /\ n \in 1..n
  <2>1. PICK j \in 1..n : list[j].begin <= b
    BY <1>6
  <2> QED
    BY <1>1, <2>1 DEF Last, n
<1>8. list[1].begin <= b
  <2>1. PICK j \in 1..n : list[j].begin <= b
    BY <1>6
  <2>2. CASE j = 1
    BY <2>1, <2>2
  <2>3. CASE j # 1
    <3>1. 1 < j
      BY <2>3
    <3>2. list[1].begin < list[j].begin
      BY <1>1, <1>7, <3>1
    <3> QED
      BY <1>4, <1>7, <2>1, <3>2
  <2> QED
    BY <2>2, <2>3
<1>9. e <= list[n].end
  <2>1. e - 1 \in Nat /\ b <= e - 1 /\ e - 1 < e
    OBVIOUS
  <2>2. PICK j \in 1..n : list[j].begin <= e - 1 /\ e - 1 < list[j].end
    BY <1>6, <2>1
  <2>3. CASE j = n
    BY <1>4, <2>2, <2>3
  <2>4. CASE j # n
    <3>1. j < n
      BY <1>1, <2>4
    <3>2. list[j].end <= list[n].begin /\ list[n].begin < e
      BY <1>4, <1>5, <1>7, <3>1
    <3> QED
      BY <1>4, <1>7, <2>2, <3>2
  <2> QED
    BY <2>3, <2>4
<1>10. ASSUME NEW i \in 1..(n - 1)
       PROVE  list[i].end = list[i + 1].begin
  <2>1. i \in 1..n /\ i + 1 \in 1..n /\ i < i + 1
    BY <1>1
  <2> DEFINE a == list[i].end
  <2>2. a \in Nat /\ a <= list[i + 1].begin /\ list[i + 1].begin \in Nat
        /\ b < a /\ list[i + 1].begin < e /\ list[i].begin < a /\ list[i].begin \in Nat
    BY <1>4, <1>5, <2>1
  <2> HIDE DEF a
  <2>3. ASSUME a < list[i + 1].begin PROVE FALSE
    <3>1. b <= a /\ a < e
      BY <2>2, <2>3
    <3>2. PICK j \in 1..n : list[j].begin <= a /\ a < list[j].end
      BY <1>6, <2>2, <3>1
    <3>3. list[j].begin \in Nat /\ list[j].end \in Nat
      BY <1>4
    <3>4. CASE j < i
      <4>1. list[j].end <= list[i].begin
        BY <1>5, <2>1, <3>4
      <4> QED
        BY <2>2, <3>2, <3>3, <4>1
    <3>5. CASE j = i
      BY <2>2, <3>2, <3>5 DEF a
    <3>6. CASE j = i + 1
      BY <2>2, <2>3, <3>2, <3>6
    <3>7. CASE i + 1 < j
      <4>1. list[i + 1].begin < list[j].begin
        BY <1>1, <2>1, <3>7
      <4> QED
        BY <2>2, <2>3, <3>2, <3>3, <4>1
    <3> QED
      BY <2>1, <3>4, <3>5, <3>6, <3>7
  <2> QED
    BY <2>2, <2>3 DEF a
<1>11. Chain(list, list[1].begin, list[n].end, m)
  <2>1. list[1].begin \in Nat /\ list[n].end \in Nat
    BY <1>4, <1>7
  <2> QED
    BY <1>3, <1>4, <1>7, <1>10, <2>1 DEF Chain, n
<1> QED
  BY <1>7, <1>8, <1>9, <1>11

(* What is merged of them is the bytes of [b, e).                          *)
LEMMA MergedText ==
  ASSUME NEW list, list # <<>>, NEW b \in Nat, NEW e \in Nat, b < e, NEW m,
         Chain(list, Head(list).begin, Last(list).end, m),
         Head(list).begin <= b, e <= Last(list).end, b < Head(list).end, Last(list).begin < e
  PROVE  Text(Merge(list, b, e), b, e, m)
<1> DEFINE first == Head(list)
           final == Last(list)
           lead  == IF first.begin < b THEN Slice(first, b, first.end) ELSE <<>>
           rest  == IF first.begin < b THEN Tail(list) ELSE list
           p     == IF first.begin < b THEN first.end ELSE b
           ragged == rest # <<>> /\ Last(rest).end > e
           trail == IF ragged THEN Slice(Last(rest), Last(rest).begin, e) ELSE <<>>
           whole == IF ragged THEN Front(rest) ELSE rest
           q     == IF ragged THEN Last(rest).begin ELSE e
<1>1. Merge(list, b, e) =
        IF first.begin < b /\ first.end > e THEN Slice(first, b, e)
        ELSE lead \o FlattenSeq([i \in DOMAIN whole |-> whole[i].data]) \o trail
  BY DEF Merge
<1>2. /\ list \in Seq(Cell) /\ Len(list) \in Nat \ {0}
      /\ first = list[1] /\ final = list[Len(list)]
  BY DEF Chain, Last
<1>3. /\ Sound(first) /\ Sound(final)
      /\ Text(first.data, first.begin, first.end, m) /\ Text(final.data, final.begin, final.end, m)
      /\ first.begin \in Nat /\ first.end \in Nat /\ final.begin \in Nat /\ final.end \in Nat
  <2>1. 1 \in 1..Len(list) /\ Len(list) \in 1..Len(list)
    BY <1>2
  <2>2. Sound(first) /\ Sound(final)
        /\ Text(first.data, first.begin, first.end, m) /\ Text(final.data, final.begin, final.end, m)
    BY <1>2, <2>1 DEF Chain
  <2> HIDE DEF first, final
  <2> QED
    BY <2>2 DEF Sound, Cell
<1>4. Chain(list, first.begin, final.end, m) /\ Chain(Tail(list), first.end, final.end, m)
  BY ChainEnds
<1>5. CASE first.begin < b /\ first.end > e
  <2>1. Text(Slice(first, b, e), b, e, m)
    <3> HIDE DEF first
    <3> QED
      BY <1>3, <1>5, SliceText
  <2> QED
    BY <1>1, <1>5, <2>1
<1>6. CASE ~(first.begin < b /\ first.end > e)
  <2>1. Text(lead, b, p, m) /\ p \in Nat /\ Chain(rest, p, final.end, m) /\ (rest = <<>> => p = e)
        /\ (rest # <<>> => Last(rest) = final)
    <3>1. CASE first.begin < b
      <4>1. lead = Slice(first, b, first.end) /\ rest = Tail(list) /\ p = first.end
        BY <3>1
      <4>2. Text(Slice(first, b, first.end), b, first.end, m)
        <5>1. b < first.end
          OBVIOUS
        <5> HIDE DEF first
        <5> QED
          BY <1>3, <3>1, <5>1, SliceText
      <4>3. ASSUME Tail(list) = <<>> PROVE first.end = e
        <5>1. Len(list) = 1
          <6>1. Len(Tail(list)) = Len(list) - 1 /\ Len(Tail(list)) = 0
            BY <1>2, <4>3, HeadTailProperties
          <6>2. Len(list) - 1 = 0
            BY <6>1
          <6>3. Len(list) \in Nat
            BY <1>2
          <6> QED
            BY <6>2, <6>3
        <5>2. final = first
          BY <1>2, <5>1
        <5>3. e <= first.end
          BY <5>2
        <5> HIDE DEF first, final
        <5> QED
          BY <1>3, <1>6, <3>1, <5>3
      <4>4. ASSUME Tail(list) # <<>> PROVE Last(Tail(list)) = final
        <5>1. Len(Tail(list)) = Len(list) - 1 /\ Len(list) - 1 \in 1..(Len(list) - 1)
              /\ \A i \in 1..(Len(list) - 1) : Tail(list)[i] = list[i + 1]
          BY <1>2, <4>4
        <5>2. Tail(list)[Len(list) - 1] = list[(Len(list) - 1) + 1] /\ (Len(list) - 1) + 1 = Len(list)
          BY <1>2, <5>1
        <5> QED
          BY <1>2, <5>1, <5>2 DEF Last
      <4> HIDE DEF first, final, lead, rest, p
      <4> QED
        BY <1>3, <1>4, <4>1, <4>2, <4>3, <4>4
    <3>2. CASE ~(first.begin < b)
      <4>1. lead = <<>> /\ rest = list /\ p = b
        BY <3>2
      <4>2. first.begin = b
        <5>1. first.begin <= b
          OBVIOUS
        <5> HIDE DEF first
        <5> QED
          BY <1>3, <3>2, <5>1
      <4>3. Text(<<>>, b, b, m)
        BY NoText
      <4> HIDE DEF first, final, lead, rest, p
      <4> QED
        BY <1>4, <4>1, <4>2, <4>3 DEF final
    <3> QED
      BY <3>1, <3>2
  <2>2. e <= final.end /\ final.begin < e
    OBVIOUS
  <2> HIDE DEF first, final, lead, rest, p
  <2>3. Chain(whole, p, q, m) /\ Text(trail, q, e, m) /\ q \in Nat
    <3>1. CASE ragged
      <4>1. whole = Front(rest) /\ trail = Slice(final, final.begin, e) /\ q = final.begin
            /\ final.end > e
        BY <2>1, <3>1
      <4>2. Chain(Front(rest), p, final.begin, m)
        BY <2>1, <3>1, ChainEnds
      <4>3. Text(Slice(final, final.begin, e), final.begin, e, m)
        BY <1>3, <2>2, SliceText
      <4> HIDE DEF ragged, whole, trail, q
      <4> QED
        BY <1>3, <4>1, <4>2, <4>3
    <3>2. CASE ~ragged
      <4>1. whole = rest /\ trail = <<>> /\ q = e
        BY <3>2
      <4>2. CASE rest = <<>>
        <5>1. Chain(rest, p, e, m)
          BY <2>1, <4>2 DEF Chain
        <5> HIDE DEF ragged, whole, trail, q
        <5> QED
          BY <4>1, <5>1, NoText
      <4>3. CASE rest # <<>>
        <5>1. final.end = e
          BY <1>3, <2>1, <2>2, <3>2, <4>3
        <5> HIDE DEF ragged, whole, trail, q
        <5> QED
          BY <2>1, <4>1, <5>1, NoText
      <4> QED
        BY <4>2, <4>3
    <3> QED
      BY <3>1, <3>2
  <2> DEFINE middle == FlattenSeq([i \in DOMAIN whole |-> whole[i].data])
  <2> HIDE DEF ragged, whole, trail, q
  <2>4. Text(middle, p, q, m)
    BY <2>3, ChainText
  <2>5. Merge(list, b, e) = lead \o middle \o trail
    BY <1>1, <1>6
  <2> HIDE DEF middle
  <2>6. Fills(lead, b, p) /\ Fills(middle, p, q) /\ Fills(trail, q, e)
    BY <2>1, <2>3, <2>4 DEF Text
  <2>7. Text(lead \o middle, b, q, m) /\ Fills(lead \o middle, b, q)
    BY <2>1, <2>3, <2>4, <2>6, TextsJoin
  <2>8. Text((lead \o middle) \o trail, b, e, m)
    BY <2>3, <2>6, <2>7, TextsJoin
  <2> QED
    BY <2>5, <2>8
<1> QED
  BY <1>5, <1>6

(* A read of a tree that mirrors the memory returns what is there.         *)
LEMMA ReadIsCurrent ==
  ASSUME NEW S, Tree(S), NEW m \in Memory, Mirrors(S, m), NEW b, NEW e, Accessed(b, e)
  PROVE  Merge(Ascending(Overlap(S, b, e) \cup Fetched(Uncached(S, b, e), m)), b, e)
           = [i \in 1..(e - b) |-> m[b + i - 1]]
<1> DEFINE parts == Uncached(S, b, e)
           F == Fetched(parts, m)
           T == Overlap(S, b, e) \cup F
           list == Ascending(T)
           s == Merge(list, b, e)
<1>1. b \in Nat /\ e \in Nat /\ b < e /\ S \in SUBSET Cell /\ WellFormed(S)
  BY TreeIsWellFormed DEF Accessed
<1>2. Tree(S \cup F) /\ Mirrors(S \cup F, m)
  BY ReadKeepsTree
<1>3. /\ \A p \in parts : p \in Gap /\ p.begin < p.end /\ b <= p.begin /\ p.end <= e
      /\ \A a \in Nat : b <= a /\ a < e =>
           (\E iv \in Overlap(S, b, e) : Within(a, iv)) \/ \E p \in parts : Within(a, p)
  BY <1>1, UncachedParts
<1>4. ASSUME NEW iv \in F PROVE iv.begin < e /\ b < iv.end
  <2>1. PICK p \in parts : iv.begin = p.begin /\ iv.end = p.end
    BY DEF Fetched
  <2>2. p.begin \in Nat /\ p.end \in Nat /\ p.begin < p.end /\ b <= p.begin /\ p.end <= e
    BY <1>3 DEF Gap
  <2> QED
    BY <1>1, <2>1, <2>2
<1>5. \A p \in parts : \E iv \in F : iv.begin = p.begin /\ iv.end = p.end
  <2> SUFFICES ASSUME NEW p \in parts PROVE \E iv \in F : iv.begin = p.begin /\ iv.end = p.end
    OBVIOUS
  <2> DEFINE new == [begin |-> p.begin, end |-> p.end,
                     data |-> [i \in 1..(p.end - p.begin) |-> m[p.begin + i - 1]]]
  <2>1. new \in F
    BY DEF Fetched
  <2>2. new.begin = p.begin /\ new.end = p.end
    OBVIOUS
  <2> QED
    BY <2>1, <2>2
<1> HIDE DEF F, parts
<1>6. T = Overlap(S \cup F, b, e) /\ T \subseteq S \cup F
  BY <1>4 DEF Overlap
<1>7. S \cup F \in SUBSET Cell /\ WellFormed(S \cup F)
  BY <1>2, TreeIsWellFormed
<1>8. /\ T \in SUBSET Cell /\ IsFiniteSet(T)
      /\ \A p, q \in T : p.begin = q.begin => p = q
  <2> DEFINE U == S \cup F
  <2>1. U \in SUBSET Cell /\ WellFormed(U) /\ T = Overlap(U, b, e) /\ T \subseteq U
    BY <1>6, <1>7
  <2> HIDE DEF U, T
  <2>2. /\ Overlap(U, b, e) \in SUBSET Cell /\ IsFiniteSet(Overlap(U, b, e))
        /\ \A p, q \in U : p.begin = q.begin => p = q
    BY <1>1, <2>1, OverlapFinite
  <2> QED
    BY <2>1, <2>2
<1>9. Lists(list, T)
  BY <1>8, AscendingLists
<1>10. Tree(T)
  BY <1>2, <1>6 DEF Tree
<1>11. \A iv \in T : iv.begin < e /\ b < iv.end
  BY <1>6 DEF Overlap
<1>12. \A iv \in T : Text(iv.data, iv.begin, iv.end, m)
  BY <1>2, <1>6, MirrorsTexts
<1>13. \A a \in Nat : b <= a /\ a < e => \E iv \in T : Within(a, iv)
  <2> SUFFICES ASSUME NEW a \in Nat, b <= a, a < e PROVE \E iv \in T : Within(a, iv)
    OBVIOUS
  <2>1. CASE \E iv \in Overlap(S, b, e) : Within(a, iv)
    BY <2>1
  <2>2. CASE \E p \in parts : Within(a, p)
    BY <1>5, <2>2 DEF Within
  <2> QED
    BY <1>3, <2>1, <2>2
<1> HIDE DEF T, list
<1>14. /\ list # <<>>
       /\ Head(list).begin <= b /\ e <= Last(list).end
       /\ Chain(list, Head(list).begin, Last(list).end, m)
  BY <1>1, <1>9, <1>10, <1>11, <1>12, <1>13, CoverIsChain
<1>15. b < Head(list).end /\ Last(list).begin < e
  <2>1. list \in Seq(T) /\ Len(list) \in Nat /\ Len(list) # 0
    BY <1>9, <1>14 DEF Lists
  <2>2. Head(list) \in T /\ Last(list) \in T
    BY <2>1 DEF Last
  <2> QED
    BY <1>11, <2>2
<1>16. Text(s, b, e, m)
  BY <1>1, <1>14, <1>15, MergedText
<1> HIDE DEF s
<1>17. s \in Seq(Byte) /\ Len(s) = e - b /\ \A a \in b..(e - 1) : s[a - b + 1] = m[a]
  BY <1>16 DEF Text, Fills
<1>18. s = [i \in 1..(e - b) |-> s[i]]
  BY <1>1, <1>17
<1>19. ASSUME NEW i \in 1..(e - b) PROVE s[i] = m[b + i - 1]
  <2>1. b + i - 1 \in b..(e - 1) /\ (b + i - 1) - b + 1 = i
    BY <1>1
  <2> QED
    BY <1>17, <2>1
<1>20. s = [i \in 1..(e - b) |-> m[b + i - 1]]
  BY <1>18, <1>19
<1> QED
  BY <1>20 DEF s, list, T, F, parts

-----------------------------------------------------------------------------
(* Registers                                                               *)

Values == UNION {[F -> FieldValues] : F \in SUBSET Field}
Writes == [reg : Reg, value : Values]

LEMMA ValueTyped ==
  /\ \A F \in SUBSET Field : \A v \in [F -> FieldValues] : v \in Values
  /\ \A v \in Values : \A f \in DOMAIN v : v[f] \in FieldValues
  /\ NoValue \in Values /\ DOMAIN NoValue = {}
<1>1. \A F \in SUBSET Field : \A v \in [F -> FieldValues] : v \in Values
  BY DEF Values
<1>2. ASSUME NEW v \in Values, NEW f \in DOMAIN v PROVE v[f] \in FieldValues
  <2>1. PICK F \in SUBSET Field : v \in [F -> FieldValues]
    BY DEF Values
  <2> QED
    BY <2>1
<1>3. NoValue \in [{} -> FieldValues] /\ DOMAIN NoValue = {}
  BY DEF NoValue
<1> QED
  BY <1>1, <1>2, <1>3

LEMMA ThroughReg ==
  ASSUME NEW r \in Reg
  PROVE  Through(r) \in Reg
<1>1. CASE \E v \in CfbpVariants : r \in Range(v.regs)
  <2> DEFINE w == CHOOSE v \in CfbpVariants : r \in Range(v.regs)
  <2>1. w \in CfbpVariants
    BY <1>1
  <2>2. Through(r) = w.index
    BY <1>1 DEF Through
  <2> HIDE DEF w
  <2> QED
    BY <2>1, <2>2, RegisterAssumption DEF RegisterAssumption
<1>2. CASE ~ \E v \in CfbpVariants : r \in Range(v.regs)
  BY <1>2, RegisterAssumption DEF RegisterAssumption, Through
<1> QED
  BY <1>1, <1>2

(* After some writes a field has what it had, when none of them has it, or *)
(* else its value in the last that has it.                                 *)
Having(ws, f) == {i \in DOMAIN ws : f \in DOMAIN ws[i].value}

LEMMA AppliedField ==
  ASSUME NEW fs, NEW ws \in Seq(Writes), NEW f \in DOMAIN fs
  PROVE  LET at == Having(ws, f)
         IN /\ at = {} => Apply(fs, ws)[f] = fs[f]
            /\ at # {} => /\ Max(at) \in at /\ \A j \in at : j <= Max(at)
                          /\ Apply(fs, ws)[f] = ws[Max(at)].value[f]
<1> DEFINE at == Having(ws, f)
<1>1. Apply(fs, ws)[f] = IF at = {} THEN fs[f] ELSE ws[Max(at)].value[f]
  BY DEF Apply, Having
<1>2. ASSUME at # {} PROVE Max(at) \in at /\ \A j \in at : j <= Max(at)
  <2>1. at \in SUBSET (1..Len(ws)) /\ Len(ws) \in Nat
    BY DEF Having
  <2> QED
    BY <1>2, <2>1, LastPlace
<1> QED
  BY <1>1, <1>2

LEMMA AppliedTyped ==
  ASSUME NEW F \in SUBSET Field, NEW fs \in [F -> FieldValues], NEW ws \in Seq(Writes)
  PROVE  Apply(fs, ws) \in [F -> FieldValues]
<1>1. DOMAIN Apply(fs, ws) = F /\ Apply(fs, ws) = [f \in F |-> Apply(fs, ws)[f]]
  BY DEF Apply
<1>2. ASSUME NEW f \in F PROVE Apply(fs, ws)[f] \in FieldValues
  <2> DEFINE at == Having(ws, f)
  <2>1. /\ at = {} => Apply(fs, ws)[f] = fs[f]
        /\ at # {} => /\ Max(at) \in at
                      /\ Apply(fs, ws)[f] = ws[Max(at)].value[f]
    <3>1. f \in DOMAIN fs
      OBVIOUS
    <3>2. at = {} => Apply(fs, ws)[f] = fs[f]
      BY <3>1, AppliedField
    <3>3. at # {} => Max(at) \in at
      BY <3>1, AppliedField
    <3>4. at # {} => Apply(fs, ws)[f] = ws[Max(at)].value[f]
      BY <3>1, AppliedField
    <3> QED
      BY <3>2, <3>3, <3>4
  <2>2. ASSUME NEW i \in at PROVE ws[i].value[f] \in FieldValues
    <3>1. ws[i] \in Writes /\ f \in DOMAIN ws[i].value
      BY DEF Having
    <3>2. ws[i].value \in Values
      BY <3>1 DEF Writes
    <3> QED
      BY <3>1, <3>2, ValueTyped
  <2> HIDE DEF at
  <2> QED
    BY <2>1, <2>2
<1> QED
  BY <1>1, <1>2

(* The writes at some places are as many, and the others have no field.    *)
LEMMA OnlyTyped ==
  ASSUME NEW ws \in Seq(Writes), NEW places
  PROVE  /\ Only(ws, places) \in Seq(Writes) /\ Len(Only(ws, places)) = Len(ws)
         /\ \A i \in 1..Len(ws) : /\ i \in places => Only(ws, places)[i] = ws[i]
                                  /\ i \notin places => DOMAIN Only(ws, places)[i].value = {}
<1> DEFINE o == Only(ws, places)
           n == Len(ws)
           none(i) == [reg |-> ws[i].reg, value |-> NoValue]
<1>1. n \in Nat /\ DOMAIN ws = 1..n /\ \A i \in 1..n : ws[i] \in Writes
  OBVIOUS
<1>2. o = [i \in 1..n |-> IF i \in places THEN ws[i] ELSE none(i)]
  BY <1>1 DEF Only
<1> HIDE DEF o, n
<1>3. ASSUME NEW i \in 1..n PROVE none(i) \in Writes /\ DOMAIN none(i).value = {}
  <2>1. ws[i].reg \in Reg
    BY <1>1 DEF Writes
  <2>2. NoValue \in Values /\ DOMAIN NoValue = {}
    BY ValueTyped
  <2> QED
    BY <2>1, <2>2 DEF Writes
<1>4. \A i \in 1..n : /\ o[i] \in Writes
                      /\ i \in places => o[i] = ws[i]
                      /\ i \notin places => DOMAIN o[i].value = {}
  BY <1>1, <1>2, <1>3
<1>5. o \in [1..n -> Writes]
  BY <1>2, <1>4
<1>6. o \in Seq(Writes) /\ Len(o) = n
  BY <1>1, <1>5
<1> QED
  BY <1>4, <1>6 DEF o, n

(* And what is attempted of some writes: no field but theirs, with its     *)
(* value in them.                                                          *)
LEMMA AttemptedTyped ==
  ASSUME NEW ws \in Seq(Writes), NEW places, NEW halves
  PROVE  LET o == Attempted(ws, places, halves)
         IN /\ o \in Seq(Writes) /\ Len(o) = Len(ws)
            /\ \A i \in 1..Len(ws) : \A f \in DOMAIN o[i].value :
                 f \in DOMAIN ws[i].value /\ o[i].value[f] = ws[i].value[f]
<1> DEFINE o == Attempted(ws, places, halves)
           n == Len(ws)
           part(i) == IF i \notin places THEN NoValue
                      ELSE IF ws[i].reg \in DoubleRegs
                        THEN Restrict(ws[i].value, DOMAIN ws[i].value \cap halves)
                      ELSE ws[i].value
           item(i) == [reg |-> ws[i].reg, value |-> part(i)]
<1>1. n \in Nat /\ DOMAIN ws = 1..n /\ \A i \in 1..n : ws[i] \in Writes
  OBVIOUS
<1>2. o = [i \in 1..n |-> item(i)]
  BY <1>1 DEF Attempted
<1> HIDE DEF o, n
<1>3. ASSUME NEW i \in 1..n
      PROVE  /\ item(i) \in Writes
             /\ \A f \in DOMAIN part(i) : f \in DOMAIN ws[i].value /\ part(i)[f] = ws[i].value[f]
  <2> DEFINE v == ws[i].value
  <2>1. ws[i].reg \in Reg /\ v \in Values
    BY <1>1 DEF Writes
  <2>2. PICK F \in SUBSET Field : v \in [F -> FieldValues]
    BY <2>1 DEF Values
  <2>3. /\ part(i) \in Values
        /\ \A f \in DOMAIN part(i) : f \in DOMAIN v /\ part(i)[f] = v[f]
    <3>1. CASE i \notin places
      <4>1. part(i) = NoValue /\ NoValue \in Values /\ DOMAIN NoValue = {}
        BY <3>1, ValueTyped
      <4> HIDE DEF part
      <4> QED
        BY <4>1
    <3>2. CASE i \in places /\ ws[i].reg \in DoubleRegs
      <4> DEFINE w == Restrict(v, DOMAIN v \cap halves)
      <4>1. part(i) = w
        BY <3>2
      <4>2. DOMAIN v \cap halves \subseteq F
        BY <2>2
      <4> HIDE DEF v
      <4>3. w \in [DOMAIN v \cap halves -> FieldValues] /\ \A f \in DOMAIN w : f \in DOMAIN v /\ w[f] = v[f]
        BY <2>2, <4>2 DEF Restrict
      <4> HIDE DEF w
      <4>4. w \in Values
        BY <4>2, <4>3 DEF Values
      <4> HIDE DEF part
      <4> QED
        BY <4>1, <4>3, <4>4
    <3>3. CASE i \in places /\ ws[i].reg \notin DoubleRegs
      <4>1. part(i) = v
        BY <3>3
      <4> HIDE DEF part, v
      <4> QED
        BY <2>1, <4>1
    <3> QED
      BY <3>1, <3>2, <3>3
  <2> HIDE DEF part
  <2> QED
    BY <2>1, <2>3 DEF Writes
<1>4. \A i \in 1..n : o[i] = item(i) /\ o[i].value = part(i)
  BY <1>2
<1> HIDE DEF item, part
<1>5. o \in [1..n -> Writes]
  BY <1>2, <1>3
<1>6. o \in Seq(Writes) /\ Len(o) = n
  BY <1>1, <1>5
<1> QED
  BY <1>3, <1>4, <1>6 DEF o, n

(* A merged value has the fields of its register; those that no part has   *)
(* are what they were.                                                     *)
LEMMA MergedTyped ==
  ASSUME NEW writes \in Seq(Writes), NEW fs \in [Field -> FieldValues], NEW sel \in Reg
  PROVE  LET d == Merged(writes, sel, fs)
         IN /\ d \in Writes /\ DOMAIN d.value = FieldsOf[sel]
            /\ \A f \in FieldsOf[sel] :
                 (\A i \in Parts(writes, sel) : f \notin DOMAIN writes[i].value) => d.value[f] = fs[f]
<1> DEFINE d == Merged(writes, sel, fs)
           old == ValueOf(sel, fs)
           ws == Only(writes, Parts(writes, sel))
<1>1. FieldsOf[sel] \in SUBSET Field
  BY RegisterAssumption DEF RegisterAssumption
<1>2. old \in [FieldsOf[sel] -> FieldValues] /\ \A f \in FieldsOf[sel] : old[f] = fs[f]
  BY <1>1 DEF ValueOf
<1>3. /\ ws \in Seq(Writes) /\ Len(ws) = Len(writes)
      /\ \A i \in 1..Len(writes) : /\ i \in Parts(writes, sel) => ws[i] = writes[i]
                                   /\ i \notin Parts(writes, sel) => DOMAIN ws[i].value = {}
  BY OnlyTyped
<1> HIDE DEF old, ws
<1>4. d = [reg |-> sel, value |-> Apply(old, ws)]
  BY DEF Merged, old, ws
<1>5. Apply(old, ws) \in [FieldsOf[sel] -> FieldValues]
  BY <1>1, <1>2, <1>3, AppliedTyped
<1>6. Apply(old, ws) \in Values
  BY <1>1, <1>5, ValueTyped
<1> HIDE DEF d
<1>7. d \in Writes /\ d.value = Apply(old, ws)
  BY <1>4, <1>6 DEF Writes
<1>8. ASSUME NEW f \in FieldsOf[sel], \A i \in Parts(writes, sel) : f \notin DOMAIN writes[i].value
      PROVE  Apply(old, ws)[f] = fs[f]
  <2> DEFINE at == Having(ws, f)
  <2>1. at = {}
    BY <1>3, <1>8 DEF Having
  <2>2. f \in DOMAIN old
    BY <1>2
  <2>3. Apply(old, ws)[f] = old[f]
    BY <1>3, <2>1, <2>2, AppliedField
  <2> QED
    BY <1>2, <2>3
<1> QED
  BY <1>5, <1>7, <1>8 DEF d

(* What write_core_registers_raw performs: at their places the registers   *)
(* that are written with themselves, and then merged values.               *)
IsMerged(d, writes, fs) ==
  \E i \in DOMAIN writes : /\ writes[i].reg # Through(writes[i].reg)
                           /\ d = Merged(writes, Through(writes[i].reg), fs)

LEMMA DcrsrWritesShape ==
  ASSUME NEW writes \in Seq(Writes), NEW fs \in [Field -> FieldValues]
  PROVE  LET D == DcrsrWrites(writes, fs)
         IN /\ D \in Seq(Writes) /\ Len(writes) <= Len(D)
            /\ \A k \in 1..Len(writes) : Through(writes[k].reg) = writes[k].reg => D[k] = writes[k]
            /\ \A k \in 1..Len(D) :
                 \/ k \in 1..Len(writes) /\ Through(writes[k].reg) = writes[k].reg
                 \/ DOMAIN D[k].value = {}
                 \/ IsMerged(D[k], writes, fs)
<1> DEFINE D == DcrsrWrites(writes, fs)
           n == Len(writes)
           sel(i) == Through(writes[i].reg)
           whole  == {i \in DOMAIN writes : sel(i) = writes[i].reg}
           xpsr   == IF Parts(writes, XpsrIndex) = {} THEN <<>>
                                                    ELSE <<Merged(writes, XpsrIndex, fs)>>
           first  == {i \in DOMAIN writes \ whole : \A j \in Parts(writes, sel(i)) : i <= j}
           none(i) == [reg |-> writes[i].reg, value |-> NoValue]
           cfbps  == [i \in DOMAIN writes |->
                        IF i \in first /\ sel(i) # XpsrIndex THEN Merged(writes, sel(i), fs)
                        ELSE none(i)]
           straight == Only(writes, whole)
<1>1. D = straight \o xpsr \o cfbps
  BY DEF DcrsrWrites
<1>2. /\ n \in Nat /\ DOMAIN writes = 1..n
      /\ \A i \in 1..n : writes[i].reg \in Reg /\ sel(i) \in Reg
  <2>1. n \in Nat /\ DOMAIN writes = 1..n /\ \A i \in 1..n : writes[i] \in Writes
    OBVIOUS
  <2>2. \A i \in 1..n : writes[i].reg \in Reg
    BY <2>1 DEF Writes
  <2> QED
    BY <2>1, <2>2, ThroughReg
<1>3. /\ straight \in Seq(Writes) /\ Len(straight) = n
      /\ \A i \in 1..n : /\ i \in whole => straight[i] = writes[i]
                         /\ i \notin whole => DOMAIN straight[i].value = {}
  BY OnlyTyped
<1>4. /\ xpsr \in Seq(Writes) /\ Len(xpsr) \in Nat
      /\ \A k \in 1..Len(xpsr) : IsMerged(xpsr[k], writes, fs)
  <2>1. CASE Parts(writes, XpsrIndex) = {}
    <3>1. xpsr = <<>>
      BY <2>1
    <3> HIDE DEF xpsr
    <3> QED
      BY <3>1
  <2>2. CASE Parts(writes, XpsrIndex) # {}
    <3> DEFINE d == Merged(writes, XpsrIndex, fs)
    <3>1. PICK i \in DOMAIN writes : writes[i].reg # XpsrIndex /\ Through(writes[i].reg) = XpsrIndex
      BY <2>2 DEF Parts
    <3>2. IsMerged(d, writes, fs)
      BY <3>1 DEF IsMerged
    <3>3. XpsrIndex \in Reg
      BY RegisterAssumption DEF RegisterAssumption
    <3>4. d \in Writes
      BY <3>3, MergedTyped
    <3>5. xpsr = <<d>>
      BY <2>2
    <3> HIDE DEF xpsr, d
    <3>6. xpsr \in Seq(Writes) /\ Len(xpsr) = 1 /\ xpsr[1] = d
      BY <3>4, <3>5
    <3> QED
      BY <3>2, <3>6
  <2> QED
    BY <2>1, <2>2
<1>5. ASSUME NEW i \in 1..n
      PROVE  /\ cfbps[i] \in Writes
             /\ DOMAIN cfbps[i].value = {} \/ IsMerged(cfbps[i], writes, fs)
  <2>1. CASE i \in first /\ sel(i) # XpsrIndex
    <3>1. cfbps[i] = Merged(writes, sel(i), fs)
      BY <1>2, <2>1
    <3>2. writes[i].reg # sel(i)
      BY <2>1
    <3>3. IsMerged(cfbps[i], writes, fs)
      BY <1>2, <3>1, <3>2 DEF IsMerged
    <3>4. Merged(writes, sel(i), fs) \in Writes
      BY <1>2, MergedTyped
    <3> QED
      BY <3>1, <3>3, <3>4
  <2>2. CASE ~(i \in first /\ sel(i) # XpsrIndex)
    <3>1. cfbps[i] = none(i)
      BY <1>2, <2>2
    <3>2. NoValue \in Values /\ DOMAIN NoValue = {}
      BY ValueTyped
    <3>3. none(i) \in Writes /\ DOMAIN none(i).value = {}
      BY <1>2, <3>2 DEF Writes
    <3> HIDE DEF cfbps
    <3> QED
      BY <3>1, <3>3
  <2> QED
    BY <2>1, <2>2
<1>6. cfbps \in Seq(Writes) /\ Len(cfbps) = n
  <2>1. DOMAIN cfbps = 1..n /\ cfbps = [i \in 1..n |-> cfbps[i]]
    BY <1>2
  <2> HIDE DEF cfbps
  <2>2. cfbps \in [1..n -> Writes]
    BY <1>5, <2>1
  <2> QED
    BY <1>2, <2>2
<1> HIDE DEF D, n, straight, xpsr, cfbps
<1> DEFINE x == straight \o xpsr
           m == n + Len(xpsr)
<1>7. /\ x \in Seq(Writes) /\ Len(x) = m /\ m \in Nat /\ n <= m
      /\ \A k \in 1..m : x[k] = IF k <= n THEN straight[k] ELSE xpsr[k - n]
  <2>1. n \in Nat /\ Len(xpsr) \in Nat /\ m \in Nat /\ n <= m
    BY <1>2, <1>4
  <2>2. /\ x \in Seq(Writes) /\ Len(x) = Len(straight) + Len(xpsr)
        /\ \A k \in 1..(Len(straight) + Len(xpsr)) :
             x[k] = IF k <= Len(straight) THEN straight[k] ELSE xpsr[k - Len(straight)]
    BY <1>3, <1>4, ConcatProperties
  <2> QED
    BY <1>3, <2>1, <2>2
<1> HIDE DEF x, m
<1>8. /\ D \in Seq(Writes) /\ Len(D) = m + n
      /\ \A k \in 1..(m + n) : D[k] = IF k <= m THEN x[k] ELSE cfbps[k - m]
  <2>1. D = x \o cfbps
    BY <1>1 DEF x
  <2>2. n \in Nat /\ m \in Nat /\ x \in Seq(Writes) /\ Len(x) = m
        /\ cfbps \in Seq(Writes) /\ Len(cfbps) = n
    BY <1>2, <1>6, <1>7
  <2>3. /\ x \o cfbps \in Seq(Writes) /\ Len(x \o cfbps) = m + n
        /\ \A k \in 1..(m + n) : (x \o cfbps)[k] = IF k <= m THEN x[k] ELSE cfbps[k - m]
    BY <2>2, ConcatProperties
  <2> QED
    BY <2>1, <2>3
<1>9. ASSUME NEW k \in 1..n PROVE k \in 1..(m + n) /\ D[k] = straight[k]
  <2>1. k \in 1..m /\ k \in 1..(m + n) /\ k <= m /\ k <= n
    BY <1>2, <1>7
  <2> QED
    BY <1>7, <1>8, <2>1
<1>10. ASSUME NEW k \in 1..(m + n)
       PROVE  \/ k \in 1..n /\ sel(k) = writes[k].reg
              \/ DOMAIN D[k].value = {}
              \/ IsMerged(D[k], writes, fs)
  <2>1. CASE k <= n
    <3>1. k \in 1..n
      BY <1>2, <2>1
    <3>2. D[k] = straight[k]
      BY <1>9, <3>1
    <3> QED
      BY <1>2, <1>3, <3>1, <3>2
  <2>2. CASE n < k /\ k <= m
    <3>1. k \in 1..m /\ k - n \in 1..Len(xpsr) /\ ~(k <= n)
      BY <1>2, <1>4, <1>7, <2>2 DEF m
    <3>2. D[k] = xpsr[k - n]
      BY <1>7, <1>8, <2>2, <3>1
    <3> QED
      BY <1>4, <3>1, <3>2
  <2>3. CASE m < k
    <3>1. k - m \in 1..n /\ ~(k <= m)
      BY <1>2, <1>7, <2>3
    <3>2. D[k] = cfbps[k - m]
      BY <1>8, <3>1
    <3> QED
      BY <1>5, <3>1, <3>2
  <2> QED
    BY <1>2, <1>7, <2>1, <2>2, <2>3
<1>11. \A k \in 1..n : sel(k) = writes[k].reg => D[k] = writes[k]
  BY <1>2, <1>3, <1>9
<1>12. Len(D) = m + n /\ n <= m + n
  BY <1>2, <1>7, <1>8
<1> QED
  BY <1>8, <1>10, <1>11, <1>12 DEF D, n

(* What one register drops, several with it among them drop.               *)
LEMMA DroppedGrows ==
  ASSUME NEW regs, NEW w \in regs
  PROVE  Dropped({w}) \subseteq Dropped(regs)
<1>1. DroppedCfbp({w}) \subseteq DroppedCfbp(regs)
  <2> SUFFICES ASSUME NEW r \in DroppedCfbp({w}) PROVE r \in DroppedCfbp(regs)
    OBVIOUS
  <2>1. CASE {w} \cap CfbpIndexes # {}
    <3>1. w \in CfbpIndexes /\ regs \cap CfbpIndexes # {}
      BY <2>1
    <3> QED
      BY <2>1, <3>1 DEF DroppedCfbp
  <2>2. CASE {w} \cap CfbpIndexes = {}
    <3>1. PICK v \in CfbpVariants, pos \in 1..4 :
            r = v.regs[pos] /\ \E u \in CfbpVariants : u.regs[pos] = w
      BY <2>2 DEF DroppedCfbp
    <3>2. CASE regs \cap CfbpIndexes = {}
      <4>1. r \in {u.regs[pos] : u \in CfbpVariants}
            /\ pos \in {p \in 1..4 : \E u \in CfbpVariants : u.regs[p] \in regs}
        BY <3>1
      <4> QED
        BY <3>2, <4>1 DEF DroppedCfbp
    <3>3. CASE regs \cap CfbpIndexes # {}
      <4>1. DOMAIN v.regs = 1..4
        BY RegisterAssumption DEF RegisterAssumption
      <4>2. r \in Range(v.regs)
        BY <3>1, <4>1 DEF Range
      <4> QED
        BY <3>3, <4>2 DEF DroppedCfbp
    <3> QED
      BY <3>2, <3>3
  <2> QED
    BY <2>1, <2>2
<1> QED
  BY <1>1 DEF Dropped

(* So it is with what one overlooks.                                       *)
LEMMA OverlookedGrows ==
  ASSUME NEW regs, NEW w \in regs
  PROVE  Overlooked({w}) \subseteq Overlooked(regs)
<1> SUFFICES ASSUME NEW r \in Overlooked({w}) PROVE r \in Overlooked(regs)
  OBVIOUS
<1>1. CASE \E v \in CfbpVariants : r = v.index /\ \E u \in CfbpVariants : Range(u.regs) \cap {w} # {}
  <2>1. PICK v \in CfbpVariants, u \in CfbpVariants : r = v.index /\ Range(u.regs) \cap regs # {}
    BY <1>1
  <2> QED
    BY <2>1 DEF Overlooked
<1>2. CASE r \in Reg /\ \E x \in {w} \ {r} : {r, x} \cap DoubleRegs # {} /\ FieldsOf[r] \cap FieldsOf[x] # {}
  BY <1>2 DEF Overlooked
<1> QED
  BY <1>1, <1>2 DEF Overlooked

(* What the code drops for a register that is written, and overlooks,      *)
(* covers its aliases.                                                     *)
LEMMA AliasesAreDropped ==
  ASSUME NEW r \in UNION ReadLists, NEW w \in UNION {Range(l) : l \in WriteLists},
         r \notin Dropped({w}), r \notin Overlooked({w})
  PROVE  \/ r = w /\ Through(w) = w
         \/ /\ FieldsOf[r] \cap FieldsOf[w] = {}
            /\ Through(r) # r \/ FieldsOf[r] \cap FieldsOf[Through(w)] = {}
<1>1. ~({r, w} \subseteq XpsrRegs \cup {XpsrIndex})
  <2>1. SUFFICES ASSUME r \in XpsrRegs \cup {XpsrIndex}, w \in XpsrRegs \cup {XpsrIndex}
                 PROVE  FALSE
    OBVIOUS
  <2>2. {w} \cap (XpsrRegs \cup {XpsrIndex}) # {}
    BY <2>1
  <2> QED
    BY <2>1, <2>2 DEF Dropped
<1>2. ~({r, w} \subseteq SpRegs)
  <2>1. SUFFICES ASSUME r \in SpRegs, w \in SpRegs PROVE FALSE
    OBVIOUS
  <2>2. {w} \cap SpRegs # {}
    BY <2>1
  <2> QED
    BY <2>1, <2>2 DEF Dropped
<1>3. r \notin DroppedCfbp({w})
  BY DEF Dropped
<1>4. ASSUME NEW u \in CfbpVariants, NEW v \in CfbpVariants,
             w = u.index, r \in Range(v.regs) \cup {v.index}
      PROVE  FALSE
  <2>1. {w} \cap CfbpIndexes # {}
    BY <1>4 DEF CfbpIndexes
  <2>2. r \in UNION {Range(x.regs) \cup {x.index} : x \in CfbpVariants}
    BY <1>4
  <2> QED
    BY <2>1, <2>2, <1>3 DEF DroppedCfbp
<1>5. ASSUME NEW u \in CfbpVariants, NEW v \in CfbpVariants, NEW p \in 1..4,
             w = u.regs[p], r = v.regs[p]
      PROVE  FALSE
  <2>1. CASE {w} \cap CfbpIndexes = {}
    <3>1. /\ r \in {x.regs[p] : x \in CfbpVariants}
          /\ p \in {q \in 1..4 : \E x \in CfbpVariants : x.regs[q] \in {w}}
      BY <1>5
    <3> QED
      BY <2>1, <3>1, <1>3 DEF DroppedCfbp
  <2>2. CASE {w} \cap CfbpIndexes # {}
    <3>1. DOMAIN v.regs = 1..4
      BY RegisterAssumption DEF RegisterAssumption
    <3>2. r \in Range(v.regs)
      BY <1>5, <3>1 DEF Range
    <3> QED
      BY <2>2, <3>2, <1>3 DEF DroppedCfbp
  <2> QED
    BY <2>1, <2>2
<1> QED
  BY <1>1, <1>2, <1>4, <1>5, AliasAssumption DEF AliasAssumption

(* A list of writes as the context makes them.                             *)
ReadRegs == UNION ReadLists
WrittenRegs == UNION {Range(l) : l \in WriteLists}
Listed(writes) ==
  /\ writes \in Seq(Writes)
  /\ \A i \in 1..Len(writes) : /\ writes[i].reg \in WrittenRegs
                               /\ DOMAIN writes[i].value = FieldsOf[writes[i].reg]

(* The registers of a list, the places of one in it, those whose cached    *)
(* value such writes neither drop nor leave untrue, and that the fields of *)
(* one are written, if at all, with what they had.                         *)
RegsOf(writes) == {writes[i].reg : i \in DOMAIN writes}
PlacesOf(r, writes) == {i \in DOMAIN writes : writes[i].reg = r}
Spared(r, writes) == r \notin Dropped(RegsOf(writes)) /\ r \notin Overlooked(RegsOf(writes))
Rewritten(r, D, fs) == \A f \in FieldsOf[r] : \A k \in Having(D, f) : D[k].value[f] = fs[f]

(* Of a register that such a list neither drops nor overlooks, one that it *)
(* does not write shows what it did (its fields are written with what they *)
(* had), and one that it writes the last value written.                    *)
LEMMA WrittenFields ==
  ASSUME NEW writes, Listed(writes), NEW fs \in [Field -> FieldValues], NEW r \in ReadRegs,
         Spared(r, writes)
  PROVE  /\ PlacesOf(r, writes) = {} =>
              /\ ValueOf(r, Apply(fs, DcrsrWrites(writes, fs))) = ValueOf(r, fs)
              /\ Rewritten(r, DcrsrWrites(writes, fs), fs)
         /\ PlacesOf(r, writes) # {} =>
              ValueOf(r, Apply(fs, DcrsrWrites(writes, fs))) = writes[Max(PlacesOf(r, writes))].value
<1>0. r \notin Dropped({writes[i].reg : i \in DOMAIN writes})
      /\ r \notin Overlooked({writes[i].reg : i \in DOMAIN writes})
  BY DEF Spared, RegsOf
<1> DEFINE D == DcrsrWrites(writes, fs)
           n == Len(writes)
           after == Apply(fs, D)
           at == {i \in DOMAIN writes : writes[i].reg = r}
           of(i) == writes[i].reg
<1>1. /\ writes \in Seq(Writes) /\ n \in Nat /\ DOMAIN writes = 1..n
      /\ \A i \in 1..n : /\ of(i) \in WrittenRegs /\ of(i) \in Reg
                         /\ DOMAIN writes[i].value = FieldsOf[of(i)]
                         /\ writes[i].value \in Values
  <2>1. \A i \in 1..n : writes[i] \in Writes
    BY DEF Listed
  <2>2. \A i \in 1..n : writes[i].reg \in Reg /\ writes[i].value \in Values
    BY <2>1 DEF Writes
  <2> QED
    BY <2>2 DEF Listed
<1>2. /\ D \in Seq(Writes) /\ n <= Len(D) /\ Len(D) \in Nat
      /\ \A k \in 1..n : Through(of(k)) = of(k) => D[k] = writes[k]
      /\ \A k \in 1..Len(D) :
           \/ k \in 1..n /\ Through(of(k)) = of(k)
           \/ DOMAIN D[k].value = {}
           \/ IsMerged(D[k], writes, fs)
  <2>1. /\ D \in Seq(Writes) /\ n <= Len(D)
        /\ \A k \in 1..n : Through(writes[k].reg) = writes[k].reg => D[k] = writes[k]
        /\ \A k \in 1..Len(D) :
             \/ k \in 1..n /\ Through(writes[k].reg) = writes[k].reg
             \/ DOMAIN D[k].value = {}
             \/ IsMerged(D[k], writes, fs)
    BY <1>1, DcrsrWritesShape
  <2> HIDE DEF D
  <2>2. Len(D) \in Nat
    BY <2>1
  <2> QED
    BY <2>1, <2>2
<1>3. r \in Reg /\ FieldsOf[r] \subseteq Field
  <2>1. r \in Reg
    BY ContextAssumption DEF ContextAssumption, ReadRegs
  <2> QED
    BY <2>1, RegisterAssumption DEF RegisterAssumption
<1>4. ASSUME NEW i \in 1..n
      PROVE  \/ r = of(i) /\ Through(of(i)) = of(i)
             \/ /\ FieldsOf[r] \cap FieldsOf[of(i)] = {}
                /\ Through(r) # r \/ FieldsOf[r] \cap FieldsOf[Through(of(i))] = {}
  <2>1. r \notin Dropped({of(i)}) /\ r \notin Overlooked({of(i)})
    <3>1. of(i) \in {writes[j].reg : j \in DOMAIN writes}
      BY <1>1
    <3> QED
      BY <1>0, <3>1, DroppedGrows, OverlookedGrows
  <2>2. r \in UNION ReadLists /\ of(i) \in UNION {Range(l) : l \in WriteLists}
    BY <1>1 DEF ReadRegs, WrittenRegs
  <2> QED
    BY <2>1, <2>2, AliasesAreDropped
<1>5. ASSUME NEW d, IsMerged(d, writes, fs)
      PROVE  \E i \in 1..n :
               LET sel == Through(of(i))
               IN /\ of(i) # sel /\ DOMAIN d.value = FieldsOf[sel]
                  /\ \A f \in FieldsOf[sel] :
                       (\A j \in 1..n : f \notin FieldsOf[of(j)] \/ of(j) = sel) => d.value[f] = fs[f]
  <2>1. PICK i \in 1..n : of(i) # Through(of(i)) /\ d = Merged(writes, Through(of(i)), fs)
    BY <1>1, <1>5 DEF IsMerged
  <2> DEFINE sel == Through(of(i))
  <2>2. sel \in Reg
    BY <1>1, ThroughReg
  <2>3. /\ DOMAIN d.value = FieldsOf[sel]
        /\ \A f \in FieldsOf[sel] :
             (\A j \in Parts(writes, sel) : f \notin DOMAIN writes[j].value) => d.value[f] = fs[f]
    BY <1>1, <2>1, <2>2, MergedTyped
  <2>4. \A j \in Parts(writes, sel) : j \in 1..n /\ of(j) # sel
    BY <1>1 DEF Parts
  <2> QED
    BY <1>1, <2>1, <2>3, <2>4
<1> HIDE DEF D, n, of
<1>6. \A f \in FieldsOf[r] : ValueOf(r, after)[f] = after[f]
      /\ ValueOf(r, after) = [g \in FieldsOf[r] |-> after[g]]
  BY DEF ValueOf
<1>7. ASSUME NEW f \in FieldsOf[r]
      PROVE  /\ Having(D, f) = {} => after[f] = fs[f]
             /\ Having(D, f) # {} => after[f] = D[Max(Having(D, f))].value[f]
  <2>1. f \in DOMAIN fs
    BY <1>3
  <2> QED
    BY <1>2, <2>1, AppliedField
<1>8. ASSUME NEW f \in FieldsOf[r] PROVE Having(D, f) # {} => Max(Having(D, f)) \in Having(D, f)
  <2>1. f \in DOMAIN fs
    BY <1>3
  <2> QED
    BY <1>2, <2>1, AppliedField
<1>9. ASSUME at = {}, NEW f \in FieldsOf[r]
      PROVE  after[f] = fs[f] /\ \A k \in Having(D, f) : D[k].value[f] = fs[f]
  <2>1. ASSUME NEW i \in 1..n
        PROVE  f \notin FieldsOf[of(i)] /\ (Through(r) # r \/ f \notin FieldsOf[Through(of(i))])
    <3>1. r # of(i)
      BY <1>1, <1>9 DEF of
    <3> QED
      BY <1>4, <3>1
  <2>2. ASSUME NEW k \in Having(D, f) PROVE D[k].value[f] = fs[f]
    <3>1. k \in 1..Len(D) /\ f \in DOMAIN D[k].value
      BY <1>2 DEF Having
    <3>2. ~(k \in 1..n /\ Through(of(k)) = of(k))
      BY <1>1, <1>2, <2>1, <3>1
    <3>3. IsMerged(D[k], writes, fs)
      BY <1>2, <3>1, <3>2
    <3>4. PICK i \in 1..n :
            /\ DOMAIN D[k].value = FieldsOf[Through(of(i))]
            /\ \A g \in FieldsOf[Through(of(i))] :
                 (\A j \in 1..n : g \notin FieldsOf[of(j)] \/ of(j) = Through(of(i)))
                   => D[k].value[g] = fs[g]
      BY <1>5, <3>3
    <3> QED
      BY <2>1, <3>1, <3>4
  <2> QED
    BY <1>7, <1>8, <2>2
<1>10. ASSUME at # {}, NEW f \in FieldsOf[r] PROVE after[f] = writes[Max(at)].value[f]
  <2>1. PICK w \in 1..n : of(w) = r
    BY <1>1, <1>10 DEF of
  <2>2. Through(r) = r
    BY <1>4, <2>1
  <2>3. ASSUME NEW i \in 1..n
        PROVE  r = of(i) \/ (f \notin FieldsOf[of(i)] /\ f \notin FieldsOf[Through(of(i))])
    BY <1>4, <2>2
  <2>4. ASSUME NEW k \in Having(D, f) PROVE k \in at
    <3>1. k \in 1..Len(D) /\ f \in DOMAIN D[k].value
      BY <1>2 DEF Having
    <3>2. ASSUME IsMerged(D[k], writes, fs) PROVE FALSE
      <4>1. PICK i \in 1..n : of(i) # Through(of(i)) /\ DOMAIN D[k].value = FieldsOf[Through(of(i))]
        BY <1>5, <3>2
      <4> QED
        BY <2>2, <2>3, <3>1, <4>1
    <3>3. k \in 1..n /\ Through(of(k)) = of(k)
      BY <1>2, <3>1, <3>2
    <3>4. f \in FieldsOf[of(k)]
      BY <1>1, <1>2, <3>1, <3>3
    <3> QED
      BY <1>1, <2>3, <3>3, <3>4 DEF of
  <2>5. ASSUME NEW k \in at PROVE k \in Having(D, f) /\ D[k] = writes[k]
    <3>1. k \in 1..n /\ of(k) = r
      BY <1>1 DEF of
    <3>2. D[k] = writes[k] /\ k \in 1..Len(D)
      BY <1>1, <1>2, <2>2, <3>1
    <3>3. f \in DOMAIN D[k].value
      BY <1>1, <3>1, <3>2
    <3> QED
      BY <1>2, <3>2, <3>3 DEF Having
  <2>6. Having(D, f) = at
    BY <2>4, <2>5
  <2>7. Max(at) \in at
    BY <1>8, <1>10, <2>6
  <2> QED
    BY <1>7, <1>10, <2>5, <2>6, <2>7
<1>11. ASSUME at = {}
       PROVE  /\ ValueOf(r, after) = ValueOf(r, fs)
              /\ \A f \in FieldsOf[r] : \A k \in Having(D, f) : D[k].value[f] = fs[f]
  <2>1. \A f \in FieldsOf[r] : after[f] = fs[f]
    BY <1>9, <1>11
  <2>2. ValueOf(r, after) = ValueOf(r, fs)
    BY <2>1 DEF ValueOf
  <2> QED
    BY <1>9, <1>11, <2>2
<1>12. ASSUME at # {} PROVE ValueOf(r, after) = writes[Max(at)].value
  <2>1. Max(at) \in at
    <3>1. at \in SUBSET (1..n)
      BY <1>1
    <3> HIDE DEF at
    <3> QED
      BY <1>1, <1>12, <3>1, LastPlace
  <2>2. Max(at) \in 1..n /\ of(Max(at)) = r
    BY <1>1, <2>1 DEF of
  <2> DEFINE v == writes[Max(at)].value
  <2>3. DOMAIN v = FieldsOf[r] /\ v \in Values
    BY <1>1, <2>2
  <2>4. v = [f \in FieldsOf[r] |-> v[f]]
    <3>1. PICK F \in SUBSET Field : v \in [F -> FieldValues]
      BY <2>3 DEF Values
    <3> HIDE DEF v
    <3> QED
      BY <2>3, <3>1
  <2>5. \A f \in FieldsOf[r] : after[f] = v[f]
    BY <1>10, <1>12
  <2> HIDE DEF v, after
  <2>6. ValueOf(r, after) = v
    BY <2>4, <2>5 DEF ValueOf
  <2> QED
    BY <2>6 DEF v, after
<1>13. PlacesOf(r, writes) = at
  BY DEF PlacesOf
<1> HIDE DEF at, after
<1> QED
  BY <1>11, <1>12, <1>13 DEF D, after, Rewritten

(* Such a register shows what it did when the writes failed, too.          *)
LEMMA AttemptedFields ==
  ASSUME NEW writes, Listed(writes), NEW fs \in [Field -> FieldValues], NEW r \in ReadRegs,
         Spared(r, writes), r \notin RegsOf(writes),
         NEW places, NEW halves
  PROVE  ValueOf(r, Apply(fs, Attempted(DcrsrWrites(writes, fs), places, halves))) = ValueOf(r, fs)
<1> DEFINE D == DcrsrWrites(writes, fs)
           A == Attempted(D, places, halves)
           after == Apply(fs, A)
<1>1. D \in Seq(Writes)
  BY DcrsrWritesShape DEF Listed
<1>2. Rewritten(r, D, fs)
  <2>1. PlacesOf(r, writes) = {}
    BY DEF PlacesOf, RegsOf
  <2> QED
    BY <2>1, WrittenFields
<1> HIDE DEF D
<1>3. /\ A \in Seq(Writes) /\ Len(A) = Len(D)
      /\ \A i \in 1..Len(D) : \A f \in DOMAIN A[i].value :
           f \in DOMAIN D[i].value /\ A[i].value[f] = D[i].value[f]
  BY <1>1, AttemptedTyped
<1>4. FieldsOf[r] \subseteq Field
  BY ContextAssumption, RegisterAssumption DEF ContextAssumption, RegisterAssumption, ReadRegs
<1> HIDE DEF A
<1>5. ASSUME NEW f \in FieldsOf[r] PROVE after[f] = fs[f]
  <2>1. f \in DOMAIN fs
    BY <1>4
  <2>2. /\ Having(A, f) = {} => after[f] = fs[f]
        /\ Having(A, f) # {} => /\ Max(Having(A, f)) \in Having(A, f)
                               /\ after[f] = A[Max(Having(A, f))].value[f]
    BY <1>3, <2>1, AppliedField
  <2>3. ASSUME NEW k \in Having(A, f) PROVE A[k].value[f] = fs[f]
    <3>1. k \in 1..Len(D) /\ f \in DOMAIN A[k].value
      BY <1>1, <1>3 DEF Having
    <3>2. k \in Having(D, f) /\ A[k].value[f] = D[k].value[f]
      BY <1>1, <1>3, <3>1 DEF Having
    <3> QED
      BY <1>2, <3>2 DEF Rewritten
  <2> QED
    BY <2>2, <2>3
<1> HIDE DEF after
<1>6. ValueOf(r, after) = ValueOf(r, fs)
  BY <1>5 DEF ValueOf
<1> QED
  BY <1>6 DEF after, A, D

(* The cache of registers after reads and writes.                          *)
Shown(cache, doubt) == Restrict(cache, (DOMAIN cache \cap ReadRegs) \ doubt)
Kept(cache) ==
  /\ DOMAIN cache \subseteq Reg
  /\ \A r \in DOMAIN cache : cache[r] \in [FieldsOf[r] -> FieldValues]

LEMMA ShownReflects ==
  ASSUME NEW cache, NEW fs, NEW doubt
  PROVE  Reflects(Shown(cache, doubt), fs)
           <=> \A r \in (DOMAIN cache \cap ReadRegs) \ doubt : cache[r] = ValueOf(r, fs)
  BY DEF Reflects, Shown, Restrict

LEMMA ValueOfTyped ==
  ASSUME NEW r \in Reg, NEW fs \in [Field -> FieldValues]
  PROVE  ValueOf(r, fs) \in [FieldsOf[r] -> FieldValues]
<1>1. FieldsOf[r] \subseteq Field
  BY RegisterAssumption DEF RegisterAssumption
<1> QED
  BY <1>1 DEF ValueOf

(* A read answers what there is, but for some registers.                   *)
Answers(cache, regs, but, fs) == \A r \in regs \ but : Restrict(cache, regs)[r] = ValueOf(r, fs)

LEMMA ReadKeepsRegisters ==
  ASSUME NEW cache, Kept(cache), NEW regs \in ReadLists, NEW fs \in [Field -> FieldValues],
         NEW doubt
  PROVE  LET new == AfterRead(cache, regs, fs)
             still == doubt \ Refreshed(cache, regs)
         IN /\ Kept(new)
            /\ Reflects(Shown(cache, doubt), fs) => Reflects(Shown(new, still), fs)
            /\ regs \subseteq DOMAIN new /\ DOMAIN cache \subseteq DOMAIN new
            /\ Reflects(Shown(cache, doubt), fs) => Answers(new, regs, still, fs)
<1> DEFINE new == AfterRead(cache, regs, fs)
           fresh == Refreshed(cache, regs)
           still == doubt \ fresh
<1>1. regs \subseteq Reg /\ regs \subseteq ReadRegs
  BY ContextAssumption DEF ContextAssumption, ReadRegs
<1>2. fresh \subseteq Reg
  <2>1. \A v \in CfbpVariants : v.index \in Reg /\ Range(v.regs) \subseteq Reg
    BY RegisterAssumption DEF RegisterAssumption
  <2>2. XpsrIndex \in Reg /\ XpsrRegs \subseteq Reg
    BY RegisterAssumption DEF RegisterAssumption
  <2>3. ToRead(cache, regs) \subseteq Reg
    BY <1>1, <2>1, <2>2 DEF ToRead
  <2> QED
    <3> SUFFICES ASSUME NEW r \in fresh PROVE r \in Reg
      OBVIOUS
    <3>1. \/ r \in ToRead(cache, regs)
          \/ \E v \in CfbpVariants : r \in Range(v.regs)
          \/ r \in XpsrRegs
      BY DEF Refreshed
    <3> HIDE DEF fresh
    <3> QED
      BY <2>1, <2>2, <2>3, <3>1
<1>3. regs \subseteq DOMAIN cache \cup fresh
  BY DEF Refreshed, ToRead
<1>4. /\ DOMAIN new = DOMAIN cache \cup fresh
      /\ \A r \in DOMAIN new : new[r] = IF r \in fresh THEN ValueOf(r, fs) ELSE cache[r]
  BY DEF AfterRead
<1> HIDE DEF new, fresh
<1>5. Kept(new)
  <2>1. DOMAIN new \subseteq Reg
    BY <1>2, <1>4 DEF Kept
  <2>2. ASSUME NEW r \in DOMAIN new PROVE new[r] \in [FieldsOf[r] -> FieldValues]
    <3>1. CASE r \in fresh
      BY <1>4, <2>1, <3>1, ValueOfTyped
    <3>2. CASE r \notin fresh
      BY <1>4, <3>2 DEF Kept
    <3> QED
      BY <3>1, <3>2
  <2> QED
    BY <2>1, <2>2 DEF Kept
<1>6. ASSUME Reflects(Shown(cache, doubt), fs), NEW r \in (DOMAIN new \cap ReadRegs) \ still
      PROVE  new[r] = ValueOf(r, fs)
  <2>1. CASE r \in fresh
    BY <1>4, <2>1
  <2>2. CASE r \notin fresh
    <3>1. r \in (DOMAIN cache \cap ReadRegs) \ doubt
      BY <1>4, <2>2
    <3> QED
      BY <1>4, <1>6, <2>2, <3>1, ShownReflects
  <2> QED
    BY <2>1, <2>2
<1>7. ASSUME Reflects(Shown(cache, doubt), fs), NEW r \in regs \ still
      PROVE  Restrict(new, regs)[r] = ValueOf(r, fs)
  <2>1. new[r] = ValueOf(r, fs)
    BY <1>1, <1>3, <1>4, <1>6, <1>7
  <2> QED
    BY <2>1 DEF Restrict
<1>8. Reflects(Shown(cache, doubt), fs) => Reflects(Shown(new, still), fs)
  BY <1>6, ShownReflects
<1> QED
  BY <1>3, <1>4, <1>5, <1>7, <1>8 DEF new, fresh, Answers

LEMMA WriteKeepsRegisters ==
  ASSUME NEW cache, Kept(cache), NEW writes, Listed(writes), NEW fs \in [Field -> FieldValues],
         NEW doubt, NEW places, NEW halves
  PROVE  LET new == AfterWrite(cache, writes)
             D == DcrsrWrites(writes, fs)
             after == Apply(fs, D)
             failed == Apply(fs, Attempted(D, places, halves))
             regs == {writes[i].reg : i \in DOMAIN writes}
             left(d) == (d \cup Overlooked(regs)) \cap DOMAIN new
         IN /\ Kept(new)
            /\ Reflects(Shown(cache, doubt), fs) =>
                 /\ Reflects(Shown(new, left(doubt \ regs)), after)
                 /\ Reflects(Shown(new, left(doubt \cup regs)), failed)
<1> DEFINE new == AfterWrite(cache, writes)
           D == DcrsrWrites(writes, fs)
           after == Apply(fs, D)
           failed == Apply(fs, Attempted(D, places, halves))
           regs == {writes[i].reg : i \in DOMAIN writes}
           left(d) == (d \cup Overlooked(regs)) \cap DOMAIN new
           at(r) == {i \in DOMAIN writes : writes[i].reg = r}
           n == Len(writes)
<1>1. /\ DOMAIN new = (DOMAIN cache \cup regs) \ Dropped(regs)
      /\ \A r \in DOMAIN new : new[r] = IF r \in regs THEN writes[Max(at(r))].value ELSE cache[r]
  BY DEF AfterWrite
<1>2. /\ n \in Nat /\ DOMAIN writes = 1..n
      /\ \A i \in 1..n : /\ writes[i].reg \in Reg /\ writes[i].value \in Values
                         /\ DOMAIN writes[i].value = FieldsOf[writes[i].reg]
  <2>1. \A i \in 1..n : writes[i] \in Writes
    BY DEF Listed
  <2>2. \A i \in 1..n : writes[i].reg \in Reg /\ writes[i].value \in Values
    BY <2>1 DEF Writes
  <2> QED
    BY <2>2 DEF Listed
<1>3. \A r : r \in regs <=> at(r) # {}
  OBVIOUS
<1> HIDE DEF new, n
<1>4. Kept(new)
  <2>1. DOMAIN new \subseteq Reg
    BY <1>1, <1>2 DEF Kept
  <2>2. ASSUME NEW r \in DOMAIN new PROVE new[r] \in [FieldsOf[r] -> FieldValues]
    <3>1. CASE r \in regs
      <4>1. at(r) \in SUBSET (1..n) /\ at(r) # {}
        BY <1>2, <1>3, <3>1
      <4>2. Max(at(r)) \in at(r)
        <5> HIDE DEF at
        <5> QED
          BY <1>2, <4>1, LastPlace
      <4>3. Max(at(r)) \in 1..n /\ writes[Max(at(r))].reg = r
        BY <1>2, <4>2
      <4> DEFINE v == writes[Max(at(r))].value
      <4>4. v \in Values /\ DOMAIN v = FieldsOf[r] /\ new[r] = v
        BY <1>1, <1>2, <3>1, <4>3
      <4> HIDE DEF v
      <4>5. PICK F \in SUBSET Field : v \in [F -> FieldValues]
        BY <4>4 DEF Values
      <4> QED
        BY <4>4, <4>5
    <3>2. CASE r \notin regs
      BY <1>1, <3>2 DEF Kept
    <3> QED
      BY <3>1, <3>2
  <2> QED
    BY <2>1, <2>2 DEF Kept
<1>5. ASSUME Reflects(Shown(cache, doubt), fs),
             NEW r \in (DOMAIN new \cap ReadRegs) \ left(doubt \ regs)
      PROVE  new[r] = ValueOf(r, after)
  <2>1. r \in ReadRegs /\ r \notin Dropped(regs) /\ r \notin Overlooked(regs)
        /\ (r \in regs \/ r \notin doubt)
    BY <1>1
  <2>2. /\ at(r) = {} => ValueOf(r, after) = ValueOf(r, fs)
        /\ at(r) # {} => ValueOf(r, after) = writes[Max(at(r))].value
    <3>1. Spared(r, writes) /\ PlacesOf(r, writes) = at(r)
      BY <2>1 DEF Spared, RegsOf, PlacesOf
    <3> HIDE DEF regs, at
    <3> QED
      BY <2>1, <3>1, WrittenFields
  <2> HIDE DEF after, at
  <2>3. CASE r \in regs
    BY <1>1, <1>3, <2>2, <2>3
  <2>4. CASE r \notin regs
    <3>1. r \in (DOMAIN cache \cap ReadRegs) \ doubt
      BY <1>1, <2>1, <2>4
    <3> QED
      BY <1>1, <1>3, <1>5, <2>2, <2>4, <3>1, ShownReflects
  <2> QED
    BY <2>3, <2>4
<1>6. ASSUME Reflects(Shown(cache, doubt), fs),
             NEW r \in (DOMAIN new \cap ReadRegs) \ left(doubt \cup regs)
      PROVE  new[r] = ValueOf(r, failed)
  <2>1. r \in ReadRegs /\ r \notin Dropped(regs) /\ r \notin Overlooked(regs)
        /\ r \notin regs /\ r \notin doubt
    BY <1>1
  <2>2. ValueOf(r, failed) = ValueOf(r, fs)
    <3>1. Spared(r, writes) /\ r \notin RegsOf(writes)
      BY <2>1 DEF Spared, RegsOf
    <3> QED
      BY <2>1, <3>1, AttemptedFields
  <2> HIDE DEF failed, at
  <2>3. r \in (DOMAIN cache \cap ReadRegs) \ doubt
    BY <1>1, <2>1
  <2> QED
    BY <1>1, <1>6, <2>1, <2>2, <2>3, ShownReflects
<1> HIDE DEF after, failed, left, regs
<1>7. ASSUME Reflects(Shown(cache, doubt), fs) PROVE Reflects(Shown(new, left(doubt \ regs)), after)
  BY <1>5, <1>7, ShownReflects
<1>8. ASSUME Reflects(Shown(cache, doubt), fs) PROVE Reflects(Shown(new, left(doubt \cup regs)), failed)
  BY <1>6, <1>8, ShownReflects
<1> QED
  BY <1>4, <1>7, <1>8 DEF new, after, failed, left, regs

-----------------------------------------------------------------------------
(* Regions                                                                 *)

(* Every cached interval is within a cacheable region.                     *)
Placed(S) ==
  \A iv \in S : \E r \in Regions : r.cacheable /\ r.begin <= iv.begin /\ iv.end <= r.end

LEMMA CheckedRegions ==
  ASSUME NEW b \in Nat, NEW e \in Nat, b < e
  PROVE  /\ CheckRegions(b, e) = "cached" =>
              \E r \in Regions : r.cacheable /\ r.begin <= b /\ e <= r.end
         /\ CheckRegions(b, e) = "uncached" =>
              \A r \in Regions : r.cacheable => r.end <= b \/ e <= r.begin
<1> DEFINE rs == Overlap(Regions, b, e)
<1>0. \A r \in Regions : r.begin \in Nat /\ r.end \in Nat /\ r.begin < r.end
  BY RegionsAssumption DEF RegionsAssumption
<1>1. \A r \in Regions : r \in rs \/ r.end <= b \/ e <= r.begin
  BY <1>0 DEF Overlap
<1>2. rs \subseteq Regions
  BY DEF Overlap
<1>3. CASE rs = {}
  <2>1. CheckRegions(b, e) = "uncached"
    BY <1>3 DEF CheckRegions
  <2> QED
    BY <1>1, <1>3, <2>1
<1>4. CASE rs # {} /\ \E r \in rs : rs = {r} /\ r.begin <= b /\ e <= r.end /\ r.cacheable
  <2>1. PICK r \in rs : rs = {r} /\ r.begin <= b /\ e <= r.end /\ r.cacheable
    BY <1>4
  <2>2. ~ \E q \in rs : rs = {q} /\ q.begin <= b /\ e <= q.end /\ ~q.cacheable
    BY <2>1
  <2> DEFINE within == \E q \in rs : rs = {q} /\ q.begin <= b /\ e <= q.end /\ q.cacheable
             device == \E q \in rs : rs = {q} /\ q.begin <= b /\ e <= q.end /\ ~q.cacheable
  <2>3. CheckRegions(b, e) = CASE rs = {} -> "uncached" [] within -> "cached"
                               [] device -> "uncached" [] OTHER -> "fault"
    BY DEF CheckRegions
  <2>4. within /\ ~device /\ rs # {}
    BY <1>4, <2>2
  <2> HIDE DEF within, device, rs
  <2>5. CheckRegions(b, e) = "cached"
    BY <2>3, <2>4
  <2> QED
    BY <1>2, <2>1, <2>5
<1>5. CASE rs # {} /\ ~ \E r \in rs : rs = {r} /\ r.begin <= b /\ e <= r.end /\ r.cacheable
  <2> DEFINE within == \E q \in rs : rs = {q} /\ q.begin <= b /\ e <= q.end /\ q.cacheable
             device == \E q \in rs : rs = {q} /\ q.begin <= b /\ e <= q.end /\ ~q.cacheable
  <2>1. CheckRegions(b, e) = CASE rs = {} -> "uncached" [] within -> "cached"
                               [] device -> "uncached" [] OTHER -> "fault"
    BY DEF CheckRegions
  <2>2. ~within /\ rs # {}
    BY <1>5
  <2> HIDE DEF within, device
  <2>3. CheckRegions(b, e) # "cached" /\ (CheckRegions(b, e) = "uncached" => device)
    BY <2>1, <2>2
  <2>4. device => \A r \in Regions : r.cacheable => r.end <= b \/ e <= r.begin
    BY <1>1 DEF device
  <2> QED
    BY <2>3, <2>4
<1> QED
  BY <1>3, <1>4, <1>5

LEMMA ReadPlaced ==
  ASSUME NEW S, Tree(S), Placed(S), NEW m, NEW b, NEW e, Accessed(b, e),
         CheckRegions(b, e) = "cached", NEW some \in SUBSET Uncached(S, b, e)
  PROVE  Placed(S \cup Fetched(some, m))
<1>1. S \in SUBSET Cell /\ WellFormed(S) /\ b \in Nat /\ e \in Nat /\ b < e
  BY TreeIsWellFormed DEF Accessed
<1>2. PICK r \in Regions : r.cacheable /\ r.begin <= b /\ e <= r.end
  BY <1>1, CheckedRegions
<1>3. ASSUME NEW iv \in Fetched(some, m) PROVE r.begin <= iv.begin /\ iv.end <= r.end
  <2>1. PICK p \in some : iv.begin = p.begin /\ iv.end = p.end
    BY DEF Fetched
  <2>2. p \in Gap /\ b <= p.begin /\ p.end <= e
    BY <1>1, UncachedParts
  <2>3. r.begin \in Nat /\ r.end \in Nat
    BY RegionsAssumption DEF RegionsAssumption
  <2> QED
    BY <1>1, <1>2, <2>1, <2>2, <2>3 DEF Gap
<1> QED
  BY <1>2, <1>3 DEF Placed

(* A write makes no interval that reaches beyond what is written or what   *)
(* it touches.                                                             *)
LEMMA WrittenEdges ==
  ASSUME NEW S, Tree(S), NEW b, NEW value \in Seq(Byte), Accessed(b, b + Len(value)),
         NEW iv \in Written(S, b, value)
  PROVE  LET O == Overlap(S, b, b + Len(value))
         IN \/ iv \in S
            \/ /\ iv.begin = b \/ \E jv \in O : iv.begin = jv.begin
               /\ iv.end = b + Len(value) \/ \E jv \in O : iv.end = jv.end
<1> DEFINE e == b + Len(value)
           O == Overlap(S, b, e)
           list == Ascending(O)
<1>1. b \in Nat /\ e \in Nat /\ b < e /\ S \in SUBSET Cell /\ WellFormed(S)
  BY TreeIsWellFormed DEF Accessed
<1>2. O \in SUBSET Cell /\ IsFiniteSet(O) /\ O \subseteq S
  BY <1>1, OverlapFinite DEF Overlap
<1>3. Lists(list, O)
  BY <1>1, <1>2, OverlapFinite, AscendingLists
<1> HIDE DEF O, list, e
<1>4. CASE list = <<>>
  <2> DEFINE new == [begin |-> b, end |-> e, data |-> value]
  <2>1. Written(S, b, value) = S \cup {new}
    BY <1>4 DEF Written, list, O, e
  <2>2. new.begin = b /\ new.end = e
    OBVIOUS
  <2> HIDE DEF new
  <2> QED
    BY <2>1, <2>2 DEF e
<1>5. CASE list # <<>>
  <2>1. /\ list \in Seq(O) /\ Len(list) \in Nat /\ Len(list) # 0
    BY <1>3, <1>5 DEF Lists
  <2>2. Head(list) \in O /\ Last(list) \in O
    BY <2>1 DEF Last
  <2> DEFINE first == Head(list)
             final == Last(list)
  <2>3. first \in S /\ final \in S /\ Sound(first) /\ Sound(final)
    BY <1>2, <2>2 DEF Tree
  <2>4. first.begin \in Nat /\ first.end \in Nat
    BY <2>3 DEF Sound, Cell
  <2>5. CASE b >= first.begin /\ e <= first.end
    <3> DEFINE new == Patched(first, b, value)
    <3>1. Written(S, b, value) = (S \ O) \cup {new}
      BY <1>5, <2>5 DEF Written, list, O, e
    <3>2. first.begin <= b /\ b + Len(value) <= first.end
      BY <1>1, <2>4, <2>5 DEF e
    <3>3. new.begin = first.begin /\ new.end = first.end
      <4> HIDE DEF first
      <4> QED
        BY <1>1, <2>3, <3>2, PatchedText
    <3> HIDE DEF new
    <3> QED
      BY <2>2, <3>1, <3>3 DEF O, e
  <2>6. CASE ~(b >= first.begin /\ e <= first.end)
    <3> DEFINE new == Contiguous(list, b, value)
    <3>1. Written(S, b, value) = (S \ O) \cup {new}
      BY <1>5, <2>6 DEF Written, list, O, e
    <3>2. /\ new.begin = b \/ new.begin = first.begin
          /\ new.end = e \/ new.end = final.end
      BY <2>3, ContiguousText DEF e
    <3> HIDE DEF new
    <3> QED
      BY <2>2, <3>1, <3>2 DEF O, e
  <2> QED
    BY <2>5, <2>6
<1> QED
  BY <1>4, <1>5

LEMMA WrittenPlaced ==
  ASSUME NEW S, Tree(S), Placed(S), NEW b, NEW value \in Seq(Byte), Accessed(b, b + Len(value)),
         CheckRegions(b, b + Len(value)) = "cached"
  PROVE  Placed(Written(S, b, value))
<1> DEFINE e == b + Len(value)
           O == Overlap(S, b, e)
<1>1. b \in Nat /\ e \in Nat /\ b < e
  BY DEF Accessed
<1>2. PICK r \in Regions : r.cacheable /\ r.begin <= b /\ e <= r.end
  BY <1>1, CheckedRegions
<1>3. \A q \in Regions : /\ q.begin \in Nat /\ q.end \in Nat
                         /\ q = r \/ q.end <= r.begin \/ r.end <= q.begin
  BY RegionsAssumption DEF RegionsAssumption
<1>4. ASSUME NEW jv \in O PROVE r.begin <= jv.begin /\ jv.end <= r.end
  <2>1. jv \in S /\ jv.begin < e /\ b < jv.end
    BY DEF Overlap
  <2>2. jv.begin \in Nat /\ jv.end \in Nat
    BY <2>1 DEF Tree, Sound, Cell
  <2>3. PICK q \in Regions : q.begin <= jv.begin /\ jv.end <= q.end
    BY <2>1 DEF Placed
  <2> HIDE DEF e
  <2>4. q = r
    BY <1>1, <1>2, <1>3, <2>1, <2>2, <2>3
  <2> QED
    BY <2>3, <2>4
<1>5. ASSUME NEW iv \in Written(S, b, value), iv \notin S
      PROVE  r.begin <= iv.begin /\ iv.end <= r.end
  <2>1. /\ iv.begin = b \/ \E jv \in O : iv.begin = jv.begin
        /\ iv.end = e \/ \E jv \in O : iv.end = jv.end
    BY <1>5, WrittenEdges
  <2> HIDE DEF e, O
  <2> QED
    BY <1>2, <1>4, <2>1
<1> QED
  BY <1>2, <1>5 DEF Placed

(* A write that goes past the cache touches nothing that is cached.        *)
LEMMA UncachedBeside ==
  ASSUME NEW S, Tree(S), Placed(S), NEW b, NEW value \in Seq(Byte), Accessed(b, b + Len(value)),
         CheckRegions(b, b + Len(value)) = "uncached", NEW m, Mirrors(S, m)
  PROVE  Mirrors(S, AfterStore(m, b, value))
<1> DEFINE e == b + Len(value)
<1>1. b \in Nat /\ e \in Nat /\ b < e
  BY DEF Accessed
<1>2. ASSUME NEW iv \in S
      PROVE  Text(iv.data, iv.begin, iv.end, AfterStore(m, b, value))
  <2>1. /\ iv.begin \in Nat /\ iv.end \in Nat /\ iv.begin..(iv.end - 1) \subseteq Address
    BY DEF Tree, Sound, Cell
  <2>2. PICK r \in Regions : r.cacheable /\ r.begin <= iv.begin /\ iv.end <= r.end
    BY DEF Placed
  <2>3. r.end <= b \/ e <= r.begin
    BY <1>1, <2>2, CheckedRegions
  <2>4. r.begin \in Nat /\ r.end \in Nat
    BY RegionsAssumption DEF RegionsAssumption
  <2>5. iv.end <= b \/ e <= iv.begin
    <3> HIDE DEF e
    <3> QED
      BY <1>1, <2>1, <2>2, <2>3, <2>4
  <2>6. Text(iv.data, iv.begin, iv.end, m)
    BY MirrorsTexts
  <2> QED
    BY <1>1, <2>1, <2>5, <2>6, BesideStored
<1> QED
  BY <1>2, MirrorsTexts

LEMMA StoredTyped ==
  ASSUME NEW m \in Memory, NEW b \in Nat, NEW value \in Seq(Byte)
  PROVE  AfterStore(m, b, value) \in Memory
<1> SUFFICES ASSUME NEW a \in Address PROVE AfterStore(m, b, value)[a] \in Byte
  BY DEF AfterStore, Memory
<1>1. AfterStore(m, b, value)[a] = IF b <= a /\ a < b + Len(value) THEN value[a - b + 1] ELSE m[a]
  BY DEF AfterStore
<1>2. a \in Nat /\ m[a] \in Byte
  BY ContextAssumption DEF ContextAssumption, Memory
<1>3. CASE b <= a /\ a < b + Len(value)
  <2>1. a - b + 1 \in 1..Len(value)
    BY <1>2, <1>3
  <2> QED
    BY <1>1, <1>3, <2>1
<1> QED
  BY <1>1, <1>2, <1>3

-----------------------------------------------------------------------------
(* Types                                                                   *)

(* The access under way is one that a client makes.                        *)
Underway ==
  \/ op = Idle
  \/ op.kind = "read" /\ Accessed(op.begin, op.end)
  \/ /\ op.kind = "write" /\ Accessed(op.begin, op.end)
     /\ op.data \in Seq(Byte) /\ op.data # <<>> /\ op.end = op.begin + Len(op.data)
  \/ op.kind = "readRegs" /\ op.regs \in ReadLists
  \/ op.kind = "writeRegs" /\ Listed(op.writes)

Contents ==
  /\ Tree(mcache) /\ Placed(mcache) /\ Kept(rcache)
  /\ torn \subseteq Address /\ doubted \subseteq DOMAIN rcache

Numbers ==
  /\ token \in 0..MaxToken /\ cached \in -1..MaxToken /\ cached <= token
  /\ faults \in 0..MaxFaults

Typed ==
  /\ core \in {"halted", "running", "sleeping"}
  /\ mem \in Memory /\ fields \in [Field -> FieldValues]
  /\ Contents /\ Underway /\ Numbers

LEMMA NothingKept ==
  /\ Tree({}) /\ Placed({}) /\ Kept(NoReg)
  /\ \A m, but : MirrorsBut({}, m, but)
  /\ \A fs, doubt : Reflects(Shown(NoReg, doubt), fs)
<1>1. DOMAIN NoReg = {}
  BY DEF NoReg
<1>2. \A fs, doubt : Reflects(Shown(NoReg, doubt), fs)
  BY <1>1, ShownReflects
<1> QED
  BY <1>1, <1>2 DEF Tree, Placed, Kept, MirrorsBut

LEMMA CheckTyped ==
  ASSUME Contents, Numbers, Check
  PROVE  /\ Contents' /\ cached' \in -1..MaxToken /\ cached' <= token
<1>1. CASE core = "running" \/ cached # token
  <2>1. /\ mcache' = {} /\ rcache' = NoReg /\ torn' = {} /\ doubted' = {}
        /\ cached' \in {cached, token}
    BY <1>1 DEF Check, Emptied
  <2>2. Contents'
    BY <2>1, NothingKept DEF Contents
  <2> QED
    BY <2>1, <2>2, ContextAssumption DEF Numbers, ContextAssumption
<1>2. CASE ~(core = "running" \/ cached # token)
  <2>1. /\ mcache' = mcache /\ rcache' = rcache /\ cached' = cached
        /\ torn' = torn /\ doubted' = doubted
    BY <1>2 DEF Check, caches
  <2>2. Contents'
    BY <2>1 DEF Contents
  <2> QED
    BY <2>1, <2>2 DEF Numbers
<1> QED
  BY <1>1, <1>2

LEMMA InitTyped ==
  ASSUME Init
  PROVE  Typed
<1>1. mem \in Memory
  BY ContextAssumption DEF Init, ContextAssumption, Memory
<1>2. fields \in [Field -> FieldValues]
  BY DEF Init
<1>3. Contents
  BY NothingKept DEF Init, Contents
<1>4. Underway
  BY DEF Init, Underway
<1>5. Numbers
  BY ContextAssumption DEF Init, Numbers, ContextAssumption
<1> QED
  BY <1>1, <1>2, <1>3, <1>4, <1>5 DEF Init, Typed

(* The access that a client begins.                                        *)
LEMMA BeginUnderway ==
  ASSUME BeginMemory \/ BeginRegisters
  PROVE  /\ Underway' /\ Check /\ op = Idle /\ op' # Idle
         /\ UNCHANGED <<uses, target, faults>>
         /\ core = "sleeping" => UseAsleep
         /\ op'.kind \in {"readRegs", "writeRegs"} => (op'.direct <=> core = "running")
<1>1. CASE \E s \in Spans : Begin([kind |-> "read", begin |-> s[1], end |-> s[1] + s[2]])
  <2>1. PICK s \in Spans : Begin([kind |-> "read", begin |-> s[1], end |-> s[1] + s[2]])
    BY <1>1
  <2>2. Accessed(s[1], s[1] + s[2])
    <3>1. /\ s[1] \in Address /\ s[2] \in Nat \ {0} /\ Address \subseteq Nat
          /\ s[1]..(s[1] + s[2] - 1) \subseteq Address
      BY ContextAssumption DEF ContextAssumption
    <3>2. s[1] \in Nat
      BY <3>1
    <3> QED
      BY <3>1, <3>2 DEF Accessed
  <2>3. op' = [kind |-> "read", begin |-> s[1], end |-> s[1] + s[2]]
    BY <2>1 DEF Begin
  <2>4. op'.kind = "read" /\ op'.begin = s[1] /\ op'.end = s[1] + s[2]
    BY <2>3
  <2>5. Underway'
    BY <2>2, <2>4 DEF Underway
  <2>6. op' # Idle
    BY <2>4 DEF Idle
  <2> QED
    BY <2>1, <2>4, <2>5, <2>6 DEF Begin
<1>2. CASE \E a \in Address, d \in Data :
             /\ \A b \in a..(a + Len(d) - 1) : b \in Address
             /\ Begin([kind |-> "write", begin |-> a, end |-> a + Len(d), data |-> d])
  <2>1. PICK a \in Address, d \in Data :
             /\ \A b \in a..(a + Len(d) - 1) : b \in Address
             /\ Begin([kind |-> "write", begin |-> a, end |-> a + Len(d), data |-> d])
    BY <1>2
  <2>2. a \in Nat /\ d \in Seq(Byte) /\ d # <<>>
    BY ContextAssumption DEF ContextAssumption
  <2>3. Len(d) \in Nat /\ Len(d) # 0
    BY <2>2
  <2>4. Accessed(a, a + Len(d))
    BY <2>1, <2>2, <2>3 DEF Accessed
  <2>5. op' = [kind |-> "write", begin |-> a, end |-> a + Len(d), data |-> d]
    BY <2>1 DEF Begin
  <2>6. op'.kind = "write" /\ op'.begin = a /\ op'.end = a + Len(d) /\ op'.data = d
    BY <2>5
  <2>7. Underway'
    BY <2>2, <2>4, <2>6 DEF Underway
  <2>8. op' # Idle
    BY <2>6 DEF Idle
  <2> QED
    BY <2>1, <2>6, <2>7, <2>8 DEF Begin
<1>3. CASE \E l \in ReadLists :
             Begin([kind |-> "readRegs", regs |-> l, direct |-> core = "running"])
  <2>1. PICK l \in ReadLists :
             Begin([kind |-> "readRegs", regs |-> l, direct |-> core = "running"])
    BY <1>3
  <2>2. op' = [kind |-> "readRegs", regs |-> l, direct |-> core = "running"]
    BY <2>1 DEF Begin
  <2>3. op'.kind = "readRegs" /\ op'.regs = l /\ op'.direct = (core = "running")
    BY <2>2
  <2>4. Underway'
    BY <2>3 DEF Underway
  <2>5. op' # Idle
    BY <2>3 DEF Idle
  <2>6. op'.direct <=> core = "running"
    BY <2>3
  <2> QED
    BY <2>1, <2>4, <2>5, <2>6 DEF Begin
<1>4. CASE \E l \in WriteLists : \E vs \in [DOMAIN l -> FieldValues] :
             Begin([kind |-> "writeRegs", direct |-> core = "running",
                    writes |-> [i \in DOMAIN l |->
                      [reg |-> l[i], value |-> [f \in FieldsOf[l[i]] |-> vs[i]]]]])
  <2>0. PICK l \in WriteLists : \E vs \in [DOMAIN l -> FieldValues] :
             Begin([kind |-> "writeRegs", direct |-> core = "running",
                    writes |-> [i \in DOMAIN l |->
                      [reg |-> l[i], value |-> [f \in FieldsOf[l[i]] |-> vs[i]]]]])
    BY <1>4
  <2>1. PICK vs \in [DOMAIN l -> FieldValues] :
             Begin([kind |-> "writeRegs", direct |-> core = "running",
                    writes |-> [i \in DOMAIN l |->
                      [reg |-> l[i], value |-> [f \in FieldsOf[l[i]] |-> vs[i]]]]])
    BY <2>0
  <2> DEFINE value(i) == [f \in FieldsOf[l[i]] |-> vs[i]]
             item(i) == [reg |-> l[i], value |-> value(i)]
             ws == [i \in DOMAIN l |-> item(i)]
             n == Len(l)
  <2>2. l \in Seq(Reg) /\ n \in Nat /\ DOMAIN l = 1..n
    BY ContextAssumption DEF ContextAssumption
  <2>3. ASSUME NEW i \in 1..n
        PROVE  /\ item(i) \in Writes /\ item(i).reg \in WrittenRegs
               /\ DOMAIN item(i).value = FieldsOf[item(i).reg]
    <3>1. l[i] \in Reg /\ vs[i] \in FieldValues
      BY <2>2
    <3>2. l[i] \in WrittenRegs
      BY <2>2 DEF WrittenRegs, Range
    <3>3. FieldsOf[l[i]] \in SUBSET Field
      BY <3>1, RegisterAssumption DEF RegisterAssumption
    <3>4. value(i) \in [FieldsOf[l[i]] -> FieldValues]
      BY <3>1
    <3>5. value(i) \in Values /\ DOMAIN value(i) = FieldsOf[l[i]]
      BY <3>3, <3>4, ValueTyped
    <3> HIDE DEF value
    <3> QED
      BY <3>1, <3>2, <3>5 DEF Writes
  <2> HIDE DEF item
  <2>4. ws \in [1..n -> Writes] /\ \A i \in 1..n : ws[i] = item(i)
    BY <2>2, <2>3
  <2>5. op' = [kind |-> "writeRegs", direct |-> core = "running", writes |-> ws]
    BY <2>1 DEF Begin, item
  <2> HIDE DEF ws
  <2>6. ws \in Seq(Writes) /\ Len(ws) = n
    BY <2>2, <2>4
  <2>7. Listed(ws)
    BY <2>3, <2>4, <2>6 DEF Listed
  <2>8. op'.kind = "writeRegs" /\ op'.writes = ws /\ op'.direct = (core = "running")
    BY <2>5
  <2>9. Underway'
    BY <2>7, <2>8 DEF Underway
  <2>10. op' # Idle
    BY <2>8 DEF Idle
  <2>11. op'.direct <=> core = "running"
    BY <2>8
  <2>12. Check /\ op = Idle /\ UNCHANGED <<uses, target, faults>> /\ (core = "sleeping" => UseAsleep)
    BY <2>1 DEF Begin
  <2> QED
    BY <2>9, <2>10, <2>11, <2>12
<1> QED
  BY <1>1, <1>2, <1>3, <1>4 DEF BeginMemory, BeginRegisters

(* What the accesses leave: of the memory, of the state of the core and of *)
(* the caches.                                                             *)
LEMMA ReadTyped ==
  ASSUME Typed, ReadMemory \/ ReadMemoryFails
  PROVE  /\ Contents' /\ UNCHANGED <<mem, fields, rcache, cached, torn, doubted>>
         /\ MirrorsBut(mcache, mem, torn) => MirrorsBut(mcache', mem, torn)
<1>1. Tree(mcache) /\ Placed(mcache) /\ Kept(rcache) /\ mem \in Memory
  BY DEF Typed, Contents
<1>2. UNCHANGED <<mem, fields, rcache, cached, torn, doubted>>
  BY DEF ReadMemory, ReadMemoryFails
<1>3. \/ mcache' = mcache
      \/ /\ CheckRegions(op.begin, op.end) = "cached"
         /\ \E some \in SUBSET Uncached(mcache, op.begin, op.end) :
              mcache' = mcache \cup Fetched(some, mem)
  <2>1. CASE ReadMemory
    BY <2>1 DEF ReadMemory, FetchedNow
  <2>2. CASE ReadMemoryFails
    <3>1. PICK some \in SUBSET Uncached(mcache, op.begin, op.end) :
            /\ CheckRegions(op.begin, op.end) = "cached" \/ some = {}
            /\ mcache' = mcache \cup Fetched(some, mem)
      BY <2>2 DEF ReadMemoryFails
    <3>2. some = {} => Fetched(some, mem) = {}
      BY DEF Fetched
    <3> QED
      BY <3>1, <3>2
  <2> QED
    BY <2>1, <2>2
<1>4. CASE mcache' = mcache
  <2>1. Contents'
    BY <1>2, <1>4 DEF Typed, Contents
  <2> QED
    BY <1>2, <1>4, <2>1
<1>5. CASE CheckRegions(op.begin, op.end) = "cached" /\ mcache' # mcache
  <2>1. PICK some \in SUBSET Uncached(mcache, op.begin, op.end) :
          mcache' = mcache \cup Fetched(some, mem)
    BY <1>3, <1>5
  <2>2. Accessed(op.begin, op.end)
    BY DEF Typed, Underway, ReadMemory, ReadMemoryFails, Idle
  <2>3. Tree(mcache') /\ Placed(mcache')
    BY <1>1, <1>5, <2>1, <2>2, ReadKeepsTree, ReadPlaced
  <2>4. ASSUME MirrorsBut(mcache, mem, torn) PROVE MirrorsBut(mcache', mem, torn)
    <3>1. PICK m \in Memory : /\ Mirrors(mcache, m)
                              /\ \A a \in Address : a \notin torn \cap Held(mcache) => m[a] = mem[a]
      BY <1>1, <2>4, Believed
    <3>2. Fetched(some, m) = Fetched(some, mem)
      BY <1>1, <2>2, <3>1, FetchedSame
    <3>3. Mirrors(mcache \cup Fetched(some, m), m)
      BY <1>1, <2>2, <3>1, ReadKeepsTree
    <3>4. Mirrors(mcache', m)
      BY <2>1, <3>2, <3>3
    <3> QED
      BY <2>3, <3>1, <3>4, BelievedAgain
  <2>5. Contents'
    BY <1>2, <2>3 DEF Typed, Contents
  <2> QED
    BY <1>2, <2>4, <2>5
<1> QED
  BY <1>3, <1>4, <1>5

LEMMA WriteTyped ==
  ASSUME Typed, WriteMemory
  PROVE  /\ Contents' /\ mem' \in Memory /\ UNCHANGED <<fields, rcache, cached, doubted>>
         /\ MirrorsBut(mcache, mem, torn) => MirrorsBut(mcache', mem', torn')
<1> DEFINE b == op.begin
           value == op.data
           kind == CheckRegions(b, b + Len(value))
           range == b..(b + Len(value) - 1)
<1>1. Tree(mcache) /\ Placed(mcache) /\ Kept(rcache) /\ mem \in Memory /\ torn \subseteq Address
  BY DEF Typed, Contents
<1>2. /\ Accessed(b, b + Len(value)) /\ value \in Seq(Byte) /\ op.end = b + Len(value)
      /\ b \in Nat
  BY DEF Typed, Underway, WriteMemory, Idle, Accessed
<1>3. /\ mem' = IF kind = "fault" THEN mem ELSE Stored(b, value)
      /\ mcache' = IF kind = "cached" THEN Written(mcache, b, value) ELSE mcache
      /\ torn' = IF kind = "fault" THEN torn ELSE torn \ range
      /\ UNCHANGED <<fields, rcache, cached, doubted>>
  <2>1. op.end - 1 = b + Len(value) - 1
    BY <1>2
  <2>2. range = op.begin..(op.end - 1)
    BY <2>1
  <2> HIDE DEF range
  <2> QED
    BY <1>2, <2>2 DEF WriteMemory
<1>4. Stored(b, value) = AfterStore(mem, b, value)
  BY DEF Stored, AfterStore
<1>5. AfterStore(mem, b, value) \in Memory
  BY <1>1, <1>2, StoredTyped
<1>6. kind \in {"cached", "uncached", "fault"}
  <2> DEFINE rs == Overlap(Regions, b, b + Len(value))
             within == \E q \in rs : rs = {q} /\ q.begin <= b /\ b + Len(value) <= q.end /\ q.cacheable
             device == \E q \in rs : rs = {q} /\ q.begin <= b /\ b + Len(value) <= q.end /\ ~q.cacheable
  <2>1. kind = CASE rs = {} -> "uncached" [] within -> "cached"
                 [] device -> "uncached" [] OTHER -> "fault"
    BY DEF CheckRegions
  <2> HIDE DEF kind, rs, within, device
  <2> QED
    BY <2>1
<1>7. ASSUME NEW m, NEW a \in Address, a \notin torn \ range,
             \A x \in Address : x \notin torn \cap Held(mcache) => m[x] = mem[x]
      PROVE  AfterStore(m, b, value)[a] = AfterStore(mem, b, value)[a]
  <2>1. a \in Nat /\ Len(value) \in Nat
    BY <1>2, ContextAssumption DEF ContextAssumption
  <2>2. a \in range <=> b <= a /\ a < b + Len(value)
    BY <1>2, <2>1
  <2> QED
    BY <1>7, <2>2 DEF AfterStore
<1> HIDE DEF b, value, range
<1>8. ASSUME NEW S, Tree(S), mcache' = S, mem' = AfterStore(mem, b, value), torn' = torn \ range,
             \A m : Mirrors(mcache, m) => Mirrors(S, AfterStore(m, b, value)),
             MirrorsBut(mcache, mem, torn)
      PROVE  MirrorsBut(mcache', mem', torn')
  <2>1. PICK m \in Memory : /\ Mirrors(mcache, m)
                            /\ \A a \in Address : a \notin torn \cap Held(mcache) => m[a] = mem[a]
    BY <1>1, <1>8, Believed
  <2>2. Mirrors(S, AfterStore(m, b, value))
    BY <1>8, <2>1
  <2>3. \A a \in Address : a \notin torn \ range => AfterStore(m, b, value)[a] = AfterStore(mem, b, value)[a]
    BY <1>7, <2>1
  <2>4. MirrorsBut(S, AfterStore(mem, b, value), torn \ range)
    BY <1>8, <2>2, <2>3, BelievedAgain
  <2> QED
    BY <1>8, <2>4
<1>9. CASE kind = "cached"
  <2>1. /\ mem' = AfterStore(mem, b, value) /\ mcache' = Written(mcache, b, value)
        /\ torn' = torn \ range
    BY <1>3, <1>4, <1>9
  <2>2. Tree(Written(mcache, b, value)) /\ Placed(Written(mcache, b, value))
    BY <1>1, <1>2, <1>9, WrittenKeepsTree, WrittenPlaced
  <2>3. \A m : Mirrors(mcache, m) => Mirrors(Written(mcache, b, value), AfterStore(m, b, value))
    BY <1>1, <1>2, WrittenKeepsTree
  <2> HIDE DEF kind
  <2>4. MirrorsBut(mcache, mem, torn) => MirrorsBut(mcache', mem', torn')
    BY <1>8, <2>1, <2>2, <2>3
  <2>5. Contents'
    BY <1>1, <1>3, <2>1, <2>2 DEF Typed, Contents
  <2> QED
    BY <1>3, <1>5, <2>1, <2>4, <2>5
<1>10. CASE kind = "uncached"
  <2>1. mem' = AfterStore(mem, b, value) /\ mcache' = mcache /\ torn' = torn \ range
    BY <1>3, <1>4, <1>10
  <2>2. \A m : Mirrors(mcache, m) => Mirrors(mcache, AfterStore(m, b, value))
    BY <1>1, <1>2, <1>10, UncachedBeside
  <2> HIDE DEF kind
  <2>3. MirrorsBut(mcache, mem, torn) => MirrorsBut(mcache', mem', torn')
    BY <1>1, <1>8, <2>1, <2>2
  <2>4. Contents'
    BY <1>1, <1>3, <2>1 DEF Typed, Contents
  <2> QED
    BY <1>3, <1>5, <2>1, <2>3, <2>4
<1>11. CASE kind = "fault"
  <2>1. mem' = mem /\ mcache' = mcache /\ torn' = torn
    BY <1>3, <1>11
  <2> HIDE DEF kind
  <2>2. Contents'
    BY <1>3, <2>1 DEF Typed, Contents
  <2> QED
    BY <1>1, <1>3, <2>1, <2>2
<1> QED
  BY <1>6, <1>9, <1>10, <1>11

(* A write that fails leaves the cache; the cached bytes that it changed   *)
(* are torn.                                                               *)
LEMMA WriteFailsTyped ==
  ASSUME Typed, WriteMemoryFails
  PROVE  /\ Contents' /\ mem' \in Memory /\ UNCHANGED <<fields, mcache, rcache, cached, doubted>>
         /\ MirrorsBut(mcache, mem, torn) => MirrorsBut(mcache', mem', torn')
<1>1. /\ UNCHANGED <<fields, mcache, rcache, cached, doubted>>
      /\ Tree(mcache) /\ mem \in Memory /\ torn \subseteq Address
  BY DEF WriteMemoryFails, Typed, Contents
<1>2. CASE UNCHANGED <<mem, torn>>
  <2>1. Contents'
    BY <1>1, <1>2 DEF Typed, Contents
  <2> QED
    BY <1>1, <1>2, <2>1
<1>3. CASE ~UNCHANGED <<mem, torn>>
  <2> DEFINE b == op.begin
  <2>1. PICK n \in 1..Len(op.data) :
          /\ mem' = Stored(b, SubSeq(op.data, 1, n))
          /\ torn' = torn \cup ((b..(b + n - 1)) \cap Held(mcache))
    BY <1>3 DEF WriteMemoryFails
  <2>2. b \in Nat /\ op.data \in Seq(Byte)
    BY DEF WriteMemoryFails, Typed, Underway, Idle, Accessed
  <2> DEFINE value == SubSeq(op.data, 1, n)
  <2>3. value \in Seq(Byte) /\ Len(value) = n /\ n \in Nat
    <3>1. n \in Nat /\ 1 <= n /\ \A i \in 1..n : op.data[i] \in Byte
      BY <2>2
    <3> QED
      BY <3>1, SubSeqProperties
  <2> HIDE DEF value
  <2>4. mem' = AfterStore(mem, b, value)
    BY <2>1 DEF Stored, AfterStore, value
  <2>5. mem' \in Memory
    BY <1>1, <2>2, <2>3, <2>4, StoredTyped
  <2>6. torn' \subseteq Address
    BY <1>1, <2>1 DEF Held, Tree, Sound
  <2>7. ASSUME MirrorsBut(mcache, mem, torn) PROVE MirrorsBut(mcache, mem', torn')
    <3> SUFFICES ASSUME NEW iv \in mcache, NEW a \in (iv.begin..(iv.end - 1)) \ torn'
                 PROVE  iv.data[a - iv.begin + 1] = mem'[a]
      BY DEF MirrorsBut
    <3>1. a \notin torn /\ iv.data[a - iv.begin + 1] = mem[a]
      BY <2>1, <2>7 DEF MirrorsBut
    <3>2. a \in Held(mcache) /\ a \in Address /\ a \in Nat
      BY <1>1, ContextAssumption DEF Held, Tree, Sound, ContextAssumption
    <3>3. ~(b <= a /\ a < b + n)
      <4>1. a \notin b..(b + n - 1)
        BY <2>1, <3>2
      <4> HIDE DEF b
      <4> QED
        BY <2>2, <2>3, <3>2, <4>1
    <3>4. mem'[a] = mem[a]
      BY <2>3, <2>4, <3>2, <3>3 DEF AfterStore
    <3> QED
      BY <3>1, <3>4
  <2>8. Contents'
    BY <1>1, <2>6 DEF Typed, Contents
  <2> QED
    BY <1>1, <2>5, <2>7, <2>8
<1> QED
  BY <1>2, <1>3

LEMMA ReadRegistersTyped ==
  ASSUME Typed, ReadRegisters \/ ReadRegistersFails
  PROVE  /\ Contents' /\ UNCHANGED <<mem, fields, mcache, cached, torn>>
         /\ Reflects(Shown(rcache, doubted), fields) => Reflects(Shown(rcache', doubted'), fields)
<1> DEFINE new == AfterRead(rcache, op.regs, fields)
           good(c, d) == /\ Kept(c) /\ d \subseteq DOMAIN c
                         /\ Reflects(Shown(rcache, doubted), fields) => Reflects(Shown(c, d), fields)
<1>1. /\ Kept(rcache) /\ fields \in [Field -> FieldValues] /\ doubted \subseteq DOMAIN rcache
  BY DEF Typed, Contents
<1>2. op.regs \in ReadLists
  BY DEF Typed, Underway, ReadRegisters, ReadRegistersFails, Idle
<1>3. UNCHANGED <<mem, fields, mcache, cached, torn>>
  BY DEF ReadRegisters, ReadRegistersFails, Refused
<1>4. \/ rcache' = rcache /\ doubted' = doubted
      \/ rcache' = NoReg /\ doubted' = {}
      \/ rcache' = new /\ doubted' = StillDoubted
  BY DEF ReadRegisters, ReadRegistersFails, Refused, Discarded
<1>5. good(new, StillDoubted)
  BY <1>1, <1>2, ReadKeepsRegisters DEF StillDoubted
<1>6. good(NoReg, {}) /\ good(rcache, doubted)
  BY <1>1, NothingKept
<1> HIDE DEF new, good
<1>7. good(rcache', doubted')
  BY <1>4, <1>5, <1>6
<1>8. Contents'
  BY <1>3, <1>7 DEF Typed, Contents, good
<1> QED
  BY <1>3, <1>7, <1>8 DEF good

LEMMA WriteRegistersTyped ==
  ASSUME Typed, WriteRegisters \/ WriteRegistersFails
  PROVE  /\ Contents' /\ fields' \in [Field -> FieldValues]
         /\ UNCHANGED <<mem, mcache, cached, torn>>
         /\ (~op.direct /\ Reflects(Shown(rcache, doubted), fields))
              => Reflects(Shown(rcache', doubted'), fields')
<1> DEFINE D == DcrsrWrites(op.writes, fields)
           new == AfterWrite(rcache, op.writes)
           left(d) == (d \cup Overlooked(RegsWritten)) \cap DOMAIN new
           failed(performed, halves) == Apply(fields, Attempted(D, performed, halves))
           reflected == Reflects(Shown(rcache, doubted), fields)
<1>1. /\ Kept(rcache) /\ fields \in [Field -> FieldValues] /\ doubted \subseteq DOMAIN rcache
  BY DEF Typed, Contents
<1>2. Listed(op.writes)
  BY DEF Typed, Underway, WriteRegisters, WriteRegistersFails, Idle
<1>3. D \in Seq(Writes)
  BY <1>1, <1>2, DcrsrWritesShape DEF Listed
<1>4. ASSUME NEW performed, NEW halves
      PROVE  /\ Kept(new)
             /\ reflected => /\ Reflects(Shown(new, left(doubted \ RegsWritten)), Apply(fields, D))
                             /\ Reflects(Shown(new, left(doubted \cup RegsWritten)), failed(performed, halves))
  BY <1>1, <1>2, WriteKeepsRegisters DEF RegsWritten
<1>5. UNCHANGED <<mem, mcache, cached, torn>>
  BY DEF WriteRegisters, WriteRegistersFails, Refused
<1>6. \/ rcache' = rcache /\ doubted' = doubted
      \/ rcache' = NoReg /\ doubted' = {}
      \/ rcache' = new /\ doubted' = left(doubted \ RegsWritten)
      \/ rcache' = new /\ doubted' = left(doubted \cup RegsWritten)
  BY DEF WriteRegisters, WriteRegistersFails, Refused, Discarded, CacheWrites
<1>7. \/ fields' = fields
      \/ fields' = Apply(fields, D)
      \/ \E performed, halves : fields' = failed(performed, halves)
  BY DEF WriteRegisters, WriteRegistersFails, Refused
<1>8. ASSUME ~op.direct
      PROVE  \/ rcache' = NoReg
             \/ /\ rcache' = new /\ fields' = Apply(fields, D)
                /\ doubted' = left(doubted \ RegsWritten)
             \/ /\ rcache' = new /\ doubted' = left(doubted \cup RegsWritten)
                /\ \E performed, halves : fields' = failed(performed, halves)
  BY <1>8 DEF WriteRegisters, WriteRegistersFails, Refused, Discarded, CacheWrites
<1>9. fields' \in [Field -> FieldValues]
  <2>1. Apply(fields, D) \in [Field -> FieldValues]
    BY <1>1, <1>3, AppliedTyped
  <2>2. \A performed, halves : failed(performed, halves) \in [Field -> FieldValues]
    <3>1. \A performed, halves : Attempted(D, performed, halves) \in Seq(Writes)
      BY <1>3, AttemptedTyped
    <3> QED
      BY <1>1, <3>1, AppliedTyped
  <2> HIDE DEF D, failed
  <2> QED
    BY <1>1, <1>7, <2>1, <2>2
<1> HIDE DEF new, D, left, failed, reflected
<1>10. Kept(new) /\ \A d : left(d) \subseteq DOMAIN new
  BY <1>4 DEF left
<1>11. Kept(rcache') /\ doubted' \subseteq DOMAIN rcache'
  BY <1>1, <1>6, <1>10, NothingKept
<1>12. ASSUME ~op.direct, reflected PROVE Reflects(Shown(rcache', doubted'), fields')
  <2>1. CASE rcache' = NoReg
    BY <2>1, NothingKept
  <2>2. CASE /\ rcache' = new /\ fields' = Apply(fields, D)
             /\ doubted' = left(doubted \ RegsWritten)
    BY <1>4, <1>12, <2>2
  <2>3. CASE /\ rcache' = new /\ doubted' = left(doubted \cup RegsWritten)
             /\ \E performed, halves : fields' = failed(performed, halves)
    <3>1. PICK performed, halves : fields' = failed(performed, halves)
      BY <2>3
    <3>2. Reflects(Shown(new, left(doubted \cup RegsWritten)), failed(performed, halves))
      BY <1>4, <1>12
    <3> QED
      BY <2>3, <3>1, <3>2
  <2> QED
    BY <1>8, <1>12, <2>1, <2>2, <2>3
<1>13. Contents'
  BY <1>5, <1>11 DEF Typed, Contents
<1>14. (~op.direct /\ reflected) => Reflects(Shown(rcache', doubted'), fields')
  BY <1>12
<1> QED
  BY <1>5, <1>9, <1>13, <1>14 DEF reflected

(* Every step keeps the types.                                             *)
LEMMA StepTyped ==
  ASSUME Typed, [Next]_vars
  PROVE  Typed'
<1> USE DEF Typed
<1>1. CASE Resume \/ Step \/ ResetCore \/ Execute \/ Halt \/ Sleep \/ Wake
  <2>1. /\ mcache' = mcache /\ rcache' = rcache /\ op' = op /\ cached' = cached /\ faults' = faults
        /\ torn' = torn /\ doubted' = doubted
    BY <1>1 DEF Resume, Step, ResetCore, Execute, Halt, Sleep, Wake, LetRun, caches
  <2>2. core' \in {"halted", "running", "sleeping"}
    BY <1>1 DEF Resume, Step, ResetCore, Execute, Halt, Sleep, Wake
  <2>3. token' = token \/ (token < MaxToken /\ token' = token + 1)
    BY <1>1 DEF Resume, Step, ResetCore, Execute, Halt, Sleep, Wake, LetRun
  <2>4. mem' \in Memory
    BY <1>1 DEF Resume, Step, ResetCore, Execute, Halt, Sleep, Wake, Executed, Memory
  <2>5. fields' \in [Field -> FieldValues]
    BY <1>1 DEF Resume, Step, ResetCore, Execute, Halt, Sleep, Wake, Executed
  <2>6. Contents'
    BY <2>1 DEF Contents
  <2>7. Underway'
    BY <2>1 DEF Underway
  <2>8. Numbers'
    BY <2>1, <2>3, ContextAssumption DEF Numbers, ContextAssumption
  <2> QED
    BY <2>2, <2>4, <2>5, <2>6, <2>7, <2>8
<1>2. CASE BeginMemory \/ BeginRegisters
  <2>1. Underway' /\ Check /\ UNCHANGED <<uses, target, faults>>
    BY <1>2, BeginUnderway
  <2>2. core' = core /\ token' = token /\ mem' = mem /\ fields' = fields /\ faults' = faults
    BY <2>1 DEF target
  <2>3. Contents' /\ cached' \in -1..MaxToken /\ cached' <= token
    BY <2>1, CheckTyped
  <2>4. Numbers'
    BY <2>2, <2>3 DEF Numbers
  <2> QED
    BY <2>1, <2>2, <2>3, <2>4
<1>3. CASE \/ ReadMemory \/ ReadMemoryFails \/ WriteMemory \/ WriteMemoryFails
           \/ ReadRegisters \/ ReadRegistersFails \/ WriteRegisters \/ WriteRegistersFails
  <2>1. op' = Idle /\ core' = core /\ token' = token
    BY <1>3 DEF ReadMemory, ReadMemoryFails, WriteMemory, WriteMemoryFails, ReadRegisters,
                ReadRegistersFails, WriteRegisters, WriteRegistersFails, Refused, Return, Fail, Done
  <2>2. faults' = faults \/ (faults < MaxFaults /\ faults' = faults + 1)
    BY <1>3 DEF ReadMemory, ReadMemoryFails, WriteMemory, WriteMemoryFails, ReadRegisters,
                ReadRegistersFails, WriteRegisters, WriteRegistersFails, Refused, Return, Fail, Done
  <2>3. /\ Contents' /\ cached' = cached
        /\ mem' \in Memory /\ fields' \in [Field -> FieldValues]
    <3>1. CASE ReadMemory \/ ReadMemoryFails
      BY <3>1, ReadTyped
    <3>2. CASE WriteMemory
      BY <3>2, WriteTyped
    <3>3. CASE WriteMemoryFails
      <4>1. Contents' /\ mem' \in Memory /\ UNCHANGED <<fields, mcache, rcache, cached, doubted>>
        BY <3>3, WriteFailsTyped
      <4> QED
        BY <4>1
    <3>4. CASE ReadRegisters \/ ReadRegistersFails
      BY <3>4, ReadRegistersTyped
    <3>5. CASE WriteRegisters \/ WriteRegistersFails
      BY <3>5, WriteRegistersTyped
    <3> QED
      BY <1>3, <3>1, <3>2, <3>3, <3>4, <3>5
  <2>4. Underway'
    BY <2>1 DEF Underway, Idle
  <2>5. Numbers'
    BY <2>1, <2>2, <2>3, ContextAssumption DEF Numbers, ContextAssumption
  <2> QED
    BY <2>1, <2>3, <2>4, <2>5
<1>4. CASE Invalidate
  <2>1. /\ mcache' = {} /\ rcache' = NoReg /\ core' = core /\ token' = token /\ mem' = mem
        /\ fields' = fields /\ cached' = cached /\ op' = op /\ faults' = faults
        /\ torn' = {} /\ doubted' = {}
    BY <1>4 DEF Invalidate, Emptied, target
  <2>2. Contents'
    BY <2>1, NothingKept DEF Contents
  <2>3. Underway' /\ Numbers'
    BY <2>1 DEF Underway, Numbers
  <2> QED
    BY <2>1, <2>2, <2>3
<1>5. CASE UNCHANGED vars
  BY <1>5 DEF vars, caches, Contents, Underway, Numbers
<1> QED
  BY <1>1, <1>2, <1>3, <1>4, <1>5 DEF Next

(* The state has its types: of every instance, and with every failure.     *)
THEOREM ContextTypeCorrect == Spec => []TypeOK
<1>1. Init => Typed
  BY InitTyped
<1>2. Typed /\ [Next]_vars => Typed'
  BY StepTyped
<1>3. Typed => TypeOK
  <2> SUFFICES ASSUME Typed PROVE TypeOK
    OBVIOUS
  <2>1. mcache \subseteq Interval /\ WellFormed(mcache)
    <3>1. Tree(mcache)
      BY DEF Typed, Contents
    <3>2. ASSUME NEW iv \in mcache PROVE iv \in Interval
      <4>1. iv \in Cell /\ iv.begin < iv.end /\ iv.begin..(iv.end - 1) \subseteq Address
        BY <3>1 DEF Tree, Sound
      <4>2. iv.begin \in iv.begin..(iv.end - 1)
        BY <4>1 DEF Cell
      <4> QED
        BY <4>1, <4>2 DEF Cell, Interval
    <3> QED
      BY <3>1, <3>2, TreeIsWellFormed
  <2>2. op.kind \in {"none", "read", "write", "readRegs", "writeRegs"}
    BY DEF Typed, Underway, Idle
  <2>3. token \in 0..MaxToken /\ cached \in -1..MaxToken /\ faults \in 0..MaxFaults
    BY DEF Typed, Numbers
  <2> QED
    BY <2>1, <2>2, <2>3 DEF TypeOK, Typed, Contents, Kept, Memory
<1> QED
  BY <1>1, <1>2, <1>3, PTL DEF Spec

-----------------------------------------------------------------------------
(* Coherence                                                               *)

(* While the core is not halted, or an access goes past the registers'     *)
(* cache, the caches are not of this run; and an access under way does     *)
(* not find anything of an earlier one.                                    *)
Current ==
  /\ core # "halted" => cached # token
  /\ op # Idle /\ op.kind \in {"readRegs", "writeRegs"} /\ op.direct => cached # token
  /\ op # Idle /\ cached # token => mcache = {} /\ rcache = NoReg

(* What the caches hold of this run, and is not torn or doubted, is what   *)
(* there is.                                                               *)
Same == MirrorsBut(mcache, mem, torn) /\ Reflects(Shown(rcache, doubted), fields)

CacheInv == Typed /\ Current /\ (cached = token => Same)

LEMMA InitCacheInv ==
  ASSUME Init
  PROVE  CacheInv
<1>1. Typed
  BY InitTyped
<1>2. cached # token /\ op = Idle
  BY DEF Init
<1> QED
  BY <1>1, <1>2 DEF CacheInv, Current

LEMMA StepCacheInv ==
  ASSUME ~UseAsleep, CacheInv, [Next]_vars
  PROVE  CacheInv'
<1>1. Typed /\ Typed'
  BY StepTyped DEF CacheInv
<1>2. /\ token \in Int /\ cached \in Int /\ cached <= token
      /\ core \in {"halted", "running", "sleeping"}
  BY <1>1 DEF Typed, Numbers
<1> USE DEF CacheInv
<1>3. CASE Resume \/ Step \/ ResetCore
  <2>1. cached' = cached /\ token' = token + 1 /\ op' = op /\ op = Idle
    BY <1>3 DEF Resume, Step, ResetCore, LetRun, caches
  <2>2. cached' # token'
    BY <1>2, <2>1
  <2> QED
    BY <1>1, <2>1, <2>2 DEF Current
<1>4. CASE Execute \/ Halt \/ Sleep \/ Wake
  <2>1. /\ cached' = cached /\ token' = token /\ op' = op /\ mcache' = mcache /\ rcache' = rcache
        /\ core # "halted"
    BY <1>4 DEF Execute, Halt, Sleep, Wake, caches
  <2>2. cached # token
    BY <2>1 DEF Current
  <2> QED
    BY <1>1, <2>1, <2>2 DEF Current
<1>5. CASE BeginMemory \/ BeginRegisters
  <2>1. /\ Check /\ op = Idle /\ op' # Idle
        /\ core = "sleeping" => UseAsleep
        /\ op'.kind \in {"readRegs", "writeRegs"} => (op'.direct <=> core = "running")
        /\ core' = core /\ token' = token /\ mem' = mem /\ fields' = fields
    BY <1>5, BeginUnderway DEF target
  <2>2. CASE core = "running"
    <3>1. mcache' = {} /\ rcache' = NoReg /\ cached' = cached /\ cached # token
      BY <2>1, <2>2 DEF Check, Emptied, Current
    <3> QED
      BY <1>1, <2>1, <3>1 DEF Current
  <2>3. CASE core = "halted" /\ cached # token
    <3>1. mcache' = {} /\ rcache' = NoReg /\ cached' = token
      BY <2>1, <2>3 DEF Check, Emptied
    <3>2. Same'
      BY <3>1, NothingKept DEF Same
    <3> QED
      BY <1>1, <2>1, <2>3, <3>1, <3>2 DEF Current
  <2>4. CASE core = "halted" /\ cached = token
    <3>1. UNCHANGED <<mcache, rcache, cached, torn, doubted>>
      BY <2>1, <2>4 DEF Check, caches
    <3>2. Same
      BY <2>4
    <3>3. Same'
      BY <2>1, <3>1, <3>2 DEF Same
    <3> QED
      BY <1>1, <2>1, <2>4, <3>1, <3>3 DEF Current
  <2>5. core # "sleeping"
    BY <2>1
  <2> QED
    BY <1>2, <2>2, <2>3, <2>4, <2>5
<1>6. CASE \/ ReadMemory \/ ReadMemoryFails \/ WriteMemory \/ WriteMemoryFails
           \/ ReadRegisters \/ ReadRegistersFails \/ WriteRegisters \/ WriteRegistersFails
  <2>1. op' = Idle /\ core' = core /\ token' = token
    BY <1>6 DEF ReadMemory, ReadMemoryFails, WriteMemory, WriteMemoryFails, ReadRegisters,
                ReadRegistersFails, WriteRegisters, WriteRegistersFails, Refused, Return, Fail, Done
  <2>2. op # Idle
    BY <1>6 DEF ReadMemory, ReadMemoryFails, WriteMemory, WriteMemoryFails, ReadRegisters,
                ReadRegistersFails, WriteRegisters, WriteRegistersFails, Idle
  <2>3. cached' = cached
    BY <1>6 DEF ReadMemory, ReadMemoryFails, WriteMemory, WriteMemoryFails, ReadRegisters,
                ReadRegistersFails, WriteRegisters, WriteRegistersFails, Refused
  <2>4. Current'
    BY <2>1, <2>3 DEF Current
  <2>5. ASSUME cached = token PROVE Same'
    <3>1. Same /\ ~(op.kind \in {"readRegs", "writeRegs"} /\ op.direct)
      BY <2>2, <2>5 DEF Current
    <3>2. CASE ReadMemory \/ ReadMemoryFails
      BY <1>1, <3>1, <3>2, ReadTyped DEF Same
    <3>3. CASE WriteMemory
      BY <1>1, <3>1, <3>3, WriteTyped DEF Same
    <3>4. CASE WriteMemoryFails
      BY <1>1, <3>1, <3>4, WriteFailsTyped DEF Same
    <3>5. CASE ReadRegisters \/ ReadRegistersFails
      BY <1>1, <3>1, <3>5, ReadRegistersTyped DEF Same
    <3>6. CASE WriteRegisters \/ WriteRegistersFails
      <4>1. ~op.direct
        BY <3>1, <3>6 DEF WriteRegisters, WriteRegistersFails
      <4>2. UNCHANGED <<mem, mcache, torn>> /\ Reflects(Shown(rcache', doubted'), fields')
        BY <1>1, <3>1, <3>6, <4>1, WriteRegistersTyped DEF Same
      <4> QED
        BY <3>1, <4>2 DEF Same
    <3> QED
      BY <1>6, <3>2, <3>3, <3>4, <3>5, <3>6
  <2> QED
    BY <1>1, <2>1, <2>3, <2>4, <2>5
<1>7. CASE Invalidate
  <2>1. /\ mcache' = {} /\ rcache' = NoReg /\ core' = core /\ token' = token
        /\ cached' = cached /\ op' = op
    BY <1>7 DEF Invalidate, Emptied, target
  <2>2. Same'
    BY <2>1, NothingKept DEF Same
  <2> QED
    BY <1>1, <2>1, <2>2 DEF Current
<1>8. CASE UNCHANGED vars
  BY <1>1, <1>8 DEF vars, caches, Current, Same
<1> QED
  BY <1>3, <1>4, <1>5, <1>6, <1>7, <1>8 DEF Next

(* As long as a cache would be used as it is, what it holds is what the    *)
(* target holds, but where a write failed or was overlooked: with any      *)
(* memory map, any registers, reads, writes and failures, if no access is  *)
(* begun while the core sleeps.                                            *)
THEOREM CoherentAlways ==
  ASSUME ~UseAsleep
  PROVE  Spec => []Coherent
<1>1. Init => CacheInv
  BY InitCacheInv
<1>2. CacheInv /\ [Next]_vars => CacheInv'
  BY StepCacheInv
<1>3. CacheInv => Coherent
  BY DEF CacheInv, Same, Coherent, Shown, ReadRegs
<1> QED
  BY <1>1, <1>2, <1>3, PTL DEF Spec

(* What a read through the context returns while the core is halted is     *)
(* what a read of the target would return.                                 *)
THEOREM ReadsAreCurrentAlways ==
  ASSUME ~UseAsleep
  PROVE  Spec => []ReadsAreCurrent
<1>1. Init => CacheInv
  BY InitCacheInv
<1>2. CacheInv /\ [Next]_vars => CacheInv'
  BY StepCacheInv
<1>3. CacheInv => ReadsAreCurrent
  <2> SUFFICES ASSUME CacheInv PROVE ReadsAreCurrent
    OBVIOUS
  <2>1. /\ Tree(mcache) /\ Kept(rcache) /\ mem \in Memory /\ fields \in [Field -> FieldValues]
        /\ Underway
    BY DEF CacheInv, Typed, Contents
  <2>2. op # Idle => Same
    BY NothingKept DEF CacheInv, Current, Same
  <2>3. ASSUME op.kind = "read", CheckRegions(op.begin, op.end) # "fault"
        PROVE  /\ Len(BytesRead) = op.end - op.begin
               /\ \A a \in (op.begin..(op.end - 1)) \ torn : BytesRead[a - op.begin + 1] = mem[a]
    <3> DEFINE b == op.begin
               e == op.end
               text(m) == [i \in 1..(e - b) |-> m[b + i - 1]]
    <3>1. Accessed(b, e) /\ op # Idle
      BY <2>1, <2>3 DEF Underway, Idle
    <3>2. MirrorsBut(mcache, mem, torn)
      BY <2>2, <3>1 DEF Same
    <3>3. PICK m \in Memory : /\ Mirrors(mcache, m)
                              /\ \A a \in Address : a \notin torn \cap Held(mcache) => m[a] = mem[a]
      BY <2>1, <3>2, Believed
    <3>4. Fetched(Uncached(mcache, b, e), m) = Fetched(Uncached(mcache, b, e), mem)
      BY <2>1, <3>1, <3>3, FetchedSame
    <3>5. Bytes = text(m)
      BY <2>1, <3>1, <3>3, <3>4, ReadIsCurrent DEF Bytes, FetchedNow
    <3>6. FromTarget(b, e) = text(mem)
      BY DEF FromTarget
    <3>7. PICK n \in {m, mem} : BytesRead = text(n)
      BY <3>5, <3>6 DEF BytesRead
    <3>8. b \in Nat /\ e \in Nat /\ e - b \in Nat /\ b..(e - 1) \subseteq Address
      BY <3>1 DEF Accessed
    <3> HIDE DEF b, e
    <3>9. Len(BytesRead) = e - b
      BY <3>7, <3>8
    <3>10. ASSUME NEW a \in (b..(e - 1)) \ torn PROVE BytesRead[a - b + 1] = mem[a]
      <4>1. n[a] = mem[a]
        BY <3>3, <3>8
      <4>2. a - b + 1 \in 1..(e - b) /\ b + (a - b + 1) - 1 = a
        BY <3>8
      <4> QED
        BY <3>7, <4>1, <4>2
    <3> QED
      BY <3>9, <3>10 DEF b, e
  <2>4. ASSUME op.kind = "readRegs", NEW r \in op.regs \ StillDoubted
        PROVE  RegistersRead[r] = ValueOf(r, fields)
    <3>1. op.regs \in ReadLists /\ op # Idle
      BY <2>1, <2>4 DEF Underway, Idle
    <3>2. Reflects(Shown(rcache, doubted), fields)
      BY <2>2, <3>1 DEF Same
    <3>3. Restrict(AfterRead(rcache, op.regs, fields), op.regs)[r] = ValueOf(r, fields)
      <4>1. Answers(AfterRead(rcache, op.regs, fields), op.regs, StillDoubted, fields)
        BY <2>1, <3>1, <3>2, ReadKeepsRegisters DEF StillDoubted
      <4> QED
        BY <2>4, <4>1 DEF Answers
    <3> QED
      BY <3>3 DEF RegistersRead
  <2> QED
    BY <2>3, <2>4 DEF ReadsAreCurrent
<1> QED
  BY <1>1, <1>2, <1>3, PTL DEF Spec

=============================================================================
