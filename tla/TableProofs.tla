---------------------------- MODULE TableProofs ----------------------------
(***************************************************************************)
(* For every table, every set of indexes and every bound: an index of a    *)
(* table stays exact until std::lower_bound is misled in it, which only    *)
(* SetRow and SetCellValue prepare; the assertions of NotifyRowDelete fail *)
(* in no other index; and Table implements IndexedTable.                   *)
(***************************************************************************)
EXTENDS TableRefinement, FiniteSetTheorems, SequenceTheorems, WellFoundedInduction, TLAPS

\* A map of vectors of row numbers.
IsMap(m) == \A k \in DOMAIN m : m[k] \in Seq(Nat)

\* No key has an empty vector.
NoEmpty(m) == \A k \in DOMAIN m : m[k] # <<>>

\* Map m is the index i of the rows rs but for row n, which it does not list.
DescribesBut(i, m, rs, n) ==
    /\ \A k \in DOMAIN m : IsInjective(m[k])
    /\ \A k \in DOMAIN m : \A r \in Range(m[k]) :
          r # n /\ r < Len(rs) /\ KeyOf(i, rs[r + 1]) = k
    /\ \A r \in 0..(Len(rs) - 1) : r # n => Found(m, KeyOf(i, rs[r + 1]), r)

-----------------------------------------------------------------------------
(***************************************************************************)
(* Sequences.                                                              *)
(***************************************************************************)

\* A function on 1..n is a sequence.
LEMMA SeqIntro ==
  ASSUME NEW S, NEW n \in Nat, NEW v \in [1..n -> S]
  PROVE  v \in Seq(S)
OBVIOUS

\* What RemoveAt (vector::erase) leaves.
LEMMA RemoveAtLemma ==
  ASSUME NEW S, NEW s \in Seq(S), NEW p \in 1..Len(s)
  PROVE  /\ RemoveAt(s, p) \in Seq(S)
         /\ Len(RemoveAt(s, p)) = Len(s) - 1
         /\ \A j \in 1..(Len(s) - 1) :
               RemoveAt(s, p)[j] = IF j < p THEN s[j] ELSE s[j + 1]
<1> DEFINE a == SubSeq(s, 1, p - 1)
           b == SubSeq(s, p + 1, Len(s))
<1>0. Len(s) \in Nat /\ p \in Nat /\ 1 <= p /\ p <= Len(s)
  OBVIOUS
<1>1. /\ a \in Seq(S) /\ Len(a) = p - 1
      /\ \A j \in 1..(p - 1) : a[j] = s[j]
  OBVIOUS
<1>2. /\ b \in Seq(S) /\ Len(b) = Len(s) - p
      /\ \A j \in 1..(Len(s) - p) : b[j] = s[p + j]
  OBVIOUS
<1>3. RemoveAt(s, p) = a \o b
  BY DEF RemoveAt
<1> HIDE DEF a, b
<1>4. /\ a \o b \in Seq(S)
      /\ Len(a \o b) = Len(a) + Len(b)
      /\ \A j \in 1..(Len(a) + Len(b)) :
            (a \o b)[j] = IF j <= Len(a) THEN a[j] ELSE b[j - Len(a)]
  BY <1>1, <1>2, ConcatProperties
<1>5. ASSUME NEW j \in 1..(Len(s) - 1)
      PROVE  (a \o b)[j] = IF j < p THEN s[j] ELSE s[j + 1]
  <2>1. j \in Nat /\ j \in 1..(Len(a) + Len(b))
    BY <1>0, <1>1, <1>2
  <2>2. CASE j < p
    BY <1>0, <1>1, <1>4, <2>1, <2>2
  <2>3. CASE ~(j < p)
    <3>1. (a \o b)[j] = b[j - (p - 1)]
      BY <1>0, <1>1, <1>4, <2>1, <2>3
    <3>2. b[j - (p - 1)] = s[p + (j - (p - 1))]
      BY <1>0, <1>2, <2>1, <2>3
    <3>3. p + (j - (p - 1)) = j + 1
      BY <1>0, <2>1
    <3> QED BY <3>1, <3>2, <3>3, <2>3
  <2> QED BY <2>2, <2>3
<1>6. Len(a \o b) = Len(s) - 1
  BY <1>0, <1>1, <1>2, <1>4
<1> QED BY <1>3, <1>4, <1>5, <1>6

\* What InsertAt (vector::insert) makes.
LEMMA InsertAtLemma ==
  ASSUME NEW S, NEW s \in Seq(S), NEW p \in 1..Len(s), NEW e \in S
  PROVE  /\ InsertAt(s, p, e) \in Seq(S)
         /\ Len(InsertAt(s, p, e)) = Len(s) + 1
         /\ \A j \in 1..(Len(s) + 1) :
               InsertAt(s, p, e)[j] = IF j < p THEN s[j]
                                      ELSE IF j = p THEN e ELSE s[j - 1]
BY SMTT(30) DEF InsertAt

\* On a partitioned vector a binary search ends where the elements reach n.
LEMMA LowerBoundLemma ==
  ASSUME NEW v \in Seq(Nat), NEW n \in Nat, Partitioned(v, n),
         NEW p \in LowerBound(v, n)
  PROVE  \A j \in DOMAIN v : j >= p <=> v[j] >= n
BY SMTT(30) DEF Partitioned, LowerBound

\* An ascending vector is partitioned by every number.
LEMMA AscendingPartitioned ==
  ASSUME NEW v \in Seq(Nat), NEW n \in Nat, Ascending(v)
  PROVE  Partitioned(v, n)
BY DEF Partitioned, Ascending

\* std::find and erase on a vector without repetitions.
LEMMA EraseVector ==
  ASSUME NEW v \in Seq(Nat), IsInjective(v), NEW n \in Range(v)
  PROVE  /\ RemoveAt(v, Find(v, n)) \in Seq(Nat)
         /\ IsInjective(RemoveAt(v, Find(v, n)))
         /\ Range(RemoveAt(v, Find(v, n))) = Range(v) \ {n}
         /\ Ascending(v) => Ascending(RemoveAt(v, Find(v, n)))
<1> DEFINE p == Find(v, n)
           w == RemoveAt(v, p)
<1>1. PICK q \in 1..Len(v) : v[q] = n
  BY DEF Range
<1>2. {j \in DOMAIN v : v[j] = n} = {q}
  BY <1>1 DEF IsInjective
<1>3. p = q
  BY <1>1, <1>2 DEF Find, Min
<1>4. /\ w \in Seq(Nat) /\ Len(w) = Len(v) - 1
      /\ \A j \in 1..(Len(v) - 1) : w[j] = IF j < q THEN v[j] ELSE v[j + 1]
  BY <1>3, RemoveAtLemma
<1> HIDE DEF p, w
<1> DEFINE at(j) == IF j < q THEN j ELSE j + 1
<1>d. DOMAIN w = 1..(Len(v) - 1) /\ DOMAIN v = 1..Len(v) /\ Len(v) \in Nat
  BY <1>4
<1>e. \A j \in DOMAIN w : w[j] = v[at(j)] /\ at(j) \in DOMAIN v /\ at(j) # q
  BY <1>4, <1>d, <1>1, SMTT(30)
<1>i. \A j, l \in DOMAIN w : at(j) = at(l) => j = l
  BY <1>d, <1>1
<1>f. \A j, l \in DOMAIN w : j < l => at(j) < at(l)
  BY <1>d, <1>1
<1>g. \A l \in DOMAIN v : l # q => \E j \in DOMAIN w : at(j) = l
  <2> SUFFICES ASSUME NEW l \in DOMAIN v, l # q
               PROVE  \E j \in DOMAIN w : at(j) = l
    OBVIOUS
  <2>1. CASE l < q
    BY <2>1, <1>1, <1>d
  <2>2. CASE l > q
    <3>1. l - 1 \in DOMAIN w /\ at(l - 1) = l
      BY <2>2, <1>1, <1>d
    <3> QED BY <3>1
  <2> QED BY <2>1, <2>2, <1>1, <1>d
<1> HIDE DEF at
<1>5. IsInjective(w)
  <2>1. ASSUME NEW j \in DOMAIN w, NEW l \in DOMAIN w, w[j] = w[l]
        PROVE  j = l
    <3>1. v[at(j)] = v[at(l)] /\ at(j) \in DOMAIN v /\ at(l) \in DOMAIN v
      BY <1>e, <2>1
    <3>2. at(j) = at(l)
      BY <3>1 DEF IsInjective
    <3> QED BY <1>i, <3>2
  <2> QED BY <2>1 DEF IsInjective
<1>6. Range(w) = Range(v) \ {n}
  <2>1. ASSUME NEW j \in DOMAIN w PROVE w[j] \in Range(v) \ {n}
    BY <1>1, <1>d, <1>e DEF Range, IsInjective
  <2>2. ASSUME NEW l \in DOMAIN v, v[l] # n PROVE v[l] \in Range(w)
    <3>1. PICK j \in DOMAIN w : at(j) = l
      BY <1>1, <1>g, <2>2
    <3> QED BY <1>e, <3>1 DEF Range
  <2> QED BY <2>1, <2>2 DEF Range
<1>7. Ascending(v) => Ascending(w)
  BY <1>e, <1>f DEF Ascending
<1> QED BY <1>4, <1>5, <1>6, <1>7 DEF p, w

\* std::stable_sort on a vector without repetitions.
LEMMA SortedLemma ==
  ASSUME NEW v \in Seq(Nat), IsInjective(v), NEW s \in Sorted(v)
  PROVE  s \in Seq(Nat) /\ IsInjective(s) /\ Range(s) = Range(v) /\ Ascending(s)
<1>1. /\ s \in [1..Len(v) -> Range(v)] /\ Ascending(s)
      /\ \A n \in Range(v) : Occurrences(s, n) = Occurrences(v, n)
  BY DEF Sorted
<1>2. Range(v) \subseteq Nat
  BY DEF Range
<1>3. s \in Seq(Nat)
  BY <1>1, <1>2
<1>4. ASSUME NEW n \in Range(v)
      PROVE  \E j \in DOMAIN s : {l \in DOMAIN s : s[l] = n} = {j}
  <2>1. PICK q \in DOMAIN v : v[q] = n
    BY DEF Range
  <2>2. {j \in DOMAIN v : v[j] = n} = {q}
    BY <2>1 DEF IsInjective
  <2>3. Occurrences(s, n) = 1
    BY <1>1, <2>2, FS_Singleton DEF Occurrences
  <2>4. IsFiniteSet({l \in DOMAIN s : s[l] = n})
    <3>1. IsFiniteSet(DOMAIN s)
      BY <1>1, FS_Interval
    <3> QED BY <3>1, FS_Subset
  <2>5. PICK j : {l \in DOMAIN s : s[l] = n} = {j}
    BY <2>3, <2>4, FS_Singleton DEF Occurrences
  <2> QED BY <2>5
<1>5. Range(s) = Range(v)
  <2>1. Range(s) \subseteq Range(v)
    BY <1>1 DEF Range
  <2>2. ASSUME NEW n \in Range(v) PROVE n \in Range(s)
    BY <1>4 DEF Range
  <2> QED BY <2>1, <2>2
<1>6. IsInjective(s)
  <2>1. ASSUME NEW a \in DOMAIN s, NEW b \in DOMAIN s, s[a] = s[b]
        PROVE  a = b
    <3>1. s[a] \in Range(v)
      BY <1>1
    <3>2. PICK j \in DOMAIN s : {l \in DOMAIN s : s[l] = s[a]} = {j}
      BY <1>4, <3>1
    <3> QED BY <2>1, <3>2
  <2> QED BY <2>1 DEF IsInjective
<1> QED BY <1>1, <1>3, <1>5, <1>6

-----------------------------------------------------------------------------
(***************************************************************************)
(* Maps.                                                                   *)
(***************************************************************************)

\* Describes is DescribesBut for a row that does not exist, without empty entries.
LEMMA DescribesSplit ==
  ASSUME NEW i \in Index, NEW m, IsMap(m), NEW R, NEW rs \in Seq(R)
  PROVE  Describes(i, m, rs) <=> NoEmpty(m) /\ DescribesBut(i, m, rs, Len(rs))
<1>1. \A k \in DOMAIN m : Range(m[k]) \subseteq Nat
  BY DEF IsMap, Range
<1> QED BY <1>1 DEF Describes, DescribesBut, NoEmpty

\* NotifyRowDelete, the part before renumbering.
LEMMA EraseRowLemma ==
  ASSUME NEW i \in Index, NEW m, IsMap(m), NEW R, NEW rs \in Seq(R),
         NEW n \in 0..(Len(rs) - 1), Describes(i, m, rs)
  PROVE  LET e == EraseRow(m, KeyOf(i, rs[n + 1]), n)
         IN  /\ IsMap(e) /\ NoEmpty(e) /\ DescribesBut(i, e, rs, n)
             /\ (\A k \in DOMAIN m : Ascending(m[k])) => \A k \in DOMAIN e : Ascending(e[k])
<1> DEFINE key == KeyOf(i, rs[n + 1])
           e == EraseRow(m, key, n)
           w == RemoveAt(m[key], Find(m[key], n))
<1>1. key \in DOMAIN m /\ n \in Range(m[key])
  BY DEF Describes, Found
<1>2. m[key] \in Seq(Nat) /\ IsInjective(m[key])
  BY <1>1 DEF Describes, IsMap
<1>3. /\ w \in Seq(Nat) /\ IsInjective(w) /\ Range(w) = Range(m[key]) \ {n}
      /\ Ascending(m[key]) => Ascending(w)
  BY <1>1, <1>2, EraseVector
<1>4. e = IF w = <<>> THEN [x \in DOMAIN m \ {key} |-> m[x]] ELSE [m EXCEPT ![key] = w]
  BY DEF EraseRow
<1> HIDE DEF key, w, e
<1>5. DOMAIN e \subseteq DOMAIN m
  BY <1>4
<1>6. \A k \in DOMAIN e : e[k] = IF k = key THEN w ELSE m[k]
  BY <1>4
<1>7. key \in DOMAIN e => w # <<>>
  BY <1>4
<1>8. \A k \in DOMAIN m : k # key => k \in DOMAIN e
  BY <1>4
<1>9. \A k \in DOMAIN m : \A r \in Range(m[k]) : r < Len(rs) /\ KeyOf(i, rs[r + 1]) = k
  BY DEF Describes
<1>10. IsMap(e) /\ NoEmpty(e)
  BY <1>3, <1>5, <1>6, <1>7 DEF IsMap, NoEmpty, Describes
<1>11. \A k \in DOMAIN e : IsInjective(e[k])
  BY <1>3, <1>5, <1>6 DEF Describes
<1>12. \A k \in DOMAIN e : \A r \in Range(e[k]) :
          r # n /\ r < Len(rs) /\ KeyOf(i, rs[r + 1]) = k
  <2> SUFFICES ASSUME NEW k \in DOMAIN e, NEW r \in Range(e[k])
               PROVE  r # n /\ r < Len(rs) /\ KeyOf(i, rs[r + 1]) = k
    OBVIOUS
  <2>1. CASE k = key
    BY <1>1, <1>3, <1>6, <1>9, <2>1
  <2>2. CASE k # key
    <3>1. r \in Range(m[k]) /\ k \in DOMAIN m
      BY <1>5, <1>6, <2>2
    <3> QED BY <1>9, <2>2, <3>1 DEF key
  <2> QED BY <2>1, <2>2
<1>13. ASSUME NEW r \in 0..(Len(rs) - 1), r # n
       PROVE  Found(e, KeyOf(i, rs[r + 1]), r)
  <2> DEFINE k == KeyOf(i, rs[r + 1])
  <2>1. k \in DOMAIN m /\ r \in Range(m[k])
    BY DEF Describes, Found
  <2> HIDE DEF k
  <2>2. CASE k # key
    BY <1>6, <1>8, <2>1, <2>2 DEF Found, k
  <2>3. CASE k = key
    <3>1. r \in Range(w)
      BY <1>3, <1>13, <2>1, <2>3
    <3>2. w # <<>>
      BY <3>1 DEF Range
    <3>3. key \in DOMAIN e
      BY <1>1, <1>4, <3>2
    <3> QED BY <1>6, <2>3, <3>1, <3>3 DEF Found, k
  <2> QED BY <2>2, <2>3
<1>14. (\A k \in DOMAIN m : Ascending(m[k])) => \A k \in DOMAIN e : Ascending(e[k])
  BY <1>1, <1>3, <1>5, <1>6
<1>15. DescribesBut(i, e, rs, n)
  BY <1>11, <1>12, <1>13 DEF DescribesBut
<1> QED BY <1>10, <1>14, <1>15 DEF e, key

\* Listing the row that was left out, in whatever place under its key.
LEMMA ListRowLemma ==
  ASSUME NEW i \in Index, NEW m, IsMap(m), NEW R, NEW rs \in Seq(R),
         NEW n \in 0..(Len(rs) - 1), DescribesBut(i, m, rs, n),
         NEW key, key = KeyOf(i, rs[n + 1]),
         \A k \in DOMAIN m : k # key => m[k] # <<>>,
         NEW f, DOMAIN f = DOMAIN m \cup {key},
         \A k \in DOMAIN m : k # key => f[k] = m[k],
         f[key] \in Seq(Nat), IsInjective(f[key]),
         Range(f[key]) = (IF key \in DOMAIN m THEN Range(m[key]) ELSE {}) \cup {n}
  PROVE  IsMap(f) /\ Describes(i, f, rs)
<1>1. \A k \in DOMAIN f : f[k] # <<>>
  BY DEF Range
<1>2. IsMap(f)
  BY DEF IsMap
<1>3. \A k \in DOMAIN f : IsInjective(f[k])
  BY DEF DescribesBut
<1>4. \A k \in DOMAIN f : \A r \in Range(f[k]) : r < Len(rs) /\ KeyOf(i, rs[r + 1]) = k
  <2> SUFFICES ASSUME NEW k \in DOMAIN f, NEW r \in Range(f[k])
               PROVE  r < Len(rs) /\ KeyOf(i, rs[r + 1]) = k
    OBVIOUS
  <2>1. CASE k = key /\ r = n
    BY <2>1
  <2>2. CASE k = key /\ r # n
    BY <2>2 DEF DescribesBut
  <2>3. CASE k # key
    BY <2>3 DEF DescribesBut
  <2> QED BY <2>1, <2>2, <2>3
<1>5. ASSUME NEW r \in 0..(Len(rs) - 1)
      PROVE  Found(f, KeyOf(i, rs[r + 1]), r)
  <2>1. CASE r = n
    BY <2>1 DEF Found
  <2>2. CASE r # n
    <3> DEFINE k == KeyOf(i, rs[r + 1])
    <3>1. k \in DOMAIN m /\ r \in Range(m[k])
      BY <2>2 DEF DescribesBut, Found
    <3> HIDE DEF k
    <3>2. k \in DOMAIN f /\ r \in Range(f[k])
      BY <3>1
    <3> QED BY <3>2 DEF Found, k
  <2> QED BY <2>1, <2>2
<1> QED BY <1>1, <1>2, <1>3, <1>4, <1>5 DEF Describes

\* push_back of a number that is not there.
LEMMA AppendVector ==
  ASSUME NEW v \in Seq(Nat), IsInjective(v), NEW n \in Nat, n \notin Range(v)
  PROVE  /\ Append(v, n) \in Seq(Nat) /\ IsInjective(Append(v, n))
         /\ Range(Append(v, n)) = Range(v) \cup {n}
<1> DEFINE w == Append(v, n)
<1>1. /\ w \in Seq(Nat) /\ DOMAIN w = 1..(Len(v) + 1) /\ DOMAIN v = 1..Len(v)
      /\ Len(v) \in Nat
      /\ \A j \in 1..Len(v) : w[j] = v[j]
      /\ w[Len(v) + 1] = n
  OBVIOUS
<1> HIDE DEF w
<1>2. IsInjective(w)
  BY <1>1, SMTT(30) DEF IsInjective, Range
<1>3. ASSUME NEW j \in DOMAIN w PROVE w[j] \in Range(v) \cup {n}
  BY <1>1 DEF Range
<1>4. ASSUME NEW j \in DOMAIN v PROVE v[j] \in Range(w)
  BY <1>1 DEF Range
<1>5. n \in Range(w)
  BY <1>1 DEF Range
<1>6. Range(w) = Range(v) \cup {n}
  BY <1>3, <1>4, <1>5 DEF Range
<1> QED BY <1>1, <1>2, <1>6 DEF w

\* NotifyRowInsert(data, n, false).
LEMMA PushBackLemma ==
  ASSUME NEW i \in Index, NEW m, IsMap(m), NoEmpty(m), NEW R, NEW rs \in Seq(R),
         NEW n \in 0..(Len(rs) - 1), DescribesBut(i, m, rs, n)
  PROVE  LET f == PushBack(m, KeyOf(i, rs[n + 1]), n)
         IN  IsMap(f) /\ Describes(i, f, rs)
<1> DEFINE key == KeyOf(i, rs[n + 1])
           f == PushBack(m, key, n)
           v == Entry(m, key)[key]
<1>1. /\ DOMAIN f = DOMAIN m \cup {key}
      /\ \A k \in DOMAIN m : k # key => f[k] = m[k]
      /\ f[key] = Append(v, n)
  BY DEF PushBack, Entry
<1>2. v = IF key \in DOMAIN m THEN m[key] ELSE <<>>
  BY DEF Entry
<1> HIDE DEF key, f, v
<1>3. v \in Seq(Nat) /\ IsInjective(v)
  BY <1>2 DEF IsMap, DescribesBut, IsInjective
<1>5. Range(v) = IF key \in DOMAIN m THEN Range(m[key]) ELSE {}
  BY <1>2 DEF Range
<1>4. n \notin Range(v) /\ n \in Nat
  <2>1. n \in Nat
    OBVIOUS
  <2>2. n \notin Range(v)
    BY <1>5 DEF DescribesBut
  <2> QED BY <2>1, <2>2
<1>6. /\ f[key] \in Seq(Nat) /\ IsInjective(f[key])
      /\ Range(f[key]) = Range(v) \cup {n}
  BY <1>1, <1>3, <1>4, AppendVector
<1>7. \A k \in DOMAIN m : k # key => m[k] # <<>>
  BY DEF NoEmpty
<1>8. key = KeyOf(i, rs[n + 1])
  BY DEF key
<1>9. IsMap(f) /\ Describes(i, f, rs)
  BY <1>1, <1>5, <1>6, <1>7, <1>8, ListRowLemma
<1> QED BY <1>9 DEF f, key

\* Which row holds which cells does not matter for the row left out.
LEMMA ReplaceLemma ==
  ASSUME NEW i \in Index, NEW m, IsMap(m), NEW R, NEW rs \in Seq(R), NEW row \in R,
         NEW n \in 0..(Len(rs) - 1), DescribesBut(i, m, rs, n)
  PROVE  DescribesBut(i, m, [rs EXCEPT ![n + 1] = row], n)
<1> DEFINE qs == [rs EXCEPT ![n + 1] = row]
<1>1. qs \in Seq(R) /\ Len(qs) = Len(rs)
  OBVIOUS
<1>2. \A r \in 0..(Len(rs) - 1) : r # n => qs[r + 1] = rs[r + 1]
  OBVIOUS
<1>3. \A k \in DOMAIN m : Range(m[k]) \subseteq Nat
  BY DEF IsMap, Range
<1> HIDE DEF qs
<1>4. \A k \in DOMAIN m : \A r \in Range(m[k]) :
         r # n /\ r < Len(qs) /\ KeyOf(i, qs[r + 1]) = k
  <2> SUFFICES ASSUME NEW k \in DOMAIN m, NEW r \in Range(m[k])
               PROVE  r # n /\ r < Len(qs) /\ KeyOf(i, qs[r + 1]) = k
    OBVIOUS
  <2>1. r # n /\ r < Len(rs) /\ KeyOf(i, rs[r + 1]) = k /\ r \in Nat
    BY <1>3 DEF DescribesBut
  <2>2. qs[r + 1] = rs[r + 1]
    BY <1>2, <2>1
  <2> QED BY <1>1, <2>1, <2>2
<1>5. \A r \in 0..(Len(qs) - 1) : r # n => Found(m, KeyOf(i, qs[r + 1]), r)
  BY <1>1, <1>2 DEF DescribesBut
<1>6. DescribesBut(i, m, qs, n)
  BY <1>4, <1>5 DEF DescribesBut
<1> QED BY <1>6 DEF qs

\* A row put behind the others is one the index does not list yet.
LEMMA AppendLemma ==
  ASSUME NEW i \in Index, NEW m, IsMap(m), NEW R, NEW rs \in Seq(R), NEW row \in R,
         Describes(i, m, rs)
  PROVE  NoEmpty(m) /\ DescribesBut(i, m, Append(rs, row), Len(rs))
<1> DEFINE qs == Append(rs, row)
<1>1. qs \in Seq(R) /\ Len(qs) = Len(rs) + 1 /\ Len(rs) \in Nat
  OBVIOUS
<1>2. \A r \in 0..(Len(rs) - 1) : qs[r + 1] = rs[r + 1]
  OBVIOUS
<1>3. \A k \in DOMAIN m : Range(m[k]) \subseteq Nat
  BY DEF IsMap, Range
<1> HIDE DEF qs
<1>4. \A k \in DOMAIN m : \A r \in Range(m[k]) :
         r # Len(rs) /\ r < Len(qs) /\ KeyOf(i, qs[r + 1]) = k
  <2> SUFFICES ASSUME NEW k \in DOMAIN m, NEW r \in Range(m[k])
               PROVE  r # Len(rs) /\ r < Len(qs) /\ KeyOf(i, qs[r + 1]) = k
    OBVIOUS
  <2>1. r < Len(rs) /\ KeyOf(i, rs[r + 1]) = k /\ r \in Nat
    BY <1>3 DEF Describes
  <2>2. qs[r + 1] = rs[r + 1]
    BY <1>1, <1>2, <2>1
  <2> QED BY <1>1, <2>1, <2>2
<1>5. ASSUME NEW r \in 0..(Len(qs) - 1), r # Len(rs)
      PROVE  Found(m, KeyOf(i, qs[r + 1]), r)
  <2>1. r \in 0..(Len(rs) - 1)
    BY <1>1, <1>5
  <2> QED BY <1>2, <2>1 DEF Describes
<1>6. DescribesBut(i, m, qs, Len(rs))
  BY <1>4, <1>5 DEF DescribesBut, Describes
<1> QED BY <1>6 DEF qs, NoEmpty, Describes

\* The renumbering loop of NotifyRowDelete.
LEMMA DecAllLemma ==
  ASSUME NEW i \in Index, NEW m, IsMap(m), NoEmpty(m), NEW R, NEW rs \in Seq(R),
         NEW n \in 0..(Len(rs) - 1), DescribesBut(i, m, rs, n),
         AllPartitioned(m, n), NEW f \in DecAll(m, n)
  PROVE  /\ IsMap(f) /\ Describes(i, f, RemoveAt(rs, n + 1))
         /\ (\A k \in DOMAIN m : Ascending(m[k])) => \A k \in DOMAIN f : Ascending(f[k])
<1> DEFINE qs == RemoveAt(rs, n + 1)
           new(x) == IF x > n THEN x - 1 ELSE x
<1>1. PICK p \in [DOMAIN m -> 1..(MaxRows + 2)] :
         /\ \A k \in DOMAIN m : p[k] \in LowerBound(m[k], n)
         /\ f = [k \in DOMAIN m |-> DecFrom(m[k], p[k])]
  BY DEF DecAll
<1>2. /\ qs \in Seq(R) /\ Len(qs) = Len(rs) - 1 /\ Len(rs) \in Nat /\ n \in Nat
      /\ \A r \in 0..(Len(qs) - 1) : qs[r + 1] = IF r < n THEN rs[r + 1] ELSE rs[r + 2]
  <2>1. n + 1 \in 1..Len(rs) /\ Len(rs) \in Nat
    OBVIOUS
  <2> HIDE DEF qs
  <2>2. /\ qs \in Seq(R) /\ Len(qs) = Len(rs) - 1
        /\ \A j \in 1..(Len(rs) - 1) : qs[j] = IF j < n + 1 THEN rs[j] ELSE rs[j + 1]
    BY <2>1, RemoveAtLemma DEF qs
  <2> QED BY <2>1, <2>2
<1> HIDE DEF qs
<1>3. DOMAIN f = DOMAIN m
  BY <1>1
<1>4. ASSUME NEW k \in DOMAIN m
      PROVE  /\ m[k] \in Seq(Nat) /\ DOMAIN f[k] = DOMAIN m[k]
             /\ \A j \in DOMAIN m[k] : m[k][j] \in Nat /\ m[k][j] # n /\ f[k][j] = new(m[k][j])
  <2>1. m[k] \in Seq(Nat) /\ Partitioned(m[k], n)
    BY DEF IsMap, AllPartitioned
  <2>2. \A j \in DOMAIN m[k] : j >= p[k] <=> m[k][j] >= n
    BY <1>1, <1>2, <2>1, LowerBoundLemma
  <2>3. \A j \in DOMAIN m[k] : m[k][j] \in Nat /\ m[k][j] # n
    <3>1. \A j \in DOMAIN m[k] : m[k][j] \in Nat
      BY <2>1
    <3>2. \A j \in DOMAIN m[k] : m[k][j] \in Range(m[k])
      BY DEF Range
    <3>3. \A r \in Range(m[k]) : r # n
      BY DEF DescribesBut
    <3> QED BY <3>1, <3>2, <3>3
  <2>4. f[k] = [j \in DOMAIN m[k] |-> IF j >= p[k] THEN SizeDec(m[k][j]) ELSE m[k][j]]
    BY <1>1 DEF DecFrom
  <2> QED BY <1>2, <2>1, <2>2, <2>3, <2>4 DEF SizeDec
<1>5. \A k \in DOMAIN m : \A j \in DOMAIN m[k] :
         /\ m[k][j] < Len(rs) /\ KeyOf(i, rs[m[k][j] + 1]) = k
  BY DEF DescribesBut, Range
<1>i. \A x, y \in Nat : x # n /\ y # n /\ new(x) = new(y) => x = y
  BY <1>2
<1>6. \A x, y \in Nat : x # n /\ y # n => /\ x <= y => new(x) <= new(y)
                                      /\ new(x) \in Nat
  BY <1>2
<1>7. \A x \in Nat : x # n /\ x < Len(rs) =>
         /\ new(x) \in 0..(Len(qs) - 1)
         /\ qs[new(x) + 1] = rs[x + 1]
  <2> SUFFICES ASSUME NEW x \in Nat, x # n, x < Len(rs)
               PROVE  new(x) \in 0..(Len(qs) - 1) /\ qs[new(x) + 1] = rs[x + 1]
    OBVIOUS
  <2>1. CASE x < n
    <3>1. new(x) = x /\ x \in 0..(Len(qs) - 1)
      BY <1>2, <2>1
    <3> QED BY <1>2, <2>1, <3>1
  <2>2. CASE x > n
    <3>1. new(x) = x - 1 /\ x - 1 \in 0..(Len(qs) - 1) /\ ~(x - 1 < n)
      BY <1>2, <2>2
    <3>2. qs[(x - 1) + 1] = rs[(x - 1) + 2]
      BY <1>2, <3>1
    <3>3. (x - 1) + 2 = x + 1
      OBVIOUS
    <3> QED BY <3>1, <3>2, <3>3
  <2> QED BY <1>2, <2>1, <2>2
<1>8. \A r \in 0..(Len(qs) - 1) : \E x \in 0..(Len(rs) - 1) : x # n /\ new(x) = r
  <2> SUFFICES ASSUME NEW r \in 0..(Len(qs) - 1)
               PROVE  \E x \in 0..(Len(rs) - 1) : x # n /\ new(x) = r
    OBVIOUS
  <2>1. CASE r < n
    <3>1. r \in 0..(Len(rs) - 1) /\ r # n /\ new(r) = r
      BY <1>2, <2>1
    <3> QED BY <3>1
  <2>2. CASE r >= n
    <3>1. r + 1 \in 0..(Len(rs) - 1) /\ r + 1 # n /\ new(r + 1) = r
      BY <1>2, <2>2
    <3> QED BY <3>1
  <2> QED BY <1>2, <2>1, <2>2
<1> HIDE DEF new
<1>9. ASSUME NEW k \in DOMAIN m
      PROVE  f[k] \in Seq(Nat) /\ f[k] # <<>> /\ IsInjective(f[k])
  <2>1. DOMAIN m[k] = 1..Len(m[k]) /\ Len(m[k]) \in Nat /\ Len(m[k]) # 0
    <3>1. m[k] \in Seq(Nat) /\ m[k] # <<>>
      BY <1>4 DEF NoEmpty
    <3> QED BY <3>1
  <2>2. f[k] = [j \in 1..Len(m[k]) |-> new(m[k][j])]
    <3>1. f[k] = DecFrom(m[k], p[k])
      BY <1>1
    <3>2. f[k] = [j \in DOMAIN m[k] |-> f[k][j]]
      BY <3>1 DEF DecFrom
    <3> QED BY <1>4, <2>1, <3>2
  <2>3. \A j \in 1..Len(m[k]) : new(m[k][j]) \in Nat
    BY <1>4, <1>6, <2>1
  <2>4. f[k] \in Seq(Nat)
    BY <2>1, <2>2, <2>3
  <2>5. f[k] # <<>>
    <3>1. 1 \in DOMAIN f[k]
      BY <2>1, <2>2
    <3> QED BY <3>1
  <2>6. ASSUME NEW a \in DOMAIN f[k], NEW b \in DOMAIN f[k], f[k][a] = f[k][b]
        PROVE  a = b
    <3>1. new(m[k][a]) = new(m[k][b])
      BY <1>4, <2>6
    <3>2. m[k][a] \in Nat /\ m[k][a] # n /\ m[k][b] \in Nat /\ m[k][b] # n
      BY <1>4
    <3>3. m[k][a] = m[k][b]
      BY <1>i, <3>1, <3>2
    <3> QED BY <1>4, <3>3 DEF DescribesBut, IsInjective
  <2> QED BY <2>4, <2>5, <2>6 DEF IsInjective
<1>10. ASSUME NEW k \in DOMAIN f, NEW r \in Range(f[k])
       PROVE  r < Len(qs) /\ KeyOf(i, qs[r + 1]) = k
  <2>1. PICK j \in DOMAIN m[k] : r = new(m[k][j])
    BY <1>3, <1>4 DEF Range
  <2>2. m[k][j] \in Nat /\ m[k][j] # n /\ m[k][j] < Len(rs) /\ KeyOf(i, rs[m[k][j] + 1]) = k
    BY <1>3, <1>4, <1>5
  <2>3. r \in 0..(Len(qs) - 1) /\ qs[r + 1] = rs[m[k][j] + 1]
    BY <1>7, <2>1, <2>2
  <2> QED BY <1>2, <2>2, <2>3
<1>11. ASSUME NEW r \in 0..(Len(qs) - 1)
       PROVE  Found(f, KeyOf(i, qs[r + 1]), r)
  <2>1. PICK x \in 0..(Len(rs) - 1) : x # n /\ new(x) = r
    BY <1>8
  <2>2. Found(m, KeyOf(i, rs[x + 1]), x)
    BY <2>1 DEF DescribesBut
  <2>3. qs[r + 1] = rs[x + 1]
    <3>1. x \in Nat /\ x < Len(rs)
      BY <1>2
    <3> QED BY <1>7, <2>1, <3>1
  <2> DEFINE k == KeyOf(i, rs[x + 1])
  <2> HIDE DEF k
  <2>4. k \in DOMAIN m /\ x \in Range(m[k])
    BY <2>2 DEF Found, k
  <2>5. PICK j \in DOMAIN m[k] : m[k][j] = x
    BY <2>4 DEF Range
  <2>6. j \in DOMAIN f[k] /\ f[k][j] = r
    BY <1>4, <2>1, <2>4, <2>5
  <2>7. k \in DOMAIN f /\ r \in Range(f[k])
    BY <1>3, <2>4, <2>6 DEF Range
  <2> QED BY <2>3, <2>7 DEF Found, k
<1>12. (\A k \in DOMAIN m : Ascending(m[k])) => \A k \in DOMAIN f : Ascending(f[k])
  BY <1>3, <1>4, <1>6 DEF Ascending
<1>13. IsMap(f) /\ Describes(i, f, qs)
  BY <1>3, <1>9, <1>10, <1>11 DEF IsMap, Describes
<1> QED BY <1>12, <1>13 DEF qs

\* The renumbering loop of NotifyRowInsert.
LEMMA IncAllLemma ==
  ASSUME NEW i \in Index, NEW m, IsMap(m), NEW R, NEW rs \in Seq(R), NEW row \in R,
         NEW n \in 0..(Len(rs) - 1), DescribesBut(i, m, rs, Len(rs)),
         Len(rs) <= SizeMax, AllPartitioned(m, n), NEW f \in IncAll(m, n)
  PROVE  /\ IsMap(f) /\ DOMAIN f = DOMAIN m
         /\ \A k \in DOMAIN m : DOMAIN f[k] = DOMAIN m[k]
         /\ DescribesBut(i, f, InsertAt(rs, n + 1, row), n)
         /\ \A k \in DOMAIN m : Ascending(m[k]) => Ascending(f[k])
<1> DEFINE qs == InsertAt(rs, n + 1, row)
           new(x) == IF x >= n THEN x + 1 ELSE x
<1>1. PICK p \in [DOMAIN m -> 1..(MaxRows + 2)] :
         /\ \A k \in DOMAIN m : p[k] \in LowerBound(m[k], n)
         /\ f = [k \in DOMAIN m |-> IncFrom(m[k], p[k])]
  BY DEF IncAll
<1>2. /\ qs \in Seq(R) /\ Len(qs) = Len(rs) + 1 /\ Len(rs) \in Nat /\ n \in Nat
      /\ \A r \in 0..(Len(qs) - 1) : r # n => qs[r + 1] = IF r < n THEN rs[r + 1] ELSE rs[r]
  <2>1. n + 1 \in 1..Len(rs) /\ Len(rs) \in Nat
    OBVIOUS
  <2> HIDE DEF qs
  <2>2. /\ qs \in Seq(R) /\ Len(qs) = Len(rs) + 1
        /\ \A j \in 1..(Len(rs) + 1) : qs[j] = IF j < n + 1 THEN rs[j]
                                              ELSE IF j = n + 1 THEN row ELSE rs[j - 1]
    BY <2>1, InsertAtLemma DEF qs
  <2> QED BY <2>1, <2>2
<1> HIDE DEF qs
<1>3. DOMAIN f = DOMAIN m
  BY <1>1
<1>5. \A k \in DOMAIN m : \A j \in DOMAIN m[k] :
         /\ m[k][j] \in Nat /\ m[k][j] < Len(rs) /\ KeyOf(i, rs[m[k][j] + 1]) = k
  <2>1. \A k \in DOMAIN m : \A j \in DOMAIN m[k] : m[k][j] \in Nat /\ m[k][j] \in Range(m[k])
    BY DEF IsMap, Range
  <2> QED BY <2>1 DEF DescribesBut
<1>4. ASSUME NEW k \in DOMAIN m
      PROVE  /\ m[k] \in Seq(Nat) /\ DOMAIN f[k] = DOMAIN m[k]
             /\ \A j \in DOMAIN m[k] : f[k][j] = new(m[k][j])
  <2>1. m[k] \in Seq(Nat) /\ Partitioned(m[k], n)
    BY DEF IsMap, AllPartitioned
  <2>2. \A j \in DOMAIN m[k] : j >= p[k] <=> m[k][j] >= n
    BY <1>1, <1>2, <2>1, LowerBoundLemma
  <2>3. \A j \in DOMAIN m[k] : m[k][j] \in Nat /\ m[k][j] # SizeMax
    BY <1>2, <1>5, BoundAssumption
  <2>4. f[k] = [j \in DOMAIN m[k] |-> IF j >= p[k] THEN SizeInc(m[k][j]) ELSE m[k][j]]
    BY <1>1 DEF IncFrom
  <2> QED BY <1>2, <2>1, <2>2, <2>3, <2>4 DEF SizeInc
<1>i. \A x, y \in Nat : new(x) = new(y) => x = y
  BY <1>2
<1>6. \A x, y \in Nat : (x <= y => new(x) <= new(y)) /\ new(x) \in Nat
  BY <1>2
<1>7. \A x \in Nat : x < Len(rs) =>
         new(x) # n /\ new(x) < Len(qs) /\ qs[new(x) + 1] = rs[x + 1]
  <2> SUFFICES ASSUME NEW x \in Nat, x < Len(rs)
               PROVE  new(x) # n /\ new(x) < Len(qs) /\ qs[new(x) + 1] = rs[x + 1]
    OBVIOUS
  <2>1. CASE x < n
    <3>1. new(x) = x /\ x \in 0..(Len(qs) - 1) /\ x # n
      BY <1>2, <2>1
    <3> QED BY <1>2, <2>1, <3>1
  <2>2. CASE x >= n
    <3>1. new(x) = x + 1 /\ x + 1 \in 0..(Len(qs) - 1) /\ ~(x + 1 < n) /\ x + 1 # n
      BY <1>2, <2>2
    <3>2. qs[(x + 1) + 1] = rs[x + 1]
      BY <1>2, <3>1
    <3> QED BY <1>2, <3>1, <3>2
  <2> QED BY <1>2, <2>1, <2>2
<1>8. \A r \in 0..(Len(qs) - 1) : r # n => \E x \in 0..(Len(rs) - 1) : new(x) = r
  <2> SUFFICES ASSUME NEW r \in 0..(Len(qs) - 1), r # n
               PROVE  \E x \in 0..(Len(rs) - 1) : new(x) = r
    OBVIOUS
  <2>1. CASE r < n
    <3>1. r \in 0..(Len(rs) - 1) /\ new(r) = r
      BY <1>2, <2>1
    <3> QED BY <3>1
  <2>2. CASE r > n
    <3>1. r - 1 \in 0..(Len(rs) - 1) /\ new(r - 1) = r
      BY <1>2, <2>2
    <3> QED BY <3>1
  <2> QED BY <1>2, <2>1, <2>2
<1> HIDE DEF new
<1>9. ASSUME NEW k \in DOMAIN m
      PROVE  f[k] \in Seq(Nat) /\ IsInjective(f[k])
  <2>1. DOMAIN m[k] = 1..Len(m[k]) /\ Len(m[k]) \in Nat
    BY <1>4
  <2>2. f[k] = [j \in 1..Len(m[k]) |-> new(m[k][j])]
    <3>1. f[k] = IncFrom(m[k], p[k])
      BY <1>1
    <3>2. f[k] = [j \in DOMAIN m[k] |-> f[k][j]]
      BY <3>1 DEF IncFrom
    <3> QED BY <1>4, <2>1, <3>2
  <2>3. \A j \in 1..Len(m[k]) : new(m[k][j]) \in Nat
    BY <1>5, <1>6, <2>1
  <2>4. f[k] \in Seq(Nat)
    BY <2>1, <2>2, <2>3
  <2>6. ASSUME NEW a \in DOMAIN f[k], NEW b \in DOMAIN f[k], f[k][a] = f[k][b]
        PROVE  a = b
    <3>1. new(m[k][a]) = new(m[k][b])
      BY <1>4, <2>6
    <3>2. m[k][a] \in Nat /\ m[k][b] \in Nat
      BY <1>4, <1>5
    <3>3. m[k][a] = m[k][b]
      BY <1>i, <3>1, <3>2
    <3> QED BY <1>4, <3>3 DEF DescribesBut, IsInjective
  <2> QED BY <2>4, <2>6 DEF IsInjective
<1>10. ASSUME NEW k \in DOMAIN f, NEW r \in Range(f[k])
       PROVE  r # n /\ r < Len(qs) /\ KeyOf(i, qs[r + 1]) = k
  <2>1. PICK j \in DOMAIN m[k] : r = new(m[k][j])
    BY <1>3, <1>4 DEF Range
  <2>2. m[k][j] \in Nat /\ m[k][j] < Len(rs) /\ KeyOf(i, rs[m[k][j] + 1]) = k
    BY <1>3, <1>5
  <2>3. r # n /\ r < Len(qs) /\ qs[r + 1] = rs[m[k][j] + 1]
    BY <1>7, <2>1, <2>2
  <2> QED BY <2>2, <2>3
<1>11. ASSUME NEW r \in 0..(Len(qs) - 1), r # n
       PROVE  Found(f, KeyOf(i, qs[r + 1]), r)
  <2>1. PICK x \in 0..(Len(rs) - 1) : new(x) = r
    BY <1>8, <1>11
  <2>0. x \in Nat /\ x < Len(rs) /\ x # Len(rs)
    BY <1>2
  <2>2. Found(m, KeyOf(i, rs[x + 1]), x)
    BY <2>0 DEF DescribesBut
  <2>3. qs[r + 1] = rs[x + 1]
    BY <1>7, <2>0, <2>1
  <2> DEFINE k == KeyOf(i, rs[x + 1])
  <2> HIDE DEF k
  <2>4. k \in DOMAIN m /\ x \in Range(m[k])
    BY <2>2 DEF Found, k
  <2>5. PICK j \in DOMAIN m[k] : m[k][j] = x
    BY <2>4 DEF Range
  <2>6. j \in DOMAIN f[k] /\ f[k][j] = r
    BY <1>4, <2>1, <2>4, <2>5
  <2>7. k \in DOMAIN f /\ r \in Range(f[k])
    BY <1>3, <2>4, <2>6 DEF Range
  <2> QED BY <2>3, <2>7 DEF Found, k
<1>12. ASSUME NEW k \in DOMAIN m, Ascending(m[k]) PROVE Ascending(f[k])
  <2>1. ASSUME NEW a \in DOMAIN f[k], NEW b \in DOMAIN f[k], a < b
        PROVE  f[k][a] <= f[k][b]
    <3>1. m[k][a] \in Nat /\ m[k][b] \in Nat /\ m[k][a] <= m[k][b]
      BY <1>4, <1>5, <1>12, <2>1 DEF Ascending
    <3>2. new(m[k][a]) <= new(m[k][b])
      BY <1>6, <3>1
    <3>3. f[k][a] = new(m[k][a]) /\ f[k][b] = new(m[k][b])
      BY <1>4
    <3> QED BY <3>2, <3>3
  <2> QED BY <2>1 DEF Ascending
<1>13. IsMap(f)
  BY <1>3, <1>9 DEF IsMap
<1>14. DescribesBut(i, f, qs, n)
  BY <1>3, <1>9, <1>10, <1>11 DEF DescribesBut
<1> QED BY <1>3, <1>4, <1>12, <1>13, <1>14 DEF qs

\* NotifyRowInsert(data, n, true).
LEMMA RowInsertedLemma ==
  ASSUME NEW i \in Index, NEW m, IsMap(m), NEW R, NEW rs \in Seq(R), NEW row \in R,
         NEW n \in 0..(Len(rs) - 1), Describes(i, m, rs),
         Len(rs) <= SizeMax, AllPartitioned(m, n),
         NEW f \in RowInserted(m, KeyOf(i, row), n)
  PROVE  /\ IsMap(f) /\ Describes(i, f, InsertAt(rs, n + 1, row))
         /\ (\A k \in DOMAIN m : Ascending(m[k])) => \A k \in DOMAIN f : Ascending(f[k])
<1> DEFINE key == KeyOf(i, row)
           e == Entry(m, key)
           qs == InsertAt(rs, n + 1, row)
<1>0. NoEmpty(m) /\ DescribesBut(i, m, rs, Len(rs))
  BY DescribesSplit
<1>1. PICK s \in IncAll(e, n) : \E v \in Sorted(Append(s[key], n)) : f = [s EXCEPT ![key] = v]
  BY DEF RowInserted
<1>2. PICK v \in Sorted(Append(s[key], n)) : f = [s EXCEPT ![key] = v]
  BY <1>1
<1>3. /\ DOMAIN e = DOMAIN m \cup {key}
      /\ \A k \in DOMAIN m : e[k] = m[k]
      /\ key \notin DOMAIN m => e[key] = <<>>
  BY DEF Entry
<1>4. /\ Len(rs) \in Nat /\ n \in Nat /\ Len(qs) = Len(rs) + 1 /\ qs \in Seq(R)
      /\ qs[n + 1] = row
  <2>1. n + 1 \in 1..Len(rs) /\ Len(rs) \in Nat
    OBVIOUS
  <2> HIDE DEF qs
  <2>2. /\ qs \in Seq(R) /\ Len(qs) = Len(rs) + 1
        /\ \A j \in 1..(Len(rs) + 1) : qs[j] = IF j < n + 1 THEN rs[j]
                                              ELSE IF j = n + 1 THEN row ELSE rs[j - 1]
    BY <2>1, InsertAtLemma DEF qs
  <2> QED BY <2>1, <2>2
<1> HIDE DEF key, e, qs
<1>5. IsMap(e) /\ AllPartitioned(e, n)
  <2>1. ASSUME NEW k \in DOMAIN e PROVE e[k] \in Seq(Nat) /\ Partitioned(e[k], n)
    <3>1. CASE k \in DOMAIN m
      BY <1>3, <3>1 DEF IsMap, AllPartitioned
    <3>2. CASE k \notin DOMAIN m
      <4>1. e[k] = <<>>
        BY <1>3, <3>2
      <4>2. <<>> \in Seq(Nat) /\ Partitioned(<<>>, n)
        BY DEF Partitioned
      <4> QED BY <4>1, <4>2
    <3> QED BY <3>1, <3>2
  <2> QED BY <2>1 DEF IsMap, AllPartitioned
<1>6. DescribesBut(i, e, rs, Len(rs))
  <2>1. \A k \in DOMAIN e : k \notin DOMAIN m => Range(e[k]) = {} /\ IsInjective(e[k])
    BY <1>3 DEF Range, IsInjective
  <2> QED BY <1>0, <1>3, <2>1 DEF DescribesBut, Found
<1>7. /\ IsMap(s) /\ DOMAIN s = DOMAIN e
      /\ \A k \in DOMAIN e : DOMAIN s[k] = DOMAIN e[k]
      /\ DescribesBut(i, s, qs, n)
      /\ \A k \in DOMAIN e : Ascending(e[k]) => Ascending(s[k])
  BY <1>5, <1>6, IncAllLemma DEF qs
<1>8. s[key] \in Seq(Nat) /\ IsInjective(s[key]) /\ n \notin Range(s[key])
  BY <1>3, <1>7 DEF IsMap, DescribesBut
<1>9. /\ Append(s[key], n) \in Seq(Nat) /\ IsInjective(Append(s[key], n))
      /\ Range(Append(s[key], n)) = Range(s[key]) \cup {n}
  BY <1>4, <1>8, AppendVector
<1>10. v \in Seq(Nat) /\ IsInjective(v) /\ Range(v) = Range(s[key]) \cup {n} /\ Ascending(v)
  BY <1>9, SortedLemma
<1>11. /\ DOMAIN f = DOMAIN s \cup {key} /\ f[key] = v
       /\ \A k \in DOMAIN s : k # key => f[k] = s[k]
  BY <1>2, <1>3, <1>7
<1>12. \A k \in DOMAIN s : k # key => s[k] # <<>>
  <2> SUFFICES ASSUME NEW k \in DOMAIN s, k # key
               PROVE  s[k] # <<>>
    OBVIOUS
  <2>1. k \in DOMAIN m /\ e[k] \in Seq(Nat) /\ e[k] # <<>>
    BY <1>0, <1>3, <1>7 DEF IsMap, NoEmpty
  <2>2. 1 \in DOMAIN e[k]
    BY <2>1
  <2>3. k \in DOMAIN e
    BY <1>7
  <2>4. 1 \in DOMAIN s[k]
    BY <1>7, <2>2, <2>3
  <2> QED BY <2>4
<1>13. n \in 0..(Len(qs) - 1)
  BY <1>4
<1>14. key = KeyOf(i, qs[n + 1]) /\ key \in DOMAIN s
  BY <1>3, <1>4, <1>7 DEF key
<1>15. IsMap(f) /\ Describes(i, f, qs)
  <2>1. Range(f[key]) = (IF key \in DOMAIN s THEN Range(s[key]) ELSE {}) \cup {n}
    BY <1>10, <1>11, <1>14
  <2>2. f[key] \in Seq(Nat) /\ IsInjective(f[key])
    BY <1>10, <1>11
  <2>3. IsMap(s) /\ DescribesBut(i, s, qs, n) /\ qs \in Seq(R)
    BY <1>4, <1>7
  <2>4. DOMAIN f = DOMAIN s \cup {key} /\ key = KeyOf(i, qs[n + 1])
    BY <1>11, <1>14
  <2> QED BY ONLY <1>11, <1>12, <1>13, <2>1, <2>2, <2>3, <2>4, ListRowLemma, i \in Index
<1>16. (\A k \in DOMAIN m : Ascending(m[k])) => \A k \in DOMAIN f : Ascending(f[k])
  BY <1>3, <1>7, <1>10, <1>11
<1> QED BY <1>15, <1>16 DEF qs

-----------------------------------------------------------------------------
(***************************************************************************)
(* Maps of size_t, also after a misuse of std::lower_bound.                *)
(***************************************************************************)

\* A map of vectors of size_t.
Sized(m) == \A k \in DOMAIN m : m[k] \in Seq(0..SizeMax)

\* Row numbers of a table within its bound fit in a size_t.
LEMMA BoundedSized ==
  ASSUME NEW m, IsMap(m), NEW h \in Nat, h <= SizeMax,
         \A k \in DOMAIN m : \A r \in Range(m[k]) : r < h
  PROVE  Sized(m)
<1> SUFFICES ASSUME NEW k \in DOMAIN m
             PROVE  m[k] \in Seq(0..SizeMax)
  BY DEF Sized
<1>1. m[k] \in Seq(Nat)
  BY DEF IsMap
<1>2. \A j \in DOMAIN m[k] : m[k][j] < h /\ m[k][j] \in Nat
  BY <1>1 DEF Range
<1>3. SizeMax \in Nat
  BY BoundAssumption
<1>4. \A j \in 1..Len(m[k]) : m[k][j] \in 0..SizeMax
  BY <1>1, <1>2, <1>3
<1> DEFINE v == m[k]
<1>5. v \in [1..Len(v) -> Nat] /\ Len(v) \in Nat
  BY <1>1, LenProperties
<1>6. \A j \in 1..Len(v) : v[j] \in 0..SizeMax
  BY <1>4
<1> HIDE DEF v
<1>7. v \in [1..Len(v) -> 0..SizeMax]
  BY <1>5, <1>6
<1>8. v \in Seq(0..SizeMax)
  BY <1>5, <1>7, SeqIntro
<1> QED BY <1>8 DEF v

\* A map of vectors of size_t is a map of vectors of row numbers.
LEMMA SizedIsMap ==
  ASSUME NEW m, Sized(m)
  PROVE  IsMap(m)
<1> SUFFICES ASSUME NEW k \in DOMAIN m
             PROVE  m[k] \in Seq(Nat)
  BY DEF IsMap
<1>1. m[k] \in Seq(0..SizeMax)
  BY DEF Sized
<1>2. 0..SizeMax \subseteq Nat
  BY BoundAssumption
<1> QED BY <1>1, <1>2, SeqMonotonic

\* -- keeps a size_t a size_t, wherever the loop starts.
LEMMA DecAllSized ==
  ASSUME NEW m, Sized(m), NEW n \in Nat, NEW f \in DecAll(m, n)
  PROVE  Sized(f)
<1>1. PICK p : f = [k \in DOMAIN m |-> DecFrom(m[k], p[k])]
  BY DEF DecAll
<1> SUFFICES ASSUME NEW k \in DOMAIN m
             PROVE  f[k] \in Seq(0..SizeMax)
  BY <1>1 DEF Sized
<1>2. m[k] \in Seq(0..SizeMax) /\ SizeMax \in Nat
  BY BoundAssumption DEF Sized
<1>3. \A x \in 0..SizeMax : SizeDec(x) \in 0..SizeMax
  BY <1>2 DEF SizeDec
<1>4. f[k] = [j \in 1..Len(m[k]) |-> IF j >= p[k] THEN SizeDec(m[k][j]) ELSE m[k][j]]
  BY <1>1, <1>2 DEF DecFrom
<1>5. ASSUME NEW j \in 1..Len(m[k])
      PROVE  (IF j >= p[k] THEN SizeDec(m[k][j]) ELSE m[k][j]) \in 0..SizeMax
  <2>1. m[k][j] \in 0..SizeMax
    BY <1>2
  <2>2. SizeDec(m[k][j]) \in 0..SizeMax
    BY <1>3, <2>1
  <2> QED BY <2>1, <2>2
<1> QED BY <1>2, <1>4, <1>5

\* ++ keeps a size_t a size_t, wherever the loop starts.
LEMMA IncAllSized ==
  ASSUME NEW m, Sized(m), NEW n \in Nat, NEW f \in IncAll(m, n)
  PROVE  Sized(f) /\ DOMAIN f = DOMAIN m
<1>1. PICK p : f = [k \in DOMAIN m |-> IncFrom(m[k], p[k])]
  BY DEF IncAll
<1>0. DOMAIN f = DOMAIN m
  BY <1>1
<1> SUFFICES ASSUME NEW k \in DOMAIN m
             PROVE  f[k] \in Seq(0..SizeMax)
  BY <1>0, <1>1 DEF Sized
<1>2. m[k] \in Seq(0..SizeMax) /\ SizeMax \in Nat
  BY BoundAssumption DEF Sized
<1>3. \A x \in 0..SizeMax : SizeInc(x) \in 0..SizeMax
  BY <1>2 DEF SizeInc
<1>4. f[k] = [j \in 1..Len(m[k]) |-> IF j >= p[k] THEN SizeInc(m[k][j]) ELSE m[k][j]]
  BY <1>1, <1>2 DEF IncFrom
<1>5. ASSUME NEW j \in 1..Len(m[k])
      PROVE  (IF j >= p[k] THEN SizeInc(m[k][j]) ELSE m[k][j]) \in 0..SizeMax
  <2>1. m[k][j] \in 0..SizeMax
    BY <1>2
  <2>2. SizeInc(m[k][j]) \in 0..SizeMax
    BY <1>3, <2>1
  <2> QED BY <2>1, <2>2
<1> QED BY <1>2, <1>4, <1>5

\* NotifyRowInsert(data, n, true) leaves vectors of size_t.
LEMMA RowInsertedSized ==
  ASSUME NEW m, Sized(m), NEW key, NEW n \in 0..SizeMax, NEW f \in RowInserted(m, key, n)
  PROVE  Sized(f)
<1> DEFINE e == Entry(m, key)
<1>1. PICK s \in IncAll(e, n) : \E v \in Sorted(Append(s[key], n)) : f = [s EXCEPT ![key] = v]
  BY DEF RowInserted
<1>2. PICK v \in Sorted(Append(s[key], n)) : f = [s EXCEPT ![key] = v]
  BY <1>1
<1>3. DOMAIN e = DOMAIN m \cup {key} /\ \A k \in DOMAIN e : e[k] = IF k \in DOMAIN m THEN m[k] ELSE <<>>
  BY DEF Entry
<1> HIDE DEF e
<1>4. Sized(e)
  <2>1. <<>> \in Seq(0..SizeMax)
    BY EmptySeq
  <2> QED BY <1>3, <2>1 DEF Sized
<1>5. n \in Nat
  BY BoundAssumption
<1>6. Sized(s) /\ key \in DOMAIN s
  BY <1>3, <1>4, <1>5, IncAllSized
<1>7. Append(s[key], n) \in Seq(0..SizeMax)
  BY <1>6 DEF Sized
<1> DEFINE w == Append(s[key], n)
<1> HIDE DEF w
<1>8. v \in [DOMAIN w -> Range(w)]
  BY DEF Sorted, w
<1>9. w \in [1..Len(w) -> 0..SizeMax] /\ DOMAIN w = 1..Len(w) /\ Len(w) \in Nat
  BY <1>7, LenProperties DEF w
<1>10. Range(w) \subseteq 0..SizeMax
  BY <1>9 DEF Range
<1>12. v \in [1..Len(w) -> 0..SizeMax]
  BY <1>8, <1>9, <1>10
<1>13. v \in Seq(0..SizeMax)
  BY <1>9, <1>12, SeqIntro
<1> QED BY <1>2, <1>6, <1>13 DEF Sized

\* std::find finds a row number that is in the vector.
LEMMA FindLemma ==
  ASSUME NEW v, NEW S, v \in Seq(S), NEW n \in Range(v)
  PROVE  Find(v, n) \in 1..Len(v)
<1> DEFINE T == {j \in DOMAIN v : v[j] = n}
<1>1. T \subseteq Nat /\ T # {} /\ T \subseteq 1..Len(v)
  BY DEF Range
<1> HIDE DEF T
<1> DEFINE L == OpToRel(<, Nat)
<1>a. L = {ss \in Nat \X Nat : ss[1] < ss[2]}
  BY Zenon DEF OpToRel
<1>b. IsWellFoundedOn(L, Nat)
  BY NatLessThanWellFounded
<1> HIDE DEF L
<1>2. PICK x \in T : \A y \in T : ~(<<y, x>> \in L)
  BY <1>1, <1>b, WFMin
<1>c. \A a, b \in Nat : a < b => <<a, b>> \in L
  BY <1>a
<1>3. ASSUME NEW y \in T PROVE x <= y
  <2>1. x \in Nat /\ y \in Nat
    BY <1>1
  <2>2. ~(y < x)
    BY <1>2, <1>c, <2>1
  <2> QED BY <2>1, <2>2
<1>4. Find(v, n) \in T
  BY <1>2, <1>3 DEF Find, Min, T
<1> QED BY <1>1, <1>4

\* NotifyRowDelete before renumbering leaves vectors of size_t, exact or not.
LEMMA EraseRowSized ==
  ASSUME NEW m, Sized(m), NEW key, NEW n, Found(m, key, n)
  PROVE  Sized(EraseRow(m, key, n))
<1> DEFINE w == RemoveAt(m[key], Find(m[key], n))
<1>1. m[key] \in Seq(0..SizeMax) /\ key \in DOMAIN m /\ n \in Range(m[key])
  BY DEF Sized, Found
<1>2. Find(m[key], n) \in 1..Len(m[key])
  BY <1>1, FindLemma
<1>3. w \in Seq(0..SizeMax)
  BY <1>1, <1>2, RemoveAtLemma
<1>4. EraseRow(m, key, n) =
         IF w = <<>> THEN [x \in DOMAIN m \ {key} |-> m[x]] ELSE [m EXCEPT ![key] = w]
  BY DEF EraseRow
<1> HIDE DEF w
<1> QED BY <1>3, <1>4 DEF Sized

\* NotifyRowInsert(data, n, false) leaves vectors of size_t, exact or not.
LEMMA PushBackSized ==
  ASSUME NEW m, Sized(m), NEW key, NEW n \in 0..SizeMax
  PROVE  Sized(PushBack(m, key, n))
<1> DEFINE f == PushBack(m, key, n)
           v == IF key \in DOMAIN m THEN m[key] ELSE <<>>
<1>1. /\ DOMAIN f = DOMAIN m \cup {key}
      /\ \A k \in DOMAIN m : k # key => f[k] = m[k]
      /\ f[key] = Append(v, n)
  BY DEF PushBack, Entry
<1>2. v \in Seq(0..SizeMax)
  BY EmptySeq DEF Sized
<1> HIDE DEF f, v
<1>3. f[key] \in Seq(0..SizeMax)
  BY <1>1, <1>2
<1>4. Sized(f)
  BY <1>1, <1>3 DEF Sized
<1> QED BY <1>4 DEF f

-----------------------------------------------------------------------------
(***************************************************************************)
(* The inductive invariant.  An assertion of NotifyRowDelete fails in no    *)
(* exact index, so it needs IndexExact, which needs the vectors of an      *)
(* index that was not misled to be partitioned; that one is misled only    *)
(* after a Set method needs the other vectors ascending; ReferSound says   *)
(* that the rows have the columns the indexes read;        *)
(* and ++ stays within size_t because the table is bounded.                *)
(***************************************************************************)

\* The bound on the height.
Bounded == Height <= MaxRows

\* The inductive invariant.
IInv ==
    /\ TypeOK
    /\ Bounded
    /\ IndexExact
    /\ DisorderOnlyFromSet
    /\ NotifyAssertsFailOnlyIfMisled
    /\ ReferSound

\* The cells of a row have the declared types.
WellTyped(row) == \A c \in 1..width : TypeOf[row[c]] = ColumnType[c]

\* Every vector of the map is in ascending order.
Ordered(m) == \A k \in DOMAIN m : Ascending(m[k])

\* What the invariant says of an index that is subscribed.
LEMMA SubscribedFacts ==
  ASSUME IInv, NEW i \in subscribed
  PROVE  /\ i \in Index
         /\ Sized(map[i]) /\ IsMap(map[i])
         /\ i \notin misled => Describes(i, map[i], rows)
         /\ ~reset[i] => Ordered(map[i]) /\ i \notin misled
         /\ rows \in Seq(Row) /\ Len(rows) \in Nat /\ Len(rows) <= SizeMax
         /\ alive /\ \A c \in Range(IndexColumns[i]) : c <= width
<1>1. i \in Index
  BY DEF IInv, TypeOK
<1>2. Sized(map[i])
  BY <1>1 DEF IInv, TypeOK, Sized
<1>3. IsMap(map[i])
  BY <1>2, SizedIsMap
<1>4. i \notin misled => Describes(i, map[i], rows)
  BY DEF IInv, IndexExact
<1>5. ~reset[i] => Ordered(map[i]) /\ i \notin misled
  BY DEF IInv, DisorderOnlyFromSet, Ordered
<1>6. rows \in Seq(Row) /\ Len(rows) \in Nat
  BY DEF IInv, TypeOK
<1>7. Len(rows) <= SizeMax
  BY <1>6, BoundAssumption DEF IInv, Bounded, Height
<1>8. alive /\ \A c \in Range(IndexColumns[i]) : c <= width
  BY DEF IInv, ReferSound
<1> QED BY <1>1, <1>2, <1>3, <1>4, <1>5, <1>6, <1>7, <1>8

\* What a step that changes rows, and neither columns nor subscriptions, has
\* to give for the invariant to hold after it.
LEMMA RowStep ==
  ASSUME IInv, Running,
         UNCHANGED <<alive, width, subscribed, refer, fault>>,
         rows' \in Seq(Row), Len(rows') <= MaxRows,
         \A r \in DOMAIN rows' : WellTyped(rows'[r]),
         DOMAIN map' = Index,
         \A i \in Index : i \notin subscribed => map'[i] = map[i],
         \A i \in subscribed : Sized(map'[i]),
         reset' \in [Index -> BOOLEAN], misled' \subseteq Index,
         \A i \in subscribed : i \notin misled' => Describes(i, map'[i], rows'),
         \A i \in subscribed : ~reset'[i] => Ordered(map'[i]) /\ i \notin misled'
  PROVE  IInv'
<1>1. TypeOK'
  <2>1. \A i \in Index : \A k \in DOMAIN map'[i] : map'[i][k] \in Seq(0..SizeMax)
    BY DEF IInv, TypeOK, Sized
  <2>2. rows' \in Seq(Row)'
    BY DEF Row
  <2>3. \A r \in DOMAIN rows', c \in 1..width' : TypeOf[rows'[r][c]] = ColumnType[c]
    BY DEF WellTyped
  <2> QED BY <2>1, <2>2, <2>3 DEF IInv, TypeOK
<1>2. Bounded'
  BY DEF Bounded, Height
<1>3. IndexExact'
  BY DEF IndexExact
<1>4. NotifyAssertsFailOnlyIfMisled'
  BY DEF NotifyAssertsFailOnlyIfMisled, Running
<1>5. DisorderOnlyFromSet'
  BY DEF DisorderOnlyFromSet, Ordered
<1>6. ReferSound'
  BY DEF IInv, ReferSound
<1> QED BY <1>1, <1>2, <1>3, <1>4, <1>5, <1>6 DEF IInv

\* A call that changes nothing, or ends in a fault outside the indexes.
LEMMA IdleStep ==
  ASSUME IInv,
         \/ UNCHANGED vars
         \/ \E f \in {"get_assert", "empty_assert", "range"} : Faulty(f)
  PROVE  IInv'
<1>1. CASE UNCHANGED vars
  BY <1>1 DEF IInv, TypeOK, Row, Bounded, Height, IndexExact, DisorderOnlyFromSet,
              NotifyAssertsFailOnlyIfMisled, ReferSound, vars
<1>2. CASE \E f \in {"get_assert", "empty_assert", "range"} : Faulty(f)
  <2> USE <1>2 DEF IInv, Faulty
  <2>1. TypeOK' /\ Bounded'
    BY DEF TypeOK, Row, Bounded, Height, Fault
  <2>2. IndexExact' /\ DisorderOnlyFromSet'
    BY DEF IndexExact, DisorderOnlyFromSet
  <2>3. NotifyAssertsFailOnlyIfMisled' /\ ReferSound'
    BY DEF NotifyAssertsFailOnlyIfMisled, ReferSound
  <2> QED BY <2>1, <2>2, <2>3
<1> QED BY <1>1, <1>2

\* An index in which NotifyRowDelete does not find a row that exists was misled.
LEMMA NotFoundLemma ==
  ASSUME IInv, NEW n \in Nat, n < Height, NEW i \in subscribed,
         ~Found(map[i], KeyOf(i, rows[n + 1]), n)
  PROVE  i \in misled /\ reset[i]
<1>1. Len(rows) \in Nat
  BY SubscribedFacts
<1>2. n \in 0..(Len(rows) - 1)
  BY <1>1 DEF Height
<1>3. i \in misled
  BY <1>2, SubscribedFacts DEF Describes
<1>4. reset[i]
  BY <1>3, SubscribedFacts
<1> QED BY <1>3, <1>4

\* A call that fails an assertion of NotifyRowDelete keeps the invariant.
LEMMA AssertStep ==
  ASSUME IInv, NEW S, S \subseteq subscribed, NEW n \in Nat, n < Height,
         ~AllFound(S, n), Faulty("index_assert")
  PROVE  IInv'
<1>1. PICK i \in S : ~Found(map[i], KeyOf(i, rows[n + 1]), n)
  BY DEF AllFound
<1>2. i \in subscribed /\ i \in misled /\ reset[i]
  BY <1>1, NotFoundLemma
<1>3. NotifyAssertsFailOnlyIfMisled'
  BY <1>2 DEF NotifyAssertsFailOnlyIfMisled, Faulty
<1> QED BY <1>3 DEF IInv, TypeOK, Row, Bounded, Height, IndexExact, DisorderOnlyFromSet,
                    ReferSound, Faulty, Fault

\* A validated argument vector makes a row of the table's definition.
LEMMA MakeRowLemma ==
  ASSUME TypeOK, NEW vargs \in Vargs, Validate(vargs)
  PROVE  MakeRow(vargs) \in Row /\ WellTyped(MakeRow(vargs))
<1>1. PICK l \in 0..MaxArgs : vargs \in [1..l -> Dynamic]
  BY DEF Vargs
<1>2. l \in Nat /\ Len(vargs) = l
  BY <1>1, BoundAssumption
<1>3. width \in Nat /\ 1..width \subseteq 1..Width
  BY WidthAssumption DEF TypeOK
<1>4. ASSUME NEW c \in 1..width
      PROVE  MakeRow(vargs)[c] \in Dynamic /\ TypeOf[MakeRow(vargs)[c]] = ColumnType[c]
  <2>1. ColumnType[c] \in Type
    BY <1>3, TypeAssumption
  <2>2. CASE c <= Len(vargs)
    <3>1. c \in 1..l
      BY <1>2, <1>3, <2>2
    <3>2. MakeRow(vargs)[c] = vargs[c]
      BY <2>2 DEF MakeRow
    <3> QED BY <1>1, <2>2, <3>1, <3>2 DEF Validate
  <2>3. CASE ~(c <= Len(vargs))
    <3>1. MakeRow(vargs)[c] = Default[ColumnType[c]]
      BY <2>3 DEF MakeRow
    <3> QED BY <2>1, <3>1, TypeAssumption
  <2> QED BY <2>2, <2>3
<1>5. MakeRow(vargs) = [c \in 1..width |-> MakeRow(vargs)[c]]
  BY DEF MakeRow
<1> QED BY <1>4, <1>5 DEF Row, WellTyped

-----------------------------------------------------------------------------
(***************************************************************************)
(* One lemma per operation.                                                *)
(***************************************************************************)

\* An exact index of a bounded table is a map of size_t.
LEMMA DescribesSized ==
  ASSUME NEW i, NEW m, IsMap(m), NEW R, NEW rs \in Seq(R), Len(rs) <= SizeMax,
         Describes(i, m, rs)
  PROVE  Sized(m)
<1>1. Len(rs) \in Nat
  OBVIOUS
<1>2. \A k \in DOMAIN m : \A r \in Range(m[k]) : r < Len(rs)
  BY DEF Describes
<1> QED BY <1>1, <1>2, BoundedSized

\* A vector the biggest row number is pushed to stays ascending.
LEMMA PushBackAscending ==
  ASSUME NEW m, IsMap(m), NEW key, NEW n \in Nat,
         \A k \in DOMAIN m : \A r \in Range(m[k]) : r < n,
         \A k \in DOMAIN m : Ascending(m[k])
  PROVE  \A k \in DOMAIN PushBack(m, key, n) : Ascending(PushBack(m, key, n)[k])
<1> DEFINE f == PushBack(m, key, n)
<1>1. /\ DOMAIN f = DOMAIN m \cup {key}
      /\ \A k \in DOMAIN m : k # key => f[k] = m[k]
      /\ f[key] = Append(IF key \in DOMAIN m THEN m[key] ELSE <<>>, n)
  BY DEF PushBack, Entry
<1> HIDE DEF f
<1> DEFINE v == IF key \in DOMAIN m THEN m[key] ELSE <<>>
<1>2. v \in Seq(Nat)
  BY EmptySeq DEF IsMap
<1>3. \A j \in DOMAIN v : v[j] < n
  BY DEF Range
<1>4. Ascending(v)
  BY DEF Ascending
<1> HIDE DEF v
<1>5. Ascending(Append(v, n))
  <2> DEFINE w == Append(v, n)
  <2>1. DOMAIN w = 1..(Len(v) + 1) /\ DOMAIN v = 1..Len(v) /\ Len(v) \in Nat
    BY <1>2
  <2>2. \A j \in 1..Len(v) : w[j] = v[j] /\ w[j] \in Nat
    BY <1>2
  <2>3. w[Len(v) + 1] = n
    BY <1>2
  <2> HIDE DEF w
  <2>4. ASSUME NEW a \in DOMAIN w, NEW b \in DOMAIN w, a < b PROVE w[a] <= w[b]
    <3>1. a \in 1..Len(v)
      BY <2>1, <2>4
    <3>2. CASE b = Len(v) + 1
      BY <1>3, <2>1, <2>2, <2>3, <3>1, <3>2
    <3>3. CASE b # Len(v) + 1
      BY <1>4, <2>1, <2>2, <2>4, <3>1, <3>3 DEF Ascending
    <3> QED BY <3>2, <3>3
  <2>5. Ascending(w)
    BY <2>4 DEF Ascending
  <2> QED BY <2>5 DEF w
<1>6. f[key] = Append(v, n)
  BY <1>1 DEF v
<1>7. \A k \in DOMAIN f : Ascending(f[k])
  BY <1>1, <1>5, <1>6
<1> QED BY <1>7 DEF f

\* AppendRow keeps the invariant.
LEMMA AppendRowStep ==
  ASSUME IInv, NEW vargs \in Vargs, AppendRow(vargs)
  PROVE  IInv'
<1>1. CASE ~Validate(vargs)
  BY <1>1, IdleStep DEF AppendRow, Refused
<1>2. CASE Validate(vargs)
  <2> DEFINE row == MakeRow(vargs)
  <2>1. /\ Running /\ Height < MaxRows
        /\ rows' = Append(rows, row)
        /\ map' = [i \in Index |->
                      IF i \in subscribed
                      THEN PushBack(map[i], KeyOf(i, row), Height)
                      ELSE map[i]]
        /\ UNCHANGED <<alive, width, subscribed, refer, reset, misled, fault>>
    BY <1>2 DEF AppendRow
  <2>2. row \in Row /\ WellTyped(row)
    BY <1>2, MakeRowLemma DEF IInv
  <2> HIDE DEF row
  <2>3. /\ rows \in Seq(Row) /\ Len(rows) \in Nat /\ Height = Len(rows)
        /\ \A r \in 1..Len(rows) : WellTyped(rows[r])
        /\ subscribed \subseteq Index
    BY DEF IInv, TypeOK, WellTyped, Height
  <2>4. /\ rows' \in Seq(Row) /\ Len(rows') = Len(rows) + 1
        /\ \A r \in 1..Len(rows) : rows'[r] = rows[r]
        /\ rows'[Len(rows) + 1] = row
    BY <2>1, <2>2, <2>3
  <2>5. \A r \in DOMAIN rows' : WellTyped(rows'[r])
    <3>1. ASSUME NEW r \in DOMAIN rows' PROVE r \in 1..Len(rows) \/ r = Len(rows) + 1
      BY <2>3, <2>4
    <3> QED BY <2>2, <2>3, <2>4, <3>1
  <2>6. Len(rows') <= MaxRows /\ Len(rows') <= SizeMax
    BY <2>1, <2>3, <2>4, BoundAssumption
  <2>7. ASSUME NEW i \in subscribed
        PROVE  /\ Sized(map'[i])
               /\ i \notin misled => Describes(i, map'[i], rows')
               /\ ~reset[i] => Ordered(map'[i]) /\ i \notin misled
    <3>1. map'[i] = PushBack(map[i], KeyOf(i, row), Len(rows))
      BY <2>1, <2>3
    <3>2. i \in Index /\ IsMap(map[i]) /\ Sized(map[i]) /\ Len(rows) \in 0..SizeMax
      BY <2>3, BoundAssumption, SubscribedFacts
    <3>3. Sized(map'[i])
      BY <3>1, <3>2, PushBackSized
    <3>4. ASSUME i \notin misled PROVE Describes(i, map'[i], rows')
      <4>1. Describes(i, map[i], rows)
        BY <3>4, SubscribedFacts
      <4>2. NoEmpty(map[i]) /\ DescribesBut(i, map[i], rows', Len(rows))
        BY <2>1, <2>2, <2>3, <3>2, <4>1, AppendLemma
      <4>3. Len(rows) \in 0..(Len(rows') - 1) /\ rows'[Len(rows) + 1] = row
        BY <2>3, <2>4
      <4> QED BY <2>4, <3>1, <3>2, <4>2, <4>3, PushBackLemma
    <3>5. ASSUME ~reset[i] PROVE Ordered(map'[i]) /\ i \notin misled
      <4>1. Ordered(map[i]) /\ i \notin misled /\ Describes(i, map[i], rows)
        BY <3>5, SubscribedFacts
      <4>2. \A k \in DOMAIN map[i] : \A r \in Range(map[i][k]) : r < Len(rows)
        BY <4>1 DEF Describes
      <4> QED BY <2>3, <3>1, <3>2, <4>1, <4>2, PushBackAscending DEF Ordered
    <3> QED BY <3>3, <3>4, <3>5
  <2>8. DOMAIN map' = Index /\ \A i \in Index : i \notin subscribed => map'[i] = map[i]
    BY <2>1
  <2>9. /\ reset' \in [Index -> BOOLEAN] /\ misled' \subseteq Index
        /\ reset' = reset /\ misled' = misled
    BY <2>1 DEF IInv, TypeOK
  <2> QED BY <2>1, <2>4, <2>5, <2>6, <2>7, <2>8, <2>9, RowStep
<1> QED BY <1>1, <1>2

\* Rows that stay when one is removed keep their types.
LEMMA RemoveRowTyped ==
  ASSUME IInv, NEW n \in Nat, n < Height
  PROVE  /\ RemoveAt(rows, n + 1) \in Seq(Row)
         /\ Len(RemoveAt(rows, n + 1)) = Len(rows) - 1
         /\ \A r \in DOMAIN RemoveAt(rows, n + 1) : WellTyped(RemoveAt(rows, n + 1)[r])
<1> DEFINE qs == RemoveAt(rows, n + 1)
<1>1. /\ rows \in Seq(Row) /\ Len(rows) \in Nat /\ Height = Len(rows)
      /\ \A r \in 1..Len(rows) : WellTyped(rows[r])
  BY DEF IInv, TypeOK, WellTyped, Height
<1>2. n + 1 \in 1..Len(rows)
  BY <1>1
<1>3. /\ qs \in Seq(Row) /\ Len(qs) = Len(rows) - 1
      /\ \A j \in 1..(Len(rows) - 1) : qs[j] = IF j < n + 1 THEN rows[j] ELSE rows[j + 1]
  BY <1>1, <1>2, RemoveAtLemma
<1> HIDE DEF qs
<1>4. ASSUME NEW r \in DOMAIN qs PROVE WellTyped(qs[r])
  <2>1. r \in 1..(Len(rows) - 1)
    BY <1>1, <1>3
  <2>2. r \in 1..Len(rows) /\ r + 1 \in 1..Len(rows)
    BY <1>1, <2>1
  <2>3. qs[r] = rows[r] \/ qs[r] = rows[r + 1]
    BY <1>3, <2>1
  <2> QED BY <1>1, <2>2, <2>3
<1> QED BY <1>3, <1>4 DEF qs

\* DeleteRow keeps the invariant: the rows behind move up by one.
LEMMA DeleteRowStep ==
  ASSUME IInv, NEW n \in RowNum, DeleteRow(n)
  PROVE  IInv'
<1>0. n \in Nat /\ Running /\ Height \in Nat
  BY BoundAssumption DEF RowNum, DeleteRow, IInv, TypeOK, Height
<1>1. CASE n >= Height
  <2>1. UNCHANGED vars
    BY <1>0, <1>1 DEF DeleteRow, Refused
  <2> QED BY <2>1, IdleStep
<1>2. CASE n < Height /\ width = 0
  <2>1. Faulty("empty_assert")
    BY <1>0, <1>2 DEF DeleteRow
  <2> QED BY <2>1, IdleStep
<1>3. CASE n < Height /\ ~AllFound(subscribed, n)
  <2>1. Faulty("index_assert") \/ Faulty("empty_assert")
    BY <1>0, <1>3 DEF DeleteRow
  <2> QED BY <1>0, <1>3, <2>1, AssertStep, IdleStep
<1>4. CASE n < Height /\ width # 0 /\ AllFound(subscribed, n)
  <2>1. RemoveRow(n)
    BY <1>0, <1>4 DEF DeleteRow
  <2> DEFINE key(i) == KeyOf(i, rows[n + 1])
             e(i) == EraseRow(map[i], key(i), n)
  <2>2. /\ DOMAIN map' = Index
        /\ \A i \in Index : i \notin subscribed => map'[i] = map[i]
        /\ \A i \in Index : i \in subscribed => map'[i] \in DecAll(e(i), n)
    BY <2>1 DEF RemoveRow, Picks, RowDeleted
  <2>3. /\ rows' = RemoveAt(rows, n + 1)
        /\ UNCHANGED <<alive, width, subscribed, refer, reset, fault>>
    BY <2>1 DEF RemoveRow
  <2>4. misled' = misled \cup {i \in subscribed : ~AllPartitioned(e(i), n)}
    BY <2>1 DEF RemoveRow
  <2>5. /\ rows' \in Seq(Row) /\ Len(rows') = Len(rows) - 1
        /\ \A r \in DOMAIN rows' : WellTyped(rows'[r])
    BY <1>0, <1>4, <2>3, RemoveRowTyped
  <2>6. Len(rows') <= MaxRows /\ Len(rows) <= SizeMax /\ Len(rows) \in Nat
    BY <1>0, <2>5, BoundAssumption DEF IInv, Bounded, Height
  <2>7. n \in 0..(Len(rows) - 1)
    BY <1>0, <1>4 DEF Height
  <2> HIDE DEF e
  <2>8. ASSUME NEW i \in subscribed
        PROVE  /\ i \in Index /\ Sized(e(i)) /\ map'[i] \in DecAll(e(i), n)
               /\ rows \in Seq(Row) /\ IsMap(map[i])
    <3>1. i \in Index /\ Sized(map[i]) /\ rows \in Seq(Row) /\ IsMap(map[i])
      BY SubscribedFacts
    <3>2. Found(map[i], key(i), n)
      BY <1>4 DEF AllFound
    <3> QED BY <2>2, <3>1, <3>2, EraseRowSized DEF e
  <2>9. ASSUME NEW i \in subscribed
        PROVE  Sized(map'[i])
    BY <1>0, <2>8, DecAllSized
  <2>10. ASSUME NEW i \in subscribed, i \notin misled
         PROVE  /\ IsMap(e(i)) /\ NoEmpty(e(i)) /\ DescribesBut(i, e(i), rows, n)
                /\ Ordered(map[i]) => Ordered(e(i))
    <3>1. Describes(i, map[i], rows)
      BY <2>10, SubscribedFacts
    <3> QED BY <2>7, <2>8, <3>1, EraseRowLemma DEF e, Ordered
  <2>11. ASSUME NEW i \in subscribed, i \notin misled, AllPartitioned(e(i), n)
         PROVE  /\ Describes(i, map'[i], rows')
                /\ Ordered(e(i)) => Ordered(map'[i])
    BY <2>3, <2>7, <2>8, <2>10, <2>11, DecAllLemma DEF Ordered
  <2>12. ASSUME NEW i \in subscribed, i \notin misled'
         PROVE  Describes(i, map'[i], rows')
    BY <2>4, <2>11, <2>12
  <2>13. ASSUME NEW i \in subscribed, ~reset[i]
         PROVE  Ordered(map'[i]) /\ i \notin misled'
    <3>1. Ordered(map[i]) /\ i \notin misled
      BY <2>13, SubscribedFacts
    <3>2. IsMap(e(i)) /\ Ordered(e(i))
      BY <2>10, <3>1
    <3>3. AllPartitioned(e(i), n)
      <4>1. \A k \in DOMAIN e(i) : e(i)[k] \in Seq(Nat) /\ Ascending(e(i)[k])
        BY <3>2 DEF IsMap, Ordered
      <4> QED BY <1>0, <4>1, AscendingPartitioned DEF AllPartitioned
    <3> QED BY <2>4, <2>11, <3>1, <3>2, <3>3
  <2>14. reset' \in [Index -> BOOLEAN] /\ reset' = reset /\ misled' \subseteq Index
    BY <2>3, <2>4 DEF IInv, TypeOK
  <2> QED BY <1>0, <2>2, <2>3, <2>5, <2>6, <2>9, <2>12, <2>13, <2>14, RowStep
<1> QED BY <1>0, <1>1, <1>2, <1>3, <1>4

\* Rows keep their types when one is inserted among them.
LEMMA InsertRowTyped ==
  ASSUME IInv, NEW n \in Nat, n < Height, NEW row \in Row, WellTyped(row)
  PROVE  /\ InsertAt(rows, n + 1, row) \in Seq(Row)
         /\ Len(InsertAt(rows, n + 1, row)) = Len(rows) + 1
         /\ \A r \in DOMAIN InsertAt(rows, n + 1, row) :
               WellTyped(InsertAt(rows, n + 1, row)[r])
<1> DEFINE qs == InsertAt(rows, n + 1, row)
<1>1. /\ rows \in Seq(Row) /\ Len(rows) \in Nat /\ Height = Len(rows)
      /\ \A r \in 1..Len(rows) : WellTyped(rows[r])
  BY DEF IInv, TypeOK, WellTyped, Height
<1>2. n + 1 \in 1..Len(rows)
  BY <1>1
<1> HIDE DEF qs
<1>3. /\ qs \in Seq(Row) /\ Len(qs) = Len(rows) + 1
      /\ \A j \in 1..(Len(rows) + 1) : qs[j] = IF j < n + 1 THEN rows[j]
                                            ELSE IF j = n + 1 THEN row ELSE rows[j - 1]
  BY <1>1, <1>2, InsertAtLemma DEF qs
<1>4. ASSUME NEW r \in DOMAIN qs PROVE WellTyped(qs[r])
  <2>1. r \in 1..(Len(rows) + 1)
    BY <1>1, <1>3
  <2>2. CASE r < n + 1
    <3>1. r \in 1..Len(rows) /\ qs[r] = rows[r]
      BY <1>1, <1>2, <1>3, <2>1, <2>2
    <3> QED BY <1>1, <3>1
  <2>3. CASE r = n + 1
    BY <1>3, <2>1, <2>3
  <2>4. CASE r > n + 1
    <3>1. r - 1 \in 1..Len(rows) /\ qs[r] = rows[r - 1]
      BY <1>1, <1>2, <1>3, <2>1, <2>4
    <3> QED BY <1>1, <3>1
  <2> QED BY <1>2, <2>1, <2>2, <2>3, <2>4
<1> QED BY <1>3, <1>4 DEF qs

\* InsertRow keeps the invariant: the rows from n on move down by one.
LEMMA InsertRowStep ==
  ASSUME IInv, NEW n \in RowNum, NEW vargs \in Vargs, InsertRow(n, vargs)
  PROVE  IInv'
<1>0. n \in Nat /\ Running /\ Height \in Nat
  BY BoundAssumption DEF RowNum, InsertRow, IInv, TypeOK, Height
<1>1. CASE n >= Height \/ ~Validate(vargs)
  <2>1. UNCHANGED vars
    BY <1>0, <1>1 DEF InsertRow, Refused
  <2> QED BY <2>1, IdleStep
<1>2. CASE n < Height /\ Validate(vargs) /\ width = 0
  <2>1. Faulty("empty_assert")
    BY <1>0, <1>2 DEF InsertRow
  <2> QED BY <2>1, IdleStep
<1>3. CASE n < Height /\ Validate(vargs) /\ width # 0
  <2> DEFINE row == MakeRow(vargs)
  <2>1. /\ Height < MaxRows
        /\ rows' = InsertAt(rows, n + 1, row)
        /\ map' \in Picks([i \in Index |->
                             IF i \in subscribed
                             THEN RowInserted(map[i], KeyOf(i, row), n)
                             ELSE {map[i]}])
        /\ misled' = misled \cup {i \in subscribed : ~AllPartitioned(map[i], n)}
        /\ UNCHANGED <<alive, width, subscribed, refer, reset, fault>>
    BY <1>0, <1>3 DEF InsertRow
  <2>r. row \in Row /\ WellTyped(row)
    BY <1>3, MakeRowLemma DEF IInv
  <2> HIDE DEF row
  <2>2. /\ DOMAIN map' = Index
        /\ \A i \in Index : i \notin subscribed => map'[i] = map[i]
        /\ \A i \in Index : i \in subscribed => map'[i] \in RowInserted(map[i], KeyOf(i, row), n)
    BY <2>1 DEF Picks
  <2>5. /\ rows' \in Seq(Row) /\ Len(rows') = Len(rows) + 1
        /\ \A r \in DOMAIN rows' : WellTyped(rows'[r])
    BY <1>0, <1>3, <2>1, <2>r, InsertRowTyped
  <2>6. Len(rows') <= MaxRows /\ n \in 0..SizeMax /\ n \in 0..(Len(rows) - 1)
    BY <1>0, <1>3, <2>1, <2>5, BoundAssumption DEF Height
  <2>8. ASSUME NEW i \in subscribed
        PROVE  /\ i \in Index /\ Sized(map[i]) /\ IsMap(map[i])
               /\ rows \in Seq(Row) /\ Len(rows) <= SizeMax
               /\ map'[i] \in RowInserted(map[i], KeyOf(i, row), n)
    BY <2>2, SubscribedFacts
  <2>9. ASSUME NEW i \in subscribed
        PROVE  Sized(map'[i])
    BY <2>6, <2>8, RowInsertedSized
  <2>10. ASSUME NEW i \in subscribed, i \notin misled, AllPartitioned(map[i], n)
         PROVE  /\ Describes(i, map'[i], rows')
                /\ Ordered(map[i]) => Ordered(map'[i])
    <3>1. Describes(i, map[i], rows)
      BY <2>10, SubscribedFacts
    <3> QED BY <2>1, <2>r, <2>6, <2>8, <2>10, <3>1, RowInsertedLemma DEF Ordered
  <2>11. ASSUME NEW i \in subscribed, i \notin misled'
         PROVE  Describes(i, map'[i], rows')
    BY <2>1, <2>10, <2>11
  <2>12. ASSUME NEW i \in subscribed, ~reset[i]
         PROVE  Ordered(map'[i]) /\ i \notin misled'
    <3>1. Ordered(map[i]) /\ i \notin misled
      BY <2>12, SubscribedFacts
    <3>2. AllPartitioned(map[i], n)
      <4>1. \A k \in DOMAIN map[i] : map[i][k] \in Seq(Nat) /\ Ascending(map[i][k])
        BY <2>8, <3>1 DEF IsMap, Ordered
      <4> QED BY <1>0, <4>1, AscendingPartitioned DEF AllPartitioned
    <3> QED BY <2>1, <2>10, <3>1, <3>2
  <2>13. reset' \in [Index -> BOOLEAN] /\ reset' = reset /\ misled' \subseteq Index
    BY <2>1 DEF IInv, TypeOK
  <2> QED BY <1>0, <2>1, <2>2, <2>5, <2>6, <2>9, <2>11, <2>12, <2>13, RowStep
<1> QED BY <1>0, <1>1, <1>2, <1>3

\* An index over other columns describes the new rows as it did the old.
LEMMA SameKeyLemma ==
  ASSUME NEW i \in Index, NEW m, IsMap(m), NEW R, NEW rs \in Seq(R), NEW row \in R,
         NEW n \in 0..(Len(rs) - 1), Describes(i, m, rs),
         KeyOf(i, row) = KeyOf(i, rs[n + 1])
  PROVE  Describes(i, m, [rs EXCEPT ![n + 1] = row])
<1> DEFINE qs == [rs EXCEPT ![n + 1] = row]
<1>1. qs \in Seq(R) /\ Len(qs) = Len(rs) /\ Len(rs) \in Nat
  OBVIOUS
<1>2. \A r \in 0..(Len(rs) - 1) : KeyOf(i, qs[r + 1]) = KeyOf(i, rs[r + 1])
  <2> SUFFICES ASSUME NEW r \in 0..(Len(rs) - 1)
               PROVE  KeyOf(i, qs[r + 1]) = KeyOf(i, rs[r + 1])
    OBVIOUS
  <2>1. qs[r + 1] = IF r = n THEN row ELSE rs[r + 1]
    OBVIOUS
  <2> QED BY <2>1
<1>3. \A k \in DOMAIN m : Range(m[k]) \subseteq Nat
  BY DEF IsMap, Range
<1> HIDE DEF qs
<1>4. ASSUME NEW k \in DOMAIN m, NEW r \in Range(m[k])
      PROVE  r < Len(qs) /\ KeyOf(i, qs[r + 1]) = k
  <2>1. r < Len(rs) /\ KeyOf(i, rs[r + 1]) = k /\ r \in Nat
    BY <1>3 DEF Describes
  <2> QED BY <1>1, <1>2, <2>1
<1>5. \A r \in 0..(Len(qs) - 1) : Found(m, KeyOf(i, qs[r + 1]), r)
  BY <1>1, <1>2 DEF Describes
<1>6. Describes(i, m, qs)
  BY <1>4, <1>5 DEF Describes
<1> QED BY <1>6 DEF qs

\* SetRow and SetCellValue past their checks: the indexes of S follow the row,
\* the others have the same key for it.
LEMMA ReplaceRowStep ==
  ASSUME IInv, Running, NEW S, S \subseteq subscribed, NEW n \in Nat, n < Height,
         AllFound(S, n), NEW row \in Row, WellTyped(row), ReplaceRow(S, n, row),
         \A i \in subscribed \ S : KeyOf(i, row) = KeyOf(i, rows[n + 1])
  PROVE  IInv'
<1> DEFINE e(i) == EraseRow(map[i], KeyOf(i, rows[n + 1]), n)
<1>1. /\ rows' = [rows EXCEPT ![n + 1] = row]
      /\ map' = [i \in Index |->
                    IF i \in S THEN PushBack(e(i), KeyOf(i, row), n) ELSE map[i]]
      /\ reset' = [i \in Index |-> reset[i] \/ i \in S]
      /\ UNCHANGED <<alive, width, subscribed, refer, misled, fault>>
  BY DEF ReplaceRow
<1> HIDE DEF e
<1>2. /\ rows \in Seq(Row) /\ Len(rows) \in Nat /\ Height = Len(rows)
      /\ \A r \in 1..Len(rows) : WellTyped(rows[r])
      /\ subscribed \subseteq Index /\ Len(rows) <= MaxRows /\ Len(rows) <= SizeMax
  BY BoundAssumption DEF IInv, TypeOK, WellTyped, Height, Bounded
<1>3. n + 1 \in 1..Len(rows) /\ n \in 0..(Len(rows) - 1)
  BY <1>2
<1>4. /\ rows' \in Seq(Row) /\ Len(rows') = Len(rows)
      /\ \A r \in 1..Len(rows) : rows'[r] = IF r = n + 1 THEN row ELSE rows[r]
  BY <1>1, <1>2, <1>3
<1>5. \A r \in DOMAIN rows' : WellTyped(rows'[r])
  BY <1>2, <1>4
<1>6. ASSUME NEW i \in subscribed
      PROVE  /\ i \in Index /\ Sized(map[i]) /\ IsMap(map[i])
             /\ i \notin misled => Describes(i, map[i], rows)
             /\ ~reset[i] => Ordered(map[i]) /\ i \notin misled
  BY SubscribedFacts
<1>7. ASSUME NEW i \in S
      PROVE  Sized(map'[i]) /\ (i \notin misled => Describes(i, map'[i], rows'))
  <2>1. map'[i] = PushBack(e(i), KeyOf(i, row), n)
    BY <1>1, <1>2
  <2>2. Sized(map'[i])
    <3>1. Found(map[i], KeyOf(i, rows[n + 1]), n)
      BY DEF AllFound
    <3>2. Sized(e(i))
      BY <1>6, <3>1, EraseRowSized DEF e
    <3>3. n \in 0..SizeMax
      BY <1>2, <1>3, BoundAssumption
    <3> QED BY <2>1, <3>2, <3>3, PushBackSized
  <2>3. ASSUME i \notin misled PROVE Describes(i, map'[i], rows')
    <3>1. IsMap(e(i)) /\ NoEmpty(e(i)) /\ DescribesBut(i, e(i), rows, n)
      BY <1>2, <1>3, <1>6, <2>3, EraseRowLemma DEF e
    <3>2. DescribesBut(i, e(i), rows', n)
      BY <1>1, <1>2, <1>3, <1>6, <3>1, ReplaceLemma
    <3>3. rows'[n + 1] = row /\ n \in 0..(Len(rows') - 1)
      BY <1>3, <1>4
    <3> QED BY <1>4, <1>6, <2>1, <3>1, <3>2, <3>3, PushBackLemma
  <2> QED BY <2>2, <2>3
<1>8. ASSUME NEW i \in subscribed \ S
      PROVE  /\ Sized(map'[i]) /\ map'[i] = map[i]
             /\ i \notin misled => Describes(i, map'[i], rows')
  <2>1. map'[i] = map[i]
    BY <1>1, <1>2
  <2>2. ASSUME i \notin misled PROVE Describes(i, map[i], rows')
    BY <1>1, <1>2, <1>3, <1>6, <2>2, SameKeyLemma
  <2> QED BY <1>6, <2>1, <2>2
<1>9. /\ DOMAIN map' = Index
      /\ \A i \in Index : i \notin subscribed => map'[i] = map[i]
  BY <1>1
<1>10. /\ reset' \in [Index -> BOOLEAN]
       /\ \A i \in S : reset'[i]
       /\ \A i \in Index : i \notin S => reset'[i] = reset[i]
       /\ misled' = misled /\ misled' \subseteq Index
  BY <1>1, <1>2 DEF IInv, TypeOK
<1>12. ASSUME NEW i \in subscribed
       PROVE  Sized(map'[i]) /\ (i \notin misled' => Describes(i, map'[i], rows'))
  BY <1>7, <1>8, <1>10
<1>13. ASSUME NEW i \in subscribed, ~reset'[i]
       PROVE  Ordered(map'[i]) /\ i \notin misled'
  BY <1>2, <1>6, <1>8, <1>10, <1>13
<1> QED BY <1>1, <1>2, <1>4, <1>5, <1>9, <1>10, <1>12, <1>13, RowStep

\* SetRow keeps the invariant.
LEMMA SetRowStep ==
  ASSUME IInv, NEW n \in RowNum, NEW vargs \in Vargs, SetRow(n, vargs)
  PROVE  IInv'
<1>0. n \in Nat /\ Running /\ Height \in Nat
  BY BoundAssumption DEF RowNum, SetRow, IInv, TypeOK, Height
<1>1. CASE n >= Height \/ ~Validate(vargs)
  <2>1. UNCHANGED vars
    BY <1>0, <1>1 DEF SetRow, Refused
  <2> QED BY <2>1, IdleStep
<1>2. CASE n < Height /\ Validate(vargs) /\ ~AllFound(subscribed, n)
  <2>1. Faulty("index_assert")
    BY <1>0, <1>2 DEF SetRow
  <2> QED BY <1>0, <1>2, <2>1, AssertStep
<1>3. CASE n < Height /\ Validate(vargs) /\ AllFound(subscribed, n)
  <2>1. ReplaceRow(subscribed, n, MakeRow(vargs))
    BY <1>0, <1>3 DEF SetRow
  <2>2. MakeRow(vargs) \in Row /\ WellTyped(MakeRow(vargs))
    BY <1>3, MakeRowLemma DEF IInv
  <2> QED BY <1>0, <1>3, <2>1, <2>2, ReplaceRowStep
<1> QED BY <1>0, <1>1, <1>2, <1>3

\* SetCellValue keeps the invariant.
LEMMA SetCellValueStep ==
  ASSUME IInv, NEW n \in RowNum, NEW c \in ColNum, NEW v \in Dynamic, SetCellValue(n, c, v)
  PROVE  IInv'
<1>0. /\ n \in Nat /\ Running /\ Height \in Nat /\ c \in Nat /\ c >= 1
      /\ width \in Nat /\ Height = Len(rows) /\ rows \in Seq(Row)
  BY BoundAssumption, WidthAssumption DEF RowNum, ColNum, SetCellValue, IInv, TypeOK, Height
<1>1. CASE Refused
  BY <1>1, IdleStep DEF Refused
<1>2. CASE \E f \in {"get_assert", "empty_assert", "range"} : Faulty(f)
  BY <1>2, IdleStep
<1>3. CASE /\ c <= width /\ TypeOf[v] = ColumnType[c]
           /\ n < Height /\ AllFound(IndexedBy(c), n)
           /\ ReplaceRow(IndexedBy(c), n, [rows[n + 1] EXCEPT ![c] = v])
  <2> DEFINE row == [rows[n + 1] EXCEPT ![c] = v]
  <2>1. IndexedBy(c) \subseteq subscribed /\ n + 1 \in 1..Len(rows) /\ c \in 1..width
    BY <1>0, <1>3 DEF IndexedBy
  <2>2. rows[n + 1] \in Row /\ WellTyped(rows[n + 1])
    BY <1>0, <2>1 DEF IInv, TypeOK, WellTyped
  <2>3. row \in Row /\ WellTyped(row)
    BY <1>3, <2>1, <2>2 DEF Row, WellTyped
  <2>4. ASSUME NEW i \in subscribed \ IndexedBy(c)
        PROVE  KeyOf(i, row) = KeyOf(i, rows[n + 1])
    <3>1. /\ i \in Index /\ c \notin Range(IndexColumns[i])
          /\ \A x \in Range(IndexColumns[i]) : x <= width
      BY SubscribedFacts DEF IndexedBy
    <3>2. ASSUME NEW j \in DOMAIN IndexColumns[i]
          PROVE  row[IndexColumns[i][j]] = rows[n + 1][IndexColumns[i][j]]
      <4>1. IndexColumns[i][j] \in Range(IndexColumns[i])
        BY DEF Range
      <4>2. IndexColumns[i][j] \in 1..Width
        <5>1. IndexColumns[i] \in Seq(1..Width)
          BY <3>1, IndexAssumption
        <5> QED BY <5>1, LenProperties
      <4>3. IndexColumns[i][j] \in 1..width /\ IndexColumns[i][j] # c
        BY <1>0, <3>1, <4>1, <4>2, WidthAssumption
      <4> QED BY <2>2, <4>3 DEF Row
    <3> QED BY <3>2 DEF KeyOf
  <2> HIDE DEF row
  <2>5. ReplaceRow(IndexedBy(c), n, row)
    BY <1>3 DEF row
  <2> QED BY <1>0, <1>3, <2>1, <2>3, <2>4, <2>5, ReplaceRowStep
<1>4. CASE n < Height /\ ~AllFound(IndexedBy(c), n) /\ Faulty("index_assert")
  <2>1. IndexedBy(c) \subseteq subscribed
    BY DEF IndexedBy
  <2> QED BY <1>0, <1>4, <2>1, AssertStep
<1> QED BY <1>0, <1>1, <1>2, <1>3, <1>4 DEF SetCellValue

\* BuildIndex makes an exact index with ascending vectors.
LEMMA BuildIndexLemma ==
  ASSUME NEW i \in Index, rows \in Seq(Row), NEW m \in BuildIndex(i)
  PROVE  /\ IsMap(m) /\ Describes(i, m, rows)
         /\ \A k \in DOMAIN m : Ascending(m[k])
<1> DEFINE K == {KeyOf(i, rows[r]) : r \in 1..Height}
<1>0. Height = Len(rows) /\ Len(rows) \in Nat
  BY DEF Height
<1>1. /\ DOMAIN m = K
      /\ \A k \in K : /\ m[k] \in [1..Cardinality(RowsWithKey(i, k)) -> RowsWithKey(i, k)]
                      /\ Range(m[k]) = RowsWithKey(i, k)
                      /\ \A a, b \in DOMAIN m[k] : a < b => m[k][a] < m[k][b]
  BY DEF BuildIndex, Picks
<1>2. \A k \in K : RowsWithKey(i, k) \subseteq Nat /\ IsFiniteSet(RowsWithKey(i, k))
  <2>1. \A k : RowsWithKey(i, k) \subseteq 0..(Height - 1)
    BY DEF RowsWithKey
  <2>2. IsFiniteSet(0..(Height - 1))
    BY <1>0, FS_Interval
  <2> QED BY <1>0, <2>1, <2>2, FS_Subset
<1>k. \A r \in 0..(Len(rows) - 1) : KeyOf(i, rows[r + 1]) \in K
  <2> SUFFICES ASSUME NEW r \in 0..(Len(rows) - 1)
               PROVE  KeyOf(i, rows[r + 1]) \in K
    OBVIOUS
  <2>1. r + 1 \in 1..Height
    BY <1>0
  <2> QED BY <2>1
<1>n. \A k \in K : \E r \in 0..(Len(rows) - 1) : KeyOf(i, rows[r + 1]) = k
  <2> SUFFICES ASSUME NEW q \in 1..Height
               PROVE  \E r \in 0..(Len(rows) - 1) : KeyOf(i, rows[r + 1]) = KeyOf(i, rows[q])
    OBVIOUS
  <2>1. q - 1 \in 0..(Len(rows) - 1) /\ (q - 1) + 1 = q
    BY <1>0
  <2> QED BY <2>1
<1> HIDE DEF K
<1>3. ASSUME NEW k \in K PROVE m[k] \in Seq(Nat)
  <2>1. Cardinality(RowsWithKey(i, k)) \in Nat
    BY <1>2, FS_CardinalityType
  <2>2. m[k] \in [1..Cardinality(RowsWithKey(i, k)) -> Nat]
    BY <1>1, <1>2
  <2> QED BY <2>1, <2>2, SeqIntro
<1>4. ASSUME NEW k \in K PROVE m[k] # <<>>
  <2>1. PICK r \in 0..(Len(rows) - 1) : KeyOf(i, rows[r + 1]) = k
    BY <1>n
  <2>2. r \in Range(m[k])
    BY <1>0, <1>1, <2>1 DEF RowsWithKey
  <2> QED BY <2>2 DEF Range
<1>5. ASSUME NEW k \in K PROVE IsInjective(m[k]) /\ Ascending(m[k])
  <2>1. DOMAIN m[k] = 1..Len(m[k]) /\ Len(m[k]) \in Nat /\ \A a \in DOMAIN m[k] : m[k][a] \in Nat
    BY <1>3
  <2>2. \A a, b \in DOMAIN m[k] : a < b => m[k][a] < m[k][b]
    BY <1>1
  <2>3. ASSUME NEW a \in DOMAIN m[k], NEW b \in DOMAIN m[k], m[k][a] = m[k][b]
        PROVE  a = b
    <3>1. ~(a < b) /\ ~(b < a)
      BY <2>1, <2>2, <2>3
    <3> QED BY <2>1, <3>1
  <2>4. IsInjective(m[k])
    BY <2>3 DEF IsInjective
  <2>5. Ascending(m[k])
    BY <2>1, <2>2 DEF Ascending
  <2> QED BY <2>4, <2>5
<1>6. ASSUME NEW k \in K, NEW r \in Range(m[k])
      PROVE  r < Len(rows) /\ KeyOf(i, rows[r + 1]) = k
  <2>1. r \in RowsWithKey(i, k)
    BY <1>1
  <2> QED BY <1>0, <2>1 DEF RowsWithKey
<1>7. ASSUME NEW r \in 0..(Len(rows) - 1) PROVE Found(m, KeyOf(i, rows[r + 1]), r)
  <2>1. KeyOf(i, rows[r + 1]) \in K
    BY <1>k
  <2>2. r \in RowsWithKey(i, KeyOf(i, rows[r + 1]))
    BY <1>0 DEF RowsWithKey
  <2> QED BY <1>1, <2>1, <2>2 DEF Found
<1> QED BY <1>1, <1>3, <1>4, <1>5, <1>6, <1>7 DEF IsMap, Describes

\* CreateIndex keeps the invariant.
LEMMA CreateIndexStep ==
  ASSUME IInv, NEW i \in Index, CreateIndex(i)
  PROVE  IInv'
<1>1. CASE ~Creatable(i)
  BY <1>1, IdleStep DEF CreateIndex, Refused
<1>2. CASE Creatable(i)
  <2>1. PICK m \in BuildIndex(i) : map' = [map EXCEPT ![i] = m]
    BY <1>2 DEF CreateIndex
  <2>2. /\ Running /\ subscribed' = subscribed \cup {i}
        /\ refer' = [refer EXCEPT ![i] = TRUE]
        /\ reset' = [reset EXCEPT ![i] = FALSE]
        /\ misled' = misled \ {i}
        /\ UNCHANGED <<alive, width, rows, fault>>
    BY <1>2 DEF CreateIndex
  <2>3. rows \in Seq(Row) /\ Len(rows) <= SizeMax
    BY BoundAssumption DEF IInv, TypeOK, Bounded, Height
  <2>4. IsMap(m) /\ Describes(i, m, rows) /\ \A k \in DOMAIN m : Ascending(m[k])
    BY <2>3, BuildIndexLemma
  <2>5. Sized(m)
    BY <2>3, <2>4, DescribesSized
  <2>6. DOMAIN map' = Index /\ map'[i] = m /\ \A x \in Index : x # i => map'[x] = map[x]
    BY <2>1 DEF IInv, TypeOK
  <2>7. TypeOK'
    BY <2>2, <2>5, <2>6 DEF IInv, TypeOK, Sized, Row
  <2>8. IndexExact'
    BY <2>2, <2>4, <2>6 DEF IInv, TypeOK, IndexExact
  <2>9. DisorderOnlyFromSet'
    BY <2>2, <2>4, <2>6 DEF IInv, TypeOK, DisorderOnlyFromSet
  <2>10. alive /\ \A c \in Range(IndexColumns[i]) : c <= width
    BY <1>2, <2>2 DEF Creatable, Running
  <2>11. ReferSound'
    BY <2>2, <2>10 DEF IInv, TypeOK, ReferSound
  <2>12. Bounded' /\ NotifyAssertsFailOnlyIfMisled'
    BY <2>2 DEF IInv, Bounded, Height, NotifyAssertsFailOnlyIfMisled, Running
  <2> QED BY <2>7, <2>8, <2>9, <2>11, <2>12 DEF IInv
<1> QED BY <1>1, <1>2

\* DeleteIndex and DeleteAllIndices keep the invariant.
LEMMA UnSubscribeStep ==
  ASSUME IInv, fault = "none", NEW S, UnSubscribe(S),
         UNCHANGED <<alive, width, rows, map, reset, misled, fault>>
  PROVE  IInv'
BY DEF IInv, TypeOK, Row, Bounded, Height, IndexExact, DisorderOnlyFromSet,
       NotifyAssertsFailOnlyIfMisled, ReferSound, UnSubscribe

\* Clear and the destructor keep the invariant.
LEMMA ClearStep ==
  ASSUME IInv, fault = "none", ClearTable, alive' \in BOOLEAN,
         UNCHANGED <<map, reset, misled, fault>>
  PROVE  IInv'
<1>1. /\ rows' = <<>> /\ width' = 0 /\ subscribed' = {}
      /\ refer' = [i \in Index |-> FALSE]
  BY DEF ClearTable, UnSubscribe, IInv, TypeOK, ReferSound
<1>2. TypeOK'
  BY <1>1, EmptySeq DEF IInv, TypeOK
<1>3. Bounded'
  BY <1>1, EmptySeq, BoundAssumption DEF Bounded, Height
<1>4. IndexExact' /\ DisorderOnlyFromSet' /\ NotifyAssertsFailOnlyIfMisled' /\ ReferSound'
  BY <1>1 DEF IInv, IndexExact, DisorderOnlyFromSet, NotifyAssertsFailOnlyIfMisled, ReferSound
<1> QED BY <1>2, <1>3, <1>4 DEF IInv

\* Dynamic::Table keeps the invariant.
LEMMA CreateStep ==
  ASSUME IInv, Create
  PROVE  IInv'
<1>1. /\ rows' = <<>> /\ width' = Width /\ alive' = TRUE
      /\ UNCHANGED <<subscribed, refer, map, reset, misled, fault>>
      /\ subscribed = {} /\ fault = "none"
  BY DEF Create, IInv, ReferSound
<1>2. TypeOK'
  BY <1>1, EmptySeq DEF IInv, TypeOK
<1>3. Bounded'
  BY <1>1, EmptySeq, BoundAssumption DEF Bounded, Height
<1>4. IndexExact' /\ DisorderOnlyFromSet' /\ NotifyAssertsFailOnlyIfMisled' /\ ReferSound'
  BY <1>1 DEF IInv, IndexExact, DisorderOnlyFromSet, NotifyAssertsFailOnlyIfMisled, ReferSound
<1> QED BY <1>2, <1>3, <1>4 DEF IInv

-----------------------------------------------------------------------------
(***************************************************************************)
(* The theorems.                                                           *)
(***************************************************************************)

\* The invariant holds of an empty table without indexes.
LEMMA InitInvariant == Init => IInv
<1> SUFFICES ASSUME Init PROVE IInv
  OBVIOUS
<1>1. TypeOK
  BY EmptySeq DEF Init, TypeOK, Fault
<1>2. Bounded
  BY EmptySeq, BoundAssumption DEF Init, Bounded, Height
<1>3. IndexExact /\ DisorderOnlyFromSet /\ NotifyAssertsFailOnlyIfMisled /\ ReferSound
  BY DEF Init, IndexExact, DisorderOnlyFromSet, NotifyAssertsFailOnlyIfMisled, ReferSound
<1> QED BY <1>1, <1>2, <1>3 DEF IInv

\* Every operation of the table and of its indexes keeps the invariant.
LEMMA NextInvariant == IInv /\ [Next]_vars => IInv'
<1> SUFFICES ASSUME IInv, [Next]_vars PROVE IInv'
  OBVIOUS
<1>1. ASSUME NEW vargs \in Vargs, AppendRow(vargs) PROVE IInv'
  BY <1>1, AppendRowStep
<1>2. ASSUME NEW n \in RowNum, DeleteRow(n) PROVE IInv'
  BY <1>2, DeleteRowStep
<1>3. ASSUME NEW n \in RowNum, NEW vargs \in Vargs, InsertRow(n, vargs) PROVE IInv'
  BY <1>3, InsertRowStep
<1>4. ASSUME NEW n \in RowNum, NEW vargs \in Vargs, SetRow(n, vargs) PROVE IInv'
  BY <1>4, SetRowStep
<1>5. ASSUME NEW n \in RowNum, NEW c \in ColNum, NEW v \in Dynamic, SetCellValue(n, c, v)
      PROVE  IInv'
  BY <1>5, SetCellValueStep
<1>6. ASSUME NEW i \in Index, CreateIndex(i) PROVE IInv'
  BY <1>6, CreateIndexStep
<1>7. ASSUME NEW i \in Index, DeleteIndex(i) PROVE IInv'
  BY <1>7, UnSubscribeStep DEF DeleteIndex, Running
<1>8. CASE DeleteAllIndices
  BY <1>8, UnSubscribeStep DEF DeleteAllIndices, Running
<1>9. CASE Clear
  BY <1>9, ClearStep DEF Clear, Running, IInv, TypeOK
<1>10. CASE Destroy
  BY <1>10, ClearStep DEF Destroy, Running
<1>11. CASE Create
  BY <1>11, CreateStep
<1>12. CASE UNCHANGED vars
  BY <1>12, IdleStep
<1> QED BY <1>1, <1>2, <1>3, <1>4, <1>5, <1>6, <1>7, <1>8, <1>9, <1>10, <1>11, <1>12 DEF Next

\* The inductive invariant is an invariant of the table.
THEOREM TableInvariant == Spec => []IInv
BY InitInvariant, NextInvariant, PTL DEF Spec

\* Whatever the calls, rows keep the table's width and declared types and
\* index vectors hold size_t (TypeOK).
THEOREM TypeCorrect == Spec => []TypeOK
<1>1. IInv => TypeOK
  BY DEF IInv
<1> QED BY <1>1, TableInvariant, PTL

\* NotifyRowDelete and NotifyRowInsert keep every subscribed index equal to
\* the index BuildIndex would make, until one of them searches a vector that is
\* not partitioned (IndexExact).
THEOREM IndexesStayExact == Spec => []IndexExact
<1>1. IInv => IndexExact
  BY DEF IInv
<1> QED BY <1>1, TableInvariant, PTL

\* An assertion of NotifyRowDelete fails only in an index that SetRow or
\* SetCellValue put out of order and that was renumbered wrongly after that
\* (NotifyAssertsFailOnlyIfMisled).
THEOREM AssertsFailOnlyInMisledIndexes == Spec => []NotifyAssertsFailOnlyIfMisled
<1>1. IInv => NotifyAssertsFailOnlyIfMisled
  BY DEF IInv
<1> QED BY <1>1, TableInvariant, PTL

\* Without SetRow and SetCellValue, index vectors stay sorted and
\* std::lower_bound is never misused (DisorderOnlyFromSet).
THEOREM OnlySetMethodsDisorder == Spec => []DisorderOnlyFromSet
<1>1. IInv => DisorderOnlyFromSet
  BY DEF IInv
<1> QED BY <1>1, TableInvariant, PTL

\* An index refers to its table exactly while a live table knows it, and the
\* columns it reads are there (ReferSound).
THEOREM IndexesReferToLiveTable == Spec => []ReferSound
<1>1. IInv => ReferSound
  BY DEF IInv
<1> QED BY <1>1, TableInvariant, PTL

-----------------------------------------------------------------------------
(* Table implements IndexedTable.                                          *)

\* Removing the row just inserted gives the rows back.
LEMMA RemoveInserted ==
  ASSUME NEW R, NEW s \in Seq(R), NEW p \in 1..Len(s), NEW e \in R
  PROVE  /\ p \in DOMAIN InsertAt(s, p, e)
         /\ s = RemoveAt(InsertAt(s, p, e), p)
<1> DEFINE t == InsertAt(s, p, e)
           u == RemoveAt(t, p)
<1>0. Len(s) \in Nat /\ p \in Nat /\ p <= Len(s)
  OBVIOUS
<1>1. /\ t \in Seq(R) /\ Len(t) = Len(s) + 1
      /\ \A j \in 1..(Len(s) + 1) : t[j] = IF j < p THEN s[j]
                                          ELSE IF j = p THEN e ELSE s[j - 1]
  <2> HIDE DEF u
  <2> QED BY <1>0, InsertAtLemma
<1> HIDE DEF t
<1>2. p \in 1..Len(t) /\ p \in DOMAIN t
  BY <1>0, <1>1
<1>3. /\ u \in Seq(R) /\ Len(u) = Len(t) - 1
      /\ \A j \in 1..(Len(t) - 1) : u[j] = IF j < p THEN t[j] ELSE t[j + 1]
  BY <1>1, <1>2, RemoveAtLemma
<1> HIDE DEF u
<1>4. Len(u) = Len(s)
  BY <1>0, <1>1, <1>3
<1>5. ASSUME NEW j \in 1..Len(s) PROVE s[j] = u[j]
  <2>1. CASE j < p
    BY <1>0, <1>1, <1>3, <2>1
  <2>2. CASE ~(j < p)
    <3>1. u[j] = t[j + 1]
      BY <1>0, <1>1, <1>3, <2>2
    <3>2. j + 1 \in 1..(Len(s) + 1) /\ ~(j + 1 < p) /\ j + 1 # p /\ (j + 1) - 1 = j
      BY <1>0, <2>2
    <3>3. t[j + 1] = s[(j + 1) - 1]
      BY <1>1, <3>2
    <3> QED BY <3>1, <3>2, <3>3
  <2> QED BY <2>1, <2>2
<1>6. s = u
  BY <1>3, <1>4, <1>5, SeqEqual
<1> QED BY <1>2, <1>6 DEF t, u

\* Removing the row just appended gives the rows back.
LEMMA RemoveAppended ==
  ASSUME NEW R, NEW s \in Seq(R), NEW e \in R
  PROVE  /\ Len(s) + 1 \in DOMAIN Append(s, e)
         /\ s = RemoveAt(Append(s, e), Len(s) + 1)
<1> DEFINE t == Append(s, e)
           u == RemoveAt(t, Len(s) + 1)
<1>1. /\ t \in Seq(R) /\ Len(t) = Len(s) + 1 /\ Len(s) \in Nat
      /\ \A j \in 1..Len(s) : t[j] = s[j]
  OBVIOUS
<1> HIDE DEF t
<1>2. Len(s) + 1 \in 1..Len(t) /\ Len(s) + 1 \in DOMAIN t
  BY <1>1
<1>3. /\ u \in Seq(R) /\ Len(u) = Len(t) - 1
      /\ \A j \in 1..(Len(t) - 1) : u[j] = IF j < Len(s) + 1 THEN t[j] ELSE t[j + 1]
  BY <1>1, <1>2, RemoveAtLemma
<1> HIDE DEF u
<1>4. Len(u) = Len(s) /\ \A j \in 1..Len(s) : s[j] = u[j]
  BY <1>1, <1>3
<1>5. s = u
  BY <1>3, <1>4, SeqEqual
<1> QED BY <1>2, <1>5 DEF t, u

\* An exact index is the view of the rows.
LEMMA ViewLemma ==
  ASSUME NEW i, NEW m, IsMap(m), NEW R, NEW rs \in Seq(R), Describes(i, m, rs)
  PROVE  [k \in DOMAIN m |-> Range(m[k])] = Abstract!View(i, rs)
<1> DEFINE K == {KeyOf(i, rs[r]) : r \in DOMAIN rs}
           with(k) == {r \in 0..(Len(rs) - 1) : KeyOf(i, rs[r + 1]) = k}
<1>0. Len(rs) \in Nat /\ DOMAIN rs = 1..Len(rs)
  OBVIOUS
<1>1. \A k \in DOMAIN m : \A r \in Range(m[k]) : r \in Nat
  BY DEF IsMap, Range
<1>2. ASSUME NEW k \in DOMAIN m PROVE Range(m[k]) = with(k)
  <2>1. ASSUME NEW r \in Range(m[k]) PROVE r \in with(k)
    <3>1. r \in Nat /\ r < Len(rs) /\ KeyOf(i, rs[r + 1]) = k
      BY <1>1 DEF Describes
    <3> QED BY <1>0, <3>1
  <2>2. ASSUME NEW r \in with(k) PROVE r \in Range(m[k])
    <3>1. r \in 0..(Len(rs) - 1) /\ KeyOf(i, rs[r + 1]) = k
      OBVIOUS
    <3>2. Found(m, KeyOf(i, rs[r + 1]), r)
      BY <3>1 DEF Describes
    <3> QED BY <3>1, <3>2 DEF Found
  <2> QED BY <2>1, <2>2
<1>3. DOMAIN m = K
  <2>1. ASSUME NEW k \in DOMAIN m PROVE k \in K
    <3>1. m[k] \in Seq(Nat) /\ m[k] # <<>>
      BY DEF IsMap, Describes
    <3>2. m[k][1] \in Range(m[k])
      BY <3>1 DEF Range
    <3>3. m[k][1] \in Nat /\ m[k][1] < Len(rs) /\ KeyOf(i, rs[m[k][1] + 1]) = k
      BY <1>1, <3>2 DEF Describes
    <3>4. m[k][1] + 1 \in DOMAIN rs
      BY <1>0, <3>3
    <3> QED BY <3>3, <3>4
  <2>2. ASSUME NEW r \in DOMAIN rs PROVE KeyOf(i, rs[r]) \in DOMAIN m
    <3>1. r - 1 \in 0..(Len(rs) - 1) /\ (r - 1) + 1 = r
      BY <1>0
    <3>2. Found(m, KeyOf(i, rs[(r - 1) + 1]), r - 1)
      BY <3>1 DEF Describes
    <3> QED BY <3>1, <3>2 DEF Found
  <2> QED BY <2>1, <2>2
<1>4. Abstract!View(i, rs) = [k \in K |-> with(k)]
  BY DEF Abstract!View
<1> HIDE DEF K, with
<1> QED BY <1>2, <1>3, <1>4

\* What a client looks up is the view of the rows.
LEMMA LookupLemma ==
  IInv => Lookup = [i \in Serving |-> Abstract!View(i, rows)]
<1> SUFFICES ASSUME IInv
             PROVE  Lookup = [i \in Serving |-> Abstract!View(i, rows)]
  OBVIOUS
<1>1. ASSUME NEW i \in Serving
      PROVE  [k \in DOMAIN map[i] |-> Range(map[i][k])] = Abstract!View(i, rows)
  <2>1. i \in subscribed /\ i \notin misled
    BY DEF Serving
  <2>2. IsMap(map[i]) /\ Describes(i, map[i], rows) /\ rows \in Seq(Row)
    BY <2>1, SubscribedFacts
  <2> QED BY <2>2, ViewLemma
<1> QED BY <1>1 DEF Lookup

\* The same of the state after a step.
LEMMA NextLookupLemma ==
  IInv' => Lookup' = [i \in Serving' |-> Abstract!View(i, rows')]
<1>1. (IInv => Lookup = [i \in Serving |-> Abstract!View(i, rows)])'
  BY LookupLemma, PTL
<1> QED BY <1>1 DEF Abstract!View, KeyOf

\* The indexes at risk: those a Set method has touched.
Risked == {i \in Serving : reset[i]}

\* The abstract state while the program runs.
LEMMA KeptState ==
  ASSUME Kept
  PROVE  /\ Kept = TRUE
         /\ (IF Kept THEN rows ELSE <<>>) = rows
         /\ (IF Kept THEN Lookup ELSE <<>>) = Lookup
         /\ (IF Kept THEN {i \in Serving : reset[i]} ELSE {}) = Risked
         /\ DOMAIN Lookup = Serving
BY DEF Kept, Risked, Lookup

\* The abstract state after a step while the program runs.
LEMMA KeptStateAfter ==
  ASSUME Kept'
  PROVE  /\ Kept' = TRUE
         /\ (IF Kept THEN rows ELSE <<>>)' = rows'
         /\ (IF Kept THEN Lookup ELSE <<>>)' = Lookup'
         /\ (IF Kept THEN {i \in Serving : reset[i]} ELSE {})' = Risked'
BY DEF Kept, Risked

\* A call that adds or deletes a row and changes no subscription is a Change:
\* it loses no index but one at risk.
LEMMA ChangeStep ==
  ASSUME IInv, IInv', Kept, Kept', UNCHANGED <<subscribed, reset>>,
         misled \subseteq misled',
         \/ \E p \in DOMAIN rows' : rows = RemoveAt(rows', p)
         \/ \E p \in DOMAIN rows : rows' = RemoveAt(rows, p)
  PROVE  Abstract!Change
<1>1. Lookup' = [i \in Serving' |-> Abstract!View(i, rows')]
  BY NextLookupLemma
<1>2. \A s, p : Abstract!RemoveAt(s, p) = RemoveAt(s, p)
  BY DEF Abstract!RemoveAt, RemoveAt
<1>3. Abstract!Added \/ Abstract!Deleted
  BY <1>2, KeptState, KeptStateAfter DEF Abstract!Added, Abstract!Deleted
<1>4. Serving' \subseteq Serving
  BY DEF Serving
<1>5. ASSUME NEW i \in Serving \ Serving' PROVE i \in Risked
  <2>1. i \in subscribed' /\ i \in misled' /\ i \in Serving
    BY DEF Serving
  <2>2. reset'[i]
    BY <2>1 DEF IInv, DisorderOnlyFromSet
  <2> QED BY <2>1, <2>2 DEF Risked
<1>6. Risked' = Risked \cap Serving'
  BY <1>4 DEF Risked
<1>7. Abstract!Added \/ Abstract!Deleted
  BY <1>3
<1> QED BY <1>1, <1>4, <1>5, <1>6, <1>7, KeptState, KeptStateAfter DEF Abstract!Change

\* A call that replaces a row is a Set: it loses no index.
LEMMA SetStep ==
  ASSUME IInv, IInv', Kept, Kept', UNCHANGED <<subscribed, misled>>,
         \A i \in Serving : reset[i] => reset'[i],
         Len(rows') = Len(rows),
         \E p \in DOMAIN rows : \A q \in DOMAIN rows : q # p => rows'[q] = rows[q]
  PROVE  Abstract!Set
<1>1. Serving' = Serving
  BY DEF Serving
<1>2. Lookup' = [i \in Serving |-> Abstract!View(i, rows')]
  BY <1>1, NextLookupLemma
<1>3. Abstract!Replaced
  BY KeptState, KeptStateAfter DEF Abstract!Replaced
<1>4. Risked' = Risked \cup Risked' /\ Risked' \in SUBSET Serving
  BY <1>1 DEF Risked
<1> QED BY <1>2, <1>3, <1>4, KeptState, KeptStateAfter DEF Abstract!Set

\* A call that ends the program is a Break.
LEMMA BreakStep ==
  ASSUME Kept, ~Kept'
  PROVE  Abstract!Break
BY DEF Abstract!Break, Kept

\* AppendRow is a Change, or is refused.
LEMMA AppendRefines ==
  ASSUME IInv, IInv', Kept, Kept', NEW vargs \in Vargs, AppendRow(vargs)
  PROVE  Abstract!Change \/ UNCHANGED vars
<1>1. CASE ~Validate(vargs)
  BY <1>1 DEF AppendRow, Refused
<1>2. CASE Validate(vargs)
  <2> DEFINE row == MakeRow(vargs)
  <2>1. rows' = Append(rows, row) /\ UNCHANGED <<subscribed, reset, misled>>
    BY <1>2 DEF AppendRow
  <2>2. row \in Row /\ rows \in Seq(Row)
    BY <1>2, MakeRowLemma DEF IInv, TypeOK
  <2> HIDE DEF row
  <2>3. Len(rows) + 1 \in DOMAIN rows' /\ rows = RemoveAt(rows', Len(rows) + 1)
    BY <2>1, <2>2, RemoveAppended
  <2> QED BY <2>1, <2>3, ChangeStep
<1> QED BY <1>1, <1>2

\* DeleteRow is a Change, or is refused.
LEMMA DeleteRefines ==
  ASSUME IInv, IInv', Kept, Kept', NEW n \in RowNum, DeleteRow(n)
  PROVE  Abstract!Change \/ UNCHANGED vars
<1>0. n \in Nat /\ Len(rows) \in Nat /\ DOMAIN rows = 1..Len(rows)
  BY BoundAssumption DEF RowNum, IInv, TypeOK
<1>1. CASE Refused
  BY <1>1 DEF Refused
<1>2. CASE n < Height /\ RemoveRow(n)
  <2>1. /\ rows' = RemoveAt(rows, n + 1)
        /\ UNCHANGED <<subscribed, reset>> /\ misled \subseteq misled'
    BY <1>2 DEF RemoveRow
  <2>2. n + 1 \in DOMAIN rows
    BY <1>0, <1>2 DEF Height
  <2> QED BY <2>1, <2>2, ChangeStep
<1> QED BY <1>1, <1>2 DEF DeleteRow, Faulty, Kept

\* InsertRow is a Change, or is refused.
LEMMA InsertRefines ==
  ASSUME IInv, IInv', Kept, Kept', NEW n \in RowNum, NEW vargs \in Vargs, InsertRow(n, vargs)
  PROVE  Abstract!Change \/ UNCHANGED vars
<1>0. n \in Nat /\ Len(rows) \in Nat /\ rows \in Seq(Row)
  BY BoundAssumption DEF RowNum, IInv, TypeOK
<1>1. CASE Refused
  BY <1>1 DEF Refused
<1>2. CASE /\ n < Height /\ Validate(vargs)
           /\ rows' = InsertAt(rows, n + 1, MakeRow(vargs))
           /\ UNCHANGED <<subscribed, reset>> /\ misled \subseteq misled'
  <2>1. MakeRow(vargs) \in Row
    BY <1>2, MakeRowLemma DEF IInv
  <2>2. n + 1 \in 1..Len(rows)
    BY <1>0, <1>2 DEF Height
  <2>3. n + 1 \in DOMAIN rows' /\ rows = RemoveAt(rows', n + 1)
    BY <1>0, <1>2, <2>1, <2>2, RemoveInserted
  <2> QED BY <1>2, <2>3, ChangeStep
<1> QED BY <1>1, <1>2 DEF InsertRow, Faulty, Kept

\* Replacing a row is a Set.
LEMMA ReplaceRefines ==
  ASSUME IInv, IInv', Kept, Kept', NEW S, NEW n \in Nat, n < Height, NEW row,
         ReplaceRow(S, n, row)
  PROVE  Abstract!Set
<1>1. rows' = [rows EXCEPT ![n + 1] = row] /\ UNCHANGED <<subscribed, misled>>
  BY DEF ReplaceRow
<1>2. rows \in Seq(Row) /\ Len(rows) \in Nat /\ DOMAIN rows = 1..Len(rows)
  BY DEF IInv, TypeOK
<1>3. rows' \in Seq(Row') /\ DOMAIN rows' = DOMAIN rows /\ Len(rows') = Len(rows)
  <2>1. rows' \in Seq(Row')
    BY DEF IInv, TypeOK
  <2>2. DOMAIN rows' = DOMAIN rows
    BY <1>1
  <2>3. DOMAIN rows' = 1..Len(rows') /\ Len(rows') \in Nat
    BY <2>1
  <2> QED BY <1>2, <2>1, <2>2, <2>3
<1>4. n + 1 \in DOMAIN rows
  BY <1>2 DEF Height
<1>5. \A q \in DOMAIN rows : q # n + 1 => rows'[q] = rows[q]
  BY <1>1
<1>6. \A i \in Serving : reset[i] => reset'[i]
  BY DEF ReplaceRow, Serving, IInv, TypeOK
<1> QED BY <1>1, <1>3, <1>4, <1>5, <1>6, SetStep

\* CreateIndex is a Build, or returns no index.
LEMMA CreateIndexRefines ==
  ASSUME IInv, IInv', Kept, Kept', NEW i \in Index, CreateIndex(i)
  PROVE  Abstract!Build \/ UNCHANGED vars
<1>1. CASE Refused
  BY <1>1 DEF Refused
<1>2. CASE /\ UNCHANGED rows /\ i \notin subscribed
           /\ subscribed' = subscribed \cup {i}
           /\ misled' = misled \ {i}
           /\ reset' = [reset EXCEPT ![i] = FALSE]
  <2>1. Serving' = Serving \cup {i} /\ i \notin Serving
    BY <1>2 DEF Serving
  <2>2. Lookup' = [j \in Serving \cup {i} |-> Abstract!View(j, rows)]
    BY <1>2, <2>1, NextLookupLemma
  <2>3. Risked' = Risked
    BY <1>2, <2>1 DEF Risked, Serving, IInv, TypeOK
  <2> QED BY <1>2, <2>1, <2>2, <2>3, KeptState, KeptStateAfter DEF Abstract!Build
<1> QED BY <1>1, <1>2 DEF CreateIndex

\* DeleteIndex and DeleteAllIndices are a Drop.
LEMMA UnSubscribeRefines ==
  ASSUME Kept, Kept', NEW S, UnSubscribe(S), UNCHANGED <<rows, map, reset, misled>>
  PROVE  Abstract!Drop
<1>1. Serving' \subseteq Serving
  BY DEF UnSubscribe, Serving
<1>2. Lookup' = [i \in Serving' |-> Lookup[i]]
  BY <1>1 DEF Lookup
<1>3. Risked' = Risked \cap Serving'
  BY <1>1 DEF Risked
<1> QED BY <1>1, <1>2, <1>3, KeptState, KeptStateAfter DEF Abstract!Drop

\* A function on nothing is the empty sequence.
LEMMA EmptyFunction ==
  ASSUME NEW f, NEW S, f \in [{} -> S]
  PROVE  f = <<>>
<1>1. f \in [1..0 -> S]
  OBVIOUS
<1>2. f \in Seq(S) /\ Len(f) = 0
  BY <1>1, SeqIntro
<1> QED BY <1>2, EmptySeq

\* Clear, the destructor and Dynamic::Table leave no row and no index.
LEMMA EmptyRefines ==
  ASSUME Kept, Kept', rows' = <<>>, subscribed' = {}
  PROVE  Abstract!Empty
<1>1. Serving' = {}
  BY DEF Serving
<1>2. Lookup' \in [{} -> {}] /\ Risked' = {}
  BY <1>1 DEF Lookup, Risked
<1>3. Lookup' = <<>>
  BY <1>2, EmptyFunction
<1> QED BY <1>2, <1>3, KeptState, KeptStateAfter DEF Abstract!Empty

\* The initial state maps to an initial state.
LEMMA InitRefines == Init => Abstract!Init
<1> SUFFICES ASSUME Init PROVE Abstract!Init
  OBVIOUS
<1>1. Serving = {}
  BY DEF Init, Serving
<1>2. Lookup \in [{} -> {}] /\ Risked = {}
  BY <1>1 DEF Lookup, Risked
<1>3. Lookup = <<>>
  BY <1>2, EmptyFunction
<1>4. Kept
  BY DEF Init, Kept
<1> QED BY <1>2, <1>3, <1>4, KeptState DEF Init, Abstract!Init

\* Every step of the table maps to a step or a stutter of the abstract one.
LEMMA NextRefines ==
  IInv /\ IInv' /\ [Next]_vars => [Abstract!Next]_(Abstract!vars)
<1> SUFFICES ASSUME IInv, IInv', [Next]_vars
             PROVE  Abstract!Next \/ UNCHANGED Abstract!vars
  OBVIOUS
<1>s. ASSUME UNCHANGED vars PROVE UNCHANGED Abstract!vars
  BY <1>s DEF vars, Abstract!vars, Kept, Lookup, Serving
<1>1. CASE ~Kept
  <2>1. UNCHANGED vars
    BY <1>1 DEF Kept, Next, Running, AppendRow, DeleteRow, InsertRow, SetRow, SetCellValue,
                CreateIndex, DeleteIndex, DeleteAllIndices, Clear, Destroy, Create
  <2> QED BY <1>s, <2>1
<1>2. CASE Kept /\ ~Kept'
  BY <1>2, BreakStep DEF Abstract!Next
<1>3. CASE Kept /\ Kept'
  <2>1. ASSUME NEW vargs \in Vargs, AppendRow(vargs) PROVE Abstract!Next \/ UNCHANGED vars
    BY <1>3, <2>1, AppendRefines DEF Abstract!Next
  <2>2. ASSUME NEW n \in RowNum, DeleteRow(n) PROVE Abstract!Next \/ UNCHANGED vars
    BY <1>3, <2>2, DeleteRefines DEF Abstract!Next
  <2>3. ASSUME NEW n \in RowNum, NEW vargs \in Vargs, InsertRow(n, vargs)
        PROVE  Abstract!Next \/ UNCHANGED vars
    BY <1>3, <2>3, InsertRefines DEF Abstract!Next
  <2>r. \A n \in RowNum : n \in Nat
    BY BoundAssumption DEF RowNum
  <2>4. ASSUME NEW n \in RowNum, NEW vargs \in Vargs, SetRow(n, vargs)
        PROVE  Abstract!Next \/ UNCHANGED vars
    <3>1. \/ UNCHANGED vars
          \/ n < Height /\ ReplaceRow(subscribed, n, MakeRow(vargs))
      BY <1>3, <2>4 DEF SetRow, Refused, Faulty, Kept
    <3> QED BY <1>3, <2>r, <3>1, ReplaceRefines DEF Abstract!Next
  <2>5. ASSUME NEW n \in RowNum, NEW c \in ColNum, NEW v \in Dynamic, SetCellValue(n, c, v)
        PROVE  Abstract!Next \/ UNCHANGED vars
    <3>1. \/ UNCHANGED vars
          \/ n < Height /\ ReplaceRow(IndexedBy(c), n, [rows[n + 1] EXCEPT ![c] = v])
      BY <1>3, <2>5 DEF SetCellValue, Refused, Faulty, Kept
    <3> QED BY <1>3, <2>r, <3>1, ReplaceRefines DEF Abstract!Next
  <2>6. ASSUME NEW i \in Index, CreateIndex(i) PROVE Abstract!Next \/ UNCHANGED vars
    BY <1>3, <2>6, CreateIndexRefines DEF Abstract!Next
  <2>7. ASSUME NEW i \in Index, DeleteIndex(i) PROVE Abstract!Next
    BY <1>3, <2>7, UnSubscribeRefines DEF Abstract!Next, DeleteIndex
  <2>8. CASE DeleteAllIndices
    BY <1>3, <2>8, UnSubscribeRefines DEF Abstract!Next, DeleteAllIndices
  <2>9. CASE Clear \/ Destroy
    <3>1. rows' = <<>> /\ subscribed' = {}
      BY <2>9 DEF Clear, Destroy, ClearTable, UnSubscribe
    <3> QED BY <1>3, <3>1, EmptyRefines DEF Abstract!Next
  <2>10. CASE Create
    <3>1. rows' = <<>> /\ subscribed' = {}
      BY <2>10 DEF Create, IInv, ReferSound
    <3> QED BY <1>3, <3>1, EmptyRefines DEF Abstract!Next
  <2> QED BY <1>s, <2>1, <2>2, <2>3, <2>4, <2>5, <2>6, <2>7, <2>8, <2>9, <2>10 DEF Next
<1> QED BY <1>1, <1>2, <1>3

\* The table with its incremental indexes implements the table whose indexes
\* are functions of the rows (ImplementsIndexedTable).
THEOREM TableImplementsIndexedTable == Spec => ImplementsIndexedTable
BY InitRefines, NextRefines, TableInvariant, PTL
   DEF Spec, ImplementsIndexedTable, Abstract!Spec
=============================================================================
