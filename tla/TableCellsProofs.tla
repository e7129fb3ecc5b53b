-------------------------- MODULE TableCellsProofs --------------------------
(***************************************************************************)
(* For every set of strings, finite set of variables and bound: a string a *)
(* cell or a variable refers to is never destroyed, and every reference is *)
(* given up in the end, unless SetRow was called with too few arguments.   *)
(***************************************************************************)
EXTENDS TableCells, FiniteSetTheorems, SequenceTheorems, WellFoundedInduction, TLAPS

\* Rows, and what may be in the variables.
Row == [cells : [1..2 -> Str], here : BOOLEAN]
Held == [Var -> Str \cup {None}]

\* The rows with the string in the column, and the variables that hold it.
Column(rs, c, s) == {n \in DOMAIN rs : rs[n].cells[c] = s}
Holding(h, s) == {x \in Var : h[x] = s}

\* The references of the variables h and the rows rs to a string.
Refs(h, rs, s) ==
    Cardinality(Holding(h, s)) + Cardinality(Column(rs, 1, s)) + Cardinality(Column(rs, 2, s))

\* One if the strings are the same, if the element is in the set.
Is(a, b) == IF a = b THEN 1 ELSE 0
In(e, S) == IF e \in S THEN 1 ELSE 0

\* The counts cnt are those of the variables h and the rows rs: no string has more
\* references than it counts, nor fewer as long as no SetRow was short.
Settled(cnt, h, rs, sh) ==
    /\ cnt \in [Str -> Nat] /\ h \in Held /\ rs \in Seq(Row) /\ sh \in Nat
    /\ \A s \in Str : cnt[s] >= Refs(h, rs, s)
    /\ sh = 0 => \A s \in Str : cnt[s] = Refs(h, rs, s)

\* The inductive invariant.
CellsIInv == Settled(count, held, rows, short)

-----------------------------------------------------------------------------
(***************************************************************************)
(* Counting.                                                               *)
(***************************************************************************)

\* Columns are finite.
LEMMA ColumnType ==
  ASSUME NEW rs \in Seq(Row), NEW c \in 1..2, NEW s
  PROVE  IsFiniteSet(Column(rs, c, s)) /\ Cardinality(Column(rs, c, s)) \in Nat
<1>1. PICK n \in Nat : n = Len(rs) /\ DOMAIN rs = 1..n
  OBVIOUS
<1>2. IsFiniteSet(1..n)
  BY FS_Interval
<1>3. Column(rs, c, s) \in SUBSET (1..n)
  BY <1>1 DEF Column
<1> QED
  BY <1>2, <1>3, FS_Subset, FS_CardinalityType

\* So are the variables that hold a string.
LEMMA HoldingType ==
  ASSUME TableCellsAssumption, NEW h, NEW s
  PROVE  IsFiniteSet(Holding(h, s)) /\ Cardinality(Holding(h, s)) \in Nat
<1>1. IsFiniteSet(Var) /\ Holding(h, s) \in SUBSET Var
  BY DEF TableCellsAssumption, Holding
<1> QED
  BY <1>1, FS_Subset, FS_CardinalityType

\* A set that differs in one element.
LEMMA OneElement ==
  ASSUME NEW S, NEW T, NEW e, IsFiniteSet(S), IsFiniteSet(T), S \ {e} = T \ {e}
  PROVE  Cardinality(T) = (Cardinality(S) - In(e, S)) + In(e, T)
<1>1. /\ Cardinality(S) \in Nat /\ Cardinality(T) \in Nat
      /\ Cardinality(S \ {e}) = IF e \in S THEN Cardinality(S) - 1 ELSE Cardinality(S)
      /\ Cardinality(T \ {e}) = IF e \in T THEN Cardinality(T) - 1 ELSE Cardinality(T)
  BY FS_CardinalityType, FS_RemoveElement
<1> QED
  BY <1>1 DEF Is, In

\* A variable is set.
LEMMA HoldingSet ==
  ASSUME TableCellsAssumption, NEW h \in Held, NEW x \in Var, NEW v \in Str \cup {None}, NEW s
  PROVE  /\ [h EXCEPT ![x] = v] \in Held
         /\ Cardinality(Holding([h EXCEPT ![x] = v], s))
              = (Cardinality(Holding(h, s)) - Is(h[x], s)) + Is(v, s)
<1>1. PICK g : g = [h EXCEPT ![x] = v]
  OBVIOUS
<1>2. g \in Held /\ g[x] = v /\ \A y \in Var \ {x} : g[y] = h[y]
  BY <1>1 DEF Held
<1>3. Holding(h, s) \ {x} = Holding(g, s) \ {x}
  BY <1>2 DEF Holding
<1>4. (x \in Holding(h, s) <=> h[x] = s) /\ (x \in Holding(g, s) <=> v = s)
  BY <1>2 DEF Holding
<1>5. IsFiniteSet(Holding(h, s)) /\ IsFiniteSet(Holding(g, s))
  BY HoldingType
<1>6. Cardinality(Holding(g, s))
        = (Cardinality(Holding(h, s)) - In(x, Holding(h, s))) + In(x, Holding(g, s))
  BY <1>3, <1>5, OneElement
<1>7. In(x, Holding(h, s)) = Is(h[x], s) /\ In(x, Holding(g, s)) = Is(v, s)
  BY <1>4 DEF Is, In
<1> QED
  BY <1>1, <1>2, <1>6, <1>7

\* The rows with the cells of one row set.
WithCells(rs, i, cs) == [rs EXCEPT ![i].cells = cs]

\* The cells of a row are set.
LEMMA ColumnSet ==
  ASSUME NEW rs \in Seq(Row), NEW i \in DOMAIN rs, NEW cs \in [1..2 -> Str],
         NEW c \in 1..2, NEW s
  PROVE  /\ WithCells(rs, i, cs) \in Seq(Row)
         /\ Cardinality(Column(WithCells(rs, i, cs), c, s))
              = (Cardinality(Column(rs, c, s)) - Is(rs[i].cells[c], s)) + Is(cs[c], s)
<1>1. PICK r : r = [rs[i] EXCEPT !.cells = cs]
  OBVIOUS
<1>2. rs[i] \in Row
  OBVIOUS
<1>3. r \in Row /\ r.cells = cs
  BY <1>1, <1>2 DEF Row
<1>4. PICK ts : ts = [rs EXCEPT ![i] = r]
  OBVIOUS
<1>5. WithCells(rs, i, cs) = ts
  BY <1>1, <1>4 DEF WithCells
<1>6. ts \in Seq(Row) /\ DOMAIN ts = DOMAIN rs /\ ts[i] = r
      /\ \A n \in DOMAIN rs \ {i} : ts[n] = rs[n]
  BY <1>3, <1>4
<1>7. Column(rs, c, s) \ {i} = Column(ts, c, s) \ {i}
  BY <1>6 DEF Column
<1>8. (i \in Column(rs, c, s) <=> rs[i].cells[c] = s) /\ (i \in Column(ts, c, s) <=> cs[c] = s)
  BY <1>3, <1>6 DEF Column
<1>9. Cardinality(Column(ts, c, s))
        = (Cardinality(Column(rs, c, s)) - In(i, Column(rs, c, s))) + In(i, Column(ts, c, s))
  BY <1>6, <1>7, OneElement, ColumnType
<1>10. In(i, Column(rs, c, s)) = Is(rs[i].cells[c], s)
       /\ In(i, Column(ts, c, s)) = Is(cs[c], s)
  BY <1>8 DEF Is, In
<1> QED
  BY <1>5, <1>6, <1>9, <1>10

\* A row is appended.
LEMMA ColumnAppend ==
  ASSUME NEW rs \in Seq(Row), NEW r \in Row, NEW c \in 1..2, NEW s
  PROVE  /\ Append(rs, r) \in Seq(Row)
         /\ Cardinality(Column(Append(rs, r), c, s))
              = Cardinality(Column(rs, c, s)) + Is(r.cells[c], s)
<1>1. PICK ts : ts = Append(rs, r)
  OBVIOUS
<1>2. PICK n \in Nat : n = Len(rs) /\ DOMAIN rs = 1..n
  OBVIOUS
<1>3. /\ ts \in Seq(Row) /\ DOMAIN ts = 1..(n + 1) /\ ts[n + 1] = r
      /\ \A k \in 1..n : ts[k] = rs[k]
  BY <1>1, <1>2
<1>4. n + 1 \in 1..(n + 1) /\ n + 1 \notin 1..n /\ (1..n) = (1..(n + 1)) \ {n + 1}
  OBVIOUS
<1>5. Column(rs, c, s) \ {n + 1} = Column(ts, c, s) \ {n + 1}
  BY <1>2, <1>3, <1>4 DEF Column
<1>6. n + 1 \notin Column(rs, c, s) /\ (n + 1 \in Column(ts, c, s) <=> r.cells[c] = s)
  BY <1>2, <1>3, <1>4 DEF Column
<1>7. Cardinality(Column(ts, c, s))
        = (Cardinality(Column(rs, c, s)) - In(n + 1, Column(rs, c, s)))
            + In(n + 1, Column(ts, c, s))
  BY <1>3, <1>5, OneElement, ColumnType
<1>8. In(n + 1, Column(rs, c, s)) = 0 /\ In(n + 1, Column(ts, c, s)) = Is(r.cells[c], s)
  BY <1>6 DEF Is, In
<1>9. Cardinality(Column(rs, c, s)) \in Nat
  BY ColumnType
<1> QED
  BY <1>1, <1>3, <1>7, <1>8, <1>9

\* The iterator comes to another row.
LEMMA ColumnMark ==
  ASSUME NEW rs \in Seq(Row), NEW n, NEW c \in 1..2, NEW s
  PROVE  Mark(rs, n) \in Seq(Row) /\ Column(Mark(rs, n), c, s) = Column(rs, c, s)
<1>1. PICK ts : ts = Mark(rs, n)
  OBVIOUS
<1>2. DOMAIN ts = DOMAIN rs /\ \A k \in DOMAIN rs : ts[k] = [rs[k] EXCEPT !.here = (k = n)]
  BY <1>1 DEF Mark
<1>3. \A k \in DOMAIN rs : ts[k] \in Row /\ ts[k].cells = rs[k].cells
  <2> TAKE k \in DOMAIN rs
  <2>1. rs[k] \in Row
    OBVIOUS
  <2>2. (k = n) \in BOOLEAN
    OBVIOUS
  <2>3. PICK b \in BOOLEAN : b = (k = n)
    BY <2>2
  <2>4. ts[k] = [rs[k] EXCEPT !.here = b]
    BY <1>2, <2>3
  <2> QED
    BY <2>1, <2>4 DEF Row
<1>4. PICK m \in Nat : DOMAIN rs = 1..m
  OBVIOUS
<1>5. ts = [k \in 1..m |-> ts[k]]
  BY <1>1, <1>4 DEF Mark
<1>6. ts \in Seq(Row)
  BY <1>3, <1>4, <1>5
<1>7. Column(ts, c, s) = Column(rs, c, s)
  BY <1>2, <1>3 DEF Column
<1> QED
  BY <1>1, <1>6, <1>7

\* What RemoveAt (vector::erase) leaves.
LEMMA RemoveAtLemma ==
  ASSUME NEW S, NEW s \in Seq(S), NEW p \in 1..Len(s)
  PROVE  /\ RemoveAt(s, p) \in Seq(S)
         /\ Len(RemoveAt(s, p)) = Len(s) - 1
         /\ \A j \in 1..(Len(s) - 1) :
               RemoveAt(s, p)[j] = IF j < p THEN s[j] ELSE s[j + 1]
<1> DEFINE a == SubSeq(s, 1, p - 1)
           b == SubSeq(s, p + 1, Len(s))
<1>0. Len(s) \in Nat /\ p \in Nat /\ 1 <= p /\ p <= Len(s)
  OBVIOUS
<1>1. /\ a \in Seq(S) /\ Len(a) = p - 1
      /\ \A j \in 1..(p - 1) : a[j] = s[j]
  OBVIOUS
<1>2. /\ b \in Seq(S) /\ Len(b) = Len(s) - p
      /\ \A j \in 1..(Len(s) - p) : b[j] = s[p + j]
  OBVIOUS
<1>3. RemoveAt(s, p) = a \o b
  BY DEF RemoveAt
<1> HIDE DEF a, b
<1>4. /\ a \o b \in Seq(S)
      /\ Len(a \o b) = Len(a) + Len(b)
      /\ \A j \in 1..(Len(a) + Len(b)) :
            (a \o b)[j] = IF j <= Len(a) THEN a[j] ELSE b[j - Len(a)]
  BY <1>1, <1>2, ConcatProperties
<1>5. ASSUME NEW j \in 1..(Len(s) - 1)
      PROVE  (a \o b)[j] = IF j < p THEN s[j] ELSE s[j + 1]
  <2>1. j \in Nat /\ j \in 1..(Len(a) + Len(b))
    BY <1>0, <1>1, <1>2
  <2>2. CASE j < p
    BY <1>0, <1>1, <1>4, <2>1, <2>2
  <2>3. CASE ~(j < p)
    <3>1. (a \o b)[j] = b[j - (p - 1)]
      BY <1>0, <1>1, <1>4, <2>1, <2>3
    <3>2. b[j - (p - 1)] = s[p + (j - (p - 1))]
      BY <1>0, <1>2, <2>1, <2>3
    <3>3. p + (j - (p - 1)) = j + 1
      BY <1>0, <2>1
    <3> QED BY <3>1, <3>2, <3>3, <2>3
  <2> QED BY <2>2, <2>3
<1>6. Len(a \o b) = Len(s) - 1
  BY <1>0, <1>1, <1>2, <1>4
<1> QED BY <1>3, <1>4, <1>5, <1>6

\* Sequence t is s with e inserted at p.
Inserted(t, s, p, e) ==
    /\ Len(t) = Len(s) + 1
    /\ \A j \in 1..(Len(s) + 1) :
          t[j] = IF j < p THEN s[j] ELSE IF j = p THEN e ELSE s[j - 1]

\* What InsertAt (vector::insert) makes.
LEMMA InsertAtLemma ==
  ASSUME NEW S, NEW s \in Seq(S), NEW p \in 1..Len(s), NEW e \in S
  PROVE  InsertAt(s, p, e) \in Seq(S) /\ Inserted(InsertAt(s, p, e), s, p, e)
BY SMTT(30) DEF InsertAt, Inserted

\* Rows ts are rows rs but for row i.
But(rs, ts, i) ==
    /\ Len(ts) = Len(rs) - 1
    /\ \A j \in 1..Len(ts) : ts[j] = IF j < i THEN rs[j] ELSE rs[j + 1]

\* Then a column has one row less at most.
LEMMA ColumnBut ==
  ASSUME NEW rs \in Seq(Row), NEW ts \in Seq(Row), NEW i \in 1..Len(rs), NEW c \in 1..2, NEW s,
         But(rs, ts, i)
  PROVE  Cardinality(Column(ts, c, s)) = Cardinality(Column(rs, c, s)) - Is(rs[i].cells[c], s)
<1>1. PICK n \in Nat : n = Len(ts) /\ DOMAIN ts = 1..n /\ DOMAIN rs = 1..(n + 1)
  BY DEF But
<1>2. i \in 1..(n + 1)
  BY <1>1
<1>3. PICK S : S = Column(rs, c, s) \ {i}
  OBVIOUS
<1>4. PICK T : T = Column(ts, c, s)
  OBVIOUS
<1>5. PICK f : f = [k \in S |-> IF k < i THEN k ELSE k - 1]
  OBVIOUS
<1>6. S \subseteq 1..(n + 1) /\ i \notin S /\ T \subseteq 1..n
  BY <1>1, <1>3, <1>4 DEF Column
<1>7. \A k \in 1..(n + 1) : k \in S <=> k # i /\ rs[k].cells[c] = s
  BY <1>1, <1>3 DEF Column
<1>8. \A j \in 1..n : j \in T <=> ts[j].cells[c] = s
  BY <1>1, <1>4 DEF Column
<1>9. \A j \in 1..n : ts[j] = IF j < i THEN rs[j] ELSE rs[j + 1]
  BY <1>1 DEF But
<1>10. f \in [S -> T]
  <2> SUFFICES ASSUME NEW k \in S PROVE (IF k < i THEN k ELSE k - 1) \in T
    BY <1>5
  <2>1. k \in 1..(n + 1) /\ k # i /\ rs[k].cells[c] = s
    BY <1>6, <1>7
  <2>2. CASE k < i
    <3>1. k \in 1..n
      BY <1>2, <2>1, <2>2
    <3> QED
      BY <2>1, <2>2, <3>1, <1>8, <1>9
  <2>3. CASE ~(k < i)
    <3>1. k - 1 \in 1..n /\ ~(k - 1 < i) /\ (k - 1) + 1 = k
      BY <1>2, <2>1, <2>3
    <3> QED
      BY <2>1, <2>3, <3>1, <1>8, <1>9
  <2> QED
    BY <2>2, <2>3
<1>11. \A a, b \in S : f[a] = f[b] => a = b
  <2> TAKE a, b \in S
  <2>1. a \in 1..(n + 1) /\ b \in 1..(n + 1) /\ a # i /\ b # i
    BY <1>6
  <2>2. f[a] = (IF a < i THEN a ELSE a - 1) /\ f[b] = (IF b < i THEN b ELSE b - 1)
    BY <1>5
  <2> QED
    BY <1>2, <2>1, <2>2
<1>12. \A j \in T : \E k \in S : f[k] = j
  <2> TAKE j \in T
  <2>1. j \in 1..n /\ ts[j].cells[c] = s
    BY <1>6, <1>8
  <2>2. CASE j < i
    <3>1. j \in 1..(n + 1) /\ j # i
      BY <2>1, <2>2
    <3>2. j \in S
      BY <2>1, <2>2, <3>1, <1>7, <1>9
    <3> QED
      BY <1>5, <2>2, <3>2
  <2>3. CASE ~(j < i)
    <3>1. j + 1 \in 1..(n + 1) /\ j + 1 # i /\ ~(j + 1 < i) /\ (j + 1) - 1 = j
      BY <1>2, <2>1, <2>3
    <3>2. j + 1 \in S
      BY <2>1, <2>3, <3>1, <1>7, <1>9
    <3> QED
      BY <1>5, <3>1, <3>2
  <2> QED
    BY <2>2, <2>3
<1>13. ExistsBijection(S, T)
  BY <1>10, <1>11, <1>12 DEF ExistsBijection, Bijection, Injection, Surjection, IsInjective
<1>14. /\ IsFiniteSet(Column(rs, c, s)) /\ Cardinality(Column(rs, c, s)) \in Nat
  BY ColumnType
<1>15. /\ IsFiniteSet(S)
       /\ Cardinality(S) = IF i \in Column(rs, c, s) THEN Cardinality(Column(rs, c, s)) - 1
                           ELSE Cardinality(Column(rs, c, s))
  BY <1>3, <1>14, FS_RemoveElement
<1>16. Cardinality(T) = Cardinality(S)
  BY <1>13, <1>15, FS_Bijection
<1>17. i \in Column(rs, c, s) <=> rs[i].cells[c] = s
  BY <1>1, <1>2 DEF Column
<1> QED
  BY <1>4, <1>14, <1>15, <1>16, <1>17 DEF Is, In

\* A row is deleted.
LEMMA ColumnRemove ==
  ASSUME NEW rs \in Seq(Row), NEW i \in 1..Len(rs), NEW c \in 1..2, NEW s
  PROVE  /\ RemoveAt(rs, i) \in Seq(Row)
         /\ Cardinality(Column(RemoveAt(rs, i), c, s))
              = Cardinality(Column(rs, c, s)) - Is(rs[i].cells[c], s)
<1>1. PICK ts : ts = RemoveAt(rs, i)
  OBVIOUS
<1>2. /\ ts \in Seq(Row) /\ Len(ts) = Len(rs) - 1
      /\ \A j \in 1..(Len(rs) - 1) : ts[j] = IF j < i THEN rs[j] ELSE rs[j + 1]
  BY <1>1, RemoveAtLemma
<1>3. But(rs, ts, i)
  BY <1>2 DEF But
<1>4. Cardinality(Column(ts, c, s)) = Cardinality(Column(rs, c, s)) - Is(rs[i].cells[c], s)
  BY <1>2, <1>3, ColumnBut
<1> QED
  BY <1>1, <1>2, <1>4

\* A row is inserted.
LEMMA ColumnInsert ==
  ASSUME NEW rs \in Seq(Row), NEW i \in 1..Len(rs), NEW r \in Row, NEW c \in 1..2, NEW s
  PROVE  /\ InsertAt(rs, i, r) \in Seq(Row)
         /\ Cardinality(Column(InsertAt(rs, i, r), c, s))
              = Cardinality(Column(rs, c, s)) + Is(r.cells[c], s)
<1>1. PICK ts : ts = InsertAt(rs, i, r)
  OBVIOUS
<1>2. /\ ts \in Seq(Row) /\ Len(ts) = Len(rs) + 1
      /\ \A j \in 1..(Len(rs) + 1) :
           ts[j] = IF j < i THEN rs[j] ELSE IF j = i THEN r ELSE rs[j - 1]
  <2>1. ts \in Seq(Row) /\ Inserted(ts, rs, i, r)
    BY <1>1, InsertAtLemma
  <2> QED
    BY <2>1 DEF Inserted
<1>3. PICK n \in Nat : n = Len(rs)
  OBVIOUS
<1>4. Len(rs) = Len(ts) - 1 /\ i \in 1..Len(ts) /\ ts[i] = r
  BY <1>2, <1>3
<1>5. \A j \in 1..Len(rs) : rs[j] = IF j < i THEN ts[j] ELSE ts[j + 1]
  <2> TAKE j \in 1..Len(rs)
  <2>1. j \in 1..(n + 1) /\ j + 1 \in 1..(n + 1) /\ (j + 1) - 1 = j /\ (~(j < i) => ~(j + 1 < i) /\ j + 1 # i)
    BY <1>3
  <2> QED
    BY <1>2, <1>3, <2>1
<1>6. Cardinality(Column(rs, c, s)) = Cardinality(Column(ts, c, s)) - Is(ts[i].cells[c], s)
  <2>1. ts \in Seq(Row) /\ i \in 1..Len(ts)
    BY <1>2, <1>4
  <2>2. But(ts, rs, i)
    BY <1>4, <1>5 DEF But
  <2> QED
    BY <2>1, <2>2, ColumnBut
<1>7. Cardinality(Column(ts, c, s)) \in Nat /\ Is(ts[i].cells[c], s) \in Nat
  BY <1>2, ColumnType DEF Is, In
<1> QED
  BY <1>1, <1>2, <1>4, <1>6, <1>7

-----------------------------------------------------------------------------
(***************************************************************************)
(* References.                                                             *)
(***************************************************************************)

\* A string has a number of references.
LEMMA RefsType ==
  ASSUME TableCellsAssumption, NEW h, NEW rs \in Seq(Row), NEW s
  PROVE  Refs(h, rs, s) \in Nat
<1>1. 1 \in 1..2 /\ 2 \in 1..2
  OBVIOUS
<1>2. Cardinality(Column(rs, 1, s)) \in Nat /\ Cardinality(Column(rs, 2, s)) \in Nat
  BY <1>1, ColumnType
<1>3. Cardinality(Holding(h, s)) \in Nat
  BY HoldingType
<1> QED
  BY <1>2, <1>3 DEF Refs

\* A variable is set.
LEMMA RefsHeld ==
  ASSUME TableCellsAssumption, NEW h \in Held, NEW rs \in Seq(Row), NEW x \in Var,
         NEW v \in Str \cup {None}, NEW s
  PROVE  /\ [h EXCEPT ![x] = v] \in Held
         /\ Refs([h EXCEPT ![x] = v], rs, s) = (Refs(h, rs, s) - Is(h[x], s)) + Is(v, s)
<1>1. PICK g : g = [h EXCEPT ![x] = v]
  OBVIOUS
<1>2. /\ g \in Held
      /\ Cardinality(Holding(g, s)) = (Cardinality(Holding(h, s)) - Is(h[x], s)) + Is(v, s)
  BY <1>1, HoldingSet
<1>3. 1 \in 1..2 /\ 2 \in 1..2
  OBVIOUS
<1>4. Cardinality(Column(rs, 1, s)) \in Nat /\ Cardinality(Column(rs, 2, s)) \in Nat
  BY <1>3, ColumnType
<1>5. Cardinality(Holding(h, s)) \in Nat
  BY HoldingType
<1>6. Is(h[x], s) \in Nat /\ Is(v, s) \in Nat
  BY DEF Is
<1> QED
  BY <1>1, <1>2, <1>4, <1>5, <1>6 DEF Refs

\* The rows are others, with a references more and b fewer in the first column, and so
\* on in the second.
LEMMA RefsRows ==
  ASSUME TableCellsAssumption, NEW h, NEW rs \in Seq(Row), NEW ts \in Seq(Row), NEW s,
         NEW a \in Int, NEW b \in Int,
         Cardinality(Column(ts, 1, s)) = Cardinality(Column(rs, 1, s)) + a,
         Cardinality(Column(ts, 2, s)) = Cardinality(Column(rs, 2, s)) + b
  PROVE  Refs(h, ts, s) = (Refs(h, rs, s) + a) + b
<1>1. 1 \in 1..2 /\ 2 \in 1..2
  OBVIOUS
<1>2. Cardinality(Column(rs, 1, s)) \in Nat /\ Cardinality(Column(rs, 2, s)) \in Nat
  BY <1>1, ColumnType
<1>3. Cardinality(Holding(h, s)) \in Nat
  BY HoldingType
<1> QED
  BY <1>2, <1>3 DEF Refs

\* A row is appended.
LEMMA RefsAppend ==
  ASSUME TableCellsAssumption, NEW h, NEW rs \in Seq(Row), NEW r \in Row, NEW s
  PROVE  /\ Append(rs, r) \in Seq(Row)
         /\ Refs(h, Append(rs, r), s) = (Refs(h, rs, s) + Is(r.cells[1], s)) + Is(r.cells[2], s)
<1>1. PICK ts : ts = Append(rs, r)
  OBVIOUS
<1>2. 1 \in 1..2 /\ 2 \in 1..2
  OBVIOUS
<1>3. /\ ts \in Seq(Row)
      /\ Cardinality(Column(ts, 1, s)) = Cardinality(Column(rs, 1, s)) + Is(r.cells[1], s)
      /\ Cardinality(Column(ts, 2, s)) = Cardinality(Column(rs, 2, s)) + Is(r.cells[2], s)
  BY <1>1, <1>2, ColumnAppend
<1>4. PICK a \in Int : a = Is(r.cells[1], s)
  BY DEF Is
<1>5. PICK b \in Int : b = Is(r.cells[2], s)
  BY DEF Is
<1>6. Refs(h, ts, s) = (Refs(h, rs, s) + a) + b
  BY <1>3, <1>4, <1>5, RefsRows
<1> QED
  BY <1>1, <1>3, <1>4, <1>5, <1>6

\* A row is inserted.
LEMMA RefsInsert ==
  ASSUME TableCellsAssumption, NEW h, NEW rs \in Seq(Row), NEW i \in 1..Len(rs), NEW r \in Row, NEW s
  PROVE  /\ InsertAt(rs, i, r) \in Seq(Row)
         /\ Refs(h, InsertAt(rs, i, r), s)
              = (Refs(h, rs, s) + Is(r.cells[1], s)) + Is(r.cells[2], s)
<1>1. PICK ts : ts = InsertAt(rs, i, r)
  OBVIOUS
<1>2. 1 \in 1..2 /\ 2 \in 1..2
  OBVIOUS
<1>3. /\ ts \in Seq(Row)
      /\ Cardinality(Column(ts, 1, s)) = Cardinality(Column(rs, 1, s)) + Is(r.cells[1], s)
      /\ Cardinality(Column(ts, 2, s)) = Cardinality(Column(rs, 2, s)) + Is(r.cells[2], s)
  BY <1>1, <1>2, ColumnInsert
<1>4. PICK a \in Int : a = Is(r.cells[1], s)
  BY DEF Is
<1>5. PICK b \in Int : b = Is(r.cells[2], s)
  BY DEF Is
<1>6. Refs(h, ts, s) = (Refs(h, rs, s) + a) + b
  BY <1>3, <1>4, <1>5, RefsRows
<1> QED
  BY <1>1, <1>3, <1>4, <1>5, <1>6

\* A row is deleted.
LEMMA RefsRemove ==
  ASSUME TableCellsAssumption, NEW h, NEW rs \in Seq(Row), NEW i \in 1..Len(rs), NEW s
  PROVE  /\ RemoveAt(rs, i) \in Seq(Row)
         /\ Refs(h, RemoveAt(rs, i), s)
              = (Refs(h, rs, s) - Is(rs[i].cells[1], s)) - Is(rs[i].cells[2], s)
<1>1. PICK ts : ts = RemoveAt(rs, i)
  OBVIOUS
<1>2. 1 \in 1..2 /\ 2 \in 1..2
  OBVIOUS
<1>3. /\ ts \in Seq(Row)
      /\ Cardinality(Column(ts, 1, s)) = Cardinality(Column(rs, 1, s)) - Is(rs[i].cells[1], s)
      /\ Cardinality(Column(ts, 2, s)) = Cardinality(Column(rs, 2, s)) - Is(rs[i].cells[2], s)
  BY <1>1, <1>2, ColumnRemove
<1>4. PICK a \in Int : a = Is(rs[i].cells[1], s)
  BY DEF Is
<1>5. PICK b \in Int : b = Is(rs[i].cells[2], s)
  BY DEF Is
<1>6. Cardinality(Column(rs, 1, s)) \in Nat /\ Cardinality(Column(rs, 2, s)) \in Nat
  BY <1>2, ColumnType
<1>7. /\ Cardinality(Column(ts, 1, s)) = Cardinality(Column(rs, 1, s)) + (-a)
      /\ Cardinality(Column(ts, 2, s)) = Cardinality(Column(rs, 2, s)) + (-b)
      /\ -a \in Int /\ -b \in Int
  BY <1>3, <1>4, <1>5, <1>6
<1>8. Refs(h, ts, s) = (Refs(h, rs, s) + (-a)) + (-b)
  BY <1>3, <1>7, RefsRows
<1>9. Refs(h, rs, s) \in Nat
  BY RefsType
<1> QED
  BY <1>1, <1>3, <1>4, <1>5, <1>8, <1>9

\* Taking q off and adding r is adding their difference.
LEMMA Difference ==
  ASSUME NEW n, NEW p \in Int, NEW q \in Int, NEW r \in Int, NEW a \in Int,
         n = (p - q) + r, a = r - q
  PROVE  n = p + a
OBVIOUS

\* The cells of a row are set.
LEMMA RefsSet ==
  ASSUME TableCellsAssumption, NEW h, NEW rs \in Seq(Row), NEW i \in DOMAIN rs,
         NEW cs \in [1..2 -> Str], NEW s
  PROVE  /\ WithCells(rs, i, cs) \in Seq(Row)
         /\ Refs(h, WithCells(rs, i, cs), s)
              = (Refs(h, rs, s) + (Is(cs[1], s) - Is(rs[i].cells[1], s)))
                  + (Is(cs[2], s) - Is(rs[i].cells[2], s))
<1>1. PICK ts : ts = WithCells(rs, i, cs)
  OBVIOUS
<1>2. 1 \in 1..2 /\ 2 \in 1..2
  OBVIOUS
<1>3. /\ ts \in Seq(Row)
      /\ Cardinality(Column(ts, 1, s))
           = (Cardinality(Column(rs, 1, s)) - Is(rs[i].cells[1], s)) + Is(cs[1], s)
  BY <1>1, <1>2, ColumnSet
<1>4. Cardinality(Column(ts, 2, s))
         = (Cardinality(Column(rs, 2, s)) - Is(rs[i].cells[2], s)) + Is(cs[2], s)
  BY <1>1, <1>2, ColumnSet
<1>5. /\ Is(rs[i].cells[1], s) \in Int /\ Is(rs[i].cells[2], s) \in Int
      /\ Is(cs[1], s) \in Int /\ Is(cs[2], s) \in Int
  BY DEF Is
<1>6. PICK a \in Int : a = Is(cs[1], s) - Is(rs[i].cells[1], s)
  BY <1>5
<1>7. PICK b \in Int : b = Is(cs[2], s) - Is(rs[i].cells[2], s)
  BY <1>5
<1>8. Cardinality(Column(rs, 1, s)) \in Nat /\ Cardinality(Column(rs, 2, s)) \in Nat
  BY <1>2, ColumnType
<1>9. /\ Cardinality(Column(ts, 1, s)) = Cardinality(Column(rs, 1, s)) + a
      /\ Cardinality(Column(ts, 2, s)) = Cardinality(Column(rs, 2, s)) + b
  <2>1. Cardinality(Column(rs, 1, s)) \in Int /\ Cardinality(Column(rs, 2, s)) \in Int
    BY <1>8
  <2>2. Cardinality(Column(ts, 1, s)) = Cardinality(Column(rs, 1, s)) + a
    BY <1>3, <1>5, <1>6, <2>1, Difference
  <2>3. Cardinality(Column(ts, 2, s)) = Cardinality(Column(rs, 2, s)) + b
    BY <1>4, <1>5, <1>7, <2>1, Difference
  <2> QED
    BY <2>2, <2>3
<1>10. Refs(h, ts, s) = (Refs(h, rs, s) + a) + b
  BY <1>3, <1>9, RefsRows
<1> QED
  BY <1>1, <1>3, <1>6, <1>7, <1>10

\* The iterator comes to another row.
LEMMA RefsMark ==
  ASSUME NEW h, NEW rs \in Seq(Row), NEW n, NEW s
  PROVE  Mark(rs, n) \in Seq(Row) /\ Refs(h, Mark(rs, n), s) = Refs(h, rs, s)
<1>1. 1 \in 1..2 /\ 2 \in 1..2
  OBVIOUS
<1>2. /\ Mark(rs, n) \in Seq(Row)
      /\ Column(Mark(rs, n), 1, s) = Column(rs, 1, s)
      /\ Column(Mark(rs, n), 2, s) = Column(rs, 2, s)
  BY <1>1, ColumnMark
<1> QED
  BY <1>2 DEF Refs

\* A reference is counted, or given up.
LEMMA IncDec ==
  ASSUME NEW cnt \in [Str -> Int], NEW a \in Str
  PROVE  /\ Inc(cnt, a) \in [Str -> Int] /\ Dec(cnt, a) \in [Str -> Int]
         /\ \A s \in Str : Inc(cnt, a)[s] = cnt[s] + Is(a, s)
         /\ \A s \in Str : Dec(cnt, a)[s] = cnt[s] - Is(a, s)
BY DEF Inc, Dec, Is, In

\* The counts follow the references.
LEMMA Follow ==
  ASSUME TableCellsAssumption, NEW cnt, NEW h, NEW rs, NEW sh, Settled(cnt, h, rs, sh),
         NEW dnt \in [Str -> Int], NEW g \in Held, NEW ts \in Seq(Row), NEW th \in Nat,
         \A s \in Str : dnt[s] - cnt[s] >= Refs(g, ts, s) - Refs(h, rs, s),
         th = 0 => sh = 0 /\ \A s \in Str : dnt[s] - cnt[s] = Refs(g, ts, s) - Refs(h, rs, s)
  PROVE  Settled(dnt, g, ts, th)
<1>1. \A s \in Str : /\ Refs(h, rs, s) \in Nat /\ Refs(g, ts, s) \in Nat
                     /\ cnt[s] \in Nat /\ dnt[s] \in Int
  BY RefsType DEF Settled
<1>2. \A s \in Str : dnt[s] >= Refs(g, ts, s) /\ dnt[s] \in Nat
  <2> TAKE s \in Str
  <2>1. cnt[s] >= Refs(h, rs, s) /\ dnt[s] - cnt[s] >= Refs(g, ts, s) - Refs(h, rs, s)
    BY DEF Settled
  <2> QED
    BY <1>1, <2>1
<1>3. ASSUME th = 0, NEW s \in Str PROVE dnt[s] = Refs(g, ts, s)
  <2>1. cnt[s] = Refs(h, rs, s) /\ dnt[s] - cnt[s] = Refs(g, ts, s) - Refs(h, rs, s)
    BY <1>3 DEF Settled
  <2> QED
    BY <1>1, <2>1
<1>4. dnt \in [Str -> Nat]
  BY <1>2
<1> QED
  BY <1>2, <1>3, <1>4 DEF Settled

\* The counts change as the references do.
Follows(cnt, h, rs, dnt, g, ts) ==
    \A s \in Str : dnt[s] - cnt[s] = Refs(g, ts, s) - Refs(h, rs, s)

\* The counts follow the references, and SetRow is as short as before.
LEMMA FollowExactly ==
  ASSUME TableCellsAssumption, NEW cnt, NEW h, NEW rs, NEW sh, Settled(cnt, h, rs, sh),
         NEW dnt \in [Str -> Int], NEW g \in Held, NEW ts \in Seq(Row),
         Follows(cnt, h, rs, dnt, g, ts)
  PROVE  Settled(dnt, g, ts, sh)
<1>1. sh \in Nat /\ rs \in Seq(Row) /\ cnt \in [Str -> Nat]
  BY DEF Settled
<1>2. \A s \in Str : dnt[s] - cnt[s] >= Refs(g, ts, s) - Refs(h, rs, s)
  <2> TAKE s \in Str
  <2>1. Refs(g, ts, s) \in Nat /\ Refs(h, rs, s) \in Nat
    BY <1>1, RefsType
  <2>2. dnt[s] - cnt[s] = Refs(g, ts, s) - Refs(h, rs, s)
    BY DEF Follows
  <2> QED
    BY <2>1, <2>2
<1>3. \A s \in Str : dnt[s] - cnt[s] = Refs(g, ts, s) - Refs(h, rs, s)
  BY DEF Follows
<1> QED
  BY <1>1, <1>2, <1>3, Follow

\* Another row has the iterator.
LEMMA SettledMark ==
  ASSUME NEW cnt, NEW h, NEW rs, NEW sh, Settled(cnt, h, rs, sh), NEW n
  PROVE  Settled(cnt, h, Mark(rs, n), sh)
<1>1. rs \in Seq(Row)
  BY DEF Settled
<1>2. Mark(rs, n) \in Seq(Row) /\ \A s : Refs(h, Mark(rs, n), s) = Refs(h, rs, s)
  BY <1>1, RefsMark
<1> QED
  BY <1>2 DEF Settled

\* A row is placed where the counts allow for it.
LEMMA PlaceSettles ==
  ASSUME NEW rs, NEW n, NEW cells, NEW v, NEW cnt, NEW es, NEW incremental, NEW touched,
         Place(rs, n, cells, v, cnt, es, incremental, touched),
         Settled(cnt, held, rs, short')
  PROVE  CellsIInv'
<1>1. count' = cnt /\ held' = held /\ rows' \in {rs, Mark(rs, 0)}
  BY DEF Place, Keep
<1>2. Settled(cnt, held, Mark(rs, 0), short')
  BY SettledMark
<1>3. Settled(count', held', rows', short')
  BY <1>1, <1>2
<1> QED
  BY <1>3 DEF CellsIInv

\* Arguments are strings.
LEMMA ArgumentsAre ==
  ASSUME held \in Held, NEW args \in Args, NEW d \in Str, Arguments(args, d)
  PROVE  RowOf(args, d) \in [1..2 -> Str]
<1>1. PICK k \in 1..2 : args \in [1..k -> Var]
  BY DEF Args
<1>2. Len(args) = k /\ DOMAIN args = 1..k
  BY <1>1
<1>3. \A c \in 1..2 : c <= k => held[args[c]] \in Str
  <2> SUFFICES ASSUME NEW c \in 1..2, c <= k PROVE held[args[c]] \in Str
    OBVIOUS
  <2>1. c \in 1..k
    OBVIOUS
  <2>2. args[c] \in Var /\ held[args[c]] # None
    BY <1>1, <1>2, <2>1 DEF Arguments
  <2> QED
    BY <2>2 DEF Held
<1>4. \A c \in 1..2 : (IF c <= Len(args) THEN held[args[c]] ELSE d) \in Str
  BY <1>2, <1>3
<1> QED
  BY <1>4 DEF RowOf

\* Two references more are counted.
LEMMA TwoMore ==
  ASSUME TableCellsAssumption, NEW cnt, NEW h, NEW rs, NEW sh, Settled(cnt, h, rs, sh),
         NEW ts \in Seq(Row), NEW a \in Str, NEW b \in Str,
         \A s \in Str : Refs(h, ts, s) = (Refs(h, rs, s) + Is(a, s)) + Is(b, s)
  PROVE  Settled(Inc(Inc(cnt, a), b), h, ts, sh)
<1>1. PICK dnt : dnt = Inc(Inc(cnt, a), b)
  OBVIOUS
<1>2. cnt \in [Str -> Int] /\ rs \in Seq(Row) /\ h \in Held
  BY DEF Settled
<1>3. dnt \in [Str -> Int] /\ \A s \in Str : dnt[s] = (cnt[s] + Is(a, s)) + Is(b, s)
  <2>1. PICK u : u = Inc(cnt, a)
    OBVIOUS
  <2>2. u \in [Str -> Int] /\ \A s \in Str : u[s] = cnt[s] + Is(a, s)
    BY <1>2, <2>1, IncDec
  <2>3. dnt \in [Str -> Int] /\ \A s \in Str : dnt[s] = u[s] + Is(b, s)
    BY <1>1, <2>1, <2>2, IncDec
  <2> QED
    BY <2>2, <2>3
<1>4. \A s \in Str : dnt[s] - cnt[s] = Refs(h, ts, s) - Refs(h, rs, s)
  <2> TAKE s \in Str
  <2>1. Refs(h, rs, s) \in Int /\ cnt[s] \in Int /\ Is(a, s) \in Int /\ Is(b, s) \in Int
    BY <1>2, RefsType DEF Is
  <2>2. Refs(h, ts, s) = (Refs(h, rs, s) + Is(a, s)) + Is(b, s)
    OBVIOUS
  <2>3. dnt[s] = (cnt[s] + Is(a, s)) + Is(b, s)
    BY <1>3
  <2> QED
    BY <2>1, <2>2, <2>3
<1>5. Settled(dnt, h, ts, sh)
  <2>1. Follows(cnt, h, rs, dnt, h, ts)
    BY <1>4 DEF Follows
  <2> QED
    BY <1>2, <1>3, <2>1, FollowExactly
<1> QED
  BY <1>1, <1>5

\* Two references fewer.
LEMMA TwoFewer ==
  ASSUME TableCellsAssumption, NEW cnt, NEW h, NEW rs, NEW sh, Settled(cnt, h, rs, sh),
         NEW ts \in Seq(Row), NEW a \in Str, NEW b \in Str,
         \A s \in Str : Refs(h, ts, s) = (Refs(h, rs, s) - Is(a, s)) - Is(b, s)
  PROVE  Settled(Dec(Dec(cnt, a), b), h, ts, sh)
<1>1. PICK dnt : dnt = Dec(Dec(cnt, a), b)
  OBVIOUS
<1>2. cnt \in [Str -> Int] /\ rs \in Seq(Row) /\ h \in Held
  BY DEF Settled
<1>3. dnt \in [Str -> Int] /\ \A s \in Str : dnt[s] = (cnt[s] - Is(a, s)) - Is(b, s)
  <2>1. PICK u : u = Dec(cnt, a)
    OBVIOUS
  <2>2. u \in [Str -> Int] /\ \A s \in Str : u[s] = cnt[s] - Is(a, s)
    BY <1>2, <2>1, IncDec
  <2>3. dnt \in [Str -> Int] /\ \A s \in Str : dnt[s] = u[s] - Is(b, s)
    BY <1>1, <2>1, <2>2, IncDec
  <2> QED
    BY <2>2, <2>3
<1>4. \A s \in Str : dnt[s] - cnt[s] = Refs(h, ts, s) - Refs(h, rs, s)
  <2> TAKE s \in Str
  <2>1. Refs(h, rs, s) \in Int /\ cnt[s] \in Int /\ Is(a, s) \in Int /\ Is(b, s) \in Int
    BY <1>2, RefsType DEF Is
  <2>2. Refs(h, ts, s) = (Refs(h, rs, s) - Is(a, s)) - Is(b, s)
    OBVIOUS
  <2>3. dnt[s] = (cnt[s] - Is(a, s)) - Is(b, s)
    BY <1>3
  <2> QED
    BY <2>1, <2>2, <2>3
<1>5. Settled(dnt, h, ts, sh)
  <2>1. Follows(cnt, h, rs, dnt, h, ts)
    BY <1>4 DEF Follows
  <2> QED
    BY <1>2, <1>3, <2>1, FollowExactly
<1> QED
  BY <1>1, <1>5

\* Two references are given up for two others.
LEMMA TwoForTwo ==
  ASSUME TableCellsAssumption, NEW cnt, NEW h, NEW rs, NEW sh, Settled(cnt, h, rs, sh),
         NEW ts \in Seq(Row), NEW a \in Str, NEW b \in Str, NEW o \in Str, NEW p \in Str,
         \A s \in Str : Refs(h, ts, s)
                          = (Refs(h, rs, s) + (Is(a, s) - Is(o, s))) + (Is(b, s) - Is(p, s))
  PROVE  Settled(Inc(Inc(Dec(Dec(cnt, o), p), a), b), h, ts, sh)
<1>1. PICK dnt : dnt = Inc(Inc(Dec(Dec(cnt, o), p), a), b)
  OBVIOUS
<1>2. cnt \in [Str -> Int] /\ rs \in Seq(Row) /\ h \in Held
  BY DEF Settled
<1>3. /\ dnt \in [Str -> Int]
      /\ \A s \in Str : dnt[s] = (((cnt[s] - Is(o, s)) - Is(p, s)) + Is(a, s)) + Is(b, s)
  <2>1. PICK u : u = Dec(cnt, o)
    OBVIOUS
  <2>2. PICK w : w = Dec(u, p)
    OBVIOUS
  <2>3. PICK y : y = Inc(w, a)
    OBVIOUS
  <2>4. u \in [Str -> Int] /\ \A s \in Str : u[s] = cnt[s] - Is(o, s)
    BY <1>2, <2>1, IncDec
  <2>5. w \in [Str -> Int] /\ \A s \in Str : w[s] = u[s] - Is(p, s)
    BY <2>2, <2>4, IncDec
  <2>6. y \in [Str -> Int] /\ \A s \in Str : y[s] = w[s] + Is(a, s)
    BY <2>3, <2>5, IncDec
  <2>7. dnt \in [Str -> Int] /\ \A s \in Str : dnt[s] = y[s] + Is(b, s)
    <3>1. dnt = Inc(y, b)
      BY <1>1, <2>1, <2>2, <2>3
    <3> QED
      BY <2>6, <3>1, IncDec
  <2> QED
    BY <2>4, <2>5, <2>6, <2>7
<1>4. \A s \in Str : dnt[s] - cnt[s] = Refs(h, ts, s) - Refs(h, rs, s)
  <2> TAKE s \in Str
  <2>1. /\ Refs(h, rs, s) \in Int /\ cnt[s] \in Int /\ Is(a, s) \in Int /\ Is(b, s) \in Int
        /\ Is(o, s) \in Int /\ Is(p, s) \in Int
    BY <1>2, RefsType DEF Is
  <2>2. Refs(h, ts, s) = (Refs(h, rs, s) + (Is(a, s) - Is(o, s))) + (Is(b, s) - Is(p, s))
    OBVIOUS
  <2>3. dnt[s] = (((cnt[s] - Is(o, s)) - Is(p, s)) + Is(a, s)) + Is(b, s)
    BY <1>3
  <2> QED
    BY <2>1, <2>2, <2>3
<1>5. Settled(dnt, h, ts, sh)
  <2>1. Follows(cnt, h, rs, dnt, h, ts)
    BY <1>4 DEF Follows
  <2> QED
    BY <1>2, <1>3, <2>1, FollowExactly
<1> QED
  BY <1>1, <1>5

\* One reference is given up for another.
LEMMA OneForOne ==
  ASSUME TableCellsAssumption, NEW cnt, NEW h, NEW rs, NEW sh, Settled(cnt, h, rs, sh),
         NEW ts \in Seq(Row), NEW a \in Str, NEW o \in Str,
         \A s \in Str : Refs(h, ts, s) = Refs(h, rs, s) + (Is(a, s) - Is(o, s))
  PROVE  Settled(Inc(Dec(cnt, o), a), h, ts, sh)
<1>1. PICK dnt : dnt = Inc(Dec(cnt, o), a)
  OBVIOUS
<1>2. cnt \in [Str -> Int] /\ rs \in Seq(Row) /\ h \in Held
  BY DEF Settled
<1>3. dnt \in [Str -> Int] /\ \A s \in Str : dnt[s] = (cnt[s] - Is(o, s)) + Is(a, s)
  <2>1. PICK u : u = Dec(cnt, o)
    OBVIOUS
  <2>2. u \in [Str -> Int] /\ \A s \in Str : u[s] = cnt[s] - Is(o, s)
    BY <1>2, <2>1, IncDec
  <2>3. dnt \in [Str -> Int] /\ \A s \in Str : dnt[s] = u[s] + Is(a, s)
    BY <1>1, <2>1, <2>2, IncDec
  <2> QED
    BY <2>2, <2>3
<1>4. \A s \in Str : dnt[s] - cnt[s] = Refs(h, ts, s) - Refs(h, rs, s)
  <2> TAKE s \in Str
  <2>1. Refs(h, rs, s) \in Int /\ cnt[s] \in Int /\ Is(a, s) \in Int /\ Is(o, s) \in Int
    BY <1>2, RefsType DEF Is
  <2>2. Refs(h, ts, s) = Refs(h, rs, s) + (Is(a, s) - Is(o, s))
    OBVIOUS
  <2>3. dnt[s] = (cnt[s] - Is(o, s)) + Is(a, s)
    BY <1>3
  <2> QED
    BY <2>1, <2>2, <2>3
<1>5. Settled(dnt, h, ts, sh)
  <2>1. Follows(cnt, h, rs, dnt, h, ts)
    BY <1>4 DEF Follows
  <2> QED
    BY <1>2, <1>3, <2>1, FollowExactly
<1> QED
  BY <1>1, <1>5

\* Of the two references that are overwritten one is not given up.
LEMMA OneForTwo ==
  ASSUME TableCellsAssumption, NEW cnt, NEW h, NEW rs, NEW sh, Settled(cnt, h, rs, sh),
         NEW ts \in Seq(Row), NEW a \in Str, NEW b \in Str, NEW o \in Str, NEW p \in Str,
         \A s \in Str : Refs(h, ts, s)
                          = (Refs(h, rs, s) + (Is(a, s) - Is(o, s))) + (Is(b, s) - Is(p, s))
  PROVE  Settled(Inc(Inc(Dec(cnt, o), a), b), h, ts, sh + 1)
<1>1. PICK dnt : dnt = Inc(Inc(Dec(cnt, o), a), b)
  OBVIOUS
<1>2. cnt \in [Str -> Int] /\ rs \in Seq(Row) /\ h \in Held /\ sh \in Nat
  BY DEF Settled
<1>3. dnt \in [Str -> Int] /\ \A s \in Str : dnt[s] = ((cnt[s] - Is(o, s)) + Is(a, s)) + Is(b, s)
  <2>1. PICK u : u = Dec(cnt, o)
    OBVIOUS
  <2>2. PICK y : y = Inc(u, a)
    OBVIOUS
  <2>3. u \in [Str -> Int] /\ \A s \in Str : u[s] = cnt[s] - Is(o, s)
    BY <1>2, <2>1, IncDec
  <2>4. y \in [Str -> Int] /\ \A s \in Str : y[s] = u[s] + Is(a, s)
    BY <2>2, <2>3, IncDec
  <2>5. dnt \in [Str -> Int] /\ \A s \in Str : dnt[s] = y[s] + Is(b, s)
    <3>1. dnt = Inc(y, b)
      BY <1>1, <2>1, <2>2
    <3> QED
      BY <2>4, <3>1, IncDec
  <2> QED
    BY <2>3, <2>4, <2>5
<1>4. \A s \in Str : dnt[s] - cnt[s] >= Refs(h, ts, s) - Refs(h, rs, s)
  <2> TAKE s \in Str
  <2>1. /\ Refs(h, rs, s) \in Int /\ cnt[s] \in Int /\ Is(a, s) \in Int /\ Is(b, s) \in Int
        /\ Is(o, s) \in Int /\ Is(p, s) \in Nat
    BY <1>2, RefsType DEF Is
  <2>2. Refs(h, ts, s) = (Refs(h, rs, s) + (Is(a, s) - Is(o, s))) + (Is(b, s) - Is(p, s))
    OBVIOUS
  <2>3. dnt[s] = ((cnt[s] - Is(o, s)) + Is(a, s)) + Is(b, s)
    BY <1>3
  <2> QED
    BY <2>1, <2>2, <2>3
<1>5. sh + 1 \in Nat /\ sh + 1 # 0
  BY <1>2
<1> QED
  BY <1>1, <1>2, <1>3, <1>4, <1>5, Follow

-----------------------------------------------------------------------------
(***************************************************************************)
(* The operations.                                                         *)
(***************************************************************************)

\* A row has two strings.
LEMMA RowCells ==
  ASSUME NEW rs \in Seq(Row), NEW i \in DOMAIN rs
  PROVE  /\ rs[i].cells \in [1..2 -> Str]
         /\ rs[i].cells[1] \in Str /\ rs[i].cells[2] \in Str
<1>1. rs[i] \in Row
  OBVIOUS
<1>2. rs[i].cells \in [1..2 -> Str]
  BY <1>1 DEF Row
<1> QED
  BY <1>2

\* The row of a number.
LEMMA RowAt ==
  ASSUME rows \in Seq(Row), NEW n \in 0..MaxRows, n < Height, TableCellsAssumption
  PROVE  n + 1 \in DOMAIN rows /\ n + 1 \in 1..Len(rows)
<1>1. n \in Nat
  BY DEF TableCellsAssumption
<1> QED
  BY <1>1 DEF Height

\* NewString.
LEMMA NewStringSettles ==
  ASSUME TableCellsAssumption, CellsIInv, NEW x \in Var, NEW s \in Str, NEW v, NewString(x, s, v)
  PROVE  CellsIInv'
<1>1. /\ held' = [held EXCEPT ![x] = s] /\ held[x] = None /\ count[s] = 0
      /\ count' = [count EXCEPT ![s] = 1] /\ rows' = rows /\ short' = short
  BY DEF NewString
<1>2. count \in [Str -> Nat] /\ held \in Held /\ rows \in Seq(Row)
  BY DEF CellsIInv, Settled
<1>3. PICK dnt : dnt = [count EXCEPT ![s] = 1]
  OBVIOUS
<1>4. PICK g : g = [held EXCEPT ![x] = s]
  OBVIOUS
<1>5. dnt \in [Str -> Int] /\ \A t \in Str : dnt[t] = count[t] + Is(s, t)
  BY <1>1, <1>2, <1>3 DEF Is
<1>6. s \in Str \cup {None}
  OBVIOUS
<1>7. g \in Held
  BY <1>2, <1>4, <1>6, RefsHeld
<1>8. \A t \in Str : dnt[t] - count[t] = Refs(g, rows, t) - Refs(held, rows, t)
  <2> TAKE t \in Str
  <2>1. Refs(g, rows, t) = (Refs(held, rows, t) - Is(held[x], t)) + Is(s, t)
    BY <1>2, <1>4, <1>6, RefsHeld
  <2>2. Is(held[x], t) = 0
    BY <1>1 DEF Is, TableCellsAssumption
  <2>3. Refs(held, rows, t) \in Int /\ count[t] \in Int /\ Is(s, t) \in Int
    BY <1>2, RefsType DEF Is
  <2>4. dnt[t] = count[t] + Is(s, t)
    BY <1>5
  <2> QED
    BY <2>1, <2>2, <2>3, <2>4
<1>9. Settled(dnt, g, rows, short)
  <2>1. Follows(count, held, rows, dnt, g, rows)
    BY <1>8 DEF Follows
  <2> QED
    BY <1>2, <1>5, <1>7, <2>1, FollowExactly DEF CellsIInv
<1> QED
  BY <1>1, <1>3, <1>4, <1>9 DEF CellsIInv

\* Release.
LEMMA ReleaseSettles ==
  ASSUME TableCellsAssumption, CellsIInv, NEW x \in Var, Release(x)
  PROVE  CellsIInv'
<1>1. /\ held' = [held EXCEPT ![x] = None] /\ held[x] # None
      /\ count' = Dec(count, held[x]) /\ rows' = rows /\ short' = short
  BY DEF Release
<1>2. count \in [Str -> Int] /\ held \in Held /\ rows \in Seq(Row)
  BY DEF CellsIInv, Settled
<1>3. PICK o \in Str : o = held[x]
  BY <1>1, <1>2 DEF Held
<1>4. PICK dnt : dnt = Dec(count, o)
  OBVIOUS
<1>5. PICK g : g = [held EXCEPT ![x] = None]
  OBVIOUS
<1>6. dnt \in [Str -> Int] /\ \A t \in Str : dnt[t] = count[t] - Is(o, t)
  BY <1>2, <1>3, <1>4, IncDec
<1>7. g \in Held
  BY <1>2, <1>5, RefsHeld
<1>8. \A t \in Str : dnt[t] - count[t] = Refs(g, rows, t) - Refs(held, rows, t)
  <2> TAKE t \in Str
  <2>1. Refs(g, rows, t) = (Refs(held, rows, t) - Is(o, t)) + Is(None, t)
    <3>1. None \in Str \cup {None}
      OBVIOUS
    <3> QED
      BY <1>2, <1>3, <1>5, <3>1, RefsHeld
  <2>2. Is(None, t) = 0
    BY DEF Is, TableCellsAssumption
  <2>3. Refs(held, rows, t) \in Int /\ count[t] \in Int /\ Is(o, t) \in Int
    BY <1>2, RefsType DEF Is
  <2>4. dnt[t] = count[t] - Is(o, t)
    BY <1>6
  <2> QED
    BY <2>1, <2>2, <2>3, <2>4
<1>9. Settled(dnt, g, rows, short)
  <2>1. Follows(count, held, rows, dnt, g, rows)
    BY <1>8 DEF Follows
  <2> QED
    BY <1>2, <1>6, <1>7, <2>1, FollowExactly DEF CellsIInv
<1> QED
  BY <1>1, <1>3, <1>4, <1>5, <1>9 DEF CellsIInv

\* GetCellValue.
LEMMA GetCellValueSettles ==
  ASSUME TableCellsAssumption, CellsIInv, NEW n \in 0..MaxRows, NEW c \in 1..2, NEW x \in Var,
         GetCellValue(n, c, x)
  PROVE  CellsIInv'
<1>1. /\ held[x] = None /\ n < Height /\ held' = [held EXCEPT ![x] = rows[n + 1].cells[c]]
      /\ count' = Inc(count, rows[n + 1].cells[c]) /\ rows' = rows /\ short' = short
  BY DEF GetCellValue
<1>2. count \in [Str -> Int] /\ held \in Held /\ rows \in Seq(Row)
  BY DEF CellsIInv, Settled
<1>3. n + 1 \in DOMAIN rows
  BY <1>1, <1>2, RowAt
<1>4. rows[n + 1].cells \in [1..2 -> Str]
  BY <1>2, <1>3, RowCells
<1>5. PICK a \in Str : a = rows[n + 1].cells[c]
  BY <1>4
<1>6. PICK dnt : dnt = Inc(count, a)
  OBVIOUS
<1>7. PICK g : g = [held EXCEPT ![x] = a]
  OBVIOUS
<1>8. dnt \in [Str -> Int] /\ \A t \in Str : dnt[t] = count[t] + Is(a, t)
  BY <1>2, <1>6, IncDec
<1>9. g \in Held
  BY <1>2, <1>7, RefsHeld
<1>10. \A t \in Str : dnt[t] - count[t] = Refs(g, rows, t) - Refs(held, rows, t)
  <2> TAKE t \in Str
  <2>1. Refs(g, rows, t) = (Refs(held, rows, t) - Is(held[x], t)) + Is(a, t)
    <3>1. a \in Str \cup {None}
      OBVIOUS
    <3> QED
      BY <1>2, <1>7, <3>1, RefsHeld
  <2>2. Is(held[x], t) = 0
    BY <1>1 DEF Is, TableCellsAssumption
  <2>3. Refs(held, rows, t) \in Int /\ count[t] \in Int /\ Is(a, t) \in Int
    BY <1>2, RefsType DEF Is
  <2>4. dnt[t] = count[t] + Is(a, t)
    BY <1>8
  <2> QED
    BY <2>1, <2>2, <2>3, <2>4
<1>11. Settled(dnt, g, rows, short)
  <2>1. Follows(count, held, rows, dnt, g, rows)
    BY <1>10 DEF Follows
  <2> QED
    BY <1>2, <1>8, <1>9, <2>1, FollowExactly DEF CellsIInv
<1> QED
  BY <1>1, <1>5, <1>6, <1>7, <1>11 DEF CellsIInv

\* AppendRow.
LEMMA AppendRowSettles ==
  ASSUME TableCellsAssumption, CellsIInv, NEW args \in Args, NEW d \in Str, AppendRow(args, d)
  PROVE  CellsIInv'
<1>1. held \in Held /\ rows \in Seq(Row) /\ Settled(count, held, rows, short)
  BY DEF CellsIInv, Settled
<1>2. PICK cells \in [1..2 -> Str] : cells = RowOf(args, d)
  BY <1>1, ArgumentsAre DEF AppendRow
<1>3. PICK r : r = [cells |-> cells, here |-> FALSE]
  OBVIOUS
<1>4. r \in Row /\ r.cells = cells /\ cells[1] \in Str /\ cells[2] \in Str
  BY <1>3 DEF Row
<1>5. PICK ts : ts = Append(rows, r)
  OBVIOUS
<1>6. /\ ts \in Seq(Row)
      /\ \A s \in Str : Refs(held, ts, s) = (Refs(held, rows, s) + Is(cells[1], s)) + Is(cells[2], s)
  BY <1>1, <1>4, <1>5, RefsAppend
<1>7. PICK cnt : cnt = Inc(Inc(count, cells[1]), cells[2])
  OBVIOUS
<1>8. Settled(cnt, held, ts, short)
  BY <1>1, <1>4, <1>6, <1>7, TwoMore
<1>9. /\ Place(ts, Height, cells, WithDefault(args, d), cnt, entries, FALSE, FALSE)
      /\ short' = short
  BY <1>2, <1>3, <1>5, <1>7 DEF AppendRow
<1> QED
  BY <1>8, <1>9, PlaceSettles

\* InsertRow.
LEMMA InsertRowSettles ==
  ASSUME TableCellsAssumption, CellsIInv, NEW n \in 0..MaxRows, NEW args \in Args, NEW d \in Str,
         InsertRow(n, args, d)
  PROVE  CellsIInv'
<1>1. held \in Held /\ rows \in Seq(Row) /\ Settled(count, held, rows, short)
  BY DEF CellsIInv, Settled
<1>2. CASE Broken("disorder")
  BY <1>1, <1>2 DEF Broken, CellsIInv
<1>3. CASE ~Broken("disorder")
  <2>1. n < Height /\ Arguments(args, d)
    BY DEF InsertRow
  <2>2. n + 1 \in 1..Len(rows)
    BY <1>1, <2>1, RowAt
  <2>3. PICK cells \in [1..2 -> Str] : cells = RowOf(args, d)
    BY <1>1, <2>1, ArgumentsAre
  <2>4. PICK r : r = [cells |-> cells, here |-> FALSE]
    OBVIOUS
  <2>5. r \in Row /\ r.cells = cells /\ cells[1] \in Str /\ cells[2] \in Str
    BY <2>4 DEF Row
  <2>6. PICK ts : ts = InsertAt(rows, n + 1, r)
    OBVIOUS
  <2>7. /\ ts \in Seq(Row)
        /\ \A s \in Str : Refs(held, ts, s)
                            = (Refs(held, rows, s) + Is(cells[1], s)) + Is(cells[2], s)
    BY <1>1, <2>2, <2>5, <2>6, RefsInsert
  <2>8. PICK cnt : cnt = Inc(Inc(count, cells[1]), cells[2])
    OBVIOUS
  <2>9. Settled(cnt, held, ts, short)
    BY <1>1, <2>5, <2>7, <2>8, TwoMore
  <2>10. Place(ts, n, cells, WithDefault(args, d), cnt, entries, TRUE, FALSE) /\ short' = short
    BY <1>3, <2>3, <2>4, <2>6, <2>8 DEF InsertRow
  <2> QED
    BY <2>9, <2>10, PlaceSettles
<1> QED
  BY <1>2, <1>3

\* DeleteRow.
LEMMA DeleteRowSettles ==
  ASSUME TableCellsAssumption, CellsIInv, NEW n \in 0..MaxRows, DeleteRow(n)
  PROVE  CellsIInv'
<1>1. held \in Held /\ rows \in Seq(Row) /\ Settled(count, held, rows, short)
  BY DEF CellsIInv, Settled
<1>2. CASE \E f : Broken(f)
  BY <1>1, <1>2 DEF Broken, CellsIInv
<1>3. CASE ~ \E f : Broken(f)
  <2>1. n < Height
    BY DEF DeleteRow
  <2>2. n + 1 \in 1..Len(rows) /\ n + 1 \in DOMAIN rows
    BY <1>1, <2>1, RowAt
  <2>3. PICK a \in Str : a = rows[n + 1].cells[1]
    BY <1>1, <2>2, RowCells
  <2>4. PICK b \in Str : b = rows[n + 1].cells[2]
    BY <1>1, <2>2, RowCells
  <2>5. PICK ts : ts = RemoveAt(rows, n + 1)
    OBVIOUS
  <2>6. /\ ts \in Seq(Row)
        /\ \A s \in Str : Refs(held, ts, s) = (Refs(held, rows, s) - Is(a, s)) - Is(b, s)
    BY <1>1, <2>2, <2>3, <2>4, <2>5, RefsRemove
  <2>7. PICK cnt : cnt = Dec(Dec(count, a), b)
    OBVIOUS
  <2>8. Settled(cnt, held, ts, short)
    BY <1>1, <2>6, <2>7, TwoFewer
  <2>9. /\ rows' \in {ts, Mark(ts, 0)} /\ count' = cnt /\ held' = held /\ short' = short
    BY <1>3, <2>3, <2>4, <2>5, <2>7 DEF DeleteRow, Keep
  <2>10. Settled(cnt, held, Mark(ts, 0), short)
    BY <2>8, SettledMark
  <2> QED
    BY <2>8, <2>9, <2>10 DEF CellsIInv
<1> QED
  BY <1>2, <1>3

\* SetRow.
LEMMA SetRowSettles ==
  ASSUME TableCellsAssumption, CellsIInv, NEW n \in 0..MaxRows, NEW args \in Args, NEW d \in Str,
         SetRow(n, args, d)
  PROVE  CellsIInv'
<1>1. held \in Held /\ rows \in Seq(Row) /\ Settled(count, held, rows, short) /\ short \in Nat
  BY DEF CellsIInv, Settled
<1>2. CASE Broken("index_assert")
  BY <1>1, <1>2 DEF Broken, CellsIInv
<1>3. CASE ~Broken("index_assert")
  <2>1. n < Height /\ Arguments(args, d)
    BY DEF SetRow
  <2>2. n + 1 \in DOMAIN rows
    BY <1>1, <2>1, RowAt
  <2>3. PICK cells \in [1..2 -> Str] : cells = RowOf(args, d)
    BY <1>1, <2>1, ArgumentsAre
  <2>4. PICK a \in Str : a = cells[1]
    OBVIOUS
  <2>5. PICK b \in Str : b = cells[2]
    OBVIOUS
  <2>6. PICK o \in Str : o = rows[n + 1].cells[1]
    BY <1>1, <2>2, RowCells
  <2>7. PICK p \in Str : p = rows[n + 1].cells[2]
    BY <1>1, <2>2, RowCells
  <2>8. PICK ts : ts = WithCells(rows, n + 1, cells)
    OBVIOUS
  <2>9. /\ ts \in Seq(Row)
        /\ \A s \in Str : Refs(held, ts, s)
              = (Refs(held, rows, s) + (Is(a, s) - Is(o, s))) + (Is(b, s) - Is(p, s))
    <3>1. PICK old : old = rows[n + 1].cells
      OBVIOUS
    <3>2. /\ ts \in Seq(Row)
          /\ \A s \in Str : Refs(held, ts, s)
                = (Refs(held, rows, s) + (Is(cells[1], s) - Is(old[1], s)))
                     + (Is(cells[2], s) - Is(old[2], s))
      BY <1>1, <2>2, <2>8, <3>1, RefsSet
    <3> QED
      BY <2>4, <2>5, <2>6, <2>7, <3>1, <3>2
  <2>10. PICK k \in 1..2 : Len(args) = k
    BY DEF Args
  <2>11. PICK freed : freed = IF k = 2 THEN Dec(Dec(count, o), p) ELSE Dec(count, o)
    OBVIOUS
  <2>12. PICK cnt : cnt = Inc(Inc(freed, a), b)
    OBVIOUS
  <2>13. PICK u \in Unlisted(n) :
            /\ Place(ts, n, cells, WithDefault(args, d), cnt, u.entries, FALSE, u.here)
            /\ short' = short + 2 - k
    BY <1>3, <2>3, <2>4, <2>5, <2>6, <2>7, <2>8, <2>10, <2>11, <2>12 DEF SetRow, WithCells
  <2>14. Settled(cnt, held, ts, short')
    <3>1. CASE k = 2
      <4>1. short' = short
        BY <1>1, <2>13, <3>1
      <4>2. cnt = Inc(Inc(Dec(Dec(count, o), p), a), b)
        BY <2>11, <2>12, <3>1
      <4> QED
        BY <1>1, <2>9, <4>1, <4>2, TwoForTwo
    <3>2. CASE k # 2
      <4>1. short' = short + 1
        BY <1>1, <2>10, <2>13, <3>2
      <4>2. cnt = Inc(Inc(Dec(count, o), a), b)
        BY <2>11, <2>12, <3>2
      <4> QED
        BY <1>1, <2>9, <4>1, <4>2, OneForTwo
    <3> QED
      BY <3>1, <3>2
  <2> QED
    BY <2>13, <2>14, PlaceSettles
<1> QED
  BY <1>2, <1>3

\* SetCellValue.
LEMMA SetCellValueSettles ==
  ASSUME TableCellsAssumption, CellsIInv, NEW n \in 0..MaxRows, NEW c \in 1..2, NEW x \in Var,
         SetCellValue(n, c, x)
  PROVE  CellsIInv'
<1>1. held \in Held /\ rows \in Seq(Row) /\ Settled(count, held, rows, short)
  BY DEF CellsIInv, Settled
<1>2. CASE Broken("index_assert")
  BY <1>1, <1>2 DEF Broken, CellsIInv
<1>3. CASE ~Broken("index_assert")
  <2>1. n < Height /\ held[x] # None
    BY DEF SetCellValue
  <2>2. n + 1 \in DOMAIN rows
    BY <1>1, <2>1, RowAt
  <2>3. PICK old \in [1..2 -> Str] : old = rows[n + 1].cells
    BY <1>1, <2>2, RowCells
  <2>4. PICK a \in Str : a = held[x]
    BY <1>1, <2>1 DEF Held
  <2>5. PICK cells : cells = [old EXCEPT ![c] = a]
    OBVIOUS
  <2>6. cells \in [1..2 -> Str] /\ cells[c] = a /\ \A e \in 1..2 : e # c => cells[e] = old[e]
    BY <2>5
  <2>7. PICK o \in Str : o = old[c]
    OBVIOUS
  <2>8. PICK ts : ts = WithCells(rows, n + 1, cells)
    OBVIOUS
  <2>9. /\ ts \in Seq(Row)
        /\ \A s \in Str : Refs(held, ts, s)
              = (Refs(held, rows, s) + (Is(cells[1], s) - Is(old[1], s)))
                   + (Is(cells[2], s) - Is(old[2], s))
    BY <1>1, <2>2, <2>3, <2>6, <2>8, RefsSet
  <2>10. \A s \in Str : Refs(held, ts, s) = Refs(held, rows, s) + (Is(a, s) - Is(o, s))
    <3> TAKE s \in Str
    <3>1. /\ Refs(held, rows, s) \in Int /\ Is(a, s) \in Int /\ Is(o, s) \in Int
          /\ Is(old[1], s) \in Int /\ Is(old[2], s) \in Int
      BY <1>1, RefsType DEF Is
    <3>2. Refs(held, ts, s) = (Refs(held, rows, s) + (Is(cells[1], s) - Is(old[1], s)))
                                 + (Is(cells[2], s) - Is(old[2], s))
      BY <2>9
    <3>3. CASE c = 1
      <4>1. cells[1] = a /\ cells[2] = old[2] /\ old[1] = o
        BY <2>6, <2>7, <3>3
      <4> QED
        BY <3>1, <3>2, <4>1
    <3>4. CASE c = 2
      <4>1. cells[2] = a /\ cells[1] = old[1] /\ old[2] = o
        BY <2>6, <2>7, <3>4
      <4> QED
        BY <3>1, <3>2, <4>1
    <3> QED
      BY <3>3, <3>4
  <2>11. PICK cnt : cnt = Inc(Dec(count, o), a)
    OBVIOUS
  <2>12. Settled(cnt, held, ts, short)
    BY <1>1, <2>9, <2>10, <2>11, OneForOne
  <2>13. CASE c = 1
    <3>1. PICK u \in Unlisted(n) :
             Place(ts, n, cells, val, cnt, u.entries, FALSE, u.here) /\ short' = short
      BY <1>3, <2>3, <2>4, <2>5, <2>7, <2>8, <2>11, <2>13 DEF SetCellValue, WithCells
    <3> QED
      BY <2>12, <3>1, PlaceSettles
  <2>14. CASE c # 1
    <3>1. rows' = ts /\ count' = cnt /\ held' = held /\ short' = short
      BY <2>3, <2>4, <2>5, <2>7, <2>8, <2>11, <2>14 DEF SetCellValue, WithCells
    <3> QED
      BY <2>12, <3>1 DEF CellsIInv
  <2> QED
    BY <2>13, <2>14
<1> QED
  BY <1>2, <1>3

\* What an iterator does.
LEMMA AtSettles ==
  ASSUME CellsIInv, NEW p, NEW pos, NEW least, At(p, pos, least),
         count' = count, held' = held, short' = short
  PROVE  CellsIInv'
<1>1. \E n : rows' = Mark(rows, n)
  BY DEF At, Keep
<1>2. PICK n : rows' = Mark(rows, n)
  BY <1>1
<1>3. Settled(count, held, Mark(rows, n), short)
  BY SettledMark DEF CellsIInv
<1> QED
  BY <1>2, <1>3 DEF CellsIInv

-----------------------------------------------------------------------------
(***************************************************************************)
(* Clear.                                                                  *)
(***************************************************************************)

\* A set of natural numbers has a least one.
LEMMA FirstNatural ==
  ASSUME NEW T \in SUBSET Nat, T # {}
  PROVE  \E x \in T : \A y \in T : x <= y
<1>1. PICK x \in T : \A y \in T : ~(<<y, x>> \in OpToRel(<, Nat))
  BY NatLessThanWellFounded, WFMin
<1>2. \A y \in T : y < x => <<y, x>> \in OpToRel(<, Nat)
  BY DEF OpToRel
<1>3. \A y \in T : ~(y < x)
  BY <1>1, <1>2, Zenon
<1> QED
  BY <1>3

\* The first n rows with the string in the column.
Upto(n, c, s) == {k \in 1..n : rows[k].cells[c] = s}

\* The counts without the references of the first n rows.
Without(n) ==
    [s \in Str |-> (count[s] - Cardinality(Upto(n, 1, s))) - Cardinality(Upto(n, 2, s))]

\* One row more.
LEMMA OneRowMore ==
  ASSUME NEW n \in Nat, n # 0, NEW c \in 1..2, NEW s
  PROVE  /\ Cardinality(Upto(n - 1, c, s)) \in Nat
         /\ Cardinality(Upto(n, c, s)) = Cardinality(Upto(n - 1, c, s)) + Is(rows[n].cells[c], s)
<1>1. PICK S : S = Upto(n - 1, c, s)
  OBVIOUS
<1>2. PICK T : T = Upto(n, c, s)
  OBVIOUS
<1>3. IsFiniteSet(1..(n - 1)) /\ IsFiniteSet(1..n)
  BY FS_Interval
<1>4. S \in SUBSET (1..(n - 1)) /\ T \in SUBSET (1..n)
  BY <1>1, <1>2 DEF Upto
<1>5. IsFiniteSet(S) /\ IsFiniteSet(T) /\ Cardinality(S) \in Nat
  BY <1>3, <1>4, FS_Subset, FS_CardinalityType
<1>6. n \in 1..n /\ n \notin 1..(n - 1) /\ (1..n) \ {n} = 1..(n - 1)
  OBVIOUS
<1>7. S \ {n} = T \ {n} /\ n \notin S /\ (n \in T <=> rows[n].cells[c] = s)
  BY <1>1, <1>2, <1>6 DEF Upto
<1>8. Cardinality(T) = (Cardinality(S) - In(n, S)) + In(n, T)
  BY <1>5, <1>7, OneElement
<1>9. In(n, S) = 0 /\ In(n, T) = Is(rows[n].cells[c], s)
  BY <1>7 DEF In, Is
<1>10. Is(rows[n].cells[c], s) \in Int
  BY DEF Is
<1> QED
  BY <1>1, <1>2, <1>5, <1>8, <1>9, <1>10

\* The cells of one row are destroyed.
LEMMA WithoutOneMore ==
  ASSUME count \in [Str -> Nat], rows \in Seq(Row), NEW n \in 1..Height
  PROVE  Without(n) = Dec(Dec(Without(n - 1), rows[n].cells[1]), rows[n].cells[2])
<1>1. n \in Nat /\ n # 0 /\ n \in DOMAIN rows
  BY DEF Height
<1>2. PICK a \in Str : a = rows[n].cells[1]
  BY <1>1, RowCells
<1>3. PICK b \in Str : b = rows[n].cells[2]
  BY <1>1, RowCells
<1>4. \A s \in Str : /\ Cardinality(Upto(n - 1, 1, s)) \in Nat
                     /\ Cardinality(Upto(n - 1, 2, s)) \in Nat
                     /\ Cardinality(Upto(n, 1, s)) = Cardinality(Upto(n - 1, 1, s)) + Is(a, s)
                     /\ Cardinality(Upto(n, 2, s)) = Cardinality(Upto(n - 1, 2, s)) + Is(b, s)
  <2>1. 1 \in 1..2 /\ 2 \in 1..2
    OBVIOUS
  <2> QED
    BY <1>1, <1>2, <1>3, <2>1, OneRowMore
<1>5. PICK u : u = Without(n - 1)
  OBVIOUS
<1>6. u \in [Str -> Int]
  <2> SUFFICES ASSUME NEW s \in Str
               PROVE  (count[s] - Cardinality(Upto(n - 1, 1, s)))
                         - Cardinality(Upto(n - 1, 2, s)) \in Int
    BY <1>5 DEF Without
  <2> QED
    BY <1>4
<1>7. PICK w : w = Dec(u, a)
  OBVIOUS
<1>8. w \in [Str -> Int] /\ \A s \in Str : w[s] = u[s] - Is(a, s)
  BY <1>6, <1>7, IncDec
<1>9. PICK y : y = Dec(w, b)
  OBVIOUS
<1>10. y \in [Str -> Int] /\ \A s \in Str : y[s] = w[s] - Is(b, s)
  BY <1>8, <1>9, IncDec
<1>11. \A s \in Str : Without(n)[s] = y[s]
  <2> TAKE s \in Str
  <2>1. PICK p \in Nat : p = Cardinality(Upto(n - 1, 1, s))
    BY <1>4
  <2>2. PICK q \in Nat : q = Cardinality(Upto(n - 1, 2, s))
    BY <1>4
  <2>3. u[s] = (count[s] - p) - q
    BY <1>5, <2>1, <2>2 DEF Without
  <2>4. Without(n)[s] = (count[s] - (p + Is(a, s))) - (q + Is(b, s))
    BY <1>4, <2>1, <2>2 DEF Without
  <2>5. y[s] = (u[s] - Is(a, s)) - Is(b, s)
    BY <1>8, <1>10
  <2>6. count[s] \in Int /\ Is(a, s) \in Int /\ Is(b, s) \in Int
    BY DEF Is
  <2> QED
    BY <2>3, <2>4, <2>5, <2>6
<1>12. Without(n) = [s \in Str |-> Without(n)[s]] /\ y = [s \in Str |-> y[s]]
  BY <1>10 DEF Without
<1>13. Without(n) = y
  BY <1>11, <1>12
<1> QED
  BY <1>2, <1>3, <1>5, <1>7, <1>9, <1>13

\* No row, no reference.
LEMMA WithoutNone ==
  ASSUME count \in [Str -> Nat]
  PROVE  Without(0) = count
<1>1. \A c, s : Upto(0, c, s) = {}
  BY DEF Upto
<1>2. \A c, s : Cardinality(Upto(0, c, s)) = 0
  BY <1>1, FS_EmptySet
<1>3. \A s \in Str : (count[s] - 0) - 0 = count[s]
  OBVIOUS
<1> QED
  BY <1>2, <1>3 DEF Without

\* What Released gives for n rows, when it gives f[n - 1] for one row less.
ReleasedNext(f, n) ==
    IF n = 0 THEN count ELSE Dec(Dec(f[n - 1], rows[n].cells[1]), rows[n].cells[2])

\* The rows one after the other.
LEMMA ReleasedRows ==
  ASSUME count \in [Str -> Nat], rows \in Seq(Row)
  PROVE  \A n \in 0..Height : Released[n] = ReleasedNext(Released, n)
<1>1. PICK L \in Nat : L = Height
  BY DEF Height
<1>2. PICK f : f = [n \in 0..L |-> Without(n)]
  OBVIOUS
<1> DEFINE rec(g) == [n \in 0..Height |->
                         IF n = 0 THEN count
                         ELSE Dec(Dec(g[n - 1], rows[n].cells[1]), rows[n].cells[2])]
<1>3. \A n \in 0..L : Without(n) = ReleasedNext(f, n)
  <2> TAKE n \in 0..L
  <2>1. CASE n = 0
    BY <2>1, WithoutNone DEF ReleasedNext
  <2>2. CASE n # 0
    <3>1. n \in 1..Height /\ n - 1 \in 0..L
      BY <1>1, <2>2
    <3>2. f[n - 1] = Without(n - 1)
      BY <1>2, <3>1
    <3> QED
      BY <2>2, <3>1, <3>2, WithoutOneMore DEF ReleasedNext
  <2> QED
    BY <2>1, <2>2
<1>4. f = rec(f)
  BY <1>1, <1>2, <1>3 DEF ReleasedNext
<1>5. Released = CHOOSE g : g = rec(g)
  BY DEF Released
<1>6. Released = rec(Released)
  <2> HIDE DEF rec
  <2> QED
    BY <1>4, <1>5, Zenon
<1> QED
  BY <1>6 DEF ReleasedNext

\* So Released is the counts without the references of the rows.
LEMMA ReleasedAre ==
  ASSUME count \in [Str -> Nat], rows \in Seq(Row), NEW m \in 0..Height
  PROVE  Released[m] = Without(m)
<1>1. PICK L \in Nat : L = Height
  BY DEF Height
<1>2. PICK f : f = Released
  OBVIOUS
<1>3. \A n \in 0..L : f[n] = ReleasedNext(f, n)
  BY <1>1, <1>2, ReleasedRows
<1> DEFINE T == {n \in 0..L : f[n] # Without(n)}
<1>4. T = {}
  <2> SUFFICES ASSUME T # {} PROVE FALSE
    OBVIOUS
  <2>1. T \in SUBSET Nat
    OBVIOUS
  <2>2. PICK n \in T : \A j \in T : n <= j
    BY <2>1, FirstNatural
  <2>3. n \in 0..L /\ f[n] # Without(n)
    OBVIOUS
  <2>4. n # 0
    BY <1>3, <2>3, WithoutNone DEF ReleasedNext
  <2>5. n - 1 \in 0..L /\ n \in 1..Height /\ ~(n <= n - 1)
    BY <1>1, <2>3, <2>4
  <2>6. n - 1 \notin T
    BY <2>2, <2>5, Zenon
  <2>7. f[n - 1] = Without(n - 1)
    BY <2>5, <2>6
  <2> QED
    BY <1>3, <2>3, <2>4, <2>5, <2>7, WithoutOneMore DEF ReleasedNext
<1> QED
  BY <1>1, <1>2, <1>4

\* Clear.
LEMMA ClearSettles ==
  ASSUME TableCellsAssumption, CellsIInv, Clear
  PROVE  CellsIInv'
<1>1. count' = Released[Height] /\ rows' = <<>> /\ held' = held /\ short' = short
  BY DEF Clear
<1>2. count \in [Str -> Nat] /\ rows \in Seq(Row) /\ held \in Held
  BY DEF CellsIInv, Settled
<1>3. PICK L \in Nat : L = Height /\ L = Len(rows) /\ DOMAIN rows = 1..L
  BY <1>2 DEF Height
<1>4. PICK dnt : dnt = Without(L)
  OBVIOUS
<1>5. count' = dnt
  BY <1>1, <1>2, <1>3, <1>4, ReleasedAre
<1>6. PICK ts : ts = <<>>
  OBVIOUS
<1>7. ts \in Seq(Row)
  BY <1>6
<1>8. \A s \in Str : dnt[s] \in Int /\ dnt[s] - count[s] = Refs(held, ts, s) - Refs(held, rows, s)
  <2> TAKE s \in Str
  <2>1. Upto(L, 1, s) = Column(rows, 1, s) /\ Upto(L, 2, s) = Column(rows, 2, s)
    BY <1>3 DEF Upto, Column
  <2>2. 1 \in 1..2 /\ 2 \in 1..2
    OBVIOUS
  <2>3. PICK p \in Nat : p = Cardinality(Column(rows, 1, s))
    BY <1>2, <2>2, ColumnType
  <2>4. PICK q \in Nat : q = Cardinality(Column(rows, 2, s))
    BY <1>2, <2>2, ColumnType
  <2>5. PICK r \in Nat : r = Cardinality(Holding(held, s))
    BY HoldingType
  <2>6. dnt[s] = (count[s] - p) - q
    BY <1>4, <2>1, <2>3, <2>4 DEF Without
  <2>7. Column(ts, 1, s) = {} /\ Column(ts, 2, s) = {}
    BY <1>6 DEF Column
  <2>8. Refs(held, ts, s) = (r + 0) + 0
    BY <2>5, <2>7, FS_EmptySet DEF Refs
  <2>9. Refs(held, rows, s) = (r + p) + q
    BY <2>3, <2>4, <2>5 DEF Refs
  <2>10. count[s] \in Int
    BY <1>2
  <2> QED
    BY <2>6, <2>8, <2>9, <2>10
<1>9. dnt \in [Str -> Int]
  BY <1>4, <1>8 DEF Without
<1>10. Follows(count, held, rows, dnt, held, ts)
  BY <1>8 DEF Follows
<1>11. Settled(dnt, held, ts, short)
  BY <1>2, <1>7, <1>9, <1>10, FollowExactly DEF CellsIInv
<1> QED
  BY <1>1, <1>5, <1>6, <1>11 DEF CellsIInv

-----------------------------------------------------------------------------
\* At the start.
LEMMA CellsInit ==
  ASSUME TableCellsAssumption, Init
  PROVE  CellsIInv
<1>1. /\ count = [s \in Str |-> 0] /\ held = [x \in Var |-> None] /\ rows = <<>> /\ short = 0
  BY DEF Init
<1>2. count \in [Str -> Nat] /\ held \in Held /\ rows \in Seq(Row)
  BY <1>1 DEF Held
<1>3. \A s \in Str : count[s] = Refs(held, rows, s)
  <2> TAKE s \in Str
  <2>1. Holding(held, s) = {} /\ Column(rows, 1, s) = {} /\ Column(rows, 2, s) = {}
    BY <1>1 DEF Holding, Column, TableCellsAssumption
  <2>2. Refs(held, rows, s) = 0
    BY <2>1, FS_EmptySet DEF Refs
  <2> QED
    BY <1>1, <2>2
<1>4. \A s \in Str : count[s] >= Refs(held, rows, s)
  BY <1>1, <1>3
<1> QED
  BY <1>1, <1>2, <1>3, <1>4 DEF CellsIInv, Settled

\* Every step.
LEMMA CellsNext ==
  ASSUME TableCellsAssumption, CellsIInv, [Next]_vars
  PROVE  CellsIInv'
<1>1. CASE \E x \in Var, s \in Str, v \in Value : NewString(x, s, v)
  BY <1>1, NewStringSettles
<1>2. CASE \E x \in Var : Release(x)
  BY <1>2, ReleaseSettles
<1>3. CASE \E n \in 0..MaxRows, c \in 1..2, x \in Var : GetCellValue(n, c, x)
  BY <1>3, GetCellValueSettles
<1>4. CASE \E n \in 0..MaxRows, c \in 1..2, x \in Var : SetCellValue(n, c, x)
  BY <1>4, SetCellValueSettles
<1>5. CASE \E x \in Var, v \in Value : ChangeInPlace(x, v)
  BY <1>5 DEF ChangeInPlace, CellsIInv
<1>6. CASE \E args \in Args, d \in Str : AppendRow(args, d)
  BY <1>6, AppendRowSettles
<1>7. CASE \E n \in 0..MaxRows, args \in Args, d \in Str : InsertRow(n, args, d)
  BY <1>7, InsertRowSettles
<1>8. CASE \E n \in 0..MaxRows, args \in Args, d \in Str : SetRow(n, args, d)
  BY <1>8, SetRowSettles
<1>9. CASE \E n \in 0..MaxRows : DeleteRow(n)
  BY <1>9, DeleteRowSettles
<1>10. CASE CreateIndex
  BY <1>10 DEF CreateIndex, CellsIInv
<1>11. CASE Clear
  BY <1>11, ClearSettles
<1>12. CASE Advance
  <2>1. count' = count /\ held' = held /\ short' = short
    BY <1>12 DEF Advance
  <2>2. \E p, pos, least : At(p, pos, least)
    BY <1>12, Zenon DEF Advance
  <2> QED
    BY <2>1, <2>2, AtSettles
<1>13. CASE \E kind \in {"equal", "lower", "grater", "begin"}, x \in Value : Get(kind, x)
  <2>1. count' = count /\ held' = held /\ short' = short
    BY <1>13 DEF Get, Broken
  <2>2. CASE \E p, pos, least : At(p, pos, least)
    BY <2>1, <2>2, AtSettles
  <2>3. CASE rows' = rows
    BY <2>1, <2>3 DEF CellsIInv
  <2>4. (\E p, pos, least : At(p, pos, least)) \/ rows' = rows
    BY <1>13, Zenon DEF Get, Broken
  <2> QED
    BY <2>2, <2>3, <2>4
<1>14. CASE UNCHANGED vars
  BY <1>14 DEF vars, CellsIInv
<1> QED
  BY <1>1, <1>2, <1>3, <1>4, <1>5, <1>6, <1>7, <1>8, <1>9, <1>10, <1>11, <1>12, <1>13, <1>14
  DEF Next

\* Whatever rows are appended, inserted, set and deleted with strings that are shared by
\* cells and callers, a string a cell or a variable refers to is alive; and every
\* reference is given up in the end, the table's by Clear or its destructor, unless
\* SetRow was called with fewer arguments than columns. (dynamic_table.cpp, AppendRow,
\* InsertRow, SetRow, SetCellValue, DeleteRow, Clear)
THEOREM CellsAlwaysCounted ==
  ASSUME TableCellsAssumption
  PROVE  Spec => []CellsCounted
<1>1. CellsIInv => CellsCounted
  <2> SUFFICES ASSUME CellsIInv PROVE CellsCounted
    OBVIOUS
  <2>1. \A s \in Str : Holders(s) = Refs(held, rows, s)
    BY DEF Holders, Refs, Holding, Column
  <2> QED
    BY <2>1 DEF CellsIInv, Settled, CellsCounted, CellsAlive, OnlyShortSetRowLeaks
<1> QED
  BY <1>1, CellsInit, CellsNext, PTL DEF Spec
=============================================================================
