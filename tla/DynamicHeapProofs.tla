------------------------- MODULE DynamicHeapProofs -------------------------
(***************************************************************************)
(* The reference counts of Dynamic values, for every number of variables,  *)
(* addresses, keys and items: each operation takes and gives up exactly    *)
(* the references that it adds to the items and takes from them.           *)
(***************************************************************************)
EXTENDS DynamicHeap, FiniteSetTheorems, WellFoundedInduction, SequenceTheorems, TLAPS

-----------------------------------------------------------------------------
(* Counting.                                                               *)

\* A set of natural numbers has a least one.
LEMMA LeastNatural ==
    ASSUME NEW T \in SUBSET Nat, T # {}
    PROVE  \E x \in T : \A y \in T : x <= y
<1>1. \E x \in T : \A y \in T : ~(<<y, x>> \in OpToRel(<, Nat))
    BY NatLessThanWellFounded, WFMin
<1>2. PICK x \in T : \A y \in T : ~(<<y, x>> \in OpToRel(<, Nat))
    BY <1>1
<1>3. ASSUME NEW y \in T PROVE x <= y
  <2>1. ~(<<y, x>> \in {ss \in Nat \X Nat : ss[1] < ss[2]})
      BY <1>2 DEF OpToRel
  <2>2. x \in Nat /\ y \in Nat
      OBVIOUS
  <2>3. ~(y < x)
      BY <2>1, <2>2
  <2> QED
      BY <2>2, <2>3
<1> QED
    BY <1>3

\* Sets with a one-to-one function between them have the same size.
LEMMA SameSize ==
    ASSUME NEW S, IsFiniteSet(S), NEW T, NEW f \in [S -> T],
           \A x, y \in S : f[x] = f[y] => x = y,
           \A t \in T : \E x \in S : f[x] = t
    PROVE  IsFiniteSet(T) /\ Cardinality(T) = Cardinality(S)
<1>1. f \in Bijection(S, T)
    BY DEF Bijection, Injection, Surjection, IsInjective
<1> QED
    BY <1>1, FS_Bijection DEF ExistsBijection

\* The size of two sets without a common element.
LEMMA DisjointSize ==
    ASSUME NEW S, IsFiniteSet(S), NEW T, IsFiniteSet(T), S \cap T = {}
    PROVE  /\ IsFiniteSet(S \cup T)
           /\ Cardinality(S \cup T) = Cardinality(S) + Cardinality(T)
           /\ Cardinality(S) \in Nat /\ Cardinality(T) \in Nat
<1>1. Cardinality(S) \in Nat /\ Cardinality(T) \in Nat
    BY FS_CardinalityType
<1>2. Cardinality(S \cap T) = 0
    BY FS_EmptySet
<1>3. /\ IsFiniteSet(S \cup T)
      /\ Cardinality(S \cup T) = Cardinality(S) + Cardinality(T) - Cardinality(S \cap T)
    BY FS_Union
<1> QED
    BY <1>1, <1>2, <1>3

\* The items of I that refer to o are finitely many.
LEMMA RefersNat ==
    ASSUME NEW f, NEW I, IsFiniteSet(I), NEW o
    PROVE  IsFiniteSet({i \in I : f[i] = o}) /\ Refers(f, I, o) \in Nat
    BY FS_Subset, FS_CardinalityType DEF Refers

\* References from two sets of items.
LEMMA RefersUnion ==
    ASSUME NEW f, NEW I, NEW J, IsFiniteSet(I), IsFiniteSet(J), I \cap J = {}, NEW o
    PROVE  Refers(f, I \cup J, o) = Refers(f, I, o) + Refers(f, J, o)
<1> DEFINE S == {i \in I : f[i] = o}
           T == {i \in J : f[i] = o}
<1>1. IsFiniteSet(S) /\ IsFiniteSet(T)
  <2>1. S \in SUBSET I /\ T \in SUBSET J
      OBVIOUS
  <2> HIDE DEF S, T
  <2> QED
      BY <2>1, FS_Subset
<1>2. S \cap T = {} /\ {i \in I \cup J : f[i] = o} = S \cup T
    OBVIOUS
<1> HIDE DEF S, T
<1>3. Cardinality(S \cup T) = Cardinality(S) + Cardinality(T)
    BY <1>1, <1>2, DisjointSize
<1> QED
    BY <1>2, <1>3 DEF Refers, S, T

\* Functions that agree refer to the same.
LEMMA RefersAgree ==
    ASSUME NEW f, NEW g, NEW I, NEW o, \A i \in I : f[i] = o <=> g[i] = o
    PROVE  Refers(f, I, o) = Refers(g, I, o)
<1>1. {i \in I : f[i] = o} = {i \in I : g[i] = o}
    OBVIOUS
<1> QED
    BY <1>1 DEF Refers

\* One item refers once or not at all.
LEMMA RefersOne ==
    ASSUME NEW f, NEW i, NEW o \in Obj
    PROVE  Refers(f, {i}, o) = One(f[i])[o]
<1>1. CASE f[i] = o
  <2>1. {j \in {i} : f[j] = o} = {i}
      BY <1>1
  <2> QED
      BY <2>1, <1>1, FS_Singleton DEF Refers, One
<1>2. CASE f[i] # o
  <2>1. {j \in {i} : f[j] = o} = {}
      BY <1>2
  <2> QED
      BY <2>1, <1>2, FS_EmptySet DEF Refers, One
<1> QED
    BY <1>1, <1>2

\* Moved items refer to the same.
LEMMA RefersMoved ==
    ASSUME NEW f, NEW g, NEW I, NEW J, NEW m \in [I -> J], IsFiniteSet(I), NEW o,
           \A x, y \in I : m[x] = m[y] => x = y,
           \A j \in J : \E x \in I : m[x] = j,
           \A i \in I : f[i] = o <=> g[m[i]] = o
    PROVE  Refers(g, J, o) = Refers(f, I, o)
<1> DEFINE S == {i \in I : f[i] = o}
           T == {j \in J : g[j] = o}
           h == [i \in S |-> m[i]]
<1>1. IsFiniteSet(S)
  <2>1. S \in SUBSET I
      OBVIOUS
  <2> HIDE DEF S
  <2> QED
      BY <2>1, FS_Subset
<1>2. h \in [S -> T]
    OBVIOUS
<1>3. \A x, y \in S : h[x] = h[y] => x = y
    OBVIOUS
<1>4. \A t \in T : \E x \in S : h[x] = t
    OBVIOUS
<1> HIDE DEF S, T, h
<1>5. Cardinality(T) = Cardinality(S)
    BY <1>1, <1>2, <1>3, <1>4, SameSize
<1> QED
    BY <1>5 DEF Refers, S, T

\* An item that is replaced.
LEMMA RefersReplaced ==
    ASSUME NEW f, NEW g, NEW I, IsFiniteSet(I), NEW i \in I, NEW o \in Obj,
           \A j \in I \ {i} : g[j] = f[j]
    PROVE  Refers(g, I, o) = Refers(f, I, o) + One(g[i])[o] - One(f[i])[o]
<1> DEFINE J == I \ {i}
<1>1. IsFiniteSet(J) /\ IsFiniteSet({i}) /\ J \cap {i} = {} /\ I = J \cup {i}
    BY FS_RemoveElement, FS_Singleton
<1>2. ASSUME NEW h PROVE Refers(h, I, o) = Refers(h, J, o) + One(h[i])[o]
  <2> HIDE DEF J
  <2>1. Refers(h, J \cup {i}, o) = Refers(h, J, o) + Refers(h, {i}, o)
      BY <1>1, RefersUnion
  <2>2. Refers(h, {i}, o) = One(h[i])[o]
      BY RefersOne
  <2> QED
      BY <1>1, <2>1, <2>2
<1>3. Refers(f, I, o) = Refers(f, J, o) + One(f[i])[o]
      /\ Refers(g, I, o) = Refers(g, J, o) + One(g[i])[o]
    BY <1>2
<1>4. Refers(f, J, o) = Refers(g, J, o)
    BY RefersAgree
<1>5. Refers(f, J, o) \in Nat /\ One(f[i])[o] \in Nat /\ One(g[i])[o] \in Nat
    BY <1>1, RefersNat DEF One
<1> HIDE DEF J
<1> QED
    BY <1>3, <1>4, <1>5

-----------------------------------------------------------------------------
(* References in a heap of containers.                                     *)

\* Where items are: in objects, and the variables in Root.
Container == Obj \cup {Root}

\* The places in D that refer to o.
RefsFrom(it, D, o) == UNION {{<<d, i>> : i \in {j \in DOMAIN it[d] : it[d][j] = o}} : d \in D}

\* All places that refer to o.
RefCount(it, o) == Cardinality(RefsFrom(it, Container, o))

\* Each container has finitely many items.
FiniteItems(it) == \A c \in Container : IsFiniteSet(DOMAIN it[c])

\* What it is to be such a place.
LEMMA InRefsFrom ==
    ASSUME NEW it, NEW D, NEW o, NEW p
    PROVE  p \in RefsFrom(it, D, o) <=>
              \E d \in D : \E i \in DOMAIN it[d] : it[d][i] = o /\ p = <<d, i>>
    BY DEF RefsFrom

\* The places in one container are as many as its items that refer.
LEMMA RefsOfOne ==
    ASSUME NEW it, NEW c, NEW o, IsFiniteSet(DOMAIN it[c])
    PROVE  /\ IsFiniteSet(RefsFrom(it, {c}, o))
           /\ Cardinality(RefsFrom(it, {c}, o)) = Refers(it[c], DOMAIN it[c], o)
<1> DEFINE S == {j \in DOMAIN it[c] : it[c][j] = o}
           T == RefsFrom(it, {c}, o)
           f == [i \in S |-> <<c, i>>]
<1>1. IsFiniteSet(S)
  <2>1. S \in SUBSET DOMAIN it[c]
      OBVIOUS
  <2> HIDE DEF S
  <2> QED
      BY <2>1, FS_Subset
<1>2. f \in [S -> T]
    BY InRefsFrom
<1>3. \A x, y \in S : f[x] = f[y] => x = y
    OBVIOUS
<1>4. \A t \in T : \E x \in S : f[x] = t
    BY InRefsFrom
<1> HIDE DEF S, T, f
<1>5. IsFiniteSet(T) /\ Cardinality(T) = Cardinality(S)
    BY <1>1, <1>2, <1>3, <1>4, SameSize
<1> QED
    BY <1>5 DEF S, T, Refers

\* The places that refer to an object are finitely many.
LEMMA RefsFinite ==
    ASSUME NEW it, NEW D \in SUBSET Container, NEW o, HeapAssumption, FiniteItems(it)
    PROVE  IsFiniteSet(RefsFrom(it, D, o)) /\ Cardinality(RefsFrom(it, D, o)) \in Nat
<1> DEFINE F == [d \in D |-> RefsFrom(it, {d}, o)]
           S == {RefsFrom(it, {d}, o) : d \in D}
<1>1. IsFiniteSet(D)
  <2>1. IsFiniteSet(Container)
      BY FS_AddElement DEF Container, HeapAssumption
  <2> QED
      BY <2>1, FS_Subset
<1>2. F \in Surjection(D, S)
    BY DEF Surjection
<1>3. \A T \in S : IsFiniteSet(T)
  <2>1. ASSUME NEW d \in D PROVE IsFiniteSet(RefsFrom(it, {d}, o))
    <3>1. IsFiniteSet(DOMAIN it[d])
        BY DEF FiniteItems
    <3> QED
        BY <3>1, RefsOfOne
  <2> QED
      BY <2>1
<1>4. RefsFrom(it, D, o) = UNION S
  <2>1. ASSUME NEW p PROVE p \in RefsFrom(it, D, o) <=> \E d \in D : p \in RefsFrom(it, {d}, o)
    <3>1. ASSUME NEW d \in D
          PROVE  p \in RefsFrom(it, {d}, o) <=>
                    \E i \in DOMAIN it[d] : it[d][i] = o /\ p = <<d, i>>
        BY DEF RefsFrom
    <3>2. p \in RefsFrom(it, D, o) <=>
              \E d \in D : \E i \in DOMAIN it[d] : it[d][i] = o /\ p = <<d, i>>
        BY DEF RefsFrom
    <3> HIDE DEF F, S
    <3> QED
        BY <3>1, <3>2, Zenon
  <2> QED
      BY <2>1
<1> HIDE DEF F, S
<1>5. IsFiniteSet(S)
    BY <1>1, <1>2, FS_Surjection
<1>6. IsFiniteSet(UNION S)
    BY <1>3, <1>5, FS_UNION
<1> QED
    BY <1>4, <1>6, FS_CardinalityType

\* The references of one more container.
LEMMA RefsSplit ==
    ASSUME NEW it, NEW D \in SUBSET Container, NEW c \in Container, c \notin D, NEW o,
           HeapAssumption, FiniteItems(it)
    PROVE  Cardinality(RefsFrom(it, D \cup {c}, o)) =
              Cardinality(RefsFrom(it, D, o)) + Refers(it[c], DOMAIN it[c], o)
<1> DEFINE S == RefsFrom(it, D, o)
           T == RefsFrom(it, {c}, o)
<1>1. IsFiniteSet(S) /\ IsFiniteSet(T)
    BY RefsFinite, RefsOfOne DEF FiniteItems
<1>2. S \cap T = {}
    BY InRefsFrom
<1>3. RefsFrom(it, D \cup {c}, o) = S \cup T
  <2>1. ASSUME NEW p PROVE p \in RefsFrom(it, D \cup {c}, o) <=> p \in S \/ p \in T
      BY InRefsFrom
  <2> QED
      BY <2>1
<1>4. Cardinality(T) = Refers(it[c], DOMAIN it[c], o)
    BY RefsOfOne DEF FiniteItems
<1> HIDE DEF S, T
<1>5. Cardinality(S \cup T) = Cardinality(S) + Cardinality(T)
    BY <1>1, <1>2, DisjointSize
<1> QED
    BY <1>3, <1>4, <1>5 DEF S

\* References depend on the items only.
LEMMA RefsAgree ==
    ASSUME NEW it, NEW jt, NEW D, NEW o, \A d \in D : it[d] = jt[d]
    PROVE  RefsFrom(it, D, o) = RefsFrom(jt, D, o)
    BY DEF RefsFrom

\* How often the items of f refer to o.
RefsOf(f, o) == Refers(f, DOMAIN f, o)

\* The containers but c have the same items.
SameBut(c, it, jt) == \A d \in Container \ {c} : jt[d] = it[d]

\* When one container changes, so much changes the number of references.
LEMMA ContainerChanged ==
    ASSUME NEW it, NEW jt, NEW c \in Container, NEW o, HeapAssumption,
           FiniteItems(it), FiniteItems(jt), SameBut(c, it, jt)
    PROVE  /\ RefCount(it, o) \in Nat /\ RefCount(jt, o) \in Nat
           /\ RefsOf(it[c], o) \in Nat /\ RefsOf(jt[c], o) \in Nat
           /\ RefCount(jt, o) = RefCount(it, o) + RefsOf(jt[c], o) - RefsOf(it[c], o)
<1> DEFINE D == Container \ {c}
<1>1. D \in SUBSET Container /\ c \notin D /\ D \cup {c} = Container
    OBVIOUS
<1> HIDE DEF D
<1>2. RefCount(it, o) = Cardinality(RefsFrom(it, D, o)) + RefsOf(it[c], o)
    BY <1>1, RefsSplit DEF RefCount, RefsOf
<1>3. RefCount(jt, o) = Cardinality(RefsFrom(jt, D, o)) + RefsOf(jt[c], o)
    BY <1>1, RefsSplit DEF RefCount, RefsOf
<1>4. RefsFrom(it, D, o) = RefsFrom(jt, D, o)
  <2>1. \A d \in D : it[d] = jt[d]
      BY DEF D, SameBut
  <2> QED
      BY <2>1, RefsAgree
<1>5. Cardinality(RefsFrom(it, D, o)) \in Nat
      /\ RefsOf(it[c], o) \in Nat /\ RefsOf(jt[c], o) \in Nat
    BY <1>1, RefsFinite, RefersNat DEF FiniteItems, RefsOf
<1> QED
    BY <1>2, <1>3, <1>4, <1>5

-----------------------------------------------------------------------------
(* The heap between operations, and what deletes.                          *)

\* What a place may refer to.
LiveValue(kd) == {Undef, None} \cup {o \in Obj : kd[o] # "free"}

\* Containers hold items as their kind says, and no item is a deleted object.
WellFormed(kd, it) ==
    /\ kd \in [Obj -> Kind \cup {"free"}]
    /\ DOMAIN it = Container
    /\ it[Root] \in [Var \cup {D_NONE} -> LiveValue(kd)]
    /\ \A o \in Obj : kd[o] = "list" => it[o] \in Seq(LiveValue(kd))
    /\ \A o \in Obj : kd[o] = "dict" =>
          /\ it[o] \in [DOMAIN it[o] -> LiveValue(kd)]
          /\ DOMAIN it[o] \subseteq Key /\ IsFiniteSet(DOMAIN it[o])
    /\ \A o \in Obj : kd[o] \notin {"list", "dict"} => it[o] = <<>>

\* The counts are exact, and objects live as long as they have a reference.
HeapOK(kd, it, cn) ==
    /\ WellFormed(kd, it)
    /\ cn \in [Obj -> Nat]
    /\ \A o \in Obj : cn[o] = RefCount(it, o)
    /\ \A o \in Obj : kd[o] = "free" <=> cn[o] = 0

\* A vector has room for its items.
CapOK(kd, it, cp) ==
    /\ cp \in [Obj -> Nat]
    /\ \A o \in Obj : kd[o] = "list" => Len(it[o]) <= cp[o]

\* The empty container.
LEMMA NoItems ==
    /\ DOMAIN <<>> = {} /\ IsFiniteSet(DOMAIN <<>>) /\ Len(<<>>) = 0
    /\ \A S : <<>> \in Seq(S) /\ <<>> \in [{} -> S]
<1>1. DOMAIN <<>> = {} /\ Len(<<>>) = 0
    OBVIOUS
<1>2. \A S : <<>> \in Seq(S) /\ <<>> \in [{} -> S]
    OBVIOUS
<1> QED
    BY <1>1, <1>2, FS_EmptySet

\* Items are finitely many, and live or no objects.
LEMMA WellFormedItems ==
    ASSUME HeapAssumption, NEW kd, NEW it, WellFormed(kd, it)
    PROVE  /\ FiniteItems(it)
           /\ \A c \in Container : \A i \in DOMAIN it[c] : it[c][i] \in LiveValue(kd)
<1>1. ASSUME NEW c \in Container
      PROVE  IsFiniteSet(DOMAIN it[c]) /\ \A i \in DOMAIN it[c] : it[c][i] \in LiveValue(kd)
  <2>1. CASE c = Root
    <3>1. IsFiniteSet(Var \cup {D_NONE})
        BY FS_AddElement DEF HeapAssumption
    <3> QED
        BY <2>1, <3>1 DEF WellFormed
  <2>2. CASE c \in Obj /\ kd[c] = "list"
    <3>1. it[c] \in Seq(LiveValue(kd))
        BY <2>2 DEF WellFormed
    <3>2. DOMAIN it[c] = 1 .. Len(it[c]) /\ Len(it[c]) \in Nat
        BY <3>1
    <3>3. IsFiniteSet(1 .. Len(it[c]))
        BY <3>2, FS_Interval
    <3> QED
        BY <3>1, <3>2, <3>3
  <2>3. CASE c \in Obj /\ kd[c] = "dict"
      BY <2>3 DEF WellFormed
  <2>4. CASE c \in Obj /\ kd[c] \notin {"list", "dict"}
    <3>1. it[c] = <<>>
        BY <2>4 DEF WellFormed
    <3> QED
        BY <3>1, NoItems
  <2> QED
      BY <2>1, <2>2, <2>3, <2>4 DEF Container
<1> QED
    BY <1>1 DEF FiniteItems

\* HeldBy counts the places that refer.
LEMMA HeldByIs ==
    ASSUME NEW it, NEW D, NEW o \in Obj
    PROVE  HeldBy(it, D)[o] = Cardinality(RefsFrom(it, D, o))
    BY DEF HeldBy, RefsFrom

\* With exact counts, an object has only the references of D when no other
\* container refers to it.
LEMMA OnlyFromIs ==
    ASSUME HeapAssumption, NEW kd, NEW it, NEW cn, FiniteItems(it),
           \A o \in Obj : cn[o] = RefCount(it, o), NEW D \in SUBSET Container, NEW o \in Obj
    PROVE  o \in OnlyFrom(kd, it, cn, D) <=>
              /\ kd[o] # "free"
              /\ \A c \in Container : \A i \in DOMAIN it[c] : it[c][i] = o => c \in D
<1> DEFINE S == RefsFrom(it, Container, o)
           T == RefsFrom(it, D, o)
<1>1. IsFiniteSet(S) /\ T \in SUBSET S
  <2>1. T \subseteq S
      BY InRefsFrom
  <2> QED
      BY <2>1, RefsFinite
<1>2. cn[o] = Cardinality(S) /\ HeldBy(it, D)[o] = Cardinality(T)
    BY HeldByIs DEF RefCount
<1>3. S = T <=> \A c \in Container : \A i \in DOMAIN it[c] : it[c][i] = o => c \in D
  <2>1. ASSUME S = T, NEW c \in Container, NEW i \in DOMAIN it[c], it[c][i] = o
        PROVE  c \in D
    <3>1. <<c, i>> \in S
        BY <2>1, InRefsFrom
    <3>2. <<c, i>> \in T
        BY <3>1, <2>1
    <3>3. PICK d \in D : \E j \in DOMAIN it[d] : it[d][j] = o /\ <<c, i>> = <<d, j>>
        BY <3>2, InRefsFrom
    <3> QED
        BY <3>3
  <2>2. ASSUME \A c \in Container : \A i \in DOMAIN it[c] : it[c][i] = o => c \in D
        PROVE  S = T
    <3>1. ASSUME NEW p \in S PROVE p \in T
      <4>1. PICK c \in Container : \E i \in DOMAIN it[c] : it[c][i] = o /\ p = <<c, i>>
          BY InRefsFrom
      <4>2. c \in D
          BY <4>1, <2>2
      <4> QED
          BY <4>1, <4>2, InRefsFrom
    <3> QED
        BY <3>1, <1>1
  <2> QED
      BY <2>1, <2>2
<1> HIDE DEF S, T
<1>4. S = T <=> Cardinality(S) = Cardinality(T)
    BY <1>1, FS_Subset
<1> QED
    BY <1>2, <1>3, <1>4 DEF OnlyFrom

\* What Deleted gives is closed: these are the objects to which only they refer.
LEMMA DeletedIs ==
    ASSUME HeapAssumption, NEW kd, NEW it, NEW cn, FiniteItems(it),
           \A o \in Obj : cn[o] = RefCount(it, o)
    PROVE  /\ Deleted(kd, it, cn) \in SUBSET {o \in Obj : kd[o] # "free"}
           /\ OnlyFrom(kd, it, cn, Deleted(kd, it, cn)) = Deleted(kd, it, cn)
<1> DEFINE live == {o \in Obj : kd[o] # "free"}
           zero == {o \in live : cn[o] = 0}
           F(D) == OnlyFrom(kd, it, cn, D)
           closed == {D \in {zero \cup T : T \in SUBSET (live \ zero)} : F(D) \subseteq D}
           E == Deleted(kd, it, cn)
<1>1. live \subseteq Obj /\ Obj \subseteq Container /\ \A D : F(D) \subseteq live
    BY DEF Container, OnlyFrom
<1>2. ASSUME NEW C \in SUBSET Container, NEW D \in SUBSET Container, C \subseteq D
      PROVE  F(C) \subseteq F(D)
  <2>1. ASSUME NEW o \in Obj, o \in F(C) PROVE o \in F(D)
    <3> HIDE DEF live, zero, closed, E
    <3> QED
        BY <1>2, <2>1, OnlyFromIs
  <2> QED
      BY <2>1, <1>1
<1>3. zero = F({})
  <2>1. \A o \in Obj : HeldBy(it, {})[o] = 0
    <3>1. \A o : RefsFrom(it, {}, o) = {}
        BY DEF RefsFrom
    <3> QED
        BY <3>1, HeldByIs, FS_EmptySet
  <2> QED
      BY <2>1 DEF OnlyFrom
<1>4. E = IF zero = {} THEN {} ELSE {o \in live : \A D \in closed : o \in D}
    BY DEF Deleted
<1>5. \A D : D \in closed <=> D \subseteq live /\ zero \subseteq D /\ F(D) \subseteq D
  <2> TAKE D
  <2> HIDE DEF F, E
  <2>1. ASSUME D \subseteq live, zero \subseteq D
        PROVE  \E T \in SUBSET (live \ zero) : D = zero \cup T
    <3>1. D = zero \cup (D \ zero) /\ D \ zero \in SUBSET (live \ zero)
        BY <2>1
    <3> QED
        BY <3>1
  <2> QED
      BY <2>1
<1> HIDE DEF live, zero, F, closed, E
<1>6. CASE zero = {}
    BY <1>3, <1>4, <1>6 DEF F, E, live
<1>7. CASE zero # {}
  <2>1. E \subseteq live /\ \A D \in closed : E \subseteq D
      BY <1>4, <1>7
  <2>2. zero \subseteq live
      BY DEF zero
  <2>3. F(E) \subseteq E
    <3>1. ASSUME NEW D \in closed PROVE F(E) \subseteq D
      <4>1. E \subseteq D /\ D \in SUBSET Container /\ E \in SUBSET Container /\ F(D) \subseteq D
          BY <2>1, <1>5, <1>1
      <4>2. F(E) \subseteq F(D)
          BY <4>1, <1>2
      <4> QED
          BY <4>1, <4>2
    <3>2. F(E) \subseteq live
        BY <1>1
    <3> QED
        BY <3>1, <3>2, <1>4, <1>7
  <2>4. F(E) \in closed
    <3>1. F(E) \subseteq live /\ F(E) \in SUBSET Container /\ E \in SUBSET Container
        BY <1>1, <2>1
    <3>2. F(F(E)) \subseteq F(E)
        BY <3>1, <2>3, <1>2
    <3>3. F({}) \subseteq F(E)
        BY <3>1, <1>2
    <3> QED
        BY <3>1, <3>2, <3>3, <1>3, <1>5
  <2>5. F(E) = E
      BY <2>1, <2>3, <2>4
  <2> QED
      BY <2>1, <2>5 DEF F, E, live
<1> QED
    BY <1>6, <1>7

\* What Settle does to the kinds, the items and the counts.
LEMMA SettleIs ==
    ASSUME NEW kd, NEW it, NEW cp, NEW inc, NEW dec, Settle(kd, it, cp, inc, dec), NEW cn,
           cn = [o \in Obj |-> count[o] + inc[o] - dec[o]], NEW D, D = Deleted(kd, it, cn)
    PROVE  /\ kind' = [o \in Obj |-> IF o \in D THEN "free" ELSE kd[o]]
           /\ items' = [c \in Container |-> IF c \in D THEN <<>> ELSE it[c]]
           /\ count' = [o \in Obj |-> IF o \in D THEN 0 ELSE cn[o] - HeldBy(it, D)[o]]
           /\ cap' = [o \in Obj |-> IF o \in D THEN 0 ELSE cp[o]]
    BY DEF Settle, Container

\* An operation that takes and gives up as many references as it changes in the
\* items leaves the counts exact: what is deleted had references only from what
\* is deleted.
LEMMA SettleKeeps ==
    ASSUME HeapAssumption, NEW kd, NEW it, NEW cp, NEW inc, NEW dec, WellFormed(kd, it),
           \A o \in Obj : count[o] + inc[o] - dec[o] = RefCount(it, o),
           Settle(kd, it, cp, inc, dec)
    PROVE  /\ HeapOK(kind', items', count')
           /\ CapOK(kd, it, cp) => CapOK(kind', items', cap')
           /\ \A o \in Obj : kind'[o] \in {kd[o], "free"}
<1> DEFINE cn == [o \in Obj |-> count[o] + inc[o] - dec[o]]
           D == Deleted(kd, it, cn)
<1>1. FiniteItems(it) /\ \A c \in Container : \A i \in DOMAIN it[c] : it[c][i] \in LiveValue(kd)
    BY WellFormedItems
<1>2. \A o \in Obj : cn[o] = RefCount(it, o)
    OBVIOUS
<1>3. /\ kind' = [o \in Obj |-> IF o \in D THEN "free" ELSE kd[o]]
      /\ items' = [c \in Container |-> IF c \in D THEN <<>> ELSE it[c]]
      /\ count' = [o \in Obj |-> IF o \in D THEN 0 ELSE cn[o] - HeldBy(it, D)[o]]
      /\ cap' = [o \in Obj |-> IF o \in D THEN 0 ELSE cp[o]]
  <2>1. cn = [o \in Obj |-> count[o] + inc[o] - dec[o]] /\ D = Deleted(kd, it, cn)
      OBVIOUS
  <2> HIDE DEF cn, D
  <2> QED
      BY <2>1, SettleIs
<1> HIDE DEF cn
<1>4. D \in SUBSET {o \in Obj : kd[o] # "free"} /\ OnlyFrom(kd, it, cn, D) = D
    BY <1>1, <1>2, DeletedIs
<1> HIDE DEF D
<1>5. D \in SUBSET Container /\ Root \notin D /\ D \subseteq Obj
    BY <1>4 DEF Container, HeapAssumption
<1>6. ASSUME NEW o \in Obj
      PROVE  o \in D <=> kd[o] # "free" /\
                \A c \in Container : \A i \in DOMAIN it[c] : it[c][i] = o => c \in D
    BY <1>1, <1>2, <1>4, <1>5, OnlyFromIs
<1>7. \A c \in Container : items'[c] = IF c \in D THEN <<>> ELSE it[c]
    BY <1>3
<1>8. WellFormed(kind', items')
  <2>1. \A c \in Container \ D : \A i \in DOMAIN it[c] : it[c][i] \in LiveValue(kind')
    <3> TAKE c \in Container \ D
    <3> TAKE i \in DOMAIN it[c]
    <3>1. it[c][i] \in LiveValue(kd)
        BY <1>1
    <3>2. CASE it[c][i] \in {Undef, None}
        BY <3>2 DEF LiveValue
    <3>3. CASE it[c][i] \notin {Undef, None}
      <4>1. it[c][i] \in Obj /\ kd[it[c][i]] # "free" /\ it[c][i] \notin D
          BY <3>1, <3>3, <1>6 DEF LiveValue
      <4> QED
          BY <4>1, <1>3 DEF LiveValue
    <3> QED
        BY <3>2, <3>3
  <2>2. kind' \in [Obj -> Kind \cup {"free"}] /\ DOMAIN items' = Container
      BY <1>3 DEF WellFormed
  <2>3. items'[Root] \in [Var \cup {D_NONE} -> LiveValue(kind')]
    <3>1. items'[Root] = it[Root] /\ Root \in Container \ D
        BY <1>5, <1>7 DEF Container
    <3>2. it[Root] \in [Var \cup {D_NONE} -> LiveValue(kd)]
        BY DEF WellFormed
    <3>3. \A i \in DOMAIN it[Root] : it[Root][i] \in LiveValue(kind')
        BY <3>1, <2>1
    <3> QED
        BY <3>1, <3>2, <3>3
  <2>4. ASSUME NEW o \in Obj, kind'[o] = "list" PROVE items'[o] \in Seq(LiveValue(kind'))
    <3>1. o \notin D /\ kd[o] = "list" /\ o \in Container \ D
        BY <2>4, <1>3 DEF Container
    <3>2. items'[o] = it[o]
        BY <3>1, <1>7
    <3>3. it[o] \in Seq(LiveValue(kd))
        BY <3>1 DEF WellFormed
    <3>4. \A i \in 1 .. Len(it[o]) : it[o][i] \in LiveValue(kind')
        BY <3>1, <3>3, <2>1
    <3> QED
        BY <3>2, <3>3, <3>4
  <2>5. ASSUME NEW o \in Obj, kind'[o] = "dict"
        PROVE  /\ items'[o] \in [DOMAIN items'[o] -> LiveValue(kind')]
               /\ DOMAIN items'[o] \subseteq Key /\ IsFiniteSet(DOMAIN items'[o])
    <3>1. o \notin D /\ kd[o] = "dict" /\ o \in Container \ D
        BY <2>5, <1>3 DEF Container
    <3>2. items'[o] = it[o]
        BY <3>1, <1>7
    <3>3. it[o] \in [DOMAIN it[o] -> LiveValue(kd)] /\ DOMAIN it[o] \subseteq Key
          /\ IsFiniteSet(DOMAIN it[o])
        BY <3>1 DEF WellFormed
    <3>4. \A i \in DOMAIN it[o] : it[o][i] \in LiveValue(kind')
        BY <3>1, <2>1
    <3> QED
        BY <3>2, <3>3, <3>4
  <2>6. ASSUME NEW o \in Obj, kind'[o] \notin {"list", "dict"} PROVE items'[o] = <<>>
    <3>1. CASE o \in D
        BY <3>1, <1>7 DEF Container
    <3>2. CASE o \notin D
        BY <3>2, <2>6, <1>3, <1>7 DEF Container, WellFormed
    <3> QED
        BY <3>1, <3>2
  <2> QED
      BY <2>2, <2>3, <2>4, <2>5, <2>6 DEF WellFormed
<1>9. ASSUME NEW o \in Obj
      PROVE  /\ RefCount(items', o) \in Nat
             /\ o \in D => RefCount(items', o) = 0
             /\ cn[o] = RefCount(items', o) + HeldBy(it, D)[o]
  <2> DEFINE S == RefsFrom(it, Container \ D, o)
             T == RefsFrom(it, D, o)
  <2>1. IsFiniteSet(S) /\ IsFiniteSet(T)
      BY <1>1, <1>5, RefsFinite
  <2>2. S \cap T = {}
      BY InRefsFrom
  <2>3. RefsFrom(it, Container, o) = S \cup T
    <3>1. ASSUME NEW p PROVE p \in RefsFrom(it, Container, o) <=> p \in S \/ p \in T
        BY <1>5, InRefsFrom
    <3> QED
        BY <3>1
  <2>4. RefsFrom(items', Container, o) = S
    <3>1. ASSUME NEW c \in D PROVE DOMAIN items'[c] = {}
        BY <1>5, <1>7, NoItems
    <3>2. ASSUME NEW p
          PROVE  p \in RefsFrom(items', Container, o) <=> p \in RefsFrom(items', Container \ D, o)
        BY <3>1, InRefsFrom
    <3>3. RefsFrom(items', Container, o) = RefsFrom(items', Container \ D, o)
        BY <3>2
    <3>4. \A c \in Container \ D : items'[c] = it[c]
        BY <1>7
    <3>5. RefsFrom(items', Container \ D, o) = RefsFrom(it, Container \ D, o)
        BY <3>4 DEF RefsFrom
    <3> QED
        BY <3>3, <3>5
  <2>5. o \in D => S = {}
    <3> SUFFICES ASSUME o \in D, NEW p \in S PROVE FALSE
        OBVIOUS
    <3>1. PICK c \in Container \ D : \E i \in DOMAIN it[c] : it[c][i] = o /\ p = <<c, i>>
        BY InRefsFrom
    <3> QED
        BY <3>1, <1>6
  <2> HIDE DEF S, T
  <2>6. Cardinality(S \cup T) = Cardinality(S) + Cardinality(T) /\ Cardinality(S) \in Nat
      BY <2>1, <2>2, DisjointSize
  <2>7. HeldBy(it, D)[o] = Cardinality(T)
      BY HeldByIs DEF T
  <2>8. RefCount(items', o) = Cardinality(S) /\ cn[o] = Cardinality(S \cup T)
      BY <2>3, <2>4, <1>2 DEF RefCount
  <2> QED
      BY <2>5, <2>6, <2>7, <2>8, FS_EmptySet
<1>10. \A o \in Obj : HeldBy(it, D)[o] \in Nat
    BY <1>1, <1>5, HeldByIs, RefsFinite
<1>11. \A o \in Obj : count'[o] = RefCount(items', o)
    BY <1>3, <1>9, <1>10
<1>12. count' \in [Obj -> Nat]
  <2>1. \A o \in Obj : count'[o] \in Nat
      BY <1>9, <1>11
  <2>2. count' = [o \in Obj |-> count'[o]]
      BY <1>3
  <2> QED
      BY <2>1, <2>2
<1>13. ASSUME NEW o \in Obj PROVE kind'[o] = "free" <=> count'[o] = 0
  <2>1. CASE o \in D
      BY <2>1, <1>3
  <2>2. CASE o \notin D /\ kd[o] = "free"
    <3>1. \A c \in Container : \A i \in DOMAIN it[c] : it[c][i] # o
      <4>1. o \notin LiveValue(kd)
          BY <2>2 DEF LiveValue, HeapAssumption
      <4> QED
          BY <4>1, <1>1
    <3>2. RefsFrom(it, Container, o) = {}
        BY <3>1, InRefsFrom
    <3>3. cn[o] = 0
        BY <3>2, <1>2, FS_EmptySet DEF RefCount
    <3>4. count'[o] = 0
        BY <3>3, <1>9, <1>10, <1>11
    <3>5. kind'[o] = "free"
        BY <2>2, <1>3
    <3> QED
        BY <3>4, <3>5
  <2>3. CASE o \notin D /\ kd[o] # "free"
    <3>1. cn[o] # HeldBy(it, D)[o]
        BY <2>3, <1>4 DEF OnlyFrom
    <3>2. count'[o] # 0
        BY <3>1, <1>9, <1>10, <1>11
    <3>3. kind'[o] = kd[o]
        BY <2>3, <1>3
    <3> QED
        BY <3>2, <3>3, <2>3
  <2> QED
      BY <2>1, <2>2, <2>3
<1>14. CapOK(kd, it, cp) => CapOK(kind', items', cap')
  <2> SUFFICES ASSUME CapOK(kd, it, cp) PROVE CapOK(kind', items', cap')
      OBVIOUS
  <2>1. cap' \in [Obj -> Nat]
      BY <1>3 DEF CapOK
  <2>2. ASSUME NEW o \in Obj, kind'[o] = "list" PROVE Len(items'[o]) <= cap'[o]
    <3>1. o \notin D /\ kd[o] = "list"
        BY <2>2, <1>3
    <3>2. items'[o] = it[o] /\ cap'[o] = cp[o]
        BY <3>1, <1>3 DEF Container
    <3> QED
        BY <3>1, <3>2 DEF CapOK
  <2> QED
      BY <2>1, <2>2 DEF CapOK
<1>15. \A o \in Obj : kind'[o] \in {kd[o], "free"}
    BY <1>3
<1> QED
    BY <1>8, <1>11, <1>12, <1>13, <1>14, <1>15 DEF HeapOK

-----------------------------------------------------------------------------
(* Changes of one container.                                               *)

\* The function f can be the items of c.
ItemsFor(kd, c, f) ==
    /\ c = Root => f \in [Var \cup {D_NONE} -> LiveValue(kd)]
    /\ c # Root /\ kd[c] = "list" => f \in Seq(LiveValue(kd))
    /\ c # Root /\ kd[c] = "dict" =>
          /\ f \in [DOMAIN f -> LiveValue(kd)]
          /\ DOMAIN f \subseteq Key /\ IsFiniteSet(DOMAIN f)
    /\ c # Root /\ kd[c] \notin {"list", "dict"} => f = <<>>

\* A container gets other items.
LEMMA WithItems ==
    ASSUME HeapAssumption, NEW kd, NEW it, WellFormed(kd, it), NEW c \in Container,
           NEW jt, DOMAIN jt = Container, ItemsFor(kd, c, jt[c]), SameBut(c, it, jt)
    PROVE  /\ WellFormed(kd, jt)
           /\ \A o \in Obj :
                 /\ RefCount(it, o) \in Nat /\ RefsOf(it[c], o) \in Nat /\ RefsOf(jt[c], o) \in Nat
                 /\ RefCount(jt, o) = RefCount(it, o) + RefsOf(jt[c], o) - RefsOf(it[c], o)
<1>1. kd \in [Obj -> Kind \cup {"free"}] /\ Root \notin Obj
    BY DEF WellFormed, HeapAssumption
<1>2. WellFormed(kd, jt)
  <2>1. jt[Root] \in [Var \cup {D_NONE} -> LiveValue(kd)]
      BY DEF WellFormed, ItemsFor, Container, SameBut
  <2>2. ASSUME NEW o \in Obj, kd[o] = "list" PROVE jt[o] \in Seq(LiveValue(kd))
      BY <1>1, <2>2 DEF WellFormed, ItemsFor, Container, SameBut
  <2>3. ASSUME NEW o \in Obj, kd[o] = "dict"
        PROVE  /\ jt[o] \in [DOMAIN jt[o] -> LiveValue(kd)]
               /\ DOMAIN jt[o] \subseteq Key /\ IsFiniteSet(DOMAIN jt[o])
    <3>1. CASE o = c
        BY <3>1, <1>1, <2>3 DEF ItemsFor
    <3>2. CASE o # c
        BY <3>2, <2>3 DEF WellFormed, Container, SameBut
    <3> QED
        BY <3>1, <3>2
  <2>4. ASSUME NEW o \in Obj, kd[o] \notin {"list", "dict"} PROVE jt[o] = <<>>
    <3>1. CASE o = c
        BY <3>1, <1>1, <2>4 DEF ItemsFor
    <3>2. CASE o # c
        BY <3>2, <2>4 DEF WellFormed, Container, SameBut
    <3> QED
        BY <3>1, <3>2
  <2> QED
      BY <1>1, <2>1, <2>2, <2>3, <2>4 DEF WellFormed
<1>3. FiniteItems(it) /\ FiniteItems(jt)
    BY <1>2, WellFormedItems
<1>4. ASSUME NEW o \in Obj
      PROVE  /\ RefCount(it, o) \in Nat /\ RefsOf(it[c], o) \in Nat /\ RefsOf(jt[c], o) \in Nat
             /\ RefCount(jt, o) = RefCount(it, o) + RefsOf(jt[c], o) - RefsOf(it[c], o)
    BY <1>3, ContainerChanged
<1> QED
    BY <1>2, <1>4

\* To make the items g of the items f takes the references inc and gives up dec.
Balanced(f, g, inc, dec) ==
    \A o \in Obj : /\ inc[o] \in Nat /\ dec[o] \in Nat
                   /\ RefsOf(g, o) = RefsOf(f, o) + inc[o] - dec[o]

\* The vectors have room when c has the items f.
RoomFor(kd, it, c, f, cp) ==
    /\ cp \in [Obj -> Nat]
    /\ \A o \in Obj \ {c} : kd[o] = "list" => Len(it[o]) <= cp[o]
    /\ c \in Obj /\ kd[c] = "list" => Len(f) <= cp[c]

\* The counts are exact after the step, which made no object of another kind
\* than kd says.
Kept(kd) ==
    /\ HeapOK(kind', items', count')
    /\ CapOK(kind', items', cap')
    /\ \A o \in Obj : kind'[o] \in {kd[o], "free"}

\* An operation that changes one container.
LEMMA ChangeKeeps ==
    ASSUME HeapAssumption, NEW kd, WellFormed(kd, items), \A o \in Obj : count[o] = RefCount(items, o),
           NEW c \in Container, NEW f, ItemsFor(kd, c, f),
           NEW inc, NEW dec, Balanced(items[c], f, inc, dec),
           NEW cp, RoomFor(kd, items, c, f, cp), Settle(kd, With(c, f), cp, inc, dec)
    PROVE  Kept(kd)
<1>1. PICK jt : jt = With(c, f)
    OBVIOUS
<1>2. DOMAIN items = Container
    BY DEF WellFormed
<1>3. DOMAIN jt = Container /\ jt[c] = f /\ SameBut(c, items, jt)
    BY <1>1, <1>2 DEF With, SameBut
<1>4. ItemsFor(kd, c, jt[c]) /\ Balanced(items[c], jt[c], inc, dec)
    BY <1>3
<1>5. /\ WellFormed(kd, jt)
      /\ \A o \in Obj :
            /\ RefCount(items, o) \in Nat /\ RefsOf(items[c], o) \in Nat /\ RefsOf(jt[c], o) \in Nat
            /\ RefCount(jt, o) = RefCount(items, o) + RefsOf(jt[c], o) - RefsOf(items[c], o)
  <2> HIDE DEF RoomFor
  <2> QED
      BY <1>3, <1>4, WithItems
<1>6. \A o \in Obj : count[o] + inc[o] - dec[o] = RefCount(jt, o)
    BY <1>4, <1>5 DEF Balanced
<1>7. CapOK(kd, jt, cp)
    BY <1>3 DEF CapOK, RoomFor, SameBut, Container
<1>8. Settle(kd, jt, cp, inc, dec)
    BY <1>1
<1> QED
    BY <1>5, <1>6, <1>7, <1>8, SettleKeeps DEF Kept

-----------------------------------------------------------------------------
(* The references each change of items takes and gives up.                 *)

\* The references of two parts of a container.
LEMMA RefsJoin ==
    ASSUME NEW f, NEW I, NEW J, IsFiniteSet(I), IsFiniteSet(J), I \cap J = {},
           DOMAIN f = I \cup J, NEW o
    PROVE  /\ RefsOf(f, o) = Refers(f, I, o) + Refers(f, J, o)
           /\ Refers(f, I, o) \in Nat /\ Refers(f, J, o) \in Nat
<1>1. Refers(f, I \cup J, o) = Refers(f, I, o) + Refers(f, J, o)
    BY RefersUnion
<1>2. Refers(f, I, o) \in Nat /\ Refers(f, J, o) \in Nat
    BY RefersNat
<1> QED
    BY <1>1, <1>2 DEF RefsOf

\* The references to one object are none or one.
LEMMA OneNat ==
    ASSUME NEW v, NEW o \in Obj
    PROVE  One(v)[o] \in Nat /\ Nothing[o] = 0 /\ (v \notin Obj => One(v)[o] = 0)
    BY DEF One, Nothing

\* A new value for one item.
LEMMA ReplaceBalanced ==
    ASSUME NEW f, IsFiniteSet(DOMAIN f), NEW i \in DOMAIN f, NEW v
    PROVE  Balanced(f, [f EXCEPT ![i] = v], One(v), One(f[i]))
<1>1. PICK g : g = [f EXCEPT ![i] = v]
    OBVIOUS
<1>2. DOMAIN g = DOMAIN f /\ g[i] = v /\ \A j \in DOMAIN f \ {i} : g[j] = f[j]
    BY <1>1
<1>3. ASSUME NEW o \in Obj PROVE RefsOf(g, o) = RefsOf(f, o) + One(v)[o] - One(f[i])[o]
    BY <1>2, RefersReplaced DEF RefsOf
<1> QED
    BY <1>1, <1>3, OneNat DEF Balanced

\* operator = into an item: a NONE keeps its value, and takes what it gives up.
LEMMA PutBalanced ==
    ASSUME HeapAssumption, NEW f, IsFiniteSet(DOMAIN f), NEW i \in DOMAIN f, NEW v
    PROVE  Balanced(f, [f EXCEPT ![i] = Put(f[i], v)], Takes(f[i], v), GivesUp(f[i]))
<1>1. Balanced(f, [f EXCEPT ![i] = Put(f[i], v)], One(Put(f[i], v)), One(f[i]))
    BY ReplaceBalanced
<1>2. \A o \in Obj : One(Put(f[i], v))[o] = Takes(f[i], v)[o]
    BY DEF HeapAssumption, Put, Takes, One, Nothing
<1> QED
    BY <1>1, <1>2 DEF Balanced, GivesUp

\* A dict or list without its items.
LEMMA ClearBalanced ==
    ASSUME NEW f, IsFiniteSet(DOMAIN f)
    PROVE  Balanced(f, <<>>, Nothing, AllOf(f, DOMAIN f))
<1>1. ASSUME NEW o \in Obj PROVE RefsOf(<<>>, o) = 0
  <2>1. {i \in DOMAIN <<>> : <<>>[i] = o} = {}
      OBVIOUS
  <2> QED
      BY <2>1, FS_EmptySet DEF RefsOf, Refers
<1>2. ASSUME NEW o \in Obj
      PROVE  RefsOf(f, o) \in Nat /\ AllOf(f, DOMAIN f)[o] = RefsOf(f, o)
    BY RefersNat DEF RefsOf, AllOf
<1>3. \A o \in Obj : Nothing[o] = 0
    BY DEF Nothing
<1>4. ASSUME NEW o \in Obj
      PROVE  /\ Nothing[o] \in Nat /\ AllOf(f, DOMAIN f)[o] \in Nat
             /\ RefsOf(<<>>, o) = RefsOf(f, o) + Nothing[o] - AllOf(f, DOMAIN f)[o]
    BY <1>1, <1>2, <1>3
<1> QED
    BY <1>4 DEF Balanced

\* All items are new.
LEMMA RenewBalanced ==
    ASSUME NEW f, NEW g, IsFiniteSet(DOMAIN f), IsFiniteSet(DOMAIN g)
    PROVE  Balanced(f, g, AllOf(g, DOMAIN g), AllOf(f, DOMAIN f))
<1>1. ASSUME NEW o \in Obj, NEW h, IsFiniteSet(DOMAIN h)
      PROVE  RefsOf(h, o) \in Nat /\ AllOf(h, DOMAIN h)[o] = RefsOf(h, o)
    BY <1>1, RefersNat DEF RefsOf, AllOf
<1>2. ASSUME NEW o \in Obj
      PROVE  /\ RefsOf(f, o) \in Nat /\ AllOf(f, DOMAIN f)[o] = RefsOf(f, o)
             /\ RefsOf(g, o) \in Nat /\ AllOf(g, DOMAIN g)[o] = RefsOf(g, o)
    BY <1>1
<1> QED
    BY <1>2 DEF Balanced

\* f \o g: the references of both.
LEMMA ConcatBalanced ==
    ASSUME NEW V, NEW f \in Seq(V), NEW g \in Seq(V)
    PROVE  Balanced(f, f \o g, AllOf(g, DOMAIN g), Nothing)
<1>1. PICK h : h = f \o g
    OBVIOUS
<1> DEFINE n == Len(f)
           I == 1 .. n
           J == n + 1 .. n + Len(g)
<1>2. /\ n \in Nat /\ Len(g) \in Nat /\ DOMAIN f = I /\ DOMAIN g = 1 .. Len(g)
      /\ DOMAIN h = I \cup J /\ I \cap J = {}
      /\ \A i \in I : h[i] = f[i]
      /\ \A i \in 1 .. Len(g) : h[n + i] = g[i]
    BY <1>1
<1>3. IsFiniteSet(I) /\ IsFiniteSet(J) /\ IsFiniteSet(1 .. Len(g))
    BY <1>2, FS_Interval
<1>4. ASSUME NEW o \in Obj
      PROVE  /\ RefsOf(h, o) = RefsOf(f, o) + RefsOf(g, o)
             /\ RefsOf(f, o) \in Nat /\ RefsOf(g, o) \in Nat
  <2>1. RefsOf(h, o) = Refers(h, I, o) + Refers(h, J, o)
    <3> HIDE DEF I, J
    <3> QED
        BY <1>2, <1>3, RefsJoin
  <2>2. Refers(h, I, o) = Refers(f, I, o)
    <3>1. \A i \in I : h[i] = o <=> f[i] = o
        BY <1>2
    <3> HIDE DEF I
    <3> QED
        BY <3>1, RefersAgree
  <2>3. Refers(h, J, o) = Refers(g, 1 .. Len(g), o)
    <3>1. PICK K : K = 1 .. Len(g)
        OBVIOUS
    <3>2. PICK m : m = [i \in K |-> n + i]
        OBVIOUS
    <3>3. /\ m \in [K -> J]
          /\ \A x, y \in K : m[x] = m[y] => x = y
        BY <3>1, <3>2, <1>2
    <3>4. \A j \in J : \E x \in K : m[x] = j
      <4> TAKE j \in J
      <4>1. j - n \in K /\ m[j - n] = j
          BY <3>1, <3>2, <1>2
      <4> QED
          BY <4>1
    <3>5. \A i \in K : g[i] = o <=> h[m[i]] = o
        BY <3>1, <3>2, <1>2
    <3> HIDE DEF J, n
    <3> QED
        BY <3>1, <3>3, <3>4, <3>5, <1>3, RefersMoved
  <2>4. RefsOf(f, o) = Refers(f, I, o) /\ RefsOf(g, o) = Refers(g, 1 .. Len(g), o)
      BY <1>2 DEF RefsOf
  <2>5. Refers(f, I, o) \in Nat /\ Refers(g, 1 .. Len(g), o) \in Nat
      BY <1>3, RefersNat
  <2> QED
      BY <2>1, <2>2, <2>3, <2>4, <2>5
<1>5. ASSUME NEW o \in Obj PROVE AllOf(g, DOMAIN g)[o] = RefsOf(g, o) /\ Nothing[o] = 0
    BY DEF AllOf, RefsOf, Nothing
<1> QED
    BY <1>1, <1>4, <1>5 DEF Balanced

\* A list of one item.
LEMMA RefsSingle ==
    ASSUME NEW v, NEW o \in Obj
    PROVE  RefsOf(<<v>>, o) = One(v)[o]
<1>1. DOMAIN <<v>> = {1} /\ <<v>>[1] = v
    OBVIOUS
<1>2. PICK f : f = <<v>>
    OBVIOUS
<1> QED
    BY <1>1, <1>2, RefersOne DEF RefsOf

\* An item more at the end.
LEMMA AppendBalanced ==
    ASSUME NEW V, NEW f \in Seq(V), NEW v \in V
    PROVE  Balanced(f, Append(f, v), One(v), Nothing)
<1>1. <<v>> \in Seq(V) /\ Append(f, v) = f \o <<v>>
    OBVIOUS
<1>2. Balanced(f, f \o <<v>>, AllOf(<<v>>, DOMAIN <<v>>), Nothing)
    BY <1>1, ConcatBalanced
<1>3. \A o \in Obj : AllOf(<<v>>, DOMAIN <<v>>)[o] = One(v)[o]
    BY RefsSingle DEF AllOf, RefsOf
<1> QED
    BY <1>1, <1>2, <1>3 DEF Balanced

\* An item more in front, in a new buffer.
LEMMA FrontBalanced ==
    ASSUME NEW V, NEW f \in Seq(V), NEW v \in V
    PROVE  Balanced(f, <<v>> \o f, One(v), Nothing)
<1>1. <<v>> \in Seq(V)
    OBVIOUS
<1>2. Balanced(<<v>>, <<v>> \o f, AllOf(f, DOMAIN f), Nothing)
    BY <1>1, ConcatBalanced
<1>3. ASSUME NEW o \in Obj
      PROVE  RefsOf(<<v>>, o) = One(v)[o] /\ One(v)[o] \in Nat /\ Nothing[o] = 0
             /\ AllOf(f, DOMAIN f)[o] = RefsOf(f, o)
    BY RefsSingle, OneNat DEF AllOf, RefsOf
<1> QED
    BY <1>2, <1>3 DEF Balanced

\* The first n items are left.
LEMMA TruncateBalanced ==
    ASSUME NEW V, NEW f \in Seq(V), NEW n \in 0 .. Len(f)
    PROVE  Balanced(f, SubSeq(f, 1, n), Nothing, AllOf(f, n + 1 .. Len(f)))
<1>1. PICK g : g = SubSeq(f, 1, n)
    OBVIOUS
<1> DEFINE I == 1 .. n
           J == n + 1 .. Len(f)
<1>2. /\ n \in Nat /\ Len(f) \in Nat /\ DOMAIN f = I \cup J /\ I \cap J = {}
      /\ DOMAIN g = I /\ \A i \in I : g[i] = f[i]
  <2>1. n \in Nat /\ Len(f) \in Nat /\ n <= Len(f) /\ DOMAIN f = 1 .. Len(f)
      OBVIOUS
  <2>2. DOMAIN f = I \cup J /\ I \cap J = {}
      BY <2>1
  <2>3. g \in Seq(V) /\ Len(g) = n /\ \A i \in 1 .. n : g[i] = f[i]
    <3>1. 1 <= Len(f) + 1 /\ n \in 1 - 1 .. Len(f) /\ 1 \in 1 .. Len(f) + 1
        BY <2>1
    <3>2. /\ SubSeq(f, 1, n) \in Seq(V)
          /\ Len(SubSeq(f, 1, n)) = n - 1 + 1
          /\ \A i \in 1 .. n - 1 + 1 : SubSeq(f, 1, n)[i] = f[1 + i - 1]
        BY <3>1, <2>1, SubSeqProperties
    <3> QED
        BY <3>2, <2>1, <1>1
  <2> QED
      BY <2>1, <2>2, <2>3
<1>3. IsFiniteSet(I) /\ IsFiniteSet(J)
    BY <1>2, FS_Interval
<1> HIDE DEF I, J
<1>4. ASSUME NEW o \in Obj
      PROVE  /\ Refers(f, I, o) \in Nat /\ Refers(f, J, o) \in Nat
             /\ RefsOf(f, o) = Refers(f, I, o) + Refers(f, J, o)
             /\ RefsOf(g, o) = Refers(f, I, o)
  <2>1. RefsOf(f, o) = Refers(f, I, o) + Refers(f, J, o)
        /\ Refers(f, I, o) \in Nat /\ Refers(f, J, o) \in Nat
      BY <1>2, <1>3, RefsJoin
  <2>2. \A i \in I : g[i] = o <=> f[i] = o
      BY <1>2
  <2>3. Refers(g, I, o) = Refers(f, I, o)
      BY <2>2, RefersAgree
  <2> QED
      BY <2>1, <2>3, <1>2 DEF RefsOf
<1>5. ASSUME NEW o \in Obj PROVE AllOf(f, J)[o] = Refers(f, J, o) /\ Nothing[o] = 0
    BY DEF AllOf, Nothing
<1>6. Balanced(f, g, Nothing, AllOf(f, J))
    BY <1>4, <1>5 DEF Balanced
<1> QED
    BY <1>1, <1>6 DEF J

\* The last item goes.
LEMMA PopBalanced ==
    ASSUME NEW V, NEW f \in Seq(V), f # <<>>
    PROVE  Balanced(f, SubSeq(f, 1, Len(f) - 1), Nothing, One(f[Len(f)]))
<1>1. Len(f) \in Nat /\ Len(f) - 1 \in 0 .. Len(f) /\ (Len(f) - 1) + 1 .. Len(f) = {Len(f)}
    OBVIOUS
<1>2. PICK n : n = Len(f) - 1
    OBVIOUS
<1>3. n \in 0 .. Len(f) /\ n + 1 .. Len(f) = {Len(f)}
    BY <1>1, <1>2
<1>4. Balanced(f, SubSeq(f, 1, n), Nothing, AllOf(f, n + 1 .. Len(f)))
    BY <1>3, TruncateBalanced
<1>5. Balanced(f, SubSeq(f, 1, n), Nothing, AllOf(f, {Len(f)}))
    BY <1>3, <1>4
<1>6. \A o \in Obj : AllOf(f, {Len(f)})[o] = One(f[Len(f)])[o]
    BY RefersOne DEF AllOf
<1>7. Balanced(f, SubSeq(f, 1, n), Nothing, One(f[Len(f)]))
    BY <1>5, <1>6 DEF Balanced
<1> QED
    BY <1>2, <1>7

\* operator = of the items of h into the items I of f makes g.
Assigned(f, g, h, I) == \A i \in I : g[i] = Put(f[i], h[i])

\* Items that are assigned one by one: what is not NONE gets the item of h, and
\* the references taken are those of h there.
LEMMA AssignedItems ==
    ASSUME HeapAssumption, NEW f, NEW g, NEW h, NEW I, IsFiniteSet(I), NEW o \in Obj,
           Assigned(f, g, h, I)
    PROVE  /\ Refers(g, I, o) = Refers(h, {i \in I : f[i] # None}, o)
           /\ Refers(g, I, o) \in Nat
<1> DEFINE K == {i \in I : f[i] # None}
<1>1. {i \in I : g[i] = o} = {i \in K : h[i] = o}
    BY DEF Put, HeapAssumption, Assigned
<1>2. Refers(g, I, o) \in Nat
    BY RefersNat
<1> QED
    BY <1>1, <1>2 DEF Refers

\* The positions of a list are finitely many.
LEMMA FirstPositions ==
    \A n \in Nat : IsFiniteSet(1 .. n)
    BY FS_Interval

\* Items that are assigned, with one more at the end.
LEMMA ShiftedRefs ==
    ASSUME HeapAssumption, NEW f, NEW g, NEW h, NEW n \in Nat, DOMAIN f = 1 .. n,
           DOMAIN g = 1 .. n + 1, g[n + 1] = f[n], Assigned(f, g, h, 1 .. n)
    PROVE  Balanced(f, g, Sum(One(f[n]), AllOf(h, {i \in 1 .. n : f[i] # None})), AllOf(f, 1 .. n))
<1> DEFINE I == 1 .. n
           K == {i \in I : f[i] # None}
<1>1. DOMAIN g = I \cup {n + 1} /\ I \cap {n + 1} = {}
    OBVIOUS
<1>2. IsFiniteSet(I) /\ IsFiniteSet({n + 1})
    BY FirstPositions, FS_Singleton
<1>3. ASSUME NEW o \in Obj
      PROVE  /\ RefsOf(g, o) = Refers(h, K, o) + One(f[n])[o]
             /\ Refers(h, K, o) \in Nat /\ One(f[n])[o] \in Nat
             /\ RefsOf(f, o) \in Nat /\ RefsOf(f, o) = Refers(f, I, o)
  <2>1. Refers(g, I, o) = Refers(h, K, o) /\ Refers(g, I, o) \in Nat
      BY <1>2, AssignedItems
  <2>2. RefsOf(g, o) = Refers(g, I, o) + Refers(g, {n + 1}, o)
    <3> HIDE DEF I
    <3> QED
        BY <1>1, <1>2, RefsJoin
  <2>3. Refers(g, {n + 1}, o) = One(g[n + 1])[o]
      BY RefersOne
  <2>4. RefsOf(f, o) = Refers(f, I, o)
      BY DEF RefsOf
  <2>5. Refers(f, I, o) \in Nat
      BY <1>2, RefersNat
  <2> QED
      BY <2>1, <2>2, <2>3, <2>4, <2>5, OneNat
<1>4. ASSUME NEW o \in Obj
      PROVE  /\ Sum(One(f[n]), AllOf(h, K))[o] = One(f[n])[o] + Refers(h, K, o)
             /\ AllOf(f, I)[o] = Refers(f, I, o)
    BY DEF Sum, AllOf
<1> HIDE DEF I, K
<1>5. Balanced(f, g, Sum(One(f[n]), AllOf(h, K)), AllOf(f, I))
    BY <1>3, <1>4 DEF Balanced
<1> QED
    BY <1>5 DEF I, K

\* h are the items of f moved by one place, with v in front, and g is f when they
\* are assigned.
Shifted(f, v, h, g) ==
    /\ h = [i \in 1 .. Len(f) |-> IF i = 1 THEN v ELSE f[i - 1]]
    /\ g = [i \in 1 .. Len(f) + 1 |-> IF i = Len(f) + 1 THEN f[Len(f)] ELSE Put(f[i], h[i])]

\* An item more in front, in the same buffer.
LEMMA ShiftBalanced ==
    ASSUME HeapAssumption, NEW V, NEW f \in Seq(V), f # <<>>, NEW v,
           NEW h, NEW g, Shifted(f, v, h, g)
    PROVE  Balanced(f, g, Sum(One(f[Len(f)]), AllOf(h, (1 .. Len(f)) \ {i \in 1 .. Len(f) : f[i] = None})),
                    AllOf(f, 1 .. Len(f)))
<1>1. PICK n : n = Len(f)
    OBVIOUS
<1>2. /\ n \in Nat /\ DOMAIN f = 1 .. n /\ DOMAIN g = 1 .. n + 1 /\ g[n + 1] = f[n]
      /\ Assigned(f, g, h, 1 .. n)
    BY <1>1 DEF Assigned, Shifted
<1>3. (1 .. n) \ {i \in 1 .. n : f[i] = None} = {i \in 1 .. n : f[i] # None}
    OBVIOUS
<1>4. \A x, y : /\ DOMAIN x = 1 .. n + 1 /\ x[n + 1] = f[n] /\ Assigned(f, x, y, 1 .. n)
                => Balanced(f, x, Sum(One(f[n]), AllOf(y, {i \in 1 .. n : f[i] # None})), AllOf(f, 1 .. n))
    BY <1>2, ShiftedRefs
<1>5. Balanced(f, g, Sum(One(f[n]), AllOf(h, {i \in 1 .. n : f[i] # None})), AllOf(f, 1 .. n))
    BY <1>2, <1>4
<1> QED
    BY <1>1, <1>3, <1>5

\* vector::erase.
LEMMA EraseBalanced ==
    ASSUME HeapAssumption, NEW V, NEW f \in Seq(V), NEW a \in Nat, NEW b \in Nat,
           1 <= a, a <= Len(f), a <= b, b <= Len(f) + 1,
           NEW moved, moved = a .. Len(f) - (b - a)
    PROVE  Balanced(f, Erased(f, a, b),
                    AllOf([i \in moved |-> f[i + (b - a)]], {i \in moved : f[i] # None}),
                    AllOf(f, a .. Len(f)))
<1>1. PICK g : g = Erased(f, a, b)
    OBVIOUS
<1>2. PICK h : h = [i \in moved |-> f[i + (b - a)]]
    OBVIOUS
<1> DEFINE I == 1 .. a - 1
           J == a .. Len(f)
           K == {i \in moved : f[i] # None}
<1>3. /\ Len(f) \in Nat /\ DOMAIN f = I \cup J /\ I \cap J = {}
      /\ DOMAIN g = I \cup moved /\ I \cap moved = {}
      /\ \A i \in I : g[i] = f[i]
      /\ Assigned(f, g, h, moved)
  <2>1. Len(f) \in Nat /\ DOMAIN f = 1 .. Len(f)
      OBVIOUS
  <2>2. DOMAIN f = I \cup J /\ I \cap J = {} /\ I \cap moved = {}
      BY <2>1
  <2>3. DOMAIN g = 1 .. Len(f) - (b - a) /\ 1 .. Len(f) - (b - a) = I \cup moved
      BY <2>1, <1>1 DEF Erased
  <2>4. \A i \in I : g[i] = f[i]
      BY <2>1, <2>3, <1>1 DEF Erased
  <2>5. Assigned(f, g, h, moved)
      BY <2>1, <2>3, <1>1, <1>2 DEF Erased, Assigned
  <2> QED
      BY <2>1, <2>2, <2>3, <2>4, <2>5
<1>4. IsFiniteSet(I) /\ IsFiniteSet(J) /\ IsFiniteSet(moved)
  <2>1. a - 1 \in Int /\ Len(f) - (b - a) \in Int /\ Len(f) \in Int /\ a \in Int
      BY <1>3
  <2> QED
      BY <2>1, FS_Interval
<1> HIDE DEF I, J
<1>5. ASSUME NEW o \in Obj
      PROVE  /\ RefsOf(g, o) = Refers(f, I, o) + Refers(h, K, o)
             /\ RefsOf(f, o) = Refers(f, I, o) + Refers(f, J, o)
             /\ Refers(f, I, o) \in Nat /\ Refers(h, K, o) \in Nat /\ Refers(f, J, o) \in Nat
  <2>1. RefsOf(f, o) = Refers(f, I, o) + Refers(f, J, o)
        /\ Refers(f, I, o) \in Nat /\ Refers(f, J, o) \in Nat
      BY <1>3, <1>4, RefsJoin
  <2>2. RefsOf(g, o) = Refers(g, I, o) + Refers(g, moved, o)
      BY <1>3, <1>4, RefsJoin
  <2>3. \A i \in I : g[i] = o <=> f[i] = o
      BY <1>3
  <2>4. Refers(g, I, o) = Refers(f, I, o)
      BY <2>3, RefersAgree
  <2>5. Refers(g, moved, o) = Refers(h, K, o) /\ Refers(g, moved, o) \in Nat
      BY <1>3, <1>4, AssignedItems
  <2> QED
      BY <2>1, <2>2, <2>4, <2>5
<1>6. ASSUME NEW o \in Obj
      PROVE  AllOf(h, K)[o] = Refers(h, K, o) /\ AllOf(f, J)[o] = Refers(f, J, o)
    BY DEF AllOf
<1>7. Balanced(f, g, AllOf(h, K), AllOf(f, J))
  <2> HIDE DEF K
  <2> QED
      BY <1>5, <1>6 DEF Balanced
<1> QED
    BY <1>1, <1>2, <1>7 DEF J

\* An entry of a dict that is not there refers to nothing.
LEMMA EntryBalanced ==
    ASSUME HeapAssumption, NEW f, IsFiniteSet(DOMAIN f), NEW k, NEW w,
           DOMAIN w = DOMAIN f \cup {k},
           \A j \in DOMAIN w : w[j] = IF j \in DOMAIN f THEN f[j] ELSE Undef
    PROVE  IsFiniteSet(DOMAIN w) /\ Balanced(f, w, Nothing, Nothing)
<1>1. IsFiniteSet(DOMAIN w)
    BY FS_AddElement
<1>2. ASSUME NEW o \in Obj PROVE RefsOf(w, o) = RefsOf(f, o)
  <2>1. {j \in DOMAIN w : w[j] = o} = {j \in DOMAIN f : f[j] = o}
      BY DEF HeapAssumption
  <2> QED
      BY <2>1 DEF RefsOf, Refers
<1>3. ASSUME NEW o \in Obj PROVE RefsOf(f, o) \in Nat
    BY RefersNat DEF RefsOf
<1>4. \A o \in Obj : Nothing[o] = 0
    BY DEF Nothing
<1> QED
    BY <1>1, <1>2, <1>3, <1>4 DEF Balanced

\* Two changes, the first of which takes nothing.
LEMMA ThenBalanced ==
    ASSUME NEW f, NEW w, NEW g, NEW inc, NEW dec,
           Balanced(f, w, Nothing, Nothing), Balanced(w, g, inc, dec),
           IsFiniteSet(DOMAIN f)
    PROVE  Balanced(f, g, inc, dec)
<1>1. ASSUME NEW o \in Obj PROVE RefsOf(f, o) \in Nat
    BY RefersNat DEF RefsOf
<1> QED
    BY <1>1, OneNat DEF Balanced

\* An entry that goes.
LEMMA RemoveBalanced ==
    ASSUME NEW f, IsFiniteSet(DOMAIN f), NEW k \in DOMAIN f,
           NEW g, DOMAIN g = DOMAIN f \ {k}, \A j \in DOMAIN g : g[j] = f[j]
    PROVE  Balanced(f, g, Nothing, One(f[k]))
<1> DEFINE J == DOMAIN f \ {k}
<1>1. /\ IsFiniteSet(J) /\ IsFiniteSet({k}) /\ J \cap {k} = {} /\ DOMAIN f = J \cup {k}
      /\ DOMAIN g = J /\ \A j \in J : g[j] = f[j]
  <2>1. IsFiniteSet(J) /\ IsFiniteSet({k})
      BY FS_RemoveElement, FS_Singleton
  <2> QED
      BY <2>1
<1> HIDE DEF J
<1>2. ASSUME NEW o \in Obj
      PROVE  /\ RefsOf(f, o) = Refers(f, J, o) + One(f[k])[o] /\ RefsOf(g, o) = Refers(f, J, o)
             /\ Refers(f, J, o) \in Nat
  <2>1. RefsOf(f, o) = Refers(f, J, o) + Refers(f, {k}, o) /\ Refers(f, J, o) \in Nat
      BY <1>1, RefsJoin
  <2>2. Refers(f, {k}, o) = One(f[k])[o]
      BY RefersOne
  <2>3. {j \in J : g[j] = o} = {j \in J : f[j] = o}
      BY <1>1
  <2> QED
      BY <2>1, <2>2, <2>3, <1>1 DEF RefsOf, Refers
<1>3. \A o \in Obj : Nothing[o] = 0 /\ One(f[k])[o] \in Nat
    BY DEF Nothing, One
<1> QED
    BY <1>2, <1>3 DEF Balanced

-----------------------------------------------------------------------------
(* Induction over the naturals, and functions defined by it.               *)

\* A set with 0 and with n + 1 for every n in it has all natural numbers.
LEMMA SetInduction ==
    ASSUME NEW T, 0 \in T, \A n \in Nat : n \in T => n + 1 \in T
    PROVE  Nat \subseteq T
<1> SUFFICES ASSUME ~(Nat \subseteq T) PROVE FALSE
    OBVIOUS
<1> DEFINE M == Nat \ T
<1>1. M \in SUBSET Nat /\ M # {}
    OBVIOUS
<1>2. PICK x \in M : \A y \in M : x <= y
    BY <1>1, LeastNatural
<1>3. x # 0 /\ x - 1 \in Nat /\ ~(x <= x - 1)
    BY <1>2
<1>4. x - 1 \in T
    BY <1>2, <1>3
<1>5. x - 1 + 1 \in T
    BY <1>3, <1>4
<1> QED
    BY <1>2, <1>3, <1>5

\* g has the first k + 1 values of the iteration of F from A.
Begins(g, k, S, A, F) ==
    /\ g \in [0 .. k -> S]
    /\ g[0] = A
    /\ \A n \in Nat : n < k => g[n + 1] = F[g[n]]

\* g is the iteration of F from A.
Iterates(g, S, A, F) == g \in [Nat -> S] /\ g[0] = A /\ \A n \in Nat : g[n + 1] = F[g[n]]

\* A function is iterated.
LEMMA IterationExists ==
    ASSUME NEW S, NEW A \in S, NEW F \in [S -> S]
    PROVE  \E g : Iterates(g, S, A, F)
<1> DEFINE Good(g, k) == Begins(g, k, S, A, F)
           T == {k \in Nat : \E g : Good(g, k)}
<1>1. Nat \subseteq T
  <2>1. 0 \in T
    <3>1. Good([n \in 0 .. 0 |-> A], 0)
        BY DEF Begins
    <3> HIDE DEF Good
    <3> QED
        BY <3>1
  <2>2. ASSUME NEW n \in Nat, n \in T PROVE n + 1 \in T
    <3>1. PICK g : Good(g, n)
        BY <2>2
    <3> DEFINE h == [i \in 0 .. n + 1 |-> IF i = n + 1 THEN F[g[n]] ELSE g[i]]
    <3>2. Good(h, n + 1)
      <4>1. g \in [0 .. n -> S] /\ g[0] = A /\ \A i \in Nat : i < n => g[i + 1] = F[g[i]]
          BY <3>1 DEF Begins
      <4>2. g[n] \in S /\ \A i \in 0 .. n : g[i] \in S
          BY <4>1
      <4>3. h \in [0 .. n + 1 -> S]
          BY <4>2
      <4>4. h[0] = A
          BY <4>1
      <4>5. ASSUME NEW i \in Nat, i < n + 1 PROVE h[i + 1] = F[h[i]]
        <5>1. CASE i = n
            BY <5>1
        <5>2. CASE i # n
          <6>1. i < n /\ i \in 0 .. n + 1 /\ i + 1 \in 0 .. n + 1 /\ i # n + 1 /\ i + 1 # n + 1
              BY <4>5, <5>2
          <6>2. h[i] = g[i] /\ h[i + 1] = g[i + 1]
              BY <6>1
          <6> QED
              BY <4>1, <6>1, <6>2
        <5> QED
            BY <5>1, <5>2
      <4> HIDE DEF h
      <4> QED
          BY <4>3, <4>4, <4>5 DEF Begins
    <3> HIDE DEF h, Good
    <3>3. \E f : Good(f, n + 1)
        BY <3>2
    <3> QED
        BY <3>3
  <2> HIDE DEF T
  <2> QED
      BY <2>1, <2>2, SetInduction
<1> DEFINE c == [k \in Nat |-> CHOOSE g : Good(g, k)]
<1>2. \A k \in Nat : Good(c[k], k)
  <2> TAKE k \in Nat
  <2>1. \E g : Good(g, k)
      BY <1>1
  <2>2. c[k] = CHOOSE g : Good(g, k)
      OBVIOUS
  <2> HIDE DEF Good, c
  <2> QED
      BY <2>1, <2>2
<1> HIDE DEF c
<1>3. ASSUME NEW k \in Nat PROVE c[k + 1][k] = c[k][k]
  <2> DEFINE U == {i \in Nat : i <= k => c[k + 1][i] = c[k][i]}
  <2>1. k + 1 \in Nat /\ Good(c[k + 1], k + 1) /\ Good(c[k], k)
      BY <1>2
  <2>2. 0 \in U
      BY <2>1 DEF Begins
  <2>3. ASSUME NEW i \in Nat, i \in U PROVE i + 1 \in U
    <3> SUFFICES ASSUME i + 1 <= k PROVE c[k + 1][i + 1] = c[k][i + 1]
        OBVIOUS
    <3>1. c[k + 1][i] = c[k][i] /\ i < k /\ i < k + 1
        BY <2>3
    <3> QED
        BY <3>1, <2>1 DEF Begins
  <2> HIDE DEF U
  <2>4. Nat \subseteq U
      BY <2>2, <2>3, SetInduction
  <2> QED
      BY <2>4 DEF U
<1> DEFINE r == [k \in Nat |-> c[k][k]]
<1>4. r \in [Nat -> S]
  <2>1. \A k \in Nat : c[k][k] \in S
      BY <1>2 DEF Begins
  <2> QED
      BY <2>1
<1>5. r[0] = A
    BY <1>2 DEF Begins
<1>6. ASSUME NEW n \in Nat PROVE r[n + 1] = F[r[n]]
  <2>1. n + 1 \in Nat /\ Good(c[n + 1], n + 1) /\ n < n + 1
      BY <1>2
  <2>2. c[n + 1][n + 1] = F[c[n + 1][n]]
      BY <2>1 DEF Begins
  <2> QED
      BY <2>1, <2>2, <1>3
<1>7. Iterates(r, S, A, F)
    BY <1>4, <1>5, <1>6 DEF Iterates
<1> HIDE DEF r
<1> QED
    BY <1>7

\* A vector that grows has room for n items.
LEMMA GrowEnough ==
    ASSUME NEW c \in Nat, NEW n \in Nat
    PROVE  Grow(c, n) \in Nat /\ n <= Grow(c, n)
<1> DEFINE F == [x \in Nat |-> IF x = 0 THEN 1 ELSE 2 * x]
           Def(s) == [k \in Nat |-> IF k = 0 THEN c ELSE IF s[k - 1] = 0 THEN 1 ELSE 2 * s[k - 1]]
           size == CHOOSE s : s = Def(s)
<1>1. \E g \in [Nat -> Nat] : g[0] = c /\ \A k \in Nat : g[k + 1] = F[g[k]]
  <2>1. F \in [Nat -> Nat]
      OBVIOUS
  <2>2. \E g : Iterates(g, Nat, c, F)
    <3> HIDE DEF F
    <3> QED
        BY <2>1, IterationExists
  <2> QED
      BY <2>2 DEF Iterates
<1>2. PICK g \in [Nat -> Nat] : g[0] = c /\ \A k \in Nat : g[k + 1] = F[g[k]]
    BY <1>1
<1>3. g = Def(g)
  <2>1. ASSUME NEW k \in Nat, k # 0
        PROVE  g[k] = IF g[k - 1] = 0 THEN 1 ELSE 2 * g[k - 1]
    <3>1. k - 1 \in Nat /\ k - 1 + 1 = k
        BY <2>1
    <3>2. g[k - 1 + 1] = F[g[k - 1]]
        BY <3>1, <1>2
    <3> QED
        BY <3>1, <3>2
  <2>2. \A k \in Nat : g[k] = Def(g)[k]
      BY <2>1, <1>2
  <2>3. g = [k \in Nat |-> g[k]]
      OBVIOUS
  <2> QED
      BY <2>2, <2>3
<1>4. size = Def(size)
  <2> HIDE DEF Def
  <2> QED
      BY <1>3
<1> HIDE DEF size
<1>5. /\ size[0] = c
      /\ \A k \in Nat : size[k + 1] = IF size[k] = 0 THEN 1 ELSE 2 * size[k]
  <2>1. size[0] = c
      BY <1>4
  <2>2. ASSUME NEW k \in Nat PROVE size[k + 1] = IF size[k] = 0 THEN 1 ELSE 2 * size[k]
    <3>1. k + 1 \in Nat /\ k + 1 # 0 /\ k + 1 - 1 = k
        OBVIOUS
    <3>2. size[k + 1] = IF size[k + 1 - 1] = 0 THEN 1 ELSE 2 * size[k + 1 - 1]
        BY <3>1, <1>4
    <3> QED
        BY <3>1, <3>2
  <2> QED
      BY <2>1, <2>2
<1>6. \A k \in Nat : size[k] \in Nat /\ k <= size[k]
  <2> DEFINE T == {k \in Nat : size[k] \in Nat /\ k <= size[k]}
  <2>1. 0 \in T
      BY <1>5
  <2>2. ASSUME NEW k \in Nat, k \in T PROVE k + 1 \in T
    <3>1. size[k] \in Nat /\ k <= size[k]
        BY <2>2
    <3>2. size[k + 1] = IF size[k] = 0 THEN 1 ELSE 2 * size[k]
        BY <1>5
    <3>3. size[k + 1] \in Nat /\ k + 1 <= size[k + 1]
        BY <3>1, <3>2
    <3> QED
        BY <3>3
  <2> HIDE DEF T
  <2>3. Nat \subseteq T
      BY <2>1, <2>2, SetInduction
  <2> QED
      BY <2>3 DEF T
<1>7. \E k \in 0 .. n : n <= size[k] /\ \A j \in 0 .. k - 1 : size[j] < n
  <2> DEFINE T == {k \in Nat : n <= size[k]}
  <2>1. T \in SUBSET Nat /\ n \in T
      BY <1>6
  <2>2. PICK k \in T : \A j \in T : k <= j
      BY <2>1, LeastNatural
  <2>3. k \in 0 .. n
      BY <2>1, <2>2
  <2>4. ASSUME NEW j \in 0 .. k - 1 PROVE size[j] < n
    <3>1. j \in Nat /\ ~(k <= j) /\ size[j] \in Nat
        BY <2>2, <1>6
    <3>2. ~(n <= size[j])
        BY <2>2, <3>1
    <3> QED
        BY <3>1, <3>2
  <2> QED
      BY <2>2, <2>3, <2>4
<1>8. Grow(c, n) = size[CHOOSE k \in 0 .. n : n <= size[k] /\ \A j \in 0 .. k - 1 : size[j] < n]
    BY DEF Grow, size
<1> DEFINE k0 == CHOOSE k \in 0 .. n : n <= size[k] /\ \A j \in 0 .. k - 1 : size[j] < n
<1>9. k0 \in 0 .. n /\ n <= size[k0]
    BY <1>7
<1> HIDE DEF k0
<1> QED
    BY <1>6, <1>8, <1>9 DEF k0

-----------------------------------------------------------------------------
(* Operations that change one container.                                   *)

\* The counts are exact and the vectors have room.
Exact == HeapOK(kind, items, count) /\ CapOK(kind, items, cap)

\* Item p[2] of p[1] is there.
IsPlace(p) == p = <<p[1], p[2]>> /\ p[1] \in Container /\ p[2] \in DOMAIN items[p[1]]

\* The client names what is there.
LEMMA PlaceIs ==
    ASSUME HeapAssumption, WellFormed(kind, items), NEW p \in Place
    PROVE  IsPlace(p)
<1>1. Reachable({Root}) \subseteq Container
    BY DEF Reachable, ReachableIn, Container
<1>2. PICK c \in Reachable({Root}) : \E i \in DOMAIN items[c] : p = <<c, i>>
    BY DEF Place, Places
<1> QED
    BY <1>1, <1>2 DEF IsPlace

\* What is there is no deleted object.
LEMMA PlaceHolds ==
    ASSUME HeapAssumption, NEW kd, WellFormed(kd, items), NEW p, IsPlace(p)
    PROVE  At(p) \in LiveValue(kd) /\ IsFiniteSet(DOMAIN items[p[1]])
    BY WellFormedItems DEF IsPlace, At, FiniteItems

\* An item that gets a value that lives keeps its container what it is.
LEMMA WriteItems ==
    ASSUME HeapAssumption, NEW kd, NEW it, WellFormed(kd, it), NEW c \in Container,
           NEW i \in DOMAIN it[c], NEW v \in LiveValue(kd), NEW f, f = [it[c] EXCEPT ![i] = v]
    PROVE  /\ ItemsFor(kd, c, f)
           /\ c \in Obj /\ kd[c] = "list" => Len(f) = Len(it[c])
           /\ IsFiniteSet(DOMAIN it[c])
<1>1. Root \notin Obj
    BY DEF HeapAssumption
<1>2. IsFiniteSet(DOMAIN it[c])
    BY WellFormedItems DEF FiniteItems
<1>3. CASE c = Root
  <2>1. it[c] \in [Var \cup {D_NONE} -> LiveValue(kd)]
      BY <1>3 DEF WellFormed
  <2>2. f \in [Var \cup {D_NONE} -> LiveValue(kd)]
      BY <2>1, <1>1
  <2> QED
      BY <1>1, <1>2, <1>3, <2>2 DEF ItemsFor
<1>4. CASE c \in Obj /\ kd[c] = "list"
  <2>1. it[c] \in Seq(LiveValue(kd))
      BY <1>4 DEF WellFormed
  <2>2. f \in Seq(LiveValue(kd)) /\ Len(f) = Len(it[c])
    <3>1. PICK q \in Seq(LiveValue(kd)) : q = it[c]
        BY <2>1
    <3>2. i \in 1 .. Len(q)
        BY <3>1, <1>1
    <3>3. [q EXCEPT ![i] = v] \in Seq(LiveValue(kd)) /\ Len([q EXCEPT ![i] = v]) = Len(q)
        BY <3>2, ExceptSeq
    <3> QED
        BY <3>1, <3>3, <1>1
  <2> QED
      BY <1>1, <1>2, <1>4, <2>2 DEF ItemsFor
<1>5. CASE c \in Obj /\ kd[c] = "dict"
  <2>1. it[c] \in [DOMAIN it[c] -> LiveValue(kd)] /\ DOMAIN it[c] \subseteq Key
      BY <1>5 DEF WellFormed
  <2>2. f \in [DOMAIN it[c] -> LiveValue(kd)] /\ DOMAIN f = DOMAIN it[c]
      BY <2>1, <1>1
  <2>3. f \in [DOMAIN f -> LiveValue(kd)] /\ DOMAIN f \subseteq Key /\ IsFiniteSet(DOMAIN f)
      BY <2>1, <2>2, <1>2
  <2> QED
      BY <1>1, <1>2, <1>5, <2>3 DEF ItemsFor
<1>6. CASE c \in Obj /\ kd[c] \notin {"list", "dict"}
  <2>1. it[c] = <<>>
      BY <1>6 DEF WellFormed
  <2> QED
      BY <2>1, <1>1, NoItems
<1> QED
    BY <1>1, <1>2, <1>3, <1>4, <1>5, <1>6 DEF Container

\* An operation that writes to a place.
LEMMA WriteKeeps ==
    ASSUME HeapAssumption, NEW kd, WellFormed(kd, items), \A o \in Obj : count[o] = RefCount(items, o),
           CapOK(kd, items, cap), NEW p, IsPlace(p), NEW v \in LiveValue(kd), NEW inc, NEW dec,
           Balanced(items[p[1]], [items[p[1]] EXCEPT ![p[2]] = v], inc, dec),
           Settle(kd, Write(p, v), cap, inc, dec)
    PROVE  Kept(kd)
<1>1. PICK f : f = [items[p[1]] EXCEPT ![p[2]] = v]
    OBVIOUS
<1>2. Write(p, v) = With(p[1], f)
    BY <1>1 DEF Write, With
<1>3. ItemsFor(kd, p[1], f) /\ (p[1] \in Obj /\ kd[p[1]] = "list" => Len(f) = Len(items[p[1]]))
    BY <1>1, WriteItems DEF IsPlace
<1>4. RoomFor(kd, items, p[1], f, cap)
    BY <1>3 DEF RoomFor, CapOK
<1>5. Balanced(items[p[1]], f, inc, dec) /\ Settle(kd, With(p[1], f), cap, inc, dec)
    BY <1>1, <1>2
<1>6. p[1] \in Container
    BY DEF IsPlace
<1> QED
    BY <1>3, <1>4, <1>5, <1>6, ChangeKeeps

\* operator = and its like.
LEMMA PutKeeps ==
    ASSUME HeapAssumption, Exact, NEW p, IsPlace(p), NEW v \in LiveValue(kind),
           Settle(kind, Write(p, Put(At(p), v)), cap, Takes(At(p), v), GivesUp(At(p)))
    PROVE  Kept(kind)
<1>1. WellFormed(kind, items) /\ (\A o \in Obj : count[o] = RefCount(items, o)) /\ CapOK(kind, items, cap)
    BY DEF Exact, HeapOK
<1>2. PICK w : w = Put(At(p), v)
    OBVIOUS
<1>3. w \in LiveValue(kind)
    BY <1>2 DEF Put, LiveValue
<1>4. Balanced(items[p[1]], [items[p[1]] EXCEPT ![p[2]] = w], Takes(At(p), v), GivesUp(At(p)))
  <2>1. IsFiniteSet(DOMAIN items[p[1]]) /\ p[2] \in DOMAIN items[p[1]] /\ At(p) = items[p[1]][p[2]]
      BY <1>1, PlaceHolds DEF IsPlace, At
  <2>2. PICK f : f = items[p[1]]
      OBVIOUS
  <2>3. Balanced(f, [f EXCEPT ![p[2]] = Put(f[p[2]], v)], Takes(f[p[2]], v), GivesUp(f[p[2]]))
      BY <2>1, <2>2, PutBalanced
  <2> QED
      BY <1>2, <2>1, <2>2, <2>3
<1>5. Settle(kind, Write(p, w), cap, Takes(At(p), v), GivesUp(At(p)))
    BY <1>2
<1> QED
    BY <1>1, <1>3, <1>4, <1>5, WriteKeeps

\* Nothing changes.
LEMMA SameKept ==
    ASSUME Exact, UNCHANGED <<items, kind, count, cap>>
    PROVE  Kept(kind)
<1>1. HeapOK(kind', items', count') /\ CapOK(kind', items', cap')
    BY DEF Exact
<1> QED
    BY <1>1 DEF Kept

\* operator =.
LEMMA AssignKeeps ==
    ASSUME HeapAssumption, Exact, NEW d, IsPlace(d), NEW s, IsPlace(s), Assign(d, s)
    PROVE  Kept(kind)
<1>1. At(s) \in LiveValue(kind)
    BY PlaceHolds DEF Exact, HeapOK
<1>2. CASE UNCHANGED <<items, kind, count, cap>>
    BY <1>2, SameKept
<1>3. CASE Settle(kind, Write(d, Put(At(d), At(s))), cap, Takes(At(d), At(s)), GivesUp(At(d)))
    BY <1>1, <1>3, PutKeeps
<1> QED
    BY <1>2, <1>3 DEF Assign, Fail, vars

\* d = Dynamic().
LEMMA ResetKeeps ==
    ASSUME HeapAssumption, Exact, NEW d, IsPlace(d), Reset(d)
    PROVE  Kept(kind)
<1>1. Undef \in LiveValue(kind)
    BY DEF LiveValue
<1>2. Takes(At(d), Undef) = Nothing
    BY DEF Takes, One, Nothing, HeapAssumption
<1>3. Settle(kind, Write(d, Put(At(d), Undef)), cap, Takes(At(d), Undef), GivesUp(At(d)))
    BY <1>2 DEF Reset
<1> QED
    BY <1>1, <1>3, PutKeeps

\* Objects are made at free addresses, where nothing is and nothing refers to.
LEMMA NewObjects ==
    ASSUME HeapAssumption, Exact, NEW kd \in [Obj -> Kind \cup {"free"}], \A o \in Live : kd[o] = kind[o]
    PROVE  /\ WellFormed(kd, items) /\ CapOK(kd, items, cap)
           /\ LiveValue(kind) \subseteq LiveValue(kd)
           /\ \A o \in Obj \ Live : items[o] = <<>>
<1>1. WellFormed(kind, items) /\ CapOK(kind, items, cap)
    BY DEF Exact, HeapOK
<1>2. \A o \in Obj \ Live : items[o] = <<>>
    BY <1>1 DEF WellFormed, Live
<1>3. LiveValue(kind) \subseteq LiveValue(kd)
    BY DEF LiveValue, Live
<1>4. WellFormed(kd, items)
  <2>1. DOMAIN items = Container /\ items[Root] \in [Var \cup {D_NONE} -> LiveValue(kd)]
      BY <1>1, <1>3 DEF WellFormed
  <2>2. ASSUME NEW x \in Obj, kd[x] = "list" PROVE items[x] \in Seq(LiveValue(kd))
    <3>1. CASE x \notin Live
        BY <3>1, <1>2, NoItems
    <3>2. CASE x \in Live
      <4>1. items[x] \in Seq(LiveValue(kind))
          BY <3>2, <2>2, <1>1 DEF WellFormed
      <4> QED
          BY <4>1, <1>3
    <3> QED
        BY <3>1, <3>2
  <2>3. ASSUME NEW x \in Obj, kd[x] = "dict"
        PROVE  /\ items[x] \in [DOMAIN items[x] -> LiveValue(kd)]
               /\ DOMAIN items[x] \subseteq Key /\ IsFiniteSet(DOMAIN items[x])
    <3>1. CASE x \notin Live
        BY <3>1, <1>2, NoItems
    <3>2. CASE x \in Live
      <4>1. /\ items[x] \in [DOMAIN items[x] -> LiveValue(kind)]
            /\ DOMAIN items[x] \subseteq Key /\ IsFiniteSet(DOMAIN items[x])
          BY <3>2, <2>3, <1>1 DEF WellFormed
      <4> QED
          BY <4>1, <1>3
    <3> QED
        BY <3>1, <3>2
  <2>4. ASSUME NEW x \in Obj, kd[x] \notin {"list", "dict"} PROVE items[x] = <<>>
      BY <2>4, <1>1, <1>2 DEF WellFormed
  <2> QED
      BY <2>1, <2>2, <2>3, <2>4 DEF WellFormed
<1>5. CapOK(kd, items, cap)
  <2>1. ASSUME NEW x \in Obj, kd[x] = "list" PROVE Len(items[x]) <= cap[x]
    <3>1. CASE x \notin Live
        BY <3>1, <1>1, <1>2 DEF CapOK
    <3>2. CASE x \in Live
        BY <3>2, <2>1, <1>1 DEF CapOK
    <3> QED
        BY <3>1, <3>2
  <2> QED
      BY <2>1, <1>1 DEF CapOK
<1> QED
    BY <1>2, <1>3, <1>4, <1>5

\* d = Dynamic::List() and its like.
LEMMA CreateKeeps ==
    ASSUME HeapAssumption, Exact, NEW d, IsPlace(d), NEW k \in Kind, Create(d, k)
    PROVE  HeapOK(kind', items', count') /\ CapOK(kind', items', cap')
<1>1. PICK o \in Obj \ Live :
         Settle([kind EXCEPT ![o] = k], Write(d, Put(At(d), o)), cap,
                Sum(One(o), Takes(At(d), o)), Sum(GivesUp(At(d)), One(o)))
    BY DEF Create
<1>2. PICK kd : kd = [kind EXCEPT ![o] = k]
    OBVIOUS
<1>3. WellFormed(kd, items) /\ CapOK(kd, items, cap) /\ o \in LiveValue(kd)
  <2>1. kind \in [Obj -> Kind \cup {"free"}] /\ k # "free"
      BY DEF Exact, HeapOK, WellFormed, HeapAssumption
  <2>2. kd \in [Obj -> Kind \cup {"free"}] /\ kd[o] = k /\ \A x \in Live : kd[x] = kind[x]
      BY <1>2, <2>1 DEF Live
  <2>3. o \in LiveValue(kd)
      BY <2>1, <2>2 DEF LiveValue
  <2> QED
      BY <2>2, <2>3, NewObjects
<1>4. \A x \in Obj : count[x] = RefCount(items, x)
    BY DEF Exact, HeapOK
<1>5. PICK w : w = Put(At(d), o)
    OBVIOUS
<1>6. w \in LiveValue(kd)
    BY <1>3, <1>5 DEF Put, LiveValue
<1>7. Balanced(items[d[1]], [items[d[1]] EXCEPT ![d[2]] = w],
               Sum(One(o), Takes(At(d), o)), Sum(GivesUp(At(d)), One(o)))
  <2>1. IsFiniteSet(DOMAIN items[d[1]]) /\ d[2] \in DOMAIN items[d[1]] /\ At(d) = items[d[1]][d[2]]
      BY <1>3, PlaceHolds DEF IsPlace, At
  <2>2. PICK f : f = items[d[1]]
      OBVIOUS
  <2>3. Balanced(f, [f EXCEPT ![d[2]] = Put(f[d[2]], o)], Takes(f[d[2]], o), GivesUp(f[d[2]]))
      BY <2>1, <2>2, PutBalanced
  <2>4. Balanced(f, [f EXCEPT ![d[2]] = w], Takes(At(d), o), GivesUp(At(d)))
      BY <1>5, <2>1, <2>2, <2>3
  <2>5. PICK g : g = [f EXCEPT ![d[2]] = w]
      OBVIOUS
  <2>6. ASSUME NEW x \in Obj
        PROVE  /\ Sum(One(o), Takes(At(d), o))[x] = One(o)[x] + Takes(At(d), o)[x]
               /\ Sum(GivesUp(At(d)), One(o))[x] = GivesUp(At(d))[x] + One(o)[x]
               /\ One(o)[x] \in Nat
      BY OneNat DEF Sum
  <2>7. ASSUME NEW x \in Obj PROVE RefsOf(f, x) \in Nat
      BY <2>1, <2>2, RefersNat DEF RefsOf
  <2>8. Balanced(f, g, Takes(At(d), o), GivesUp(At(d)))
      BY <2>4, <2>5
  <2>9. Balanced(f, g, Sum(One(o), Takes(At(d), o)), Sum(GivesUp(At(d)), One(o)))
      BY <2>6, <2>7, <2>8 DEF Balanced
  <2> QED
      BY <2>2, <2>5, <2>9
<1>8. Settle(kd, Write(d, w), cap, Sum(One(o), Takes(At(d), o)), Sum(GivesUp(At(d)), One(o)))
    BY <1>1, <1>2, <1>5
<1>9. Kept(kd)
    BY <1>3, <1>4, <1>6, <1>7, <1>8, WriteKeeps
<1> QED
    BY <1>9 DEF Kept

\* jt is it with v for item i of c.
Written(it, jt, c, i, v) ==
    DOMAIN jt = Container /\ SameBut(c, it, jt) /\ jt[c] = [it[c] EXCEPT ![i] = v]

\* One write, as it changes the references.
LEMMA WriteRefs ==
    ASSUME HeapAssumption, NEW kd, NEW it, WellFormed(kd, it), NEW c \in Container,
           NEW i \in DOMAIN it[c], NEW v \in LiveValue(kd), NEW jt, Written(it, jt, c, i, v)
    PROVE  /\ WellFormed(kd, jt)
           /\ \A o \in Obj : /\ RefCount(it, o) \in Nat
                             /\ RefCount(jt, o) = RefCount(it, o) + One(v)[o] - One(it[c][i])[o]
           /\ \A o \in Obj : kd[o] = "list" => Len(jt[o]) = Len(it[o])
<1>1. PICK f : f = [it[c] EXCEPT ![i] = v]
    OBVIOUS
<1>2. jt[c] = f /\ DOMAIN jt = Container /\ SameBut(c, it, jt)
    BY <1>1 DEF Written
<1>3. ItemsFor(kd, c, f) /\ (c \in Obj /\ kd[c] = "list" => Len(f) = Len(it[c]))
      /\ IsFiniteSet(DOMAIN it[c])
    BY <1>1, WriteItems
<1>4. ItemsFor(kd, c, jt[c])
    BY <1>2, <1>3
<1>5. Balanced(it[c], jt[c], One(v), One(it[c][i]))
  <2>1. PICK g : g = it[c]
      OBVIOUS
  <2>2. Balanced(g, [g EXCEPT ![i] = v], One(v), One(g[i]))
      BY <1>3, <2>1, ReplaceBalanced
  <2> QED
      BY <1>1, <1>2, <2>1, <2>2
<1>6. /\ WellFormed(kd, jt)
      /\ \A o \in Obj :
            /\ RefCount(it, o) \in Nat /\ RefsOf(it[c], o) \in Nat /\ RefsOf(jt[c], o) \in Nat
            /\ RefCount(jt, o) = RefCount(it, o) + RefsOf(jt[c], o) - RefsOf(it[c], o)
    BY <1>2, <1>4, WithItems
<1>7. ASSUME NEW o \in Obj
      PROVE  RefCount(jt, o) = RefCount(it, o) + One(v)[o] - One(it[c][i])[o]
  <2>1. /\ One(v)[o] \in Nat /\ One(it[c][i])[o] \in Nat
        /\ RefsOf(jt[c], o) = RefsOf(it[c], o) + One(v)[o] - One(it[c][i])[o]
      BY <1>5 DEF Balanced
  <2> QED
      BY <2>1, <1>6
<1>8. \A o \in Obj : kd[o] = "list" => Len(jt[o]) = Len(it[o])
    BY <1>2, <1>3 DEF SameBut, Container
<1> QED
    BY <1>6, <1>7, <1>8

\* Swap: both values are still referred to as often.
LEMMA SwapKeeps ==
    ASSUME HeapAssumption, Exact, NEW p, IsPlace(p), NEW q, IsPlace(q), Swap(p, q)
    PROVE  Kept(kind)
<1>1. WellFormed(kind, items) /\ CapOK(kind, items, cap) /\ DOMAIN items = Container
    BY DEF Exact, HeapOK, WellFormed
<1>2. PICK a : a = At(p)
    OBVIOUS
<1>3. PICK b : b = At(q)
    OBVIOUS
<1>4. a \in LiveValue(kind) /\ b \in LiveValue(kind)
    BY <1>1, <1>2, <1>3, PlaceHolds
<1>5. /\ p[1] \in Container /\ p[2] \in DOMAIN items[p[1]] /\ items[p[1]][p[2]] = a
      /\ q[1] \in Container /\ q[2] \in DOMAIN items[q[1]] /\ items[q[1]][q[2]] = b
    BY <1>2, <1>3 DEF IsPlace, At
<1>6. PICK it : it = [items EXCEPT ![p[1]][p[2]] = b]
    OBVIOUS
<1>7. Written(items, it, p[1], p[2], b)
    BY <1>1, <1>5, <1>6 DEF SameBut, Written
<1>8. items' = [it EXCEPT ![q[1]][q[2]] = a]
    BY <1>2, <1>3, <1>6 DEF Swap
<1>9. q[2] \in DOMAIN it[q[1]] /\ it[q[1]][q[2]] = b
  <2>1. CASE q[1] = p[1]
      BY <2>1, <1>5, <1>7 DEF Written
  <2>2. CASE q[1] # p[1]
      BY <2>2, <1>5, <1>7 DEF SameBut, Written
  <2> QED
      BY <2>1, <2>2
<1>10. Written(it, items', q[1], q[2], a)
    BY <1>5, <1>7, <1>8 DEF SameBut, Written
<1>11. /\ WellFormed(kind, it)
       /\ \A o \in Obj : /\ RefCount(items, o) \in Nat
                         /\ RefCount(it, o) = RefCount(items, o) + One(b)[o] - One(items[p[1]][p[2]])[o]
       /\ \A o \in Obj : kind[o] = "list" => Len(it[o]) = Len(items[o])
  <2>1. WellFormed(kind, items) /\ p[1] \in Container /\ p[2] \in DOMAIN items[p[1]] /\ b \in LiveValue(kind)
      BY <1>1, <1>4, <1>5
  <2> QED
      BY <2>1, <1>7, WriteRefs
<1>12. /\ WellFormed(kind, items')
       /\ \A o \in Obj : /\ RefCount(it, o) \in Nat
                         /\ RefCount(items', o) = RefCount(it, o) + One(a)[o] - One(it[q[1]][q[2]])[o]
       /\ \A o \in Obj : kind[o] = "list" => Len(items'[o]) = Len(it[o])
    BY <1>4, <1>5, <1>9, <1>10, <1>11, WriteRefs
<1>13. \A o \in Obj : RefCount(items', o) = RefCount(items, o)
  <2> TAKE o \in Obj
  <2>1. One(a)[o] \in Nat /\ One(b)[o] \in Nat
      BY OneNat
  <2>2. RefCount(it, o) = RefCount(items, o) + One(b)[o] - One(a)[o]
      BY <1>5, <1>11
  <2>3. RefCount(items', o) = RefCount(it, o) + One(a)[o] - One(b)[o]
      BY <1>9, <1>12
  <2> QED
      BY <2>1, <2>2, <2>3, <1>11, <1>12
<1>14. kind' = kind /\ count' = count /\ cap' = cap
    BY DEF Swap
<1>15. HeapOK(kind', items', count')
    BY <1>12, <1>13, <1>14 DEF HeapOK, Exact
<1>16. CapOK(kind', items', cap')
    BY <1>1, <1>11, <1>12, <1>14 DEF CapOK
<1> QED
    BY <1>14, <1>15, <1>16 DEF Kept

\* What Exact says of one list, dict or other object.
LEMMA ExactItems ==
    ASSUME HeapAssumption, Exact, NEW o \in Obj
    PROVE  /\ WellFormed(kind, items) /\ CapOK(kind, items, cap)
           /\ \A x \in Obj : count[x] = RefCount(items, x)
           /\ o \in Container /\ o # Root /\ IsFiniteSet(DOMAIN items[o])
           /\ cap \in [Obj -> Nat]
           /\ kind[o] = "list" => items[o] \in Seq(LiveValue(kind)) /\ Len(items[o]) <= cap[o]
           /\ kind[o] = "dict" =>
                 items[o] \in [DOMAIN items[o] -> LiveValue(kind)] /\ DOMAIN items[o] \subseteq Key
<1>1. WellFormed(kind, items) /\ CapOK(kind, items, cap) /\ \A x \in Obj : count[x] = RefCount(items, x)
    BY DEF Exact, HeapOK
<1>2. o \in Container /\ o # Root
    BY DEF Container, HeapAssumption
<1>3. IsFiniteSet(DOMAIN items[o])
    BY <1>1, <1>2, WellFormedItems DEF FiniteItems
<1> QED
    BY <1>1, <1>2, <1>3 DEF WellFormed, CapOK

\* OP_CLEAR.
LEMMA ClearKeeps ==
    ASSUME HeapAssumption, Exact, NEW p, IsPlace(p), Clear(p)
    PROVE  Kept(kind)
<1>1. CASE At(p) \in Obj
  <2>1. PICK o \in Obj : o = At(p)
      BY <1>1
  <2>2. Settle(kind, With(o, <<>>), cap, Nothing, AllOf(items[o], DOMAIN items[o]))
      BY <2>1 DEF Clear
  <2>3. /\ WellFormed(kind, items) /\ CapOK(kind, items, cap)
        /\ \A x \in Obj : count[x] = RefCount(items, x)
        /\ o \in Container /\ o # Root /\ IsFiniteSet(DOMAIN items[o])
      BY ExactItems
  <2>4. ItemsFor(kind, o, <<>>)
      BY <2>3, NoItems DEF ItemsFor
  <2>5. RoomFor(kind, items, o, <<>>, cap)
      BY <2>3, NoItems DEF RoomFor, CapOK
  <2>6. Balanced(items[o], <<>>, Nothing, AllOf(items[o], DOMAIN items[o]))
      BY <2>3, ClearBalanced
  <2> QED
      BY <2>2, <2>3, <2>4, <2>5, <2>6, ChangeKeeps
<1>2. CASE At(p) \notin Obj
  <2>1. Settle(kind, Write(p, Undef), cap, Nothing, Nothing)
      BY <1>2 DEF Clear
  <2>2. WellFormed(kind, items) /\ CapOK(kind, items, cap) /\ \A x \in Obj : count[x] = RefCount(items, x)
      BY DEF Exact, HeapOK
  <2>3. Undef \in LiveValue(kind)
      BY DEF LiveValue
  <2>4. One(Undef) = Nothing /\ One(At(p)) = Nothing
      BY <1>2 DEF One, Nothing, HeapAssumption
  <2>5. IsFiniteSet(DOMAIN items[p[1]]) /\ p[2] \in DOMAIN items[p[1]] /\ At(p) = items[p[1]][p[2]]
      BY <2>2, PlaceHolds DEF IsPlace, At
  <2>6. PICK f : f = items[p[1]]
      OBVIOUS
  <2>7. Balanced(f, [f EXCEPT ![p[2]] = Undef], One(Undef), One(f[p[2]]))
      BY <2>5, <2>6, ReplaceBalanced
  <2>8. Balanced(items[p[1]], [items[p[1]] EXCEPT ![p[2]] = Undef], Nothing, Nothing)
      BY <2>4, <2>5, <2>6, <2>7
  <2> QED
      BY <2>1, <2>2, <2>3, <2>8, WriteKeeps
<1> QED
    BY <1>1, <1>2

\* A list gets other items, in a buffer with room for them.
LEMMA RenewKeeps ==
    ASSUME HeapAssumption, Exact, NEW o \in Obj, kind[o] = "list", NEW g \in Seq(LiveValue(kind)),
           NEW inc, NEW dec, Balanced(items[o], g, inc, dec), NEW n \in Nat, Len(g) <= n,
           Settle(kind, With(o, g), [cap EXCEPT ![o] = n], inc, dec)
    PROVE  Kept(kind)
<1>1. /\ WellFormed(kind, items) /\ CapOK(kind, items, cap)
      /\ \A x \in Obj : count[x] = RefCount(items, x)
      /\ o \in Container /\ o # Root
    BY ExactItems
<1>2. ItemsFor(kind, o, g)
    BY <1>1 DEF ItemsFor
<1>3. PICK cp : cp = [cap EXCEPT ![o] = n]
    OBVIOUS
<1>4. RoomFor(kind, items, o, g, cp)
    BY <1>1, <1>3 DEF RoomFor, CapOK
<1>5. Settle(kind, With(o, g), cp, inc, dec)
    BY <1>3
<1> QED
    BY <1>1, <1>2, <1>4, <1>5, ChangeKeeps

\* The operations on lists that may move them to a larger buffer.
LEMMA ListKeeps ==
    ASSUME HeapAssumption, Exact, NEW o \in Obj, kind[o] = "list", NEW g \in Seq(LiveValue(kind)),
           NEW inc, NEW dec, Balanced(items[o], g, inc, dec), SetList(o, g, inc, dec)
    PROVE  Kept(kind)
<1>1. cap[o] \in Nat /\ Len(g) \in Nat
    BY ExactItems
<1>2. PICK n : n = Grow(cap[o], Len(g))
    OBVIOUS
<1>3. n \in Nat /\ Len(g) <= n
    BY <1>1, <1>2, GrowEnough
<1>4. Settle(kind, With(o, g), [cap EXCEPT ![o] = n], inc, dec)
    BY <1>2 DEF SetList
<1> QED
    BY <1>3, <1>4, RenewKeeps

\* A dict gets other items.
LEMMA DictKeeps ==
    ASSUME HeapAssumption, Exact, NEW o \in Obj, kind[o] = "dict", NEW g,
           g \in [DOMAIN g -> LiveValue(kind)], DOMAIN g \subseteq Key, IsFiniteSet(DOMAIN g),
           NEW inc, NEW dec, Balanced(items[o], g, inc, dec),
           Settle(kind, With(o, g), cap, inc, dec)
    PROVE  Kept(kind)
<1>1. /\ WellFormed(kind, items) /\ CapOK(kind, items, cap)
      /\ \A x \in Obj : count[x] = RefCount(items, x)
      /\ o \in Container /\ o # Root
    BY ExactItems
<1>2. ItemsFor(kind, o, g)
    BY <1>1 DEF ItemsFor
<1>3. RoomFor(kind, items, o, g, cap)
    BY <1>1 DEF RoomFor, CapOK
<1> QED
    BY <1>1, <1>2, <1>3, ChangeKeeps

\* push_back.
LEMMA PushBackKeeps ==
    ASSUME HeapAssumption, Exact, NEW p, NEW s, IsPlace(s), PushBack(p, s)
    PROVE  Kept(kind)
<1>1. PICK o \in Obj : o = At(p) /\ kind[o] = "list"
    BY DEF PushBack, IsList
<1>2. items[o] \in Seq(LiveValue(kind)) /\ At(s) \in LiveValue(kind)
    BY <1>1, ExactItems, PlaceHolds
<1>3. PICK f \in Seq(LiveValue(kind)) : f = items[o]
    BY <1>2
<1>4. Balanced(f, Append(f, At(s)), One(At(s)), Nothing) /\ Append(f, At(s)) \in Seq(LiveValue(kind))
    BY <1>2, AppendBalanced
<1>5. SetList(o, Append(f, At(s)), One(At(s)), Nothing)
    BY <1>1, <1>3 DEF PushBack
<1>6. Balanced(items[o], Append(f, At(s)), One(At(s)), Nothing)
    BY <1>3, <1>4
<1> QED
    BY <1>1, <1>4, <1>5, <1>6, ListKeeps

\* insert at begin().
LEMMA PushFrontKeeps ==
    ASSUME HeapAssumption, Exact, NEW p, NEW s, IsPlace(s), PushFront(p, s)
    PROVE  Kept(kind)
<1>1. PICK o \in Obj : o = At(p) /\ kind[o] = "list"
    BY DEF PushFront, IsList
<1>2. PICK v \in LiveValue(kind) : v = At(s)
    BY ExactItems, PlaceHolds
<1>3. items[o] \in Seq(LiveValue(kind))
    BY <1>1, ExactItems
<1>4. PICK f \in Seq(LiveValue(kind)) : f = items[o]
    BY <1>3
<1>5. PICK h : h = [i \in 1 .. Len(f) |-> IF i = 1 THEN v ELSE f[i - 1]]
    OBVIOUS
<1>6. PICK g : g = [i \in 1 .. Len(f) + 1 |-> IF i = Len(f) + 1 THEN f[Len(f)] ELSE Put(f[i], h[i])]
    OBVIOUS
<1>7. CASE Len(f) = 0 \/ cap[o] = Len(f)
  <2>1. SetList(o, <<v>> \o f, One(v), Nothing)
      BY <1>1, <1>2, <1>4, <1>7 DEF PushFront
  <2>2. Balanced(f, <<v>> \o f, One(v), Nothing) /\ <<v>> \o f \in Seq(LiveValue(kind))
      BY FrontBalanced
  <2>3. Balanced(items[o], <<v>> \o f, One(v), Nothing)
      BY <2>2, <1>4
  <2> QED
      BY <1>1, <2>1, <2>2, <2>3, ListKeeps
<1>8. CASE ~(Len(f) = 0 \/ cap[o] = Len(f))
  <2> DEFINE inc == Sum(One(f[Len(f)]), AllOf(h, (1 .. Len(f)) \ {i \in 1 .. Len(f) : f[i] = None}))
             dec == AllOf(f, 1 .. Len(f))
  <2>1. SetList(o, g, inc, dec)
    <3>1. SetList(o, [i \in 1 .. Len(f) + 1 |->
                        IF i = Len(f) + 1 THEN f[Len(f)] ELSE Put(f[i], IF i = 1 THEN v ELSE f[i - 1])],
                  inc, dec)
        BY <1>1, <1>2, <1>4, <1>5, <1>8 DEF PushFront
    <3>2. g = [i \in 1 .. Len(f) + 1 |->
                 IF i = Len(f) + 1 THEN f[Len(f)] ELSE Put(f[i], IF i = 1 THEN v ELSE f[i - 1])]
      <4>1. Len(f) \in Nat
          OBVIOUS
      <4>2. ASSUME NEW i \in 1 .. Len(f) + 1
            PROVE  g[i] = IF i = Len(f) + 1 THEN f[Len(f)] ELSE Put(f[i], IF i = 1 THEN v ELSE f[i - 1])
        <5>1. CASE i = Len(f) + 1
            BY <5>1, <1>6
        <5>2. CASE i # Len(f) + 1
          <6>1. i \in 1 .. Len(f)
              BY <4>1, <5>2
          <6>2. h[i] = IF i = 1 THEN v ELSE f[i - 1]
              BY <6>1, <1>5
          <6> QED
              BY <5>2, <6>2, <1>6
        <5> QED
            BY <5>1, <5>2
      <4>3. g = [i \in 1 .. Len(f) + 1 |-> g[i]]
          BY <1>6
      <4> QED
          BY <4>2, <4>3
    <3> HIDE DEF inc, dec
    <3> QED
        BY <3>1, <3>2
  <2>2. f # <<>>
      BY <1>8
  <2>3. Balanced(f, g, inc, dec)
    <3>1. Shifted(f, v, h, g)
        BY <1>5, <1>6 DEF Shifted
    <3> QED
        BY <2>2, <3>1, ShiftBalanced
  <2>4. g \in Seq(LiveValue(kind))
    <3>1. Len(f) \in Nat /\ Len(f) # 0 /\ None \in LiveValue(kind)
        BY <1>8 DEF LiveValue
    <3>2. ASSUME NEW i \in 1 .. Len(f) PROVE h[i] \in LiveValue(kind)
        BY <1>5, <3>1
    <3>3. ASSUME NEW i \in 1 .. Len(f) + 1 PROVE g[i] \in LiveValue(kind)
      <4>1. CASE i = Len(f) + 1
          BY <4>1, <3>1, <1>6
      <4>2. CASE i # Len(f) + 1
        <5>1. i \in 1 .. Len(f)
            BY <3>1, <4>2
        <5> QED
            BY <4>2, <5>1, <3>1, <3>2, <1>6 DEF Put
      <4> QED
          BY <4>1, <4>2
    <3>4. g = [i \in 1 .. Len(f) + 1 |-> g[i]] /\ Len(f) + 1 \in Nat
        BY <1>6, <3>1
    <3> QED
        BY <3>3, <3>4
  <2> HIDE DEF inc, dec
  <2>5. Balanced(items[o], g, inc, dec)
      BY <2>3, <1>4
  <2> QED
      BY <1>1, <2>1, <2>4, <2>5, ListKeeps
<1> QED
    BY <1>7, <1>8

\* pop_back.
LEMMA PopBackKeeps ==
    ASSUME HeapAssumption, Exact, NEW p, PopBack(p)
    PROVE  Kept(kind)
<1>1. PICK o \in Obj : o = At(p) /\ kind[o] = "list"
    BY DEF PopBack, IsList
<1>2. items[o] \in Seq(LiveValue(kind))
    BY <1>1, ExactItems
<1>3. PICK f \in Seq(LiveValue(kind)) : f = items[o]
    BY <1>2
<1>4. f # <<>> /\ SetList(o, SubSeq(f, 1, Len(f) - 1), Nothing, One(f[Len(f)]))
    BY <1>1, <1>3 DEF PopBack
<1>5. Balanced(f, SubSeq(f, 1, Len(f) - 1), Nothing, One(f[Len(f)]))
    BY <1>4, PopBalanced
<1>6. SubSeq(f, 1, Len(f) - 1) \in Seq(LiveValue(kind))
  <2>1. 1 \in Int /\ Len(f) - 1 \in Int /\ \A i \in 1 .. Len(f) - 1 : f[i] \in LiveValue(kind)
      OBVIOUS
  <2> QED
      BY <2>1, SubSeqProperties
<1>7. Balanced(items[o], SubSeq(f, 1, Len(f) - 1), Nothing, One(f[Len(f)]))
    BY <1>3, <1>5
<1> QED
    BY <1>1, <1>4, <1>6, <1>7, ListKeeps

\* vector::erase of a range of the list.
LEMMA EraseRangeKeeps ==
    ASSUME HeapAssumption, Exact, NEW o \in Obj, kind[o] = "list", NEW a \in Nat, NEW b \in Nat,
           1 <= a, a <= Len(items[o]), a <= b, b <= Len(items[o]) + 1, EraseRange(o, a, b)
    PROVE  Kept(kind)
<1>1. items[o] \in Seq(LiveValue(kind))
    BY ExactItems
<1>2. PICK f \in Seq(LiveValue(kind)) : f = items[o]
    BY <1>1
<1>3. PICK moved : moved = a .. Len(f) - (b - a)
    OBVIOUS
<1> DEFINE inc == AllOf([i \in moved |-> f[i + (b - a)]], {i \in moved : f[i] # None})
           dec == AllOf(f, a .. Len(f))
<1>4. SetList(o, Erased(f, a, b), inc, dec)
    BY <1>2, <1>3 DEF EraseRange
<1>5. a <= Len(f) /\ b <= Len(f) + 1
    BY <1>2
<1>6. Balanced(f, Erased(f, a, b), inc, dec)
    BY <1>3, <1>5, EraseBalanced
<1>7. Erased(f, a, b) \in Seq(LiveValue(kind))
  <2>1. PICK n : n = Len(f) - (b - a)
      OBVIOUS
  <2>2. PICK g : g = Erased(f, a, b)
      OBVIOUS
  <2>3. n \in Nat /\ g = [i \in 1 .. n |-> IF i < a THEN f[i] ELSE Put(f[i], f[i + (b - a)])]
      BY <1>5, <2>1, <2>2 DEF Erased
  <2>4. ASSUME NEW i \in 1 .. n PROVE g[i] \in LiveValue(kind)
    <3>1. i \in 1 .. Len(f) /\ i + (b - a) \in 1 .. Len(f)
        BY <1>5, <2>1
    <3>2. f[i] \in LiveValue(kind) /\ f[i + (b - a)] \in LiveValue(kind)
        BY <3>1
    <3> QED
        BY <3>2, <2>3 DEF Put
  <2>5. g = [i \in 1 .. n |-> g[i]]
      BY <2>3
  <2> QED
      BY <2>2, <2>3, <2>4, <2>5
<1> HIDE DEF inc, dec
<1>8. Balanced(items[o], Erased(f, a, b), inc, dec)
    BY <1>2, <1>6
<1> QED
    BY <1>4, <1>7, <1>8, ListKeeps

\* Erase(from, to) and the operations that erase one item.
LEMMA EraseKeeps ==
    ASSUME HeapAssumption, Exact, NEW p, NEW a \in Nat, NEW b \in Nat,
           PopFront(p) \/ Erase(p, a) \/ EraseFromTo(p, a, b)
    PROVE  Kept(kind)
<1>1. PICK o \in Obj : o = At(p) /\ kind[o] = "list"
    BY DEF PopFront, Erase, EraseFromTo, IsList
<1>2. items[o] \in Seq(LiveValue(kind))
    BY <1>1, ExactItems
<1>3. PICK f \in Seq(LiveValue(kind)) : f = items[o]
    BY <1>2
<1>4. PICK n \in Nat : n = Len(items[o])
    BY <1>2
<1>5. CASE PopFront(p)
  <2>1. EraseRange(o, 1, 2) /\ f # <<>>
      BY <1>1, <1>3, <1>5 DEF PopFront
  <2>2. 1 \in Nat /\ 2 \in Nat /\ 1 <= n /\ 1 <= 2 /\ 2 <= n + 1
      BY <1>3, <1>4, <2>1
  <2> QED
      BY <1>1, <1>4, <2>1, <2>2, EraseRangeKeeps
<1>6. CASE Erase(p, a)
  <2>1. EraseRange(o, a, a + 1) /\ a \in DOMAIN items[o]
      BY <1>1, <1>6 DEF Erase
  <2>2. a + 1 \in Nat /\ 1 <= a /\ a <= n /\ a <= a + 1 /\ a + 1 <= n + 1
      BY <1>2, <1>4, <2>1
  <2> QED
      BY <1>1, <1>4, <2>1, <2>2, EraseRangeKeeps
<1>7. CASE EraseFromTo(p, a, b)
  <2>1. PICK end : end = IF b > n THEN n + 1 ELSE b
      OBVIOUS
  <2>2. a \in DOMAIN items[o] /\ IF end < a THEN Fail("range") ELSE EraseRange(o, a, end)
      BY <1>1, <1>4, <1>7, <2>1 DEF EraseFromTo
  <2>3. end \in Nat /\ 1 <= a /\ a <= n /\ end <= n + 1
      BY <1>2, <1>4, <2>1, <2>2
  <2>4. CASE end < a
    <3>1. UNCHANGED <<items, kind, count, cap>>
        BY <2>2, <2>4 DEF Fail
    <3> QED
        BY <3>1, SameKept
  <2>5. CASE a <= end
    <3>1. EraseRange(o, a, end)
        BY <2>2, <2>3, <2>5
    <3> QED
        BY <1>1, <1>4, <2>3, <2>5, <3>1, EraseRangeKeeps
  <2> QED
      BY <2>3, <2>4, <2>5
<1> QED
    BY <1>5, <1>6, <1>7

\* insert of all items of a list, which may be the list itself.
LEMMA AppendAllKeeps ==
    ASSUME HeapAssumption, Exact, NEW o \in Obj, kind[o] = "list", NEW r \in Obj, kind[r] = "list",
           AppendAll(o, r)
    PROVE  Kept(kind)
<1>1. items[o] \in Seq(LiveValue(kind)) /\ items[r] \in Seq(LiveValue(kind))
    BY ExactItems
<1>2. PICK f \in Seq(LiveValue(kind)) : f = items[o]
    BY <1>1
<1>3. PICK g \in Seq(LiveValue(kind)) : g = items[r]
    BY <1>1
<1>4. CASE UNCHANGED <<items, kind, count, cap>>
    BY <1>4, SameKept
<1>5. CASE SetList(o, f \o g, AllOf(g, DOMAIN g), Nothing)
  <2>1. f \o g \in Seq(LiveValue(kind)) /\ Balanced(f, f \o g, AllOf(g, DOMAIN g), Nothing)
      BY ConcatBalanced
  <2>2. Balanced(items[o], f \o g, AllOf(g, DOMAIN g), Nothing)
      BY <1>2, <2>1
  <2> QED
      BY <1>5, <2>1, <2>2, ListKeeps
<1> QED
    BY <1>2, <1>3, <1>4, <1>5 DEF AppendAll, Fail

\* Extend and operator +=.
LEMMA ExtendKeeps ==
    ASSUME HeapAssumption, Exact, NEW p, NEW q, IsPlace(q), Extend(p, q) \/ AddAssign(p, q)
    PROVE  Kept(kind)
<1>1. At(p) \in Obj /\ kind[At(p)] = "list"
    BY DEF Extend, AddAssign, IsList
<1>2. CASE IsList(At(q))
    BY <1>1, <1>2, AppendAllKeeps DEF Extend, AddAssign, IsList
<1>3. CASE ~IsList(At(q)) /\ PushBack(p, q)
    BY <1>3, PushBackKeeps
<1>4. CASE UNCHANGED <<items, kind, count, cap>>
    BY <1>4, SameKept
<1> QED
    BY <1>2, <1>3, <1>4 DEF Extend, AddAssign, Fail

\* operator -= and /=.
LEMMA TruncateKeeps ==
    ASSUME HeapAssumption, Exact, NEW p, NEW n \in Nat, Truncate(p, n)
    PROVE  Kept(kind)
<1>1. PICK o \in Obj : o = At(p) /\ kind[o] = "list"
    BY DEF Truncate, IsList
<1>2. items[o] \in Seq(LiveValue(kind))
    BY <1>1, ExactItems
<1>3. PICK f \in Seq(LiveValue(kind)) : f = items[o]
    BY <1>2
<1>4. n <= Len(f) /\ SetList(o, SubSeq(f, 1, n), Nothing, AllOf(f, n + 1 .. Len(f)))
    BY <1>1, <1>3 DEF Truncate
<1>5. n \in 0 .. Len(f)
    BY <1>4
<1>6. Balanced(f, SubSeq(f, 1, n), Nothing, AllOf(f, n + 1 .. Len(f)))
    BY <1>5, TruncateBalanced
<1>7. SubSeq(f, 1, n) \in Seq(LiveValue(kind))
  <2>1. 1 \in Int /\ n \in Int /\ \A i \in 1 .. n : f[i] \in LiveValue(kind)
      BY <1>5
  <2> QED
      BY <2>1, SubSeqProperties
<1>8. Balanced(items[o], SubSeq(f, 1, n), Nothing, AllOf(f, n + 1 .. Len(f)))
    BY <1>3, <1>6
<1> QED
    BY <1>1, <1>4, <1>7, <1>8, ListKeeps

\* operator *=.
LEMMA RepeatKeeps ==
    ASSUME HeapAssumption, Exact, NEW p, NEW n \in {0, 2}, Repeat(p, n)
    PROVE  Kept(kind)
<1>1. PICK o \in Obj : o = At(p) /\ kind[o] = "list"
    BY DEF Repeat, IsList
<1>2. items[o] \in Seq(LiveValue(kind)) /\ IsFiniteSet(DOMAIN items[o])
    BY <1>1, ExactItems
<1>3. PICK f \in Seq(LiveValue(kind)) : f = items[o]
    BY <1>2
<1>4. PICK g : g = [i \in 1 .. n * Len(f) |-> f[((i - 1) % Len(f)) + 1]]
    OBVIOUS
<1>5. Settle(kind, With(o, g), [cap EXCEPT ![o] = Len(g)], AllOf(g, DOMAIN g), AllOf(f, DOMAIN f))
    BY <1>1, <1>3, <1>4 DEF Repeat
<1>6. PICK m : m = n * Len(f)
    OBVIOUS
<1>7. m \in Nat /\ Len(f) \in Nat /\ (Len(f) = 0 => m = 0)
    BY <1>6
<1>8. ASSUME NEW i \in 1 .. m PROVE g[i] \in LiveValue(kind)
  <2>1. Len(f) > 0 /\ i - 1 \in Int
      BY <1>7
  <2>2. (i - 1) % Len(f) \in 0 .. Len(f) - 1
      BY <2>1, <1>7
  <2>3. ((i - 1) % Len(f)) + 1 \in 1 .. Len(f)
      BY <2>2, <1>7
  <2>4. g[i] = f[((i - 1) % Len(f)) + 1]
      BY <1>4, <1>6
  <2> QED
      BY <2>3, <2>4
<1>9. g = [i \in 1 .. m |-> g[i]]
    BY <1>4, <1>6
<1>10. g \in Seq(LiveValue(kind)) /\ Len(g) \in Nat /\ DOMAIN g = 1 .. m
    BY <1>7, <1>8, <1>9
<1>11. IsFiniteSet(DOMAIN g)
    BY <1>7, <1>10, FirstPositions
<1>12. Balanced(items[o], g, AllOf(g, DOMAIN g), AllOf(f, DOMAIN f))
    BY <1>2, <1>3, <1>11, RenewBalanced
<1>13. Len(g) <= Len(g)
    BY <1>10
<1> QED
    BY <1>1, <1>5, <1>10, <1>12, <1>13, RenewKeeps

\* A dict with an entry under k: the one it has, or a new one that is undefined.
LEMMA WithKeyIs ==
    ASSUME HeapAssumption, Exact, NEW o \in Obj, kind[o] = "dict", NEW k \in Key, NEW w, w = WithKey(o, k)
    PROVE  /\ w \in [DOMAIN w -> LiveValue(kind)] /\ DOMAIN w \subseteq Key /\ IsFiniteSet(DOMAIN w)
           /\ k \in DOMAIN w /\ w[k] = IF HasKey(o, k) THEN items[o][k] ELSE Undef
           /\ Balanced(items[o], w, Nothing, Nothing)
<1>1. /\ items[o] \in [DOMAIN items[o] -> LiveValue(kind)] /\ DOMAIN items[o] \subseteq Key
      /\ IsFiniteSet(DOMAIN items[o])
    BY ExactItems
<1>2. PICK f : f = items[o]
    OBVIOUS
<1>3. w = [j \in DOMAIN f \cup {k} |-> IF j \in DOMAIN f THEN f[j] ELSE Undef]
    BY <1>2 DEF WithKey, HasKey
<1>4. DOMAIN w = DOMAIN f \cup {k} /\ \A j \in DOMAIN w : w[j] = IF j \in DOMAIN f THEN f[j] ELSE Undef
    BY <1>3
<1>5. IsFiniteSet(DOMAIN w) /\ Balanced(f, w, Nothing, Nothing)
  <2>1. IsFiniteSet(DOMAIN f)
      BY <1>1, <1>2
  <2>2. \A x : DOMAIN x = DOMAIN f \cup {k} /\ (\A j \in DOMAIN x : x[j] = IF j \in DOMAIN f THEN f[j] ELSE Undef)
               => IsFiniteSet(DOMAIN x) /\ Balanced(f, x, Nothing, Nothing)
      BY <2>1, EntryBalanced
  <2> QED
      BY <2>2, <1>4
<1>6. \A j \in DOMAIN w : w[j] \in LiveValue(kind)
    BY <1>1, <1>2, <1>4 DEF LiveValue
<1>7. w = [j \in DOMAIN w |-> w[j]]
    BY <1>3
<1>8. w \in [DOMAIN w -> LiveValue(kind)]
    BY <1>6, <1>7
<1>9. DOMAIN w \subseteq Key /\ k \in DOMAIN w
    BY <1>1, <1>2, <1>4
<1>10. w[k] = IF HasKey(o, k) THEN items[o][k] ELSE Undef
    BY <1>2, <1>4, <1>9 DEF HasKey
<1>11. Balanced(items[o], w, Nothing, Nothing)
    BY <1>2, <1>5
<1> QED
    BY <1>5, <1>8, <1>9, <1>10, <1>11

\* The value that the entry under k has, when it was made if it was not there.
EntryOf(o, k) == IF HasKey(o, k) THEN items[o][k] ELSE Undef

\* The items of o after its entry under k is assigned v.
Entered(o, k, v) == [WithKey(o, k) EXCEPT ![k] = Put(EntryOf(o, k), v)]

\* g has what the dict o has, and under k what an assignment of v makes of old.
IsEntered(o, k, old, v, g) ==
    /\ g \in [DOMAIN g -> LiveValue(kind)] /\ DOMAIN g \subseteq Key /\ IsFiniteSet(DOMAIN g)
    /\ Balanced(items[o], g, Takes(old, v), GivesUp(old))
    /\ DOMAIN g = DOMAIN items[o] \cup {k}
    /\ \A j \in DOMAIN items[o] : j # k => g[j] = items[o][j]

\* The items of a dict whose entry under k is made if it is not there, then assigned.
LEMMA EntryItems ==
    ASSUME HeapAssumption, Exact, NEW o \in Obj, kind[o] = "dict", NEW k \in Key,
           NEW v \in LiveValue(kind), NEW old, old = EntryOf(o, k),
           NEW g, g = Entered(o, k, v)
    PROVE  IsEntered(o, k, old, v, g)
<1>1. PICK w : w = WithKey(o, k)
    OBVIOUS
<1>2. /\ w \in [DOMAIN w -> LiveValue(kind)] /\ DOMAIN w \subseteq Key /\ IsFiniteSet(DOMAIN w)
      /\ k \in DOMAIN w /\ w[k] = IF HasKey(o, k) THEN items[o][k] ELSE Undef
      /\ Balanced(items[o], w, Nothing, Nothing)
    BY <1>1, WithKeyIs
<1>3. w[k] = old /\ g = [w EXCEPT ![k] = Put(w[k], v)]
    BY <1>1, <1>2 DEF EntryOf, Entered
<1>4. Balanced(w, g, Takes(old, v), GivesUp(old))
  <2>1. Balanced(w, [w EXCEPT ![k] = Put(w[k], v)], Takes(w[k], v), GivesUp(w[k]))
      BY <1>2, PutBalanced
  <2> QED
      BY <1>3, <2>1
<1>5. Balanced(items[o], g, Takes(old, v), GivesUp(old))
  <2>1. IsFiniteSet(DOMAIN items[o])
      BY ExactItems
  <2> QED
      BY <1>2, <1>4, <2>1, ThenBalanced
<1>6. PICK x \in LiveValue(kind) : x = Put(w[k], v)
    BY <1>2 DEF Put, LiveValue
<1>7. g = [w EXCEPT ![k] = x]
    BY <1>3, <1>6
<1>8. DOMAIN g = DOMAIN w /\ g \in [DOMAIN w -> LiveValue(kind)] /\ \A j \in DOMAIN w : j # k => g[j] = w[j]
    BY <1>2, <1>7
<1>9. g \in [DOMAIN g -> LiveValue(kind)] /\ DOMAIN g \subseteq Key /\ IsFiniteSet(DOMAIN g)
    BY <1>2, <1>8
<1>10. DOMAIN w = DOMAIN items[o] \cup {k} /\ \A j \in DOMAIN items[o] : w[j] = items[o][j]
    BY <1>1 DEF WithKey, HasKey
<1>11. DOMAIN g = DOMAIN items[o] \cup {k} /\ \A j \in DOMAIN items[o] : j # k => g[j] = items[o][j]
    BY <1>8, <1>10
<1> QED
    BY <1>5, <1>9, <1>11 DEF IsEntered

\* The entry under k is made if it is not there, then assigned.
LEMMA EntryKeeps ==
    ASSUME HeapAssumption, Exact, NEW o \in Obj, kind[o] = "dict", NEW k \in Key,
           NEW v \in LiveValue(kind), NEW old, old = IF HasKey(o, k) THEN items[o][k] ELSE Undef,
           Settle(kind, With(o, [WithKey(o, k) EXCEPT ![k] = Put(old, v)]), cap,
                  Takes(old, v), GivesUp(old))
    PROVE  Kept(kind)
<1>1. PICK g : g = [WithKey(o, k) EXCEPT ![k] = Put(old, v)]
    OBVIOUS
<1>2. /\ g \in [DOMAIN g -> LiveValue(kind)] /\ DOMAIN g \subseteq Key /\ IsFiniteSet(DOMAIN g)
      /\ Balanced(items[o], g, Takes(old, v), GivesUp(old))
  <2>1. old = EntryOf(o, k)
      BY DEF EntryOf
  <2>2. g = Entered(o, k, v)
      BY <1>1, <2>1 DEF Entered
  <2>3. IsEntered(o, k, old, v, g)
      BY <2>1, <2>2, EntryItems
  <2> QED
      BY <2>3 DEF IsEntered
<1>3. Settle(kind, With(o, g), cap, Takes(old, v), GivesUp(old))
    BY <1>1
<1> QED
    BY <1>2, <1>3, DictKeeps

\* operator [] that makes an entry.
LEMMA GetKeeps ==
    ASSUME HeapAssumption, Exact, NEW p, NEW k \in Key, Get(p, k)
    PROVE  Kept(kind)
<1>1. PICK o \in Obj : o = At(p) /\ kind[o] = "dict"
    BY DEF Get, IsDict
<1>2. PICK w : w = WithKey(o, k)
    OBVIOUS
<1>3. /\ w \in [DOMAIN w -> LiveValue(kind)] /\ DOMAIN w \subseteq Key /\ IsFiniteSet(DOMAIN w)
      /\ Balanced(items[o], w, Nothing, Nothing)
    BY <1>1, <1>2, WithKeyIs
<1>4. Settle(kind, With(o, w), cap, Nothing, Nothing)
    BY <1>1, <1>2 DEF Get
<1> QED
    BY <1>1, <1>3, <1>4, DictKeeps

\* Update(key, value).
LEMMA SetKeeps ==
    ASSUME HeapAssumption, Exact, NEW p, NEW k \in Key, NEW s, IsPlace(s), Set(p, k, s)
    PROVE  Kept(kind)
<1>1. PICK o \in Obj : o = At(p) /\ kind[o] = "dict"
    BY DEF Set, IsDict
<1>2. PICK v \in LiveValue(kind) : v = At(s)
    BY ExactItems, PlaceHolds
<1>3. CASE HasKey(o, k)
  <2>1. Assign(<<o, k>>, s)
      BY <1>1, <1>3 DEF Set
  <2>2. IsPlace(<<o, k>>)
      BY <1>3 DEF IsPlace, HasKey, Container
  <2> QED
      BY <2>1, <2>2, AssignKeeps
<1>4. CASE ~HasKey(o, k)
  <2>1. Settle(kind, With(o, [WithKey(o, k) EXCEPT ![k] = v]), cap, One(v), Nothing)
      BY <1>1, <1>2, <1>4 DEF Set
  <2>2. Put(Undef, v) = v /\ Takes(Undef, v) = One(v) /\ GivesUp(Undef) = Nothing
      BY DEF Put, Takes, GivesUp, One, Nothing, HeapAssumption
  <2>3. Settle(kind, With(o, [WithKey(o, k) EXCEPT ![k] = Put(Undef, v)]), cap,
               Takes(Undef, v), GivesUp(Undef))
      BY <2>1, <2>2
  <2>4. Undef = IF HasKey(o, k) THEN items[o][k] ELSE Undef
      BY <1>4
  <2> QED
      BY <1>1, <2>3, <2>4, EntryKeeps
<1> QED
    BY <1>3, <1>4

\* Erase(key).
LEMMA EraseKeyKeeps ==
    ASSUME HeapAssumption, Exact, NEW p, NEW k, EraseKey(p, k)
    PROVE  Kept(kind)
<1>1. PICK o \in Obj : o = At(p) /\ kind[o] = "dict"
    BY DEF EraseKey, IsDict
<1>2. /\ items[o] \in [DOMAIN items[o] -> LiveValue(kind)] /\ DOMAIN items[o] \subseteq Key
      /\ IsFiniteSet(DOMAIN items[o])
    BY <1>1, ExactItems
<1>3. PICK f : f = items[o]
    OBVIOUS
<1>4. PICK g : g = [j \in DOMAIN f \ {k} |-> f[j]]
    OBVIOUS
<1>5. k \in DOMAIN f /\ Settle(kind, With(o, g), cap, Nothing, One(f[k]))
    BY <1>1, <1>3, <1>4 DEF EraseKey, HasKey
<1>6. DOMAIN g = DOMAIN f \ {k} /\ \A j \in DOMAIN g : g[j] = f[j]
    BY <1>4
<1>7. IsFiniteSet(DOMAIN g)
    BY <1>2, <1>3, <1>6, FS_RemoveElement
<1>8. Balanced(f, g, Nothing, One(f[k]))
  <2>1. \A x : DOMAIN x = DOMAIN f \ {k} /\ (\A j \in DOMAIN x : x[j] = f[j])
               => Balanced(f, x, Nothing, One(f[k]))
      BY <1>2, <1>3, <1>5, RemoveBalanced
  <2> QED
      BY <2>1, <1>6
<1>9. g \in [DOMAIN g -> LiveValue(kind)] /\ DOMAIN g \subseteq Key
  <2>1. \A j \in DOMAIN g : g[j] \in LiveValue(kind)
      BY <1>2, <1>3, <1>6
  <2>2. g = [j \in DOMAIN g |-> g[j]]
      BY <1>4
  <2> QED
      BY <2>1, <2>2, <1>2, <1>3, <1>6
<1>10. Balanced(items[o], g, Nothing, One(f[k]))
    BY <1>3, <1>8
<1> QED
    BY <1>1, <1>5, <1>7, <1>9, <1>10, DictKeeps

-----------------------------------------------------------------------------
(* Update of a dict by a dict, and the invariant.                          *)

\* A call of Update.
Frame == [to : Obj, from : Obj, last : Int]

\* The dicts that the calls of Update under way go over are dicts or deleted.
FramesOK(fr, kd) ==
    /\ fr \in Seq(Frame)
    /\ \A i \in 1 .. Len(fr) : kd[fr[i].to] \in {"dict", "free"} /\ kd[fr[i].from] \in {"dict", "free"}

\* The counts are exact between any two steps, those of Update under way included.
IInv ==
    /\ Exact
    /\ FramesOK(frames, kind)
    /\ bad \in {"no", "source", "buffer", "range", "type", "container", "endless"}

\* The call of Update that is the innermost one.
LEMMA TopFrame ==
    ASSUME IInv, frames # <<>>
    PROVE  /\ Head(frames) \in Frame
           /\ kind[Head(frames).to] \in {"dict", "free"} /\ kind[Head(frames).from] \in {"dict", "free"}
           /\ FramesOK(Tail(frames), kind)
           /\ frames = <<Head(frames)>> \o Tail(frames)
<1>1. frames \in Seq(Frame)
      /\ \A i \in 1 .. Len(frames) : kind[frames[i].to] \in {"dict", "free"} /\ kind[frames[i].from] \in {"dict", "free"}
    BY DEF IInv, FramesOK
<1>2. 1 \in 1 .. Len(frames) /\ Head(frames) = frames[1]
    BY <1>1
<1>3. Tail(frames) \in Seq(Frame) /\ Len(Tail(frames)) = Len(frames) - 1
      /\ \A i \in 1 .. Len(Tail(frames)) : Tail(frames)[i] = frames[i + 1] /\ i + 1 \in 1 .. Len(frames)
    BY <1>1
<1>4. FramesOK(Tail(frames), kind)
    BY <1>1, <1>3 DEF FramesOK
<1>5. frames = <<Head(frames)>> \o Tail(frames)
    BY <1>1
<1>6. frames[1] \in Frame
    BY <1>1, <1>2
<1> QED
    BY <1>1, <1>2, <1>4, <1>5, <1>6

\* One more call.
LEMMA MoreFrames ==
    ASSUME NEW fr, NEW kd, FramesOK(fr, kd), NEW f \in Frame,
           kd[f.to] \in {"dict", "free"}, kd[f.from] \in {"dict", "free"}
    PROVE  FramesOK(<<f>> \o fr, kd)
<1>1. fr \in Seq(Frame)
    BY DEF FramesOK
<1>2. PICK g : g = <<f>> \o fr
    OBVIOUS
<1>3. g \in Seq(Frame) /\ Len(g) = Len(fr) + 1 /\ g[1] = f
      /\ \A i \in 1 .. Len(fr) : g[i + 1] = fr[i]
    BY <1>1, <1>2
<1>4. ASSUME NEW i \in 1 .. Len(g)
      PROVE  kd[g[i].to] \in {"dict", "free"} /\ kd[g[i].from] \in {"dict", "free"}
  <2>1. CASE i = 1
      BY <2>1, <1>3
  <2>2. CASE i # 1
    <3>1. PICK j : j = i - 1
        OBVIOUS
    <3>2. j \in 1 .. Len(fr) /\ i = j + 1
        BY <2>2, <3>1, <1>1, <1>3
    <3>3. g[i] = fr[j]
        BY <3>2, <1>3
    <3> QED
        BY <3>2, <3>3 DEF FramesOK
  <2> QED
      BY <2>1, <2>2
<1> QED
    BY <1>2, <1>3, <1>4 DEF FramesOK

\* Objects that are deleted were dicts before.
LEMMA FramesStay ==
    ASSUME NEW fr, NEW kd, NEW ke, FramesOK(fr, kd), \A o \in Obj : ke[o] \in {kd[o], "free"}
    PROVE  FramesOK(fr, ke)
<1>1. ASSUME NEW i \in 1 .. Len(fr)
      PROVE  ke[fr[i].to] \in {"dict", "free"} /\ ke[fr[i].from] \in {"dict", "free"}
  <2>1. fr[i] \in Frame
      BY DEF FramesOK
  <2>2. fr[i].to \in Obj /\ fr[i].from \in Obj
      BY <2>1 DEF Frame
  <2>3. kd[fr[i].to] \in {"dict", "free"} /\ kd[fr[i].from] \in {"dict", "free"}
      BY DEF FramesOK
  <2> QED
      BY <2>2, <2>3
<1> QED
    BY <1>1 DEF FramesOK

\* The next key of the map that Update goes over is a key of it.
LEMMA NextKey ==
    ASSUME HeapAssumption, Exact, NEW f \in Frame,
           kind[f.from] \in {"dict", "free"}, Later(f) # {},
           NEW k, k = CHOOSE j \in Later(f) : \A i \in Later(f) : j <= i
    PROVE  /\ k \in Key /\ k \in Int /\ kind[f.from] = "dict" /\ k \in DOMAIN items[f.from]
           /\ items[f.from][k] \in LiveValue(kind) /\ k > f.last
<1>1. f.from \in Obj /\ WellFormed(kind, items)
    BY DEF Exact, HeapOK, Frame
<1>2. kind[f.from] = "dict"
  <2>1. kind[f.from] = "free" => items[f.from] = <<>>
      BY <1>1 DEF WellFormed
  <2>2. DOMAIN items[f.from] # {}
      BY DEF Later
  <2> QED
      BY <2>1, <2>2, NoItems
<1>3. items[f.from] \in [DOMAIN items[f.from] -> LiveValue(kind)] /\ DOMAIN items[f.from] \subseteq Key
    BY <1>1, <1>2, ExactItems
<1>4. Later(f) \in SUBSET Nat /\ Key \subseteq Nat
    BY <1>3 DEF Later, HeapAssumption
<1>5. \E j \in Later(f) : \A i \in Later(f) : j <= i
    BY <1>4, LeastNatural
<1>6. k \in Later(f)
    BY <1>5
<1>7. k \in DOMAIN items[f.from] /\ k \in Nat /\ k > f.last
    BY <1>4, <1>6 DEF Later
<1>8. items[f.from][k] \in LiveValue(kind)
    BY <1>3, <1>7
<1> QED
    BY <1>2, <1>3, <1>7, <1>8

\* A step of Update.
LEMMA UpdateStepKeeps ==
    ASSUME HeapAssumption, IInv, frames # <<>>, UpdateStep
    PROVE  Kept(kind) /\ FramesOK(frames', kind')
<1> DEFINE f == Head(frames)
           k == CHOOSE j \in Later(f) : \A i \in Later(f) : j <= i
           old == IF HasKey(f.to, k) THEN items[f.to][k] ELSE Undef
           from == items[f.from][k]
           seen == <<[f EXCEPT !.last = k]>> \o Tail(frames)
<1>1. /\ Later(f) # {}
      /\ \/ kind[f.to] = "free" /\ Fail("container")
         \/ /\ kind[f.to] # "free" /\ IsDict(old) /\ IsDict(from)
            /\ \/ Len(frames) = MaxDepth /\ Fail("endless")
               \/ /\ Len(frames) < MaxDepth
                  /\ frames' = <<NestedCall(f, k)>> \o seen
                  /\ UNCHANGED <<items, kind, count, cap, apart, bad>>
         \/ /\ kind[f.to] # "free" /\ ~(IsDict(old) /\ IsDict(from))
            /\ \/ f.to = f.from /\ UNCHANGED <<items, kind, count, cap, bad>>
               \/ /\ f.to # f.from /\ HasKey(f.to, k) /\ SourceDeleted(<<f.to, k>>, <<f.from, k>>)
                  /\ bad' = "source" /\ UNCHANGED <<items, kind, count, cap>>
               \/ /\ f.to # f.from /\ ~(HasKey(f.to, k) /\ SourceDeleted(<<f.to, k>>, <<f.from, k>>))
                  /\ HasKey(f.to, k) \/ Room(1)
                  /\ Settle(kind, With(f.to, [WithKey(f.to, k) EXCEPT ![k] = Put(old, from)]),
                            cap, Takes(old, from), GivesUp(old))
                  /\ UNCHANGED bad
            /\ frames' = seen /\ UNCHANGED apart
    BY DEF UpdateStep
<1>2. /\ f \in Frame
      /\ kind[f.to] \in {"dict", "free"} /\ kind[f.from] \in {"dict", "free"}
      /\ FramesOK(Tail(frames), kind)
    BY TopFrame
<1>3. k = CHOOSE j \in Later(f) : \A i \in Later(f) : j <= i
    OBVIOUS
<1>4. Later(f) # {}
    BY <1>1
<1>5. Exact
    BY DEF IInv
<1>6. old = IF HasKey(f.to, k) THEN items[f.to][k] ELSE Undef
    OBVIOUS
<1>7. from = items[f.from][k]
    OBVIOUS
<1>8. seen = <<[f EXCEPT !.last = k]>> \o Tail(frames)
    OBVIOUS
<1> HIDE DEF f, k, old, from, seen
<1>9. /\ k \in Key /\ k \in Int /\ kind[f.from] = "dict" /\ k \in DOMAIN items[f.from]
      /\ items[f.from][k] \in LiveValue(kind)
    BY <1>2, <1>3, <1>4, <1>5, NextKey
<1>10. FramesOK(seen, kind)
  <2>1. PICK g : g = [f EXCEPT !.last = k]
      OBVIOUS
  <2>2. g \in Frame /\ g.to = f.to /\ g.from = f.from
      BY <1>2, <1>9, <2>1 DEF Frame
  <2>3. kind[g.to] \in {"dict", "free"} /\ kind[g.from] \in {"dict", "free"}
      BY <1>2, <2>2
  <2>4. FramesOK(<<g>> \o Tail(frames), kind)
      BY <1>2, <2>2, <2>3, MoreFrames
  <2> QED
      BY <1>8, <2>1, <2>4
<1>11. \/ UNCHANGED <<items, kind, count, cap, frames>>
       \/ /\ IsDict(old) /\ IsDict(from)
          /\ frames' = <<NestedCall(f, k)>> \o seen
          /\ UNCHANGED <<items, kind, count, cap>>
       \/ UNCHANGED <<items, kind, count, cap>> /\ frames' = seen
       \/ /\ kind[f.to] # "free" /\ frames' = seen
          /\ Settle(kind, With(f.to, [WithKey(f.to, k) EXCEPT ![k] = Put(old, from)]),
                    cap, Takes(old, from), GivesUp(old))
    BY <1>1 DEF Fail
<1>12. CASE UNCHANGED <<items, kind, count, cap, frames>>
    BY <1>5, <1>12, SameKept DEF IInv
<1>13. CASE /\ IsDict(old) /\ IsDict(from)
            /\ frames' = <<NestedCall(f, k)>> \o seen
            /\ UNCHANGED <<items, kind, count, cap>>
  <2>1. PICK g : g = NestedCall(f, k)
      OBVIOUS
  <2>2. old = items[f.to][k]
      BY <1>6, <1>13 DEF IsDict, HeapAssumption
  <2>3. g = [to |-> old, from |-> from, last |-> -1]
      BY <2>1, <2>2, <1>7 DEF NestedCall
  <2>4. old \in Obj /\ from \in Obj /\ kind[old] = "dict" /\ kind[from] = "dict"
      BY <1>13 DEF IsDict
  <2>5. /\ g \in Frame
        /\ kind[g.to] \in {"dict", "free"} /\ kind[g.from] \in {"dict", "free"}
      BY <2>3, <2>4 DEF Frame
  <2>6. FramesOK(<<g>> \o seen, kind)
      BY <1>10, <2>5, MoreFrames
  <2>7. Kept(kind)
      BY <1>5, <1>13, SameKept
  <2> QED
      BY <2>1, <2>6, <2>7, <1>13
<1>14. CASE UNCHANGED <<items, kind, count, cap>> /\ frames' = seen
    BY <1>5, <1>10, <1>14, SameKept
<1>15. CASE /\ kind[f.to] # "free" /\ frames' = seen
            /\ Settle(kind, With(f.to, [WithKey(f.to, k) EXCEPT ![k] = Put(old, from)]),
                      cap, Takes(old, from), GivesUp(old))
  <2>1. PICK o \in Obj : o = f.to
      BY <1>2 DEF Frame
  <2>2. kind[o] = "dict" /\ old = (IF HasKey(o, k) THEN items[o][k] ELSE Undef)
      BY <1>2, <1>6, <1>15, <2>1
  <2>3. Settle(kind, With(o, [WithKey(o, k) EXCEPT ![k] = Put(old, from)]), cap, Takes(old, from), GivesUp(old))
      BY <1>15, <2>1
  <2>4. Kept(kind)
      BY <1>5, <1>9, <1>7, <2>2, <2>3, EntryKeeps
  <2>5. FramesOK(seen, kind')
      BY <1>10, <2>4, FramesStay DEF Kept
  <2> QED
      BY <2>4, <2>5, <1>15
<1> QED
    BY <1>11, <1>12, <1>13, <1>14, <1>15

\* The end of a call of Update, and the first one.
LEMMA UpdateKeeps ==
    ASSUME HeapAssumption, IInv, (frames # <<>> /\ UpdateReturn) \/ \E p, q : Update(p, q)
    PROVE  Kept(kind) /\ FramesOK(frames', kind')
<1>1. Exact
    BY DEF IInv
<1>2. CASE UNCHANGED <<items, kind, count, cap, frames>>
    BY <1>1, <1>2, SameKept DEF IInv
<1>3. CASE frames # <<>> /\ frames' = Tail(frames) /\ UNCHANGED <<items, kind, count, cap>>
    BY <1>1, <1>3, SameKept, TopFrame
<1>4. CASE \E p, q : Update(p, q)
  <2>1. PICK p, q : Update(p, q)
      BY <1>4
  <2>2. PICK f : f = [to |-> At(p), from |-> At(q), last |-> -1]
      OBVIOUS
  <2>3. frames' = <<f>> \o <<>> /\ UNCHANGED <<items, kind, count, cap>>
      BY <2>1, <2>2 DEF Update
  <2>4. f \in Frame /\ kind[f.to] = "dict" /\ kind[f.from] = "dict"
      BY <2>1, <2>2 DEF Update, IsDict, Frame
  <2>5. FramesOK(<<>>, kind)
      BY DEF FramesOK
  <2>6. FramesOK(<<f>> \o <<>>, kind)
      BY <2>4, <2>5, MoreFrames
  <2>7. Kept(kind)
      BY <1>1, <2>3, SameKept
  <2> QED
      BY <2>3, <2>6, <2>7
<1> QED
    BY <1>2, <1>3, <1>4 DEF UpdateReturn, Fail

-----------------------------------------------------------------------------
(* Clone: the paths from a value, which make a tree.                       *)

\* The paths that are by one item longer than those of Q.
NextPaths(Q) ==
    UNION {{<<Append(q[1], i), items[q[2]][i]>> :
              i \in {j \in DOMAIN items[q[2]] : items[q[2]][j] \in Obj}} : q \in Q}

\* r is by the item i longer than q.
Extends(r, q, i) ==
    /\ i \in DOMAIN items[q[2]] /\ items[q[2]][i] \in Obj
    /\ r = <<Append(q[1], i), items[q[2]][i]>>

\* What it is to be such a path.
LEMMA InNextPaths ==
    ASSUME NEW Q, NEW r
    PROVE  r \in NextPaths(Q) <=> \E q \in Q : \E i : Extends(r, q, i)
    BY DEF NextPaths, Extends

\* A path leads to an object that lives.
PathTo == Seq(Nat) \X {o \in Obj : kind[o] # "free"}

\* Positions and keys are numbers.
LEMMA NextPathsType ==
    ASSUME HeapAssumption, Exact, NEW q \in PathTo, NEW i, NEW r, Extends(r, q, i)
    PROVE  r \in PathTo /\ Len(r[1]) = Len(q[1]) + 1 /\ i \in Nat /\ r[1] = Append(q[1], i)
<1>1. q[1] \in Seq(Nat) /\ q[2] \in Obj /\ kind[q[2]] # "free"
    BY DEF PathTo
<1>2. PICK c \in Obj : c = q[2]
    BY <1>1
<1>3. PICK v : v = items[c][i]
    OBVIOUS
<1>4. i \in DOMAIN items[c] /\ v \in Obj /\ r = <<Append(q[1], i), v>>
    BY <1>2, <1>3 DEF Extends
<1>5. WellFormed(kind, items) /\ c \in Container
    BY ExactItems
<1>6. v \in LiveValue(kind)
    BY <1>3, <1>4, <1>5, WellFormedItems
<1>7. kind[v] # "free"
    BY <1>4, <1>6 DEF LiveValue, HeapAssumption
<1>8. i \in Nat
  <2>1. CASE kind[c] = "list"
    <3>1. items[c] \in Seq(LiveValue(kind))
        BY <2>1, ExactItems
    <3> QED
        BY <3>1, <1>4
  <2>2. CASE kind[c] = "dict"
      BY <2>2, <1>4, ExactItems DEF HeapAssumption
  <2>3. CASE kind[c] \notin {"list", "dict"}
      BY <2>3, <1>4, <1>5, NoItems DEF WellFormed
  <2> QED
      BY <2>1, <2>2, <2>3
<1>9. Append(q[1], i) \in Seq(Nat) /\ Len(Append(q[1], i)) = Len(q[1]) + 1
    BY <1>1, <1>8
<1> QED
    BY <1>4, <1>7, <1>8, <1>9 DEF PathTo

\* Positions that are the same with one more are the same.
LEMMA SameAppend ==
    ASSUME NEW s \in Seq(Nat), NEW t \in Seq(Nat), NEW i \in Nat, NEW j \in Nat,
           Append(s, i) = Append(t, j)
    PROVE  s = t /\ i = j
<1>1. Len(s) = Len(t) /\ Len(s) \in Nat
    OBVIOUS
<1>2. i = j
  <2>1. Append(s, i)[Len(s) + 1] = i /\ Append(t, j)[Len(t) + 1] = j
      OBVIOUS
  <2> QED
      BY <1>1, <2>1
<1>3. ASSUME NEW k \in 1 .. Len(s) PROVE s[k] = t[k]
  <2>1. Append(s, i)[k] = s[k] /\ Append(t, j)[k] = t[k]
      BY <1>1
  <2> QED
      BY <2>1
<1> QED
    BY <1>1, <1>2, <1>3, SeqEqual

\* The first path.
FirstPath(v) == IF v \in Obj THEN {<<<<>>, v>>} ELSE {}

\* The recursion that defines the paths has a solution.
LEMMA PathIs ==
    ASSUME HeapAssumption, Exact, NEW v \in LiveValue(kind)
    PROVE  /\ Path(v)[0] = FirstPath(v)
           /\ \A n \in Nat : Path(v)[n + 1] = NextPaths(Path(v)[n])
<1> DEFINE S == SUBSET PathTo
           F == [Q \in S |-> NextPaths(Q)]
           Def(s) == [n \in Nat |-> IF n = 0 THEN FirstPath(v) ELSE NextPaths(s[n - 1])]
           path == CHOOSE s : s = Def(s)
<1>1. \E g : Iterates(g, S, FirstPath(v), F)
  <2>1. FirstPath(v) \in S
    <3>1. CASE v \in Obj
      <4>1. <<>> \in Seq(Nat)
          OBVIOUS
      <4>2. v \in {o \in Obj : kind[o] # "free"}
          BY <3>1 DEF LiveValue, HeapAssumption
      <4>3. <<<<>>, v>> \in PathTo
          BY <4>1, <4>2 DEF PathTo
      <4> QED
          BY <3>1, <4>3 DEF FirstPath
    <3>2. CASE v \notin Obj
        BY <3>2 DEF FirstPath
    <3> QED
        BY <3>1, <3>2
  <2>2. ASSUME NEW Q \in S PROVE NextPaths(Q) \in S
    <3>1. ASSUME NEW r \in NextPaths(Q) PROVE r \in PathTo
      <4>1. PICK q \in Q : \E i : Extends(r, q, i)
          BY InNextPaths
      <4>2. PICK i : Extends(r, q, i)
          BY <4>1
      <4>3. q \in PathTo
          OBVIOUS
      <4> QED
          BY <4>2, <4>3, NextPathsType
    <3> QED
        BY <3>1
  <2>3. F \in [S -> S]
    <3> HIDE DEF S
    <3> QED
        BY <2>2
  <2> HIDE DEF S, F
  <2> QED
      BY <2>1, <2>3, IterationExists
<1>2. PICK g : Iterates(g, S, FirstPath(v), F)
    BY <1>1
<1>3. /\ g \in [Nat -> S] /\ g[0] = FirstPath(v)
      /\ \A n \in Nat : g[n + 1] = NextPaths(g[n])
  <2> HIDE DEF S
  <2>1. /\ g \in [Nat -> S] /\ g[0] = FirstPath(v)
        /\ \A n \in Nat : g[n + 1] = F[g[n]]
      BY <1>2 DEF Iterates
  <2> QED
      BY <2>1
<1>4. g = Def(g)
  <2> HIDE DEF S
  <2>1. ASSUME NEW k \in Nat, k # 0 PROVE g[k] = NextPaths(g[k - 1])
    <3>1. k - 1 \in Nat /\ k - 1 + 1 = k
        BY <2>1
    <3> QED
        BY <3>1, <1>3
  <2>2. \A k \in Nat : g[k] = Def(g)[k]
      BY <2>1, <1>3
  <2>3. g = [k \in Nat |-> g[k]]
      BY <1>3
  <2> QED
      BY <2>2, <2>3
<1>5. path = Def(path)
  <2> HIDE DEF Def
  <2> QED
      BY <1>4
<1>6. path = Path(v)
    BY DEF Path, FirstPath, NextPaths
<1> HIDE DEF path
<1>7. path[0] = FirstPath(v)
    BY <1>5
<1>8. ASSUME NEW n \in Nat PROVE path[n + 1] = NextPaths(path[n])
  <2>1. n + 1 \in Nat /\ n + 1 # 0 /\ n + 1 - 1 = n
      OBVIOUS
  <2>2. path[n + 1] = NextPaths(path[n + 1 - 1])
      BY <2>1, <1>5
  <2> QED
      BY <2>1, <2>2
<1> QED
    BY <1>6, <1>7, <1>8

\* All paths of a value that Clone copies: they lead to objects that live, with a
\* path they have the ones that are longer by an item, each is the first or longer
\* than another, and no two have the same positions.
Tree(P, v) ==
    /\ P \subseteq PathTo
    /\ v \in Obj => <<<<>>, v>> \in P
    /\ \A q \in P : \A i : \A r : Extends(r, q, i) => r \in P
    /\ \A r \in P : r = <<<<>>, v>> \/ \E q \in P : \E i : Extends(r, q, i)
    /\ \A q, r \in P : q[1] = r[1] => q = r

\* When the paths come to an end, they make a tree.
LEMMA PathsAreATree ==
    ASSUME HeapAssumption, Exact, NEW v \in LiveValue(kind), NEW N \in Nat, Path(v)[N] = {}
    PROVE  Tree(UNION {Path(v)[n] : n \in 0 .. N}, v)
<1>1. PICK path : path = Path(v)
    OBVIOUS
<1>2. path[0] = FirstPath(v) /\ \A n \in Nat : path[n + 1] = NextPaths(path[n])
    BY <1>1, PathIs
<1> DEFINE Level(n) == /\ path[n] \subseteq PathTo
                       /\ \A q \in path[n] : Len(q[1]) = n
                       /\ \A q, r \in path[n] : q[1] = r[1] => q = r
           T == {n \in Nat : Level(n)}
<1>3. Level(0)
  <2>1. CASE v \in Obj
    <3>1. path[0] = {<<<<>>, v>>}
        BY <2>1, <1>2 DEF FirstPath
    <3>2. v \in {o \in Obj : kind[o] # "free"} /\ <<>> \in Seq(Nat) /\ Len(<<>>) = 0
        BY <2>1 DEF LiveValue, HeapAssumption
    <3>3. <<<<>>, v>> \in PathTo
        BY <3>2 DEF PathTo
    <3> QED
        BY <3>1, <3>2, <3>3
  <2>2. CASE v \notin Obj
      BY <2>2, <1>2 DEF FirstPath
  <2> QED
      BY <2>1, <2>2
<1>4. ASSUME NEW n \in Nat, Level(n) PROVE Level(n + 1)
  <2>1. path[n + 1] = NextPaths(path[n])
      BY <1>2
  <2>2. ASSUME NEW r \in path[n + 1]
        PROVE  \E q \in path[n] : \E i \in Nat :
                  /\ q \in PathTo /\ r \in PathTo /\ Extends(r, q, i)
                  /\ Len(r[1]) = n + 1 /\ r[1] = Append(q[1], i)
    <3>1. PICK q \in path[n] : \E i : Extends(r, q, i)
        BY <2>1, InNextPaths
    <3>2. PICK i : Extends(r, q, i)
        BY <3>1
    <3>3. q \in PathTo /\ Len(q[1]) = n
        BY <1>4
    <3>4. r \in PathTo /\ Len(r[1]) = Len(q[1]) + 1 /\ i \in Nat /\ r[1] = Append(q[1], i)
        BY <3>2, <3>3, NextPathsType
    <3> QED
        BY <3>2, <3>3, <3>4
  <2>3. ASSUME NEW r \in path[n + 1], NEW t \in path[n + 1], r[1] = t[1] PROVE r = t
    <3>1. PICK q \in path[n] : \E i \in Nat :
                  /\ q \in PathTo /\ Extends(r, q, i) /\ r[1] = Append(q[1], i)
        BY <2>2
    <3>2. PICK i \in Nat : q \in PathTo /\ Extends(r, q, i) /\ r[1] = Append(q[1], i)
        BY <3>1
    <3>3. PICK u \in path[n] : \E j \in Nat :
                  /\ u \in PathTo /\ Extends(t, u, j) /\ t[1] = Append(u[1], j)
        BY <2>2
    <3>4. PICK j \in Nat : u \in PathTo /\ Extends(t, u, j) /\ t[1] = Append(u[1], j)
        BY <3>3
    <3>5. q[1] = u[1] /\ i = j
      <4>1. q[1] \in Seq(Nat) /\ u[1] \in Seq(Nat)
          BY <3>2, <3>4 DEF PathTo
      <4>2. Append(q[1], i) = Append(u[1], j)
          BY <3>2, <3>4, <2>3
      <4>3. PICK a \in Seq(Nat) : a = q[1]
          BY <4>1
      <4>4. PICK b \in Seq(Nat) : b = u[1]
          BY <4>1
      <4>5. Append(a, i) = Append(b, j)
          BY <4>2, <4>3, <4>4
      <4>6. a = b /\ i = j
          BY <4>5, SameAppend
      <4> QED
          BY <4>3, <4>4, <4>6
    <3>6. q = u
        BY <3>5, <1>4
    <3> QED
        BY <3>2, <3>4, <3>5, <3>6 DEF Extends
  <2>4. path[n + 1] \subseteq PathTo /\ \A r \in path[n + 1] : Len(r[1]) = n + 1
      BY <2>2
  <2> QED
      BY <2>3, <2>4
<1>5. \A n \in Nat : Level(n)
  <2>1. 0 \in T
      BY <1>3
  <2>2. ASSUME NEW n \in Nat, n \in T PROVE n + 1 \in T
    <3> HIDE DEF Level
    <3> QED
        BY <2>2, <1>4
  <2>3. Nat \subseteq T
    <3> HIDE DEF T
    <3> QED
        BY <2>1, <2>2, SetInduction
  <2> HIDE DEF Level
  <2> QED
      BY <2>3
<1> DEFINE P == UNION {path[n] : n \in 0 .. N}
<1>6. \A q : q \in P <=> \E n \in 0 .. N : q \in path[n]
    OBVIOUS
<1> HIDE DEF P
<1>7. P \subseteq PathTo
    BY <1>5, <1>6
<1>8. v \in Obj => <<<<>>, v>> \in P
    BY <1>2, <1>6 DEF FirstPath
<1>9. ASSUME NEW q \in P, NEW i, NEW r, Extends(r, q, i) PROVE r \in P
  <2>1. PICK n \in 0 .. N : q \in path[n]
      BY <1>6
  <2>2. n # N
      BY <2>1, <1>1
  <2>3. n \in Nat /\ n + 1 \in 0 .. N
      BY <2>2
  <2>4. r \in path[n + 1]
      BY <2>1, <2>3, <1>2, <1>9, InNextPaths
  <2> QED
      BY <2>3, <2>4, <1>6
<1>10. ASSUME NEW r \in P PROVE r = <<<<>>, v>> \/ \E q \in P : \E i : Extends(r, q, i)
  <2>1. PICK n \in 0 .. N : r \in path[n]
      BY <1>6
  <2>2. CASE n = 0
      BY <2>1, <2>2, <1>2 DEF FirstPath
  <2>3. CASE n # 0
    <3>1. PICK m \in 0 .. N : n = m + 1
      <4>1. n - 1 \in 0 .. N /\ n = n - 1 + 1
          BY <2>3
      <4> QED
          BY <4>1
    <3>2. r \in NextPaths(path[m])
        BY <2>1, <3>1, <1>2
    <3>3. PICK q \in path[m] : \E i : Extends(r, q, i)
        BY <3>2, InNextPaths
    <3> QED
        BY <3>3, <1>6
  <2> QED
      BY <2>2, <2>3
<1>11. ASSUME NEW q \in P, NEW r \in P, q[1] = r[1] PROVE q = r
  <2>1. PICK n \in 0 .. N : q \in path[n]
      BY <1>6
  <2>2. PICK m \in 0 .. N : r \in path[m]
      BY <1>6
  <2>3. n = m
      BY <2>1, <2>2, <1>5, <1>11
  <2> QED
      BY <2>1, <2>2, <2>3, <1>5, <1>11
<1>12. Tree(P, v)
    BY <1>7, <1>8, <1>9, <1>10, <1>11 DEF Tree
<1> QED
    BY <1>1, <1>12 DEF P

\* g are the copies of the items of the object to which q leads.
IsCopy(new, q, g) ==
    g = [i \in DOMAIN items[q[2]] |->
           IF items[q[2]][i] \in Obj THEN new[<<Append(q[1], i), items[q[2]][i]>>] ELSE items[q[2]][i]]

\* The objects made are new[q] for the paths q of P, with copies of the items.
Copies(P, new, of, made, W, it) ==
    /\ made \subseteq Obj \ Live
    /\ \A q \in P : new[q] \in made /\ of[new[q]] = q
    /\ \A o \in made : of[o] \in P /\ new[of[o]] = o
    /\ DOMAIN it = Container
    /\ \A c \in Container \ made : it[c] = W[c]
    /\ \A c \in made : IsCopy(new, of[c], it[c])

\* An item of a copy is the copy of an item, or the item if it is no object.
LEMMA CopyIs ==
    ASSUME HeapAssumption, Exact, NEW v, NEW P, Tree(P, v), NEW new, NEW q \in P, NEW g, IsCopy(new, q, g)
    PROVE  /\ q[2] \in Obj /\ kind[q[2]] # "free"
           /\ DOMAIN g = DOMAIN items[q[2]] /\ g = [i \in DOMAIN g |-> g[i]]
           /\ \A i \in DOMAIN g : \/ items[q[2]][i] \in Obj /\ \E r \in P : Extends(r, q, i) /\ g[i] = new[r]
                                  \/ g[i] \in {Undef, None}
<1>1. q \in PathTo
    BY DEF Tree
<1>2. q[2] \in Obj /\ kind[q[2]] # "free"
    BY <1>1 DEF PathTo
<1>3. DOMAIN g = DOMAIN items[q[2]] /\ g = [i \in DOMAIN g |-> g[i]]
    BY DEF IsCopy
<1>4. ASSUME NEW i \in DOMAIN g, items[q[2]][i] \in Obj
      PROVE  \E r \in P : Extends(r, q, i) /\ g[i] = new[r]
  <2>1. PICK r : r = <<Append(q[1], i), items[q[2]][i]>>
      OBVIOUS
  <2>2. Extends(r, q, i)
      BY <1>3, <1>4, <2>1 DEF Extends
  <2>3. r \in P
      BY <2>2 DEF Tree
  <2>4. g[i] = new[r]
      BY <1>3, <1>4, <2>1 DEF IsCopy
  <2> QED
      BY <2>2, <2>3, <2>4
<1>5. ASSUME NEW i \in DOMAIN g, items[q[2]][i] \notin Obj PROVE g[i] \in {Undef, None}
  <2>1. g[i] = items[q[2]][i]
      BY <1>3, <1>5 DEF IsCopy
  <2>2. WellFormed(kind, items) /\ q[2] \in Container
      BY <1>2, ExactItems
  <2>3. items[q[2]][i] \in LiveValue(kind)
      BY <1>3, <2>2, WellFormedItems
  <2> QED
      BY <1>5, <2>1, <2>3 DEF LiveValue
<1> QED
    BY <1>2, <1>3, <1>4, <1>5

\* Every object made is referred to once by the objects made, but the first.
LEMMA CopiesRefer ==
    ASSUME HeapAssumption, Exact, NEW v, NEW P, Tree(P, v), NEW new, NEW of, NEW made, NEW W, NEW it,
           Copies(P, new, of, made, W, it), NEW x \in Obj
    PROVE  /\ IsFiniteSet(RefsFrom(it, made, x))
           /\ Cardinality(RefsFrom(it, made, x)) =
                 IF x \in made /\ of[x] # <<<<>>, v>> THEN 1 ELSE 0
<1>1. ASSUME NEW c \in made, NEW j \in DOMAIN it[c], it[c][j] = x
      PROVE  x \in made /\ of[c] \in P /\ of[x] \in P /\ Extends(of[x], of[c], j)
  <2>1. PICK q \in P : q = of[c]
      BY DEF Copies
  <2>2. PICK g : g = it[c]
      OBVIOUS
  <2>3. IsCopy(new, q, g)
      BY <2>1, <2>2 DEF Copies
  <2>4. \/ \E r \in P : Extends(r, q, j) /\ g[j] = new[r]
        \/ g[j] \in {Undef, None}
      BY <1>1, <2>2, <2>3, CopyIs
  <2>5. g[j] = x /\ x \notin {Undef, None}
      BY <1>1, <2>2 DEF HeapAssumption
  <2>6. PICK r \in P : Extends(r, q, j) /\ x = new[r]
      BY <2>4, <2>5
  <2>7. x \in made /\ of[x] = r
      BY <2>6 DEF Copies
  <2> QED
      BY <2>1, <2>6, <2>7
<1>2. CASE ~(x \in made /\ of[x] # <<<<>>, v>>)
  <2>1. ASSUME NEW p \in RefsFrom(it, made, x) PROVE FALSE
    <3>1. PICK c \in made : \E j \in DOMAIN it[c] : it[c][j] = x /\ p = <<c, j>>
        BY InRefsFrom
    <3>2. PICK j \in DOMAIN it[c] : it[c][j] = x
        BY <3>1
    <3>3. x \in made /\ of[c] \in P /\ of[x] \in P /\ Extends(of[x], of[c], j)
        BY <3>2, <1>1
    <3>4. of[x] = <<<<>>, v>>
        BY <1>2, <3>3
    <3>5. of[c] \in PathTo
        BY <3>3 DEF Tree
    <3>6. of[c][1] \in Seq(Nat) /\ j \in Nat /\ of[x][1] = Append(of[c][1], j)
        BY <3>3, <3>5, NextPathsType DEF PathTo
    <3>7. of[x][1] = <<>>
        BY <3>4
    <3>8. Append(of[c][1], j) # <<>>
      <4>1. PICK a \in Seq(Nat) : a = of[c][1]
          BY <3>6
      <4>2. Len(Append(a, j)) = Len(a) + 1 /\ Len(a) \in Nat
          BY <3>6
      <4>3. Append(a, j) # <<>>
          BY <4>2, NoItems
      <4> QED
          BY <4>1, <4>3
    <3> QED
        BY <3>6, <3>7, <3>8
  <2>2. RefsFrom(it, made, x) = {}
      BY <2>1
  <2> QED
      BY <1>2, <2>2, FS_EmptySet
<1>3. CASE x \in made /\ of[x] # <<<<>>, v>>
  <2>1. PICK r \in P : r = of[x] /\ new[r] = x
      BY <1>3 DEF Copies
  <2>2. PICK q \in P : \E i : Extends(r, q, i)
      BY <1>3, <2>1 DEF Tree
  <2>3. PICK i : Extends(r, q, i)
      BY <2>2
  <2>4. PICK c \in made : c = new[q] /\ of[c] = q
      BY DEF Copies
  <2>5. q \in PathTo /\ r \in PathTo
      BY DEF Tree
  <2>6. q[1] \in Seq(Nat) /\ i \in Nat /\ r[1] = Append(q[1], i)
      BY <2>3, <2>5, NextPathsType DEF PathTo
  <2>7. <<c, i>> \in RefsFrom(it, made, x)
    <3>1. PICK g : g = it[c]
        OBVIOUS
    <3>2. IsCopy(new, q, g)
        BY <2>4, <3>1 DEF Copies
    <3>3. i \in DOMAIN g /\ g[i] = new[r]
        BY <2>3, <3>2 DEF IsCopy, Extends
    <3> QED
        BY <2>1, <3>1, <3>3, InRefsFrom
  <2>8. ASSUME NEW p \in RefsFrom(it, made, x) PROVE p = <<c, i>>
    <3>1. PICK d \in made : \E j \in DOMAIN it[d] : it[d][j] = x /\ p = <<d, j>>
        BY InRefsFrom
    <3>2. PICK j \in DOMAIN it[d] : it[d][j] = x /\ p = <<d, j>>
        BY <3>1
    <3>3. of[d] \in P /\ Extends(r, of[d], j)
        BY <3>2, <1>1, <2>1
    <3>4. PICK u \in P : u = of[d]
        BY <3>3
    <3>5. u \in PathTo
        BY DEF Tree
    <3>6. u[1] \in Seq(Nat) /\ j \in Nat /\ r[1] = Append(u[1], j)
        BY <3>3, <3>4, <3>5, NextPathsType DEF PathTo
    <3>7. PICK a \in Seq(Nat) : a = q[1]
        BY <2>6
    <3>8. PICK b \in Seq(Nat) : b = u[1]
        BY <3>6
    <3>9. Append(a, i) = Append(b, j)
        BY <2>6, <3>6, <3>7, <3>8
    <3>10. a = b /\ i = j
        BY <2>6, <3>6, <3>9, SameAppend
    <3>11. q = u
        BY <3>7, <3>8, <3>10 DEF Tree
    <3>12. d = new[u]
        BY <3>4 DEF Copies
    <3> QED
        BY <3>2, <3>10, <3>11, <3>12, <2>4
  <2>9. RefsFrom(it, made, x) = {<<c, i>>}
      BY <2>7, <2>8
  <2> QED
      BY <1>3, <2>9, FS_Singleton
<1> QED
    BY <1>2, <1>3

\* Containers that have other items they can have.
LEMMA ItemsReplaced ==
    ASSUME HeapAssumption, NEW kd, NEW W, WellFormed(kd, W), NEW it, DOMAIN it = Container,
           NEW made \in SUBSET Obj, \A c \in Container \ made : it[c] = W[c],
           \A c \in made : ItemsFor(kd, c, it[c])
    PROVE  WellFormed(kd, it)
<1>1. kd \in [Obj -> Kind \cup {"free"}] /\ Root \in Container \ made /\ Root \notin Obj
    BY DEF WellFormed, HeapAssumption, Container
<1>2. it[Root] \in [Var \cup {D_NONE} -> LiveValue(kd)]
    BY <1>1 DEF WellFormed
<1>3. ASSUME NEW o \in Obj, kd[o] = "list" PROVE it[o] \in Seq(LiveValue(kd))
    BY <1>1, <1>3 DEF WellFormed, ItemsFor, Container
<1>4. ASSUME NEW o \in Obj, kd[o] = "dict"
      PROVE  /\ it[o] \in [DOMAIN it[o] -> LiveValue(kd)]
             /\ DOMAIN it[o] \subseteq Key /\ IsFiniteSet(DOMAIN it[o])
  <2>1. CASE o \in made
      BY <2>1, <1>1, <1>4 DEF ItemsFor
  <2>2. CASE o \notin made
    <3>1. it[o] = W[o]
        BY <2>2 DEF Container
    <3> QED
        BY <3>1, <1>4 DEF WellFormed
  <2> QED
      BY <2>1, <2>2
<1>5. ASSUME NEW o \in Obj, kd[o] \notin {"list", "dict"} PROVE it[o] = <<>>
  <2>1. CASE o \in made
      BY <2>1, <1>1, <1>5 DEF ItemsFor
  <2>2. CASE o \notin made
      BY <2>2, <1>5 DEF WellFormed, Container
  <2> QED
      BY <2>1, <2>2
<1> QED
    BY <1>1, <1>2, <1>3, <1>4, <1>5 DEF WellFormed

\* The copy of an object can be the items of an object of its kind.
LEMMA CopyItems ==
    ASSUME HeapAssumption, Exact, NEW v, NEW P, Tree(P, v), NEW new, NEW q \in P, NEW g, IsCopy(new, q, g),
           NEW kd, \A r \in P : new[r] \in LiveValue(kd), NEW c \in Obj, kd[c] = kind[q[2]]
    PROVE  /\ ItemsFor(kd, c, g)
           /\ kind[q[2]] = "list" => Len(g) = Len(items[q[2]]) /\ Len(g) \in Nat
<1>1. /\ q[2] \in Obj /\ kind[q[2]] # "free"
      /\ DOMAIN g = DOMAIN items[q[2]] /\ g = [i \in DOMAIN g |-> g[i]]
      /\ \A i \in DOMAIN g : \/ items[q[2]][i] \in Obj /\ \E r \in P : Extends(r, q, i) /\ g[i] = new[r]
                             \/ g[i] \in {Undef, None}
    BY CopyIs
<1>2. \A i \in DOMAIN g : g[i] \in LiveValue(kd)
    BY <1>1 DEF LiveValue
<1>3. c # Root
    BY DEF HeapAssumption
<1>4. PICK o \in Obj : o = q[2]
    BY <1>1
<1>5. CASE kind[o] = "list"
  <2>1. items[o] \in Seq(LiveValue(kind))
      BY <1>5, ExactItems
  <2>2. PICK n \in Nat : n = Len(items[o])
      BY <2>1
  <2>3. DOMAIN g = 1 .. n
      BY <1>1, <1>4, <2>1, <2>2
  <2>4. g \in Seq(LiveValue(kd)) /\ Len(g) = n
      BY <1>1, <1>2, <2>3
  <2> QED
      BY <1>3, <1>4, <1>5, <2>2, <2>4 DEF ItemsFor
<1>6. CASE kind[o] = "dict"
  <2>1. DOMAIN items[o] \subseteq Key /\ IsFiniteSet(DOMAIN items[o])
      BY <1>6, ExactItems
  <2>2. g \in [DOMAIN g -> LiveValue(kd)]
      BY <1>1, <1>2
  <2>3. DOMAIN g \subseteq Key /\ IsFiniteSet(DOMAIN g)
      BY <1>1, <1>4, <2>1
  <2> QED
      BY <1>3, <1>4, <1>6, <2>2, <2>3 DEF ItemsFor
<1>7. CASE kind[o] \notin {"list", "dict"}
  <2>1. items[o] = <<>>
      BY <1>7 DEF Exact, HeapOK, WellFormed
  <2>2. DOMAIN g = {}
      BY <1>1, <1>4, <2>1, NoItems
  <2>3. g = <<>>
      BY <1>1, <2>2
  <2> QED
      BY <1>3, <1>4, <1>7, <2>3 DEF ItemsFor
<1> QED
    BY <1>4, <1>5, <1>6, <1>7

\* The references of the heap with the copies: those of W, and one to each object
\* made but the first.
LEMMA CopiesCounted ==
    ASSUME HeapAssumption, Exact, NEW v, NEW P, Tree(P, v), NEW new, NEW of, NEW made, NEW W, NEW it,
           Copies(P, new, of, made, W, it), FiniteItems(W), \A c \in made : W[c] = <<>>, NEW x \in Obj
    PROVE  /\ RefCount(W, x) \in Nat
           /\ RefCount(it, x) = RefCount(W, x) +
                 (IF x \in made /\ of[x] # <<<<>>, v>> THEN 1 ELSE 0)
<1> DEFINE S == RefsFrom(it, Container \ made, x)
           T == RefsFrom(it, made, x)
<1>1. made \subseteq Container /\ \A c \in Container \ made : it[c] = W[c]
    BY DEF Copies, Container
<1>2. /\ IsFiniteSet(T)
      /\ Cardinality(T) = IF x \in made /\ of[x] # <<<<>>, v>> THEN 1 ELSE 0
    BY CopiesRefer
<1>3. RefsFrom(W, Container, x) = S
  <2>1. ASSUME NEW p PROVE p \in RefsFrom(W, Container, x) <=> p \in RefsFrom(W, Container \ made, x)
      BY <1>1, InRefsFrom, NoItems
  <2>2. RefsFrom(W, Container \ made, x) = S
      BY <1>1 DEF RefsFrom
  <2> QED
      BY <2>1, <2>2
<1>4. RefsFrom(it, Container, x) = S \cup T
  <2>1. ASSUME NEW p PROVE p \in RefsFrom(it, Container, x) <=> p \in S \/ p \in T
      BY <1>1, InRefsFrom
  <2> QED
      BY <2>1
<1>5. S \cap T = {}
    BY InRefsFrom
<1>6. IsFiniteSet(S)
    BY <1>3, RefsFinite
<1> HIDE DEF S, T
<1>7. Cardinality(S \cup T) = Cardinality(S) + Cardinality(T) /\ Cardinality(S) \in Nat
    BY <1>2, <1>5, <1>6, DisjointSize
<1> QED
    BY <1>2, <1>3, <1>4, <1>7 DEF RefCount

\* S has what its containers hold.
ClosedIn(it, S) == \A c \in S : \A i \in DOMAIN it[c] : it[c][i] \in Obj => it[c][i] \in S
\* What the objects of S refer to is in S.
Closed(S) == ClosedIn(items, S)

\* The objects made hold only each other, and the place d refers to one of them;
\* the others are what they were until something is deleted.
Cloned(d, s, made, it) ==
    /\ made \in SUBSET (Obj \ Live) /\ ClosedIn(it, made) /\ \A c \in made : items[c] = <<>>
    /\ \A c \in Container \ made : c # d[1] => it[c] = items[c]
    /\ At(d) # None /\ At(s) \in Obj => it[d[1]][d[2]] \in made
    /\ FiniteItems(it)
    /\ \E kd, cn : /\ \A o \in Obj : cn[o] = RefCount(it, o)
                   /\ items' = [c \in Container |-> IF c \in Deleted(kd, it, cn) THEN <<>> ELSE it[c]]

\* The parts of the state Clone makes: the object each new one is the copy of, the
\* value that is put into d, and the kinds, items and capacities with the copies.
CloneOf(P, new) == [o \in Range(new) |-> CHOOSE q \in P : new[q] = o]

\* What Clone makes of v: the destination gets this.
CloneTop(v, new) == IF v \in Obj THEN new[<<<<>>, v>>] ELSE v

\* The kinds, items, room and counts of the copies: the objects made, each the
\* copy of the path of[o].
CloneKinds(made, of) == [o \in Obj |-> IF o \in made THEN kind[of[o][2]] ELSE kind[o]]

CloneItems(made, of, new, W) ==
    [c \in Obj \cup {Root} |->
       IF c \in made
       THEN [i \in DOMAIN items[of[c][2]] |->
               IF items[of[c][2]][i] \in Obj
               THEN new[<<Append(of[c][1], i), items[of[c][2]][i]>>]
               ELSE items[of[c][2]][i]]
       ELSE W[c]]

CloneCaps(made, of) ==
    [o \in Obj |-> IF o \in made /\ IsList(of[o][2])
                   THEN Grow(0, Len(items[of[o][2]])) ELSE cap[o]]

CloneMade(made) == [o \in Obj |-> IF o \in made THEN 1 ELSE 0]

\* Clone: the temporary gives up the reference to the first object made, and the
\* others have the one of the container that holds them.
LEMMA CloneMakes ==
    ASSUME HeapAssumption, Exact, NEW d, IsPlace(d), NEW s, IsPlace(s), Clone(d, s)
    PROVE  /\ HeapOK(kind', items', count') /\ CapOK(kind', items', cap')
           /\ bad' = "no" => \E made, it : Cloned(d, s, made, it)
<1> DEFINE v == At(s)
           path == Path(v)
           N == Cardinality(Obj)
           P == UNION {path[n] : n \in 0 .. N}
<1>1. v \in LiveValue(kind) /\ N \in Nat /\ WellFormed(kind, items) /\ CapOK(kind, items, cap)
      /\ (\A x \in Obj : count[x] = RefCount(items, x)) /\ kind \in [Obj -> Kind \cup {"free"}]
      /\ DOMAIN items = Container
  <2>1. WellFormed(kind, items)
      BY DEF Exact, HeapOK
  <2>2. N \in Nat
      BY FS_CardinalityType DEF HeapAssumption
  <2>3. v \in LiveValue(kind)
      BY <2>1, PlaceHolds
  <2> QED
      BY <2>1, <2>2, <2>3 DEF Exact, HeapOK, WellFormed
<1>2. CASE path[N] # {}
  <2>1. UNCHANGED <<items, kind, count, cap>> /\ bad' # "no"
      BY <1>2 DEF Clone, Fail
  <2> QED
      BY <2>1, SameKept DEF Kept
<1>3. CASE path[N] = {}
  <2>1. PICK new \in Injection(P, Obj \ Live) :
          Settle(CloneKinds(Range(new), CloneOf(P, new)),
                 CloneItems(Range(new), CloneOf(P, new), new, Write(d, Put(At(d), CloneTop(v, new)))),
                 CloneCaps(Range(new), CloneOf(P, new)),
                 Sum(CloneMade(Range(new)), Takes(At(d), CloneTop(v, new))),
                 Sum(GivesUp(At(d)), One(CloneTop(v, new))))
      BY <1>3, Zenon DEF Clone, CloneOf, CloneTop, CloneKinds, CloneItems, CloneCaps, CloneMade
  <2>2. Tree(P, v)
      BY <1>1, <1>3, PathsAreATree
  <2> HIDE DEF v, path, N, P
  <2>3. PICK made : made = Range(new)
      OBVIOUS
  <2>o. PICK of : of = CloneOf(P, new)
      OBVIOUS
  <2>t. PICK top : top = CloneTop(v, new)
      OBVIOUS
  <2>k. PICK kd : kd = CloneKinds(made, of)
      OBVIOUS
  <2>7. PICK W : W = Write(d, Put(At(d), top))
      OBVIOUS
  <2>i. PICK it : it = CloneItems(made, of, new, W)
      OBVIOUS
  <2>c. PICK cp : cp = CloneCaps(made, of)
      OBVIOUS
  <2>n. PICK inc : inc = Sum(CloneMade(made), Takes(At(d), top))
      OBVIOUS
  <2>11. PICK dec : dec = Sum(GivesUp(At(d)), One(top))
      OBVIOUS
  <2>12. Settle(kd, it, cp, inc, dec)
      BY <2>1, <2>3, <2>o, <2>t, <2>k, <2>7, <2>i, <2>c, <2>n, <2>11, Zenon
  <2>4. of = [o \in made |-> CHOOSE q \in P : new[q] = o]
      BY <2>3, <2>o DEF CloneOf
  <2>5. top = IF v \in Obj THEN new[<<<<>>, v>>] ELSE v
      BY <2>t DEF CloneTop
  <2>6. kd = [o \in Obj |-> IF o \in made THEN kind[of[o][2]] ELSE kind[o]]
      BY <2>k DEF CloneKinds
  <2>8. it = [c \in Container |->
                IF c \in made
                THEN [i \in DOMAIN items[of[c][2]] |->
                        IF items[of[c][2]][i] \in Obj
                        THEN new[<<Append(of[c][1], i), items[of[c][2]][i]>>]
                        ELSE items[of[c][2]][i]]
                ELSE W[c]]
      BY <2>i DEF CloneItems, Container
  <2>9. cp = [o \in Obj |-> IF o \in made /\ IsList(of[o][2])
                            THEN Grow(0, Len(items[of[o][2]])) ELSE cap[o]]
      BY <2>c DEF CloneCaps
  <2>10. inc = Sum([o \in Obj |-> IF o \in made THEN 1 ELSE 0], Takes(At(d), top))
      BY <2>n DEF CloneMade
  <2>13. Copies(P, new, of, made, W, it)
    <3>1. new \in [P -> Obj \ Live] /\ \A q, r \in P : new[q] = new[r] => q = r
        BY <2>1 DEF Injection, IsInjective
    <3>2. made \subseteq Obj \ Live /\ \A o : o \in made <=> \E q \in P : new[q] = o
        BY <2>3, <3>1 DEF Range
    <3>3. ASSUME NEW o \in made PROVE of[o] \in P /\ new[of[o]] = o
      <4>1. \E q \in P : new[q] = o
          BY <3>2
      <4>2. of[o] = CHOOSE q \in P : new[q] = o
          BY <2>4
      <4> QED
          BY <4>1, <4>2
    <3>4. ASSUME NEW q \in P PROVE new[q] \in made /\ of[new[q]] = q
      <4>1. new[q] \in made
          BY <3>2
      <4> QED
          BY <4>1, <3>1, <3>3
    <3>5. DOMAIN it = Container /\ \A c \in Container \ made : it[c] = W[c]
        BY <2>8
    <3>6. ASSUME NEW c \in made PROVE IsCopy(new, of[c], it[c])
      <4>1. c \in Container
          BY <3>2 DEF Container
      <4> QED
          BY <4>1, <2>8 DEF IsCopy
    <3> QED
        BY <3>2, <3>3, <3>4, <3>5, <3>6 DEF Copies
  <2>14. /\ made \subseteq Obj \ Live
         /\ \A q \in P : new[q] \in made /\ of[new[q]] = q
         /\ \A o \in made : of[o] \in P /\ new[of[o]] = o /\ IsCopy(new, of[o], it[o])
         /\ DOMAIN it = Container
         /\ \A c \in Container \ made : it[c] = W[c]
      BY <2>13 DEF Copies
  <2>15. \A q \in P : q[2] \in Obj /\ kind[q[2]] # "free"
      BY <2>2 DEF Tree, PathTo
  <2>16. /\ kd \in [Obj -> Kind \cup {"free"}]
         /\ \A o \in made : kd[o] = kind[of[o][2]] /\ kd[o] # "free"
         /\ \A o \in Obj \ made : kd[o] = kind[o]
    <3>1. ASSUME NEW o \in made PROVE kd[o] = kind[of[o][2]] /\ kd[o] # "free" /\ kd[o] \in Kind
      <4>1. kd[o] = kind[of[o][2]]
          BY <2>6, <2>14
      <4>2. of[o][2] \in Obj /\ kind[of[o][2]] # "free"
          BY <2>14, <2>15
      <4> QED
          BY <4>1, <4>2, <1>1
    <3>2. ASSUME NEW o \in Obj \ made PROVE kd[o] = kind[o]
        BY <2>6
    <3>3. kd = [o \in Obj |-> kd[o]] /\ \A o \in Obj : kd[o] \in Kind \cup {"free"}
        BY <2>6, <3>1, <3>2, <1>1
    <3> QED
        BY <3>1, <3>2, <3>3
  <2>17. /\ WellFormed(kd, items) /\ CapOK(kd, items, cap)
         /\ LiveValue(kind) \subseteq LiveValue(kd)
         /\ \A o \in made : items[o] = <<>>
    <3>1. \A o \in Live : kd[o] = kind[o]
        BY <2>14, <2>16 DEF Live
    <3> QED
        BY <2>14, <2>16, <3>1, NewObjects
  <2>18. \A o \in made : o \in LiveValue(kd)
      BY <2>14, <2>16 DEF LiveValue
  <2>19. top \in LiveValue(kd)
    <3>1. CASE v \in Obj
      <4>1. <<<<>>, v>> \in P
          BY <2>2, <3>1 DEF Tree
      <4> QED
          BY <4>1, <3>1, <2>5, <2>14, <2>18
    <3>2. CASE v \notin Obj
        BY <3>2, <2>5, <2>17, <1>1
    <3> QED
        BY <3>1, <3>2
  <2>20. ASSUME NEW x \in Obj
         PROVE  One(top)[x] = IF x \in made /\ of[x] = <<<<>>, v>> THEN 1 ELSE 0
    <3>1. CASE v \in Obj
      <4>1. PICK r \in P : r = <<<<>>, v>>
          BY <2>2, <3>1 DEF Tree
      <4>2. top = new[r] /\ top \in made /\ of[top] = r
          BY <3>1, <4>1, <2>5, <2>14
      <4>3. x = top <=> x \in made /\ of[x] = r
          BY <4>2, <2>14
      <4> QED
          BY <4>1, <4>3 DEF One
    <3>2. CASE v \notin Obj
      <4>1. top \notin Obj
          BY <3>2, <2>5
      <4>2. ~(x \in made /\ of[x] = <<<<>>, v>>)
        <5> SUFFICES ASSUME x \in made, of[x] = <<<<>>, v>> PROVE FALSE
            OBVIOUS
        <5>1. of[x][2] \in Obj
            BY <2>14, <2>15
        <5>2. of[x][2] = v
            OBVIOUS
        <5> QED
            BY <5>1, <5>2, <3>2
      <4> QED
          BY <4>1, <4>2 DEF One
    <3> QED
        BY <3>1, <3>2
  <2>21. PICK w : w = Put(At(d), top)
      OBVIOUS
  <2>22. w \in LiveValue(kd)
      BY <2>19, <2>21 DEF Put, LiveValue
  <2>23. /\ d[1] \in Container /\ d[2] \in DOMAIN items[d[1]] /\ items[d[1]][d[2]] = At(d)
         /\ At(d) \in LiveValue(kind)
      BY <1>1, PlaceHolds DEF IsPlace, At
  <2>24. Written(items, W, d[1], d[2], w)
      BY <1>1, <2>7, <2>21, <2>23 DEF Written, SameBut, Write
  <2>25. /\ WellFormed(kd, W)
         /\ \A o \in Obj : /\ RefCount(items, o) \in Nat
                           /\ RefCount(W, o) = RefCount(items, o) + One(w)[o] - One(items[d[1]][d[2]])[o]
         /\ \A o \in Obj : kd[o] = "list" => Len(W[o]) = Len(items[o])
      BY <2>17, <2>22, <2>23, <2>24, WriteRefs
  <2>26. \A c \in made : W[c] = <<>>
    <3> TAKE c \in made
    <3>1. c # d[1]
        BY <2>17, <2>23, NoItems
    <3>2. c \in Container
        BY <2>14 DEF Container
    <3> QED
        BY <3>1, <3>2, <2>17, <2>24 DEF Written, SameBut
  <2>27. ASSUME NEW o \in made
         PROVE  /\ ItemsFor(kd, o, it[o])
                /\ kind[of[o][2]] = "list" => Len(it[o]) = Len(items[of[o][2]]) /\ Len(it[o]) \in Nat
    <3>1. PICK q \in P : q = of[o]
        BY <2>14
    <3>2. PICK g : g = it[o]
        OBVIOUS
    <3>3. IsCopy(new, q, g) /\ o \in Obj /\ kd[o] = kind[q[2]]
        BY <3>1, <3>2, <2>14, <2>16
    <3>4. \A r \in P : new[r] \in LiveValue(kd)
        BY <2>14, <2>18
    <3>5. /\ ItemsFor(kd, o, g)
          /\ kind[q[2]] = "list" => Len(g) = Len(items[q[2]]) /\ Len(g) \in Nat
        BY <2>2, <3>3, <3>4, CopyItems
    <3> QED
        BY <3>1, <3>2, <3>5
  <2>28. WellFormed(kd, it)
    <3>1. made \in SUBSET Obj
        BY <2>14
    <3>2. DOMAIN it = Container /\ (\A c \in Container \ made : it[c] = W[c]) /\ WellFormed(kd, W)
        BY <2>14, <2>25
    <3>3. \A c \in made : ItemsFor(kd, c, it[c])
        BY <2>27
    <3> QED
        BY <3>1, <3>2, <3>3, ItemsReplaced
  <2>29. ASSUME NEW x \in Obj PROVE count[x] + inc[x] - dec[x] = RefCount(it, x)
    <3>1. FiniteItems(W)
        BY <2>25, WellFormedItems
    <3>2. /\ RefCount(W, x) \in Nat
          /\ RefCount(it, x) = RefCount(W, x) + (IF x \in made /\ of[x] # <<<<>>, v>> THEN 1 ELSE 0)
        BY <2>2, <2>13, <2>26, <3>1, CopiesCounted
    <3>3. RefCount(W, x) = count[x] + One(w)[x] - One(At(d))[x] /\ count[x] \in Nat
        BY <1>1, <2>23, <2>25
    <3>4. inc[x] = (IF x \in made THEN 1 ELSE 0) + Takes(At(d), top)[x]
        BY <2>10 DEF Sum
    <3>5. dec[x] = One(At(d))[x] + One(top)[x]
        BY <2>11 DEF Sum, GivesUp
    <3>6. One(w)[x] = Takes(At(d), top)[x]
        BY <2>21 DEF Put, Takes, One, Nothing, HeapAssumption
    <3>7. One(w)[x] \in Nat /\ One(At(d))[x] \in Nat
        BY OneNat
    <3>8. (IF x \in made THEN 1 ELSE 0) = One(top)[x] + (IF x \in made /\ of[x] # <<<<>>, v>> THEN 1 ELSE 0)
        BY <2>20
    <3>9. One(top)[x] \in Nat
        BY OneNat
    <3>10. PICK m \in Nat : m = IF x \in made THEN 1 ELSE 0
        OBVIOUS
    <3>11. PICK n \in Nat : n = IF x \in made /\ of[x] # <<<<>>, v>> THEN 1 ELSE 0
        OBVIOUS
    <3>12. m = One(top)[x] + n /\ inc[x] = m + One(w)[x] /\ RefCount(it, x) = RefCount(W, x) + n
        BY <3>2, <3>4, <3>6, <3>8, <3>10, <3>11
    <3> QED
        BY <3>3, <3>5, <3>7, <3>9, <3>12
  <2>30. CapOK(kd, it, cp)
    <3>1. cap \in [Obj -> Nat]
        BY <1>1 DEF CapOK
    <3>2. ASSUME NEW o \in Obj
          PROVE  cp[o] \in Nat /\ (kd[o] = "list" => Len(it[o]) <= cp[o])
      <4>1. CASE o \in made /\ kind[of[o][2]] = "list"
        <5>1. IsList(of[o][2])
            BY <4>1, <2>14, <2>15 DEF IsList
        <5>2. PICK n \in Nat : n = Len(it[o])
            BY <4>1, <2>27
        <5>3. cp[o] = Grow(0, n)
            BY <4>1, <5>1, <5>2, <2>9, <2>27
        <5>4. Grow(0, n) \in Nat /\ n <= Grow(0, n)
            BY GrowEnough
        <5> QED
            BY <5>2, <5>3, <5>4
      <4>2. CASE o \in made /\ kind[of[o][2]] # "list"
        <5>1. ~IsList(of[o][2]) /\ kd[o] # "list"
            BY <4>2, <2>16 DEF IsList
        <5>2. cp[o] = cap[o]
            BY <5>1, <2>9
        <5> QED
            BY <5>1, <5>2, <3>1
      <4>3. CASE o \notin made
        <5>1. cp[o] = cap[o] /\ it[o] = W[o]
            BY <4>3, <2>9, <2>14 DEF Container
        <5>2. kd[o] = "list" => Len(W[o]) = Len(items[o]) /\ Len(items[o]) <= cap[o]
            BY <2>17, <2>25 DEF CapOK
        <5> QED
            BY <5>1, <5>2, <3>1
      <4> QED
          BY <4>1, <4>2, <4>3
    <3>3. cp = [o \in Obj |-> cp[o]]
        BY <2>9
    <3> QED
        BY <3>2, <3>3 DEF CapOK
  <2>31. HeapOK(kind', items', count') /\ CapOK(kind', items', cap')
      BY <2>12, <2>28, <2>29, <2>30, SettleKeeps
  <2>32. ClosedIn(it, made)
    <3> SUFFICES ASSUME NEW c \in made, NEW i \in DOMAIN it[c], it[c][i] \in Obj PROVE it[c][i] \in made
        BY DEF ClosedIn
    <3>1. PICK q \in P : q = of[c]
        BY <2>14
    <3>2. PICK g : g = it[c]
        OBVIOUS
    <3>3. IsCopy(new, q, g)
        BY <3>1, <3>2, <2>14
    <3>4. g[i] \notin {Undef, None}
        BY <3>2 DEF HeapAssumption
    <3>5. PICK r \in P : g[i] = new[r]
        BY <3>2, <3>3, <3>4, <2>2, CopyIs
    <3> QED
        BY <3>2, <3>5, <2>14
  <2>33. \A c \in Container \ made : c # d[1] => it[c] = items[c]
      BY <2>14, <2>24 DEF Written, SameBut
  <2>34. ASSUME At(d) # None, At(s) \in Obj PROVE it[d[1]][d[2]] \in made
    <3>1. <<<<>>, v>> \in P
        BY <2>2, <2>34 DEF Tree, v
    <3>2. top \in made
        BY <3>1, <2>34, <2>5, <2>14 DEF v
    <3>3. d[1] \notin made
        BY <2>17, <2>23, NoItems
    <3>4. it[d[1]][d[2]] = w
        BY <3>3, <2>14, <2>23, <2>24 DEF Written
    <3> QED
        BY <3>2, <3>4, <2>21, <2>34 DEF Put
  <2>35. FiniteItems(it)
      BY <2>28, WellFormedItems
  <2>36. PICK cn : cn = [o \in Obj |-> count[o] + inc[o] - dec[o]]
      OBVIOUS
  <2>37. /\ \A o \in Obj : cn[o] = RefCount(it, o)
         /\ items' = [c \in Container |-> IF c \in Deleted(kd, it, cn) THEN <<>> ELSE it[c]]
      BY <2>12, <2>29, <2>36, SettleIs
  <2>38. made \in SUBSET (Obj \ Live) /\ \A c \in made : items[c] = <<>>
      BY <2>14, <2>17
  <2>39. Cloned(d, s, made, it)
      BY <2>32, <2>33, <2>34, <2>35, <2>37, <2>38 DEF Cloned
  <2> QED
      BY <2>31, <2>39
<1> QED
    BY <1>2, <1>3

\* The counts stay exact.
LEMMA CloneKeeps ==
    ASSUME HeapAssumption, Exact, NEW d, IsPlace(d), NEW s, IsPlace(s), Clone(d, s)
    PROVE  HeapOK(kind', items', count') /\ CapOK(kind', items', cap')
    BY CloneMakes

-----------------------------------------------------------------------------
(* What is left over.                                                      *)

\* ReachableIn(it, C) is the least closed set that has C.
LEMMA ReachableInIs ==
    ASSUME NEW it, NEW C
    PROVE  /\ C \subseteq ReachableIn(it, C) /\ ReachableIn(it, C) \subseteq C \cup Obj
           /\ ClosedIn(it, ReachableIn(it, C))
           /\ \A S : C \subseteq S /\ ClosedIn(it, S) => ReachableIn(it, C) \subseteq S
<1> DEFINE closed == {S \in {C \cup T : T \in SUBSET (Obj \ C)} : ClosedIn(it, S)}
           R == ReachableIn(it, C)
<1>1. R = {c \in C \cup Obj : \A S \in closed : c \in S}
    BY DEF ReachableIn, ClosedIn
<1>2. \A S : S \in closed => C \subseteq S /\ ClosedIn(it, S)
    OBVIOUS
<1>3. ASSUME NEW S, C \subseteq S, ClosedIn(it, S) PROVE R \subseteq S
  <2>1. PICK Q : Q = S \cap (C \cup Obj)
      OBVIOUS
  <2>2. ClosedIn(it, Q)
      BY <1>3, <2>1 DEF ClosedIn
  <2>3. Q = C \cup (Q \ C) /\ Q \ C \in SUBSET (Obj \ C)
      BY <1>3, <2>1
  <2>4. Q \in closed
      BY <2>2, <2>3
  <2> HIDE DEF closed, R
  <2> QED
      BY <2>1, <2>4, <1>1
<1>4. C \subseteq R /\ R \subseteq C \cup Obj
  <2> HIDE DEF closed, R
  <2> QED
      BY <1>1, <1>2
<1>5. ClosedIn(it, R)
  <2> HIDE DEF closed, R
  <2>1. ASSUME NEW c \in R, NEW i \in DOMAIN it[c], it[c][i] \in Obj PROVE it[c][i] \in R
    <3>1. ASSUME NEW S \in closed PROVE it[c][i] \in S
        BY <2>1, <1>1, <1>2 DEF ClosedIn
    <3> QED
        BY <2>1, <3>1, <1>1
  <2> QED
      BY <2>1 DEF ClosedIn
<1> QED
    BY <1>3, <1>4, <1>5

\* The same for the items as they are.
LEMMA ReachableIs ==
    ASSUME NEW C
    PROVE  /\ C \subseteq Reachable(C) /\ Reachable(C) \subseteq C \cup Obj
           /\ Closed(Reachable(C))
           /\ \A S : C \subseteq S /\ Closed(S) => Reachable(C) \subseteq S
    BY ReachableInIs DEF Reachable, Closed

\* An object that no variable reaches is held by another one of that kind; of those
\* that reach it, one that reaches the most holds itself.
LEMMA NothingElseLeaks ==
    ASSUME HeapAssumption, Exact
    PROVE  OnlyCyclesLeak
<1> DEFINE D(x) == Reachable({x})
           U == Live \ Reachable({Root})
           N == Cardinality(Obj)
<1> SUFFICES ASSUME NEW o \in U
             PROVE  \E c \in Live : OnCycle(c) /\ o \in Reachable({c})
    BY DEF OnlyCyclesLeak
<1>1. N \in Nat /\ IsFiniteSet(Obj)
    BY FS_CardinalityType DEF HeapAssumption
<1>2. U \subseteq Obj /\ U \subseteq Live
    BY DEF Live
<1>3. \A x \in U : D(x) \in SUBSET Obj /\ x \in D(x)
    BY <1>2, ReachableIs
<1>4. \A x \in U : IsFiniteSet(D(x)) /\ Cardinality(D(x)) \in Nat /\ Cardinality(D(x)) <= N
  <2> TAKE x \in U
  <2>1. D(x) \in SUBSET Obj
      BY <1>3
  <2> HIDE DEF D, U
  <2> QED
      BY <2>1, <1>1, FS_Subset, FS_CardinalityType
<1>5. ASSUME NEW x \in U
      PROVE  \E y \in U : \E i \in DOMAIN items[y] : items[y][i] = x
  <2>1. count[x] # 0 /\ count[x] = RefCount(items, x)
      BY <1>2 DEF Exact, HeapOK, Live
  <2>2. RefsFrom(items, Container, x) # {}
      BY <2>1, FS_EmptySet DEF RefCount
  <2>3. PICK y \in Container : \E i \in DOMAIN items[y] : items[y][i] = x
      BY <2>2, InRefsFrom
  <2>4. PICK i \in DOMAIN items[y] : items[y][i] = x
      BY <2>3
  <2>5. y \notin Reachable({Root})
    <3>1. Closed(Reachable({Root}))
        BY ReachableIs
    <3>2. x \in Obj /\ x \notin Reachable({Root})
        BY <1>2
    <3> QED
        BY <2>4, <3>1, <3>2 DEF Closed, ClosedIn
  <2>6. y # Root
    <3>1. Root \in Reachable({Root})
        BY ReachableIs
    <3> QED
        BY <3>1, <2>5
  <2>7. y \in Live
    <3>1. y \in Obj
        BY <2>6 DEF Container
    <3>2. kind[y] = "free" => items[y] = <<>>
        BY <3>1 DEF Exact, HeapOK, WellFormed
    <3> QED
        BY <3>1, <3>2, <2>4, NoItems DEF Live
  <2> QED
      BY <2>4, <2>5, <2>7
<1>6. ASSUME NEW x \in U, NEW y \in U, NEW i \in DOMAIN items[y], items[y][i] = x
      PROVE  D(x) \subseteq D(y)
  <2>1. Closed(D(y)) /\ y \in D(y)
      BY ReachableIs
  <2>2. x \in D(y)
      BY <1>2, <1>6, <2>1 DEF Closed, ClosedIn
  <2>3. {x} \subseteq D(y)
      BY <2>2
  <2> QED
      BY <2>1, <2>3, ReachableIs
<1> HIDE DEF D, U, N
<1> DEFINE A == {x \in U : o \in D(x)}
<1>7. \E x \in A : \A y \in A : Cardinality(D(y)) <= Cardinality(D(x))
  <2> DEFINE T == {N - Cardinality(D(x)) : x \in A}
  <2>1. T \in SUBSET Nat
      BY <1>1, <1>4
  <2>2. o \in A
      BY <1>3
  <2>3. T # {}
      BY <2>2
  <2>4. PICK n \in T : \A m \in T : n <= m
      BY <2>1, <2>3, LeastNatural
  <2>5. PICK x \in A : n = N - Cardinality(D(x))
      BY <2>4
  <2>6. ASSUME NEW y \in A PROVE Cardinality(D(y)) <= Cardinality(D(x))
    <3>1. n <= N - Cardinality(D(y))
        BY <2>4
    <3> QED
        BY <3>1, <2>5, <1>1, <1>4
  <2> QED
      BY <2>5, <2>6
<1>8. PICK x \in A : \A y \in A : Cardinality(D(y)) <= Cardinality(D(x))
    BY <1>7
<1>9. PICK y \in U : \E i \in DOMAIN items[y] : items[y][i] = x
    BY <1>5
<1>10. PICK i \in DOMAIN items[y] : items[y][i] = x
    BY <1>9
<1>11. D(x) \subseteq D(y) /\ y \in A
    BY <1>6, <1>10
<1>12. D(x) = D(y)
  <2>1. Cardinality(D(x)) <= Cardinality(D(y)) /\ Cardinality(D(y)) <= Cardinality(D(x))
        /\ (Cardinality(D(y)) = Cardinality(D(x)) => D(y) = D(x))
      BY <1>4, <1>8, <1>11, FS_Subset
  <2> QED
      BY <2>1, <1>4
<1>13. y \in D(x) /\ o \in D(y) /\ y \in Live
    BY <1>2, <1>3, <1>11, <1>12
<1>14. OnCycle(y)
  <2>1. {items[y][i]} \cap Obj = {x}
      BY <1>2, <1>10
  <2> QED
      BY <2>1, <1>10, <1>13 DEF OnCycle, D
<1> QED
    BY <1>13, <1>14 DEF D

-----------------------------------------------------------------------------
\* The reasons for which a behaviour becomes undefined.
Reasons == {"no", "source", "buffer", "range", "type", "container", "endless"}

\* No call of Update begins, ends or goes on.
Quiet == frames' = frames /\ bad' \in {bad} \cup Reasons

\* Operations on lists and dicts are done when they return.
LEMMA ListsQuiet ==
    ASSUME NEW p, NEW q, NEW a, NEW b,
           \/ PushBack(p, q) \/ PushFront(p, q) \/ PopBack(p) \/ PopFront(p) \/ Erase(p, a)
           \/ EraseFromTo(p, a, b) \/ Extend(p, q) \/ AddAssign(p, q) \/ Truncate(p, a) \/ Repeat(p, a)
    PROVE  Quiet
<1>1. ASSUME NEW o, NEW f, NEW inc, NEW dec, SetList(o, f, inc, dec)
      PROVE  Quiet
    BY <1>1 DEF SetList, Quiet
<1>2. ASSUME NEW why \in Reasons, Fail(why)
      PROVE  Quiet
    BY <1>2 DEF Fail, Quiet
<1>3. ASSUME NEW o, NEW x, NEW y, EraseRange(o, x, y)
      PROVE  Quiet
    BY <1>1, <1>3 DEF EraseRange
<1>4. ASSUME NEW x, NEW y, AppendAll(x, y)
      PROVE  Quiet
    BY <1>1, <1>2, <1>4 DEF AppendAll, Reasons
<1>5. ASSUME NEW x, NEW y, PushBack(x, y)
      PROVE  Quiet
    BY <1>1, <1>5 DEF PushBack
<1>6. ASSUME PushFront(p, q)
      PROVE  Quiet
    BY <1>1, <1>6 DEF PushFront
<1>7. ASSUME PopBack(p)
      PROVE  Quiet
    BY <1>1, <1>7 DEF PopBack
<1>8. ASSUME PopFront(p) \/ Erase(p, a)
      PROVE  Quiet
    BY <1>3, <1>8 DEF PopFront, Erase
<1>9. ASSUME EraseFromTo(p, a, b)
      PROVE  Quiet
    BY <1>2, <1>3, <1>9 DEF EraseFromTo, Reasons
<1>10. ASSUME Extend(p, q) \/ AddAssign(p, q)
       PROVE  Quiet
    BY <1>2, <1>4, <1>5, <1>10 DEF Extend, AddAssign, Reasons
<1>11. ASSUME Truncate(p, a)
       PROVE  Quiet
    BY <1>1, <1>11 DEF Truncate
<1>12. ASSUME Repeat(p, a)
       PROVE  Quiet
    BY <1>12 DEF Repeat, Quiet
<1> QED
    BY <1>5, <1>6, <1>7, <1>8, <1>9, <1>10, <1>11, <1>12

\* So are the others, but Update.
LEMMA ValuesQuiet ==
    ASSUME NEW p, NEW q, NEW k,
           \/ Reset(p) \/ Clear(p) \/ Create(p, k) \/ Get(p, k) \/ EraseKey(p, k)
           \/ Assign(p, q) \/ Swap(p, q) \/ Clone(p, q) \/ Set(p, k, q)
    PROVE  Quiet
<1>1. ASSUME NEW why \in Reasons, Fail(why)
      PROVE  Quiet
    BY <1>1 DEF Fail, Quiet
<1>2. ASSUME NEW d, NEW s, Assign(d, s)
      PROVE  Quiet
  <2>1. CASE UNCHANGED <<frames, bad>>
      BY <2>1 DEF Quiet
  <2>2. CASE Fail("source")
      BY <2>2, <1>1 DEF Reasons
  <2> QED
      BY <1>2, <2>1, <2>2 DEF Assign, vars
<1>3. ASSUME Reset(p) \/ Clear(p) \/ Swap(p, q)
      PROVE  Quiet
    BY <1>3 DEF Reset, Clear, Swap, Quiet
<1>4. ASSUME Create(p, k)
      PROVE  Quiet
    BY <1>4 DEF Create, Quiet
<1>5. ASSUME Get(p, k) \/ EraseKey(p, k)
      PROVE  Quiet
    BY <1>5 DEF Get, EraseKey, Quiet
<1>6. ASSUME Set(p, k, q)
      PROVE  Quiet
  <2>1. CASE UNCHANGED <<frames, bad>>
      BY <2>1 DEF Quiet
  <2> QED
      BY <1>2, <1>6, <2>1 DEF Set
<1>7. ASSUME Clone(p, q)
      PROVE  Quiet
  <2>1. CASE UNCHANGED <<frames, bad>>
      BY <2>1 DEF Quiet
  <2>2. CASE Fail("endless")
      BY <2>2, <1>1 DEF Reasons
  <2> QED
      BY <1>7, <2>1, <2>2 DEF Clone
<1> QED
    BY <1>2, <1>3, <1>4, <1>5, <1>6, <1>7

\* An operation of the client keeps the counts exact.
LEMMA OperationKeeps ==
    ASSUME HeapAssumption, Exact, Operation
    PROVE  \/ /\ HeapOK(kind', items', count') /\ CapOK(kind', items', cap')
              /\ Quiet
           \/ \E p, q : Update(p, q)
<1> DEFINE Done == HeapOK(kind', items', count') /\ CapOK(kind', items', cap') /\ Quiet
<1>1. ASSUME Kept(kind) PROVE HeapOK(kind', items', count') /\ CapOK(kind', items', cap')
    BY <1>1 DEF Kept
<1>2. WellFormed(kind, items)
    BY DEF Exact, HeapOK
<1>3. PICK p \in Place :
         \/ Reset(p) \/ Clear(p) \/ PopBack(p) \/ PopFront(p)
         \/ \E k \in Kind : Create(p, k)
         \/ \E k \in Key : Get(p, k) \/ EraseKey(p, k)
         \/ \E i \in 1 .. MaxItems : Erase(p, i) \/ Truncate(p, i - 1)
         \/ \E a, b \in 1 .. MaxItems + 1 : EraseFromTo(p, a, b)
         \/ \E n \in {0, 2} : Repeat(p, n)
         \/ \E q \in Place :
              \/ Assign(p, q) \/ Swap(p, q) \/ Clone(p, q)
              \/ PushBack(p, q) \/ PushFront(p, q) \/ Extend(p, q) \/ AddAssign(p, q)
              \/ Update(p, q)
              \/ \E k \in Key : Set(p, k, q)
    BY DEF Operation
<1>4. IsPlace(p)
    BY <1>2, PlaceIs
<1>5. ASSUME Reset(p) \/ Clear(p) PROVE Done
    BY <1>1, <1>4, <1>5, ResetKeeps, ClearKeeps, ValuesQuiet
<1>6. ASSUME PopBack(p) PROVE Done
    BY <1>1, <1>6, PopBackKeeps, ListsQuiet
<1>7. ASSUME PopFront(p) PROVE Done
  <2>1. 0 \in Nat
      OBVIOUS
  <2> QED
      BY <1>1, <1>7, <2>1, EraseKeeps, ListsQuiet
<1>8. ASSUME NEW k \in Kind, Create(p, k) PROVE Done
    BY <1>4, <1>8, CreateKeeps, ValuesQuiet
<1>9. ASSUME NEW k \in Key, Get(p, k) \/ EraseKey(p, k) PROVE Done
    BY <1>1, <1>9, GetKeeps, EraseKeyKeeps, ValuesQuiet
<1>10. ASSUME NEW i \in 1 .. MaxItems, Erase(p, i) \/ Truncate(p, i - 1) PROVE Done
  <2>1. i \in Nat /\ i - 1 \in Nat
      BY DEF HeapAssumption
  <2>2. PICK n \in Nat : n = i - 1
      BY <2>1
  <2>3. CASE Erase(p, i)
      BY <1>1, <2>1, <2>3, EraseKeeps, ListsQuiet
  <2>4. CASE Truncate(p, i - 1)
    <3>1. Truncate(p, n)
        BY <2>2, <2>4
    <3> QED
        BY <1>1, <3>1, TruncateKeeps, ListsQuiet
  <2> QED
      BY <1>10, <2>3, <2>4
<1>11. ASSUME NEW a \in 1 .. MaxItems + 1, NEW b \in 1 .. MaxItems + 1, EraseFromTo(p, a, b) PROVE Done
  <2>1. a \in Nat /\ b \in Nat
      BY DEF HeapAssumption
  <2> QED
      BY <1>1, <1>11, <2>1, EraseKeeps, ListsQuiet
<1>12. ASSUME NEW n \in {0, 2}, Repeat(p, n) PROVE Done
    BY <1>1, <1>12, RepeatKeeps, ListsQuiet
<1>13. ASSUME NEW q \in Place,
              \/ Assign(p, q) \/ Swap(p, q) \/ Clone(p, q)
              \/ PushBack(p, q) \/ PushFront(p, q) \/ Extend(p, q) \/ AddAssign(p, q)
              \/ \E k \in Key : Set(p, k, q)
       PROVE  Done
  <2>1. IsPlace(q)
      BY <1>2, PlaceIs
  <2>2. CASE Assign(p, q) \/ Swap(p, q) \/ Clone(p, q)
      BY <1>1, <1>4, <2>1, <2>2, AssignKeeps, SwapKeeps, CloneKeeps, ValuesQuiet
  <2>3. CASE PushBack(p, q) \/ PushFront(p, q)
      BY <1>1, <2>1, <2>3, PushBackKeeps, PushFrontKeeps, ListsQuiet
  <2>4. CASE Extend(p, q) \/ AddAssign(p, q)
      BY <1>1, <2>1, <2>4, ExtendKeeps, ListsQuiet
  <2>5. ASSUME NEW k \in Key, Set(p, k, q) PROVE Done
      BY <1>1, <2>1, <2>5, SetKeeps, ValuesQuiet
  <2> QED
      BY <1>13, <2>2, <2>3, <2>4, <2>5
<1> HIDE DEF Done
<1>14. Done \/ \E q : Update(p, q)
  <2>1. Reset(p) \/ Clear(p) \/ PopBack(p) \/ PopFront(p) => Done
      BY <1>5, <1>6, <1>7 DEF Done
  <2> QED
      BY <1>3, <2>1, <1>8, <1>9, <1>10, <1>11, <1>12, <1>13
<1> QED
    BY <1>14 DEF Done

\* The reasons Update gives.
LEMMA UpdateReasons ==
    ASSUME UpdateStep \/ UpdateReturn \/ \E p, q : Update(p, q)
    PROVE  bad' \in {bad} \cup Reasons
<1>1. CASE UpdateStep
    BY <1>1 DEF UpdateStep, Fail, Reasons
<1>2. CASE UpdateReturn
    BY <1>2 DEF UpdateReturn, Fail, Reasons
<1>3. CASE \E p, q : Update(p, q)
    BY <1>3 DEF Update
<1> QED
    BY <1>1, <1>2, <1>3

\* The counts are exact in every state: what an operation takes and gives up, and
\* what goes with the objects it deletes, is what it changes in the items.
THEOREM CountsInvariant ==
    ASSUME HeapAssumption
    PROVE  Spec => []IInv
<1>1. Init => IInv
  <2> SUFFICES ASSUME Init PROVE IInv
      OBVIOUS
  <2>1. WellFormed(kind, items)
    <3>1. LiveValue(kind) = {Undef, None}
        BY DEF Init, LiveValue
    <3>2. kind \in [Obj -> Kind \cup {"free"}] /\ DOMAIN items = Container
        BY DEF Init, Container
    <3>3. items[Root] \in [Var \cup {D_NONE} -> {Undef, None}]
        BY DEF Init
    <3>4. \A o \in Obj : kind[o] = "free" /\ items[o] = <<>>
        BY DEF Init, HeapAssumption
    <3> QED
        BY <3>1, <3>2, <3>3, <3>4 DEF WellFormed
  <2>2. ASSUME NEW o \in Obj PROVE RefCount(items, o) = 0
    <3>1. \A c \in Container : \A i \in DOMAIN items[c] : items[c][i] \in LiveValue(kind)
        BY <2>1, WellFormedItems
    <3>2. o \notin LiveValue(kind)
        BY DEF Init, LiveValue, HeapAssumption
    <3>3. RefsFrom(items, Container, o) = {}
        BY <3>1, <3>2, InRefsFrom
    <3> QED
        BY <3>3, FS_EmptySet DEF RefCount
  <2>3. count \in [Obj -> Nat] /\ cap \in [Obj -> Nat] /\ \A o \in Obj : count[o] = 0 /\ kind[o] = "free"
      BY DEF Init
  <2>4. HeapOK(kind, items, count) /\ CapOK(kind, items, cap)
      BY <2>1, <2>2, <2>3 DEF HeapOK, CapOK
  <2>5. frames = <<>> /\ bad = "no"
      BY DEF Init
  <2> QED
      BY <2>4, <2>5 DEF IInv, Exact, FramesOK
<1>2. IInv /\ [Next]_vars => IInv'
  <2> SUFFICES ASSUME IInv, [Next]_vars PROVE IInv'
      OBVIOUS
  <2>1. Exact /\ FramesOK(frames, kind) /\ bad \in Reasons
      BY DEF IInv, Reasons
  <2>2. CASE UNCHANGED vars
    <3>1. UNCHANGED <<items, kind, count, cap, frames, bad>>
        BY <2>2 DEF vars
    <3>2. HeapOK(kind', items', count') /\ CapOK(kind', items', cap') /\ FramesOK(frames', kind')
        BY <2>1, <3>1 DEF Exact
    <3> QED
        BY <2>1, <3>1, <3>2 DEF IInv, Exact, Reasons
  <2>3. CASE /\ HeapOK(kind', items', count') /\ CapOK(kind', items', cap')
             /\ FramesOK(frames', kind') /\ bad' \in {bad} \cup Reasons
      BY <2>1, <2>3 DEF IInv, Exact, Reasons
  <2>4. CASE (\E p, q : Update(p, q)) \/ (frames # <<>> /\ UpdateReturn)
    <3>1. Kept(kind) /\ FramesOK(frames', kind') /\ bad' \in {bad} \cup Reasons
        BY <2>4, UpdateKeeps, UpdateReasons
    <3> QED
        BY <2>3, <3>1 DEF Kept
  <2>5. CASE frames # <<>> /\ UpdateStep
    <3>1. Kept(kind) /\ FramesOK(frames', kind') /\ bad' \in {bad} \cup Reasons
        BY <2>5, UpdateStepKeeps, UpdateReasons
    <3> QED
        BY <2>3, <3>1 DEF Kept
  <2>6. CASE frames = <<>> /\ Operation
    <3>1. CASE HeapOK(kind', items', count') /\ CapOK(kind', items', cap') /\ Quiet
      <4>1. frames' = <<>> /\ bad' \in {bad} \cup Reasons
          BY <2>6, <3>1 DEF Quiet
      <4>2. FramesOK(frames', kind')
          BY <4>1 DEF FramesOK
      <4> QED
          BY <2>3, <3>1, <4>1, <4>2
    <3> QED
        BY <2>1, <2>4, <2>6, <3>1, OperationKeeps
  <2> QED
      BY <2>2, <2>4, <2>5, <2>6 DEF Next
<1> QED
    BY <1>1, <1>2, PTL DEF Spec

\* What the invariant says of the types.
LEMMA InvariantTypes ==
    ASSUME HeapAssumption, IInv
    PROVE  TypeOK
<1>1. WellFormed(kind, items) /\ CapOK(kind, items, cap) /\ count \in [Obj -> Nat]
    BY DEF IInv, Exact, HeapOK
<1>2. kind \in [Obj -> Kind \cup {"free"}] /\ cap \in [Obj -> Nat] /\ DOMAIN items[Root] = Var \cup {D_NONE}
    BY <1>1 DEF WellFormed, CapOK
<1>3. ASSUME NEW c \in Obj \cup {Root}
      PROVE  Range(items[c]) \subseteq Value
  <2>1. \A i \in DOMAIN items[c] : items[c][i] \in LiveValue(kind)
      BY <1>1, WellFormedItems DEF Container
  <2>2. LiveValue(kind) \subseteq Value
      BY DEF LiveValue, Value
  <2> QED
      BY <2>1, <2>2 DEF Range
<1>4. ASSUME NEW o \in Obj
      PROVE  CASE kind[o] = "list" -> DOMAIN items[o] = 1 .. Len(items[o]) /\ Len(items[o]) <= cap[o]
               [] kind[o] = "dict" -> DOMAIN items[o] \subseteq Key
               [] OTHER -> items[o] = <<>>
  <2>1. CASE kind[o] = "list"
    <3>1. items[o] \in Seq(LiveValue(kind)) /\ Len(items[o]) <= cap[o]
        BY <1>1, <2>1 DEF WellFormed, CapOK
    <3> QED
        BY <2>1, <3>1
  <2>2. CASE kind[o] = "dict"
      BY <1>1, <2>2 DEF WellFormed
  <2>3. CASE kind[o] \notin {"list", "dict"}
      BY <1>1, <2>3 DEF WellFormed
  <2> QED
      BY <2>1, <2>2, <2>3
<1>5. bad \in {"no", "source", "buffer", "range", "type", "container", "endless"}
    BY DEF IInv
<1> QED
    BY <1>1, <1>2, <1>3, <1>4, <1>5 DEF TypeOK

\* What the invariant says of the counts.
LEMMA InvariantCounts ==
    ASSUME HeapAssumption, IInv
    PROVE  RefCountsExact
<1> SUFFICES ASSUME NEW o \in Obj
             PROVE  /\ count[o] = Cardinality({p \in Places(Obj \cup {Root}) : At(p) = o})
                    /\ o \in Live <=> count[o] > 0
    BY DEF RefCountsExact
<1>1. count \in [Obj -> Nat] /\ count[o] = RefCount(items, o) /\ (kind[o] = "free" <=> count[o] = 0)
    BY DEF IInv, Exact, HeapOK
<1>2. {p \in Places(Obj \cup {Root}) : At(p) = o} = RefsFrom(items, Container, o)
  <2> DEFINE S == {p \in Places(Obj \cup {Root}) : At(p) = o}
  <2>1. ASSUME NEW p \in S PROVE p \in RefsFrom(items, Container, o)
    <3>1. PICK c \in Container : \E i \in DOMAIN items[c] : p = <<c, i>>
        BY DEF Places, Container
    <3>2. PICK i \in DOMAIN items[c] : p = <<c, i>>
        BY <3>1
    <3>3. items[c][i] = o
        BY <3>2 DEF At
    <3> QED
        BY <3>2, <3>3, InRefsFrom
  <2>2. ASSUME NEW p \in RefsFrom(items, Container, o) PROVE p \in S
    <3>1. PICK c \in Container : \E i \in DOMAIN items[c] : items[c][i] = o /\ p = <<c, i>>
        BY InRefsFrom
    <3>2. PICK i \in DOMAIN items[c] : items[c][i] = o /\ p = <<c, i>>
        BY <3>1
    <3>3. At(p) = o
        BY <3>2 DEF At
    <3> QED
        BY <3>2, <3>3 DEF Places, Container
  <2> QED
      BY <2>1, <2>2
<1>3. o \in Live <=> count[o] > 0
    BY <1>1 DEF Live
<1> QED
    BY <1>1, <1>2, <1>3 DEF RefCount

\* The count of every object is the number of values that refer to it, an object
\* lives as long as it has one, and what no variable reaches hangs from a cycle:
\* the asserts of RefCounted (impl.h) never fail, whatever the client does with
\* shared, nested and cyclic values.
THEOREM CountsAlwaysExact ==
    ASSUME HeapAssumption
    PROVE  Spec => []CountsExact
<1>1. IInv => CountsExact
  <2> SUFFICES ASSUME IInv PROVE CountsExact
      OBVIOUS
  <2>1. OnlyCyclesLeak
      BY NothingElseLeaks DEF IInv
  <2> QED
      BY <2>1, InvariantTypes, InvariantCounts DEF CountsExact
<1> QED
    BY <1>1, CountsInvariant, PTL


-----------------------------------------------------------------------------
(* What a change deletes, and what it does not.                            *)

\* Only what is in a closed set is deleted, if what loses its last reference is.
LEMMA DeletedWithin ==
    ASSUME HeapAssumption, NEW kd, NEW it, NEW cn, FiniteItems(it),
           \A o \in Obj : cn[o] = RefCount(it, o),
           NEW S, ClosedIn(it, S), \A o \in Obj : kd[o] # "free" /\ cn[o] = 0 => o \in S
    PROVE  Deleted(kd, it, cn) \subseteq S
<1> DEFINE live == {o \in Obj : kd[o] # "free"}
           zero == {o \in live : cn[o] = 0}
           F(D) == OnlyFrom(kd, it, cn, D)
           closed == {D \in {zero \cup T : T \in SUBSET (live \ zero)} : F(D) \subseteq D}
           Q == S \cap live
<1>1. Deleted(kd, it, cn) = IF zero = {} THEN {} ELSE {o \in live : \A D \in closed : o \in D}
    BY DEF Deleted
<1>2. zero \subseteq Q /\ Q \subseteq live /\ Q \in SUBSET Container
    BY DEF Container
<1>3. F(Q) \subseteq Q
  <2>1. F(Q) \subseteq live
      BY DEF OnlyFrom
  <2> SUFFICES ASSUME NEW o \in live, o \in F(Q), o \notin S PROVE FALSE
      BY <2>1
  <2>2. \A c \in Container : \A i \in DOMAIN it[c] : it[c][i] = o => c \in Q
    <3>1. o \in Obj /\ o \in OnlyFrom(kd, it, cn, Q)
        OBVIOUS
    <3> HIDE DEF Q
    <3> QED
        BY <3>1, <1>2, OnlyFromIs
  <2>3. \A c \in Container : \A i \in DOMAIN it[c] : it[c][i] # o
      BY <2>2 DEF ClosedIn
  <2>4. RefsFrom(it, Container, o) = {}
      BY <2>3, InRefsFrom
  <2>5. cn[o] = 0
      BY <2>4, FS_EmptySet DEF RefCount
  <2> QED
      BY <2>5
<1>4. Q \in closed
  <2>1. Q = zero \cup (Q \ zero) /\ Q \ zero \in SUBSET (live \ zero)
      BY <1>2
  <2> HIDE DEF Q, zero, live, F
  <2> QED
      BY <2>1, <1>3
<1> HIDE DEF closed, zero
<1> QED
    BY <1>1, <1>4

\* Nothing that the variables reach is deleted.
LEMMA ReachedStays ==
    ASSUME HeapAssumption, NEW kd, NEW it, NEW cn, FiniteItems(it),
           \A o \in Obj : cn[o] = RefCount(it, o), NEW c \in ReachableIn(it, {Root})
    PROVE  c \notin Deleted(kd, it, cn)
<1>1. PICK D : D = Deleted(kd, it, cn)
    OBVIOUS
<1>2. D \in SUBSET {o \in Obj : kd[o] # "free"} /\ OnlyFrom(kd, it, cn, D) = D
    BY <1>1, DeletedIs
<1>3. D \in SUBSET Container /\ Root \in Container \ D
    BY <1>2 DEF Container, HeapAssumption
<1>4. ClosedIn(it, Container \ D)
  <2>1. ASSUME NEW d \in Container \ D, NEW i \in DOMAIN it[d], it[d][i] \in Obj
        PROVE  it[d][i] \in Container \ D
    <3>1. PICK o \in Obj : o = it[d][i]
        BY <2>1
    <3>2. o \notin D
        BY <1>2, <1>3, <3>1, OnlyFromIs
    <3> QED
        BY <3>1, <3>2 DEF Container
  <2> QED
      BY <2>1 DEF ClosedIn
<1> QED
    BY <1>1, <1>3, <1>4, ReachableInIs

\* The counts that go with a change of one container are exact.
LEMMA ChangeCounts ==
    ASSUME HeapAssumption, Exact, NEW c \in Container, NEW f, ItemsFor(kind, c, f),
           NEW inc, NEW dec, Balanced(items[c], f, inc, dec),
           NEW jt, jt = With(c, f), NEW cn, cn = [o \in Obj |-> count[o] + inc[o] - dec[o]]
    PROVE  /\ DOMAIN jt = Container /\ jt[c] = f /\ SameBut(c, items, jt)
           /\ WellFormed(kind, jt) /\ FiniteItems(jt)
           /\ \A o \in Obj : cn[o] = RefCount(jt, o)
<1>1. WellFormed(kind, items) /\ DOMAIN items = Container /\ \A o \in Obj : count[o] = RefCount(items, o)
    BY DEF Exact, HeapOK, WellFormed
<1>2. DOMAIN jt = Container /\ jt[c] = f /\ SameBut(c, items, jt)
    BY <1>1 DEF With, SameBut
<1>3. ItemsFor(kind, c, jt[c])
    BY <1>2
<1>4. /\ WellFormed(kind, jt)
      /\ \A o \in Obj :
            /\ RefCount(items, o) \in Nat /\ RefsOf(items[c], o) \in Nat /\ RefsOf(jt[c], o) \in Nat
            /\ RefCount(jt, o) = RefCount(items, o) + RefsOf(jt[c], o) - RefsOf(items[c], o)
    BY <1>1, <1>2, <1>3, WithItems
<1>5. \A o \in Obj : cn[o] = RefCount(jt, o)
    BY <1>1, <1>2, <1>4 DEF Balanced
<1> QED
    BY <1>2, <1>4, <1>5, WellFormedItems

\* A change deletes only what is in a closed set that has what the change gives up,
\* if it is not in that set that it changes an item.
LEMMA ChangeDeletes ==
    ASSUME HeapAssumption, Exact, NEW c \in Container, NEW f, ItemsFor(kind, c, f),
           NEW inc, NEW dec, Balanced(items[c], f, inc, dec), NEW S \in SUBSET Obj, c \notin S, Closed(S),
           \A o \in Obj : dec[o] # 0 => o \in S
    PROVE  Deleted(kind, With(c, f), [o \in Obj |-> count[o] + inc[o] - dec[o]]) \subseteq S
<1>1. PICK jt : jt = With(c, f)
    OBVIOUS
<1>2. PICK cn : cn = [o \in Obj |-> count[o] + inc[o] - dec[o]]
    OBVIOUS
<1>3. SameBut(c, items, jt) /\ FiniteItems(jt) /\ \A o \in Obj : cn[o] = RefCount(jt, o)
    BY <1>1, <1>2, ChangeCounts
<1>4. ClosedIn(jt, S)
    BY <1>3 DEF SameBut, Closed, ClosedIn, Container
<1>5. ASSUME NEW o \in Obj, kind[o] # "free", cn[o] = 0 PROVE o \in S
  <2>1. count[o] \in Nat /\ count[o] # 0
      BY <1>5 DEF Exact, HeapOK
  <2>2. inc[o] \in Nat /\ dec[o] \in Nat
      BY DEF Balanced
  <2>3. dec[o] # 0
      BY <1>2, <1>5, <2>1, <2>2
  <2> QED
      BY <2>3
<1> QED
    BY <1>1, <1>2, <1>3, <1>4, <1>5, DeletedWithin

\* A source that is read after the old value was given up is there if the
\* variables still reach its container.
LEMMA SourcesStay ==
    ASSUME HeapAssumption, Exact
    PROVE  AssignDefined
<1> SUFFICES ASSUME NEW d \in Place, NEW s \in Place,
                    s[1] \in ReachableIn(Write(d, At(s)), {Root}), SourceDeleted(d, s)
             PROVE  FALSE
    BY DEF AssignDefined
<1>1. WellFormed(kind, items)
    BY DEF Exact, HeapOK
<1>2. IsPlace(d) /\ IsPlace(s)
    BY <1>1, PlaceIs
<1>3. PICK v \in LiveValue(kind) : v = At(s)
    BY <1>1, <1>2, PlaceHolds
<1>4. PICK f : f = [items[d[1]] EXCEPT ![d[2]] = v]
    OBVIOUS
<1>5. Write(d, v) = With(d[1], f) /\ d[1] \in Container /\ d[2] \in DOMAIN items[d[1]]
    BY <1>2, <1>4 DEF Write, With, IsPlace
<1>6. ItemsFor(kind, d[1], f)
    BY <1>1, <1>4, <1>5, WriteItems
<1>7. Balanced(items[d[1]], f, One(v), One(At(d)))
    BY <1>1, <1>2, <1>4, <1>5, PlaceHolds, ReplaceBalanced DEF At
<1>8. PICK cn : cn = [o \in Obj |-> count[o] + One(v)[o] - One(At(d))[o]]
    OBVIOUS
<1>9. PICK jt : jt = With(d[1], f)
    OBVIOUS
<1>10. FiniteItems(jt) /\ \A o \in Obj : cn[o] = RefCount(jt, o)
    BY <1>5, <1>6, <1>7, <1>8, <1>9, ChangeCounts
<1>11. s[1] \in ReachableIn(jt, {Root}) /\ s[1] \in Deleted(kind, jt, cn)
    BY <1>3, <1>5, <1>8, <1>9 DEF SourceDeleted
<1> QED
    BY <1>10, <1>11, ReachedStays


-----------------------------------------------------------------------------
(* Update of a tree.  P is what is still to come of the tree, and R what   *)
(* the argument leads to.                                                  *)

\* Item i of c is in the tree, and no call has come to it.
IsOpen(P, fr, c, i) == c \in P \/ \E n \in 1 .. Len(fr) : c = fr[n].to /\ i > fr[n].last

\* A call writes to a dict that is neither open nor in the argument, and reads one
\* of the argument.
CallApart(P, R, kd, f) == f.to \notin P /\ f.to \notin R /\ kd[f.to] # "free" /\ f.from \in R

\* Each call does, and no two calls write to the same dict.
CallsApart(P, R, kd, fr) ==
    /\ \A n \in 1 .. Len(fr) : CallApart(P, R, kd, fr[n])
    /\ \A m, n \in 1 .. Len(fr) : fr[m].to = fr[n].to => m = n

\* The calls of Update write apart from what they read: the items that are open
\* lead to P alone, and each object is held by one of them.
Apart(P, R, fr, kd, it) ==
    /\ P \in SUBSET Obj /\ R \in SUBSET Obj /\ P \cap R = {}
    /\ ClosedIn(it, R) /\ \A o \in R : kd[o] # "free"
    /\ CallsApart(P, R, kd, fr)
    /\ \A c \in Obj : \A i \in DOMAIN it[c] : IsOpen(P, fr, c, i) /\ it[c][i] \in Obj => it[c][i] \in P
    /\ \A c, d \in Obj : \A i \in DOMAIN it[c] : \A j \in DOMAIN it[d] :
          IsOpen(P, fr, c, i) /\ IsOpen(P, fr, d, j) /\ it[c][i] = it[d][j] /\ it[c][i] \in Obj
             => c = d /\ i = j

\* A sequence with one more call.
LEMMA PushedCalls ==
    ASSUME NEW fr \in Seq(Frame), NEW f \in Frame, NEW g, g = <<f>> \o fr
    PROVE  /\ g \in Seq(Frame) /\ Len(g) = Len(fr) + 1 /\ Len(fr) \in Nat /\ g[1] = f
           /\ \A n \in 1 .. Len(g) : n # 1 => n - 1 \in 1 .. Len(fr) /\ g[n] = fr[n - 1]
           /\ \A n \in 1 .. Len(fr) : n + 1 \in 1 .. Len(g) /\ g[n + 1] = fr[n]
<1>1. g \in Seq(Frame) /\ Len(g) = Len(fr) + 1 /\ Len(fr) \in Nat /\ g[1] = f
    OBVIOUS
<1>2. \A n \in 1 .. Len(g) : n # 1 => n - 1 \in 1 .. Len(fr) /\ g[n] = fr[n - 1]
    BY <1>1
<1>3. \A n \in 1 .. Len(fr) : n + 1 \in 1 .. Len(g) /\ g[n + 1] = fr[n]
    BY <1>1
<1> QED
    BY <1>1, <1>2, <1>3

\* What is open with one more call.
LEMMA PushedOpen ==
    ASSUME NEW fr \in Seq(Frame), NEW f \in Frame, NEW P, NEW c, NEW i
    PROVE  IsOpen(P, <<f>> \o fr, c, i) <=> IsOpen(P, fr, c, i) \/ (c = f.to /\ i > f.last)
<1>1. PICK g : g = <<f>> \o fr
    OBVIOUS
<1>2. /\ Len(g) = Len(fr) + 1 /\ Len(fr) \in Nat /\ g[1] = f
      /\ \A n \in 1 .. Len(g) : n # 1 => n - 1 \in 1 .. Len(fr) /\ g[n] = fr[n - 1]
      /\ \A n \in 1 .. Len(fr) : n + 1 \in 1 .. Len(g) /\ g[n + 1] = fr[n]
    BY <1>1, PushedCalls
<1>3. ASSUME NEW n \in 1 .. Len(g), c = g[n].to, i > g[n].last
      PROVE  IsOpen(P, fr, c, i) \/ (c = f.to /\ i > f.last)
    BY <1>2, <1>3 DEF IsOpen
<1>4. ASSUME NEW n \in 1 .. Len(fr), c = fr[n].to, i > fr[n].last
      PROVE  \E m \in 1 .. Len(g) : c = g[m].to /\ i > g[m].last
    BY <1>2, <1>4
<1>5. 1 \in 1 .. Len(g)
    BY <1>2
<1> QED
    BY <1>1, <1>2, <1>3, <1>4, <1>5 DEF IsOpen

\* One more call is apart if it writes to a dict no other call writes to.
LEMMA PushedApart ==
    ASSUME NEW fr \in Seq(Frame), NEW f \in Frame, NEW P, NEW R, NEW kd
    PROVE  CallsApart(P, R, kd, <<f>> \o fr) <=>
              /\ CallsApart(P, R, kd, fr) /\ CallApart(P, R, kd, f)
              /\ \A n \in 1 .. Len(fr) : fr[n].to # f.to
<1>1. PICK g : g = <<f>> \o fr
    OBVIOUS
<1>2. /\ Len(g) = Len(fr) + 1 /\ Len(fr) \in Nat /\ g[1] = f
      /\ \A n \in 1 .. Len(g) : n # 1 => n - 1 \in 1 .. Len(fr) /\ g[n] = fr[n - 1]
      /\ \A n \in 1 .. Len(fr) : n + 1 \in 1 .. Len(g) /\ g[n + 1] = fr[n]
    BY <1>1, PushedCalls
<1>3. 1 \in 1 .. Len(g)
    BY <1>2
<1>4. ASSUME CallsApart(P, R, kd, g)
      PROVE  /\ CallsApart(P, R, kd, fr) /\ CallApart(P, R, kd, f)
             /\ \A n \in 1 .. Len(fr) : fr[n].to # f.to
  <2>1. CallApart(P, R, kd, f) /\ \A n \in 1 .. Len(fr) : CallApart(P, R, kd, fr[n])
      BY <1>2, <1>3, <1>4 DEF CallsApart
  <2>2. ASSUME NEW m \in 1 .. Len(fr), NEW n \in 1 .. Len(fr), fr[m].to = fr[n].to
        PROVE  m = n
    <3>1. m + 1 \in 1 .. Len(g) /\ n + 1 \in 1 .. Len(g) /\ g[m + 1].to = g[n + 1].to
        BY <1>2, <2>2
    <3>2. m + 1 = n + 1
        BY <3>1, <1>4 DEF CallsApart
    <3> QED
        BY <3>2
  <2>3. ASSUME NEW n \in 1 .. Len(fr), fr[n].to = f.to
        PROVE  FALSE
    <3>1. n + 1 \in 1 .. Len(g) /\ g[n + 1].to = g[1].to
        BY <1>2, <2>3
    <3>2. n + 1 = 1
        BY <1>3, <1>4, <3>1 DEF CallsApart
    <3> QED
        BY <3>2
  <2> QED
      BY <2>1, <2>2, <2>3 DEF CallsApart
<1>5. ASSUME CallsApart(P, R, kd, fr), CallApart(P, R, kd, f), \A n \in 1 .. Len(fr) : fr[n].to # f.to
      PROVE  CallsApart(P, R, kd, g)
  <2>1. ASSUME NEW n \in 1 .. Len(g) PROVE CallApart(P, R, kd, g[n])
    <3>1. CASE n = 1
        BY <3>1, <1>2, <1>5
    <3>2. CASE n # 1
        BY <3>2, <1>2, <1>5 DEF CallsApart
    <3> QED
        BY <3>1, <3>2
  <2>2. ASSUME NEW m \in 1 .. Len(g), NEW n \in 1 .. Len(g), g[m].to = g[n].to PROVE m = n
    <3>1. CASE m # 1 /\ n # 1
      <4>1. m - 1 \in 1 .. Len(fr) /\ n - 1 \in 1 .. Len(fr) /\ fr[m - 1].to = fr[n - 1].to
          BY <1>2, <2>2, <3>1
      <4>2. m - 1 = n - 1
          BY <4>1, <1>5 DEF CallsApart
      <4> QED
          BY <4>2
    <3>2. CASE m = 1 /\ n # 1
        BY <3>2, <2>2, <1>2, <1>5
    <3>3. CASE m # 1 /\ n = 1
        BY <3>3, <2>2, <1>2, <1>5
    <3> QED
        BY <3>1, <3>2, <3>3
  <2> QED
      BY <2>1, <2>2 DEF CallsApart
<1> QED
    BY <1>1, <1>4, <1>5

\* The calls that go on when one returns are apart.
LEMMA ApartReturn ==
    ASSUME NEW P, NEW R, NEW fr \in Seq(Frame), NEW f \in Frame, NEW kd, NEW it,
           Apart(P, R, <<f>> \o fr, kd, it)
    PROVE  Apart(P, R, fr, kd, it)
<1>1. \A c, i : IsOpen(P, fr, c, i) => IsOpen(P, <<f>> \o fr, c, i)
    BY PushedOpen
<1>2. CallsApart(P, R, kd, fr)
    BY PushedApart DEF Apart
<1>3. PICK g : g = <<f>> \o fr
    OBVIOUS
<1> QED
    BY <1>1, <1>2, <1>3 DEF Apart

\* The calls under way, apart from each other, are no more than there are objects.
LEMMA CallsBounded ==
    ASSUME HeapAssumption, NEW P, NEW R, NEW fr \in Seq(Frame), NEW kd, NEW it, Apart(P, R, fr, kd, it)
    PROVE  Len(fr) <= Cardinality(Obj)
<1>1. Len(fr) \in Nat /\ Cardinality(Obj) \in Nat /\ IsFiniteSet(Obj)
    BY FS_CardinalityType DEF HeapAssumption
<1>2. IsFiniteSet(1 .. Len(fr)) /\ Cardinality(1 .. Len(fr)) = Len(fr)
  <2>1. 1 \in Int /\ Len(fr) \in Int
      BY <1>1
  <2>2. IsFiniteSet(1 .. Len(fr))
        /\ Cardinality(1 .. Len(fr)) = IF 1 > Len(fr) THEN 0 ELSE Len(fr) - 1 + 1
      BY <2>1, FS_Interval
  <2> QED
      BY <1>1, <2>2
<1> SUFFICES ASSUME Cardinality(Obj) < Len(fr) PROVE FALSE
    BY <1>1
<1> DEFINE f == [n \in 1 .. Len(fr) |-> fr[n].to]
<1>3. f \in [1 .. Len(fr) -> Obj]
  <2>1. \A n \in 1 .. Len(fr) : fr[n] \in Frame
      OBVIOUS
  <2>2. \A n \in 1 .. Len(fr) : fr[n].to \in Obj
      BY <2>1 DEF Frame
  <2> QED
      BY <2>2
<1>4. \E m, n \in 1 .. Len(fr) : m # n /\ f[m] = f[n]
  <2> HIDE DEF f
  <2> QED
      BY <1>1, <1>2, <1>3, FS_PigeonHole
<1> QED
    BY <1>4 DEF Apart, CallsApart


\* What the innermost call has not come to yet is open, and no other call writes to
\* its dict.
LEMMA TopCall ==
    ASSUME NEW P, NEW R, NEW fr \in Seq(Frame), NEW f \in Frame, NEW kd, NEW it,
           Apart(P, R, <<f>> \o fr, kd, it)
    PROVE  /\ CallApart(P, R, kd, f) /\ f.to \in Obj /\ f.from \in Obj
           /\ \A i : ~IsOpen(P, fr, f.to, i)
           /\ \A i : i > f.last => IsOpen(P, <<f>> \o fr, f.to, i)
           /\ CallsApart(P, R, kd, fr) /\ \A n \in 1 .. Len(fr) : fr[n].to # f.to
<1>1. CallApart(P, R, kd, f) /\ CallsApart(P, R, kd, fr) /\ \A n \in 1 .. Len(fr) : fr[n].to # f.to
    BY PushedApart DEF Apart
<1>2. \A i : ~IsOpen(P, fr, f.to, i)
    BY <1>1 DEF IsOpen, CallApart
<1>3. \A i : i > f.last => IsOpen(P, <<f>> \o fr, f.to, i)
    BY PushedOpen
<1> QED
    BY <1>1, <1>2, <1>3 DEF Frame

\* A call goes on to the key k and calls Update for the dicts under it: the dict it
\* writes to then is not open any more.
LEMMA ApartNested ==
    ASSUME NEW P, NEW R, NEW fr \in Seq(Frame), NEW f \in Frame, NEW kd, NEW it,
           Apart(P, R, <<f>> \o fr, kd, it), NEW k \in Int, k > f.last, k \in DOMAIN it[f.to],
           DOMAIN it[f.to] \subseteq Int, NEW old \in Obj, old = it[f.to][k], kd[old] # "free",
           NEW from \in R, NEW g, g = [f EXCEPT !.last = k],
           NEW h, h = [to |-> old, from |-> from, last |-> -1]
    PROVE  Apart(P \ {old}, R, <<h>> \o (<<g>> \o fr), kd, it)
<1> DEFINE Q == P \ {old}
           A == <<f>> \o fr
           B == <<g>> \o fr
           C == <<h>> \o B
<1>1. /\ CallApart(P, R, kd, f) /\ f.to \in Obj
      /\ \A i : ~IsOpen(P, fr, f.to, i)
      /\ \A i : i > f.last => IsOpen(P, A, f.to, i)
      /\ CallsApart(P, R, kd, fr) /\ \A n \in 1 .. Len(fr) : fr[n].to # f.to
    BY TopCall
<1>2. f.last \in Int /\ g \in Frame /\ g.to = f.to /\ g.from = f.from /\ g.last = k
    BY DEF Frame
<1>3. P \in SUBSET Obj /\ R \in SUBSET Obj /\ P \cap R = {}
    BY DEF Apart
<1>4. h \in Frame /\ h.to = old /\ h.from = from /\ h.last = -1
    BY <1>3 DEF Frame
<1>5. B \in Seq(Frame)
    BY <1>2
<1>6. old \in P
    BY <1>1 DEF Apart
<1>7. old # f.to
    BY <1>1, <1>6 DEF CallApart
<1>8. \A c, i : IsOpen(Q, C, c, i) <=>
                   IsOpen(Q, fr, c, i) \/ (c = f.to /\ i > k) \/ (c = old /\ i > -1)
  <2>1. \A c, i : IsOpen(Q, C, c, i) <=> IsOpen(Q, B, c, i) \/ (c = h.to /\ i > h.last)
      BY <1>4, <1>5, PushedOpen
  <2>2. \A c, i : IsOpen(Q, B, c, i) <=> IsOpen(Q, fr, c, i) \/ (c = g.to /\ i > g.last)
      BY <1>2, PushedOpen
  <2> HIDE DEF Q, C, B
  <2> QED
      BY <2>1, <2>2, <1>2, <1>4
<1>9. ASSUME NEW c \in Obj, NEW i \in DOMAIN it[c], IsOpen(Q, C, c, i)
      PROVE  IsOpen(P, A, c, i) /\ ~(c = f.to /\ i = k)
  <2>1. IsOpen(Q, fr, c, i) => IsOpen(P, fr, c, i)
      BY DEF IsOpen
  <2>2. IsOpen(P, A, c, i) <=> IsOpen(P, fr, c, i) \/ (c = f.to /\ i > f.last)
      BY PushedOpen
  <2>3. c = old => IsOpen(P, fr, c, i)
      BY <1>6 DEF IsOpen
  <2>4. c = f.to => i \in Int
      OBVIOUS
  <2> HIDE DEF Q, C, A
  <2>5. CASE c = f.to
      BY <2>5, <2>1, <2>2, <2>4, <1>1, <1>2, <1>7, <1>8, <1>9
  <2>6. CASE c # f.to
      BY <2>6, <2>1, <2>2, <2>3, <1>8, <1>9
  <2> QED
      BY <2>5, <2>6
<1>10. IsOpen(P, A, f.to, k)
    BY <1>1
<1>11. CallsApart(Q, R, kd, C)
  <2>1. \A x : CallApart(P, R, kd, x) => CallApart(Q, R, kd, x)
      BY DEF CallApart
  <2>2. CallsApart(Q, R, kd, fr) /\ CallApart(Q, R, kd, g)
      BY <2>1, <1>1, <1>2 DEF CallsApart, CallApart
  <2>3. \A n \in 1 .. Len(fr) : fr[n].to # g.to
      BY <1>1, <1>2
  <2>4. CallsApart(Q, R, kd, B)
      BY <2>2, <2>3, <1>2, PushedApart
  <2>5. CallApart(Q, R, kd, h)
      BY <1>3, <1>4, <1>6 DEF CallApart
  <2>6. ASSUME NEW n \in 1 .. Len(B) PROVE B[n].to # h.to
    <3>1. B[n].to \notin P
      <4>1. B[1] = g /\ \A m \in 1 .. Len(B) : m # 1 => m - 1 \in 1 .. Len(fr) /\ B[m] = fr[m - 1]
        <5>1. B = <<g>> \o fr
            OBVIOUS
        <5> HIDE DEF B
        <5> QED
            BY <5>1, <1>2, PushedCalls
      <4> HIDE DEF B
      <4>2. CASE n = 1
          BY <4>1, <4>2, <1>1, <1>2 DEF CallApart
      <4>3. CASE n # 1
          BY <4>1, <4>3, <1>1 DEF CallsApart, CallApart
      <4> QED
          BY <4>2, <4>3
    <3> QED
        BY <3>1, <1>4, <1>6
  <2>7. B \in Seq(Frame) /\ h \in Frame /\ C = <<h>> \o B
      BY <1>4, <1>5
  <2> HIDE DEF Q, C, B
  <2> QED
      BY <2>4, <2>5, <2>6, <2>7, PushedApart
<1>12. Apart(P, R, A, kd, it)
    OBVIOUS
<1>13. ASSUME NEW c \in Obj, NEW i \in DOMAIN it[c], IsOpen(Q, C, c, i), it[c][i] \in Obj
       PROVE  it[c][i] \in Q
  <2> HIDE DEF C, A
  <2>1. it[c][i] \in P
      BY <1>9, <1>12, <1>13 DEF Apart
  <2>2. it[c][i] # old
      BY <1>1, <1>9, <1>10, <1>12, <1>13 DEF Apart
  <2> QED
      BY <2>1, <2>2
<1>14. ASSUME NEW c \in Obj, NEW d \in Obj, NEW i \in DOMAIN it[c], NEW j \in DOMAIN it[d],
              IsOpen(Q, C, c, i), IsOpen(Q, C, d, j), it[c][i] = it[d][j], it[c][i] \in Obj
       PROVE  c = d /\ i = j
  <2> HIDE DEF C, A, Q
  <2>1. IsOpen(P, A, c, i) /\ IsOpen(P, A, d, j)
      BY <1>9, <1>14
  <2> QED
      BY <2>1, <1>12, <1>14 DEF Apart
<1>15. Q \in SUBSET Obj /\ Q \cap R = {} /\ R \in SUBSET Obj
    BY <1>3
<1>16. ClosedIn(it, R) /\ \A o \in R : kd[o] # "free"
    BY <1>12 DEF Apart
<1> HIDE DEF Q, C, A
<1>17. Apart(Q, R, C, kd, it)
    BY <1>11, <1>13, <1>14, <1>15, <1>16 DEF Apart
<1> QED
    BY <1>17 DEF Q, C

\* The item k of c is written, and the objects D are deleted.
ItemWritten(kd, it, ke, jt, D, c, k) ==
    /\ \A o \in Obj : ke[o] = IF o \in D THEN "free" ELSE kd[o]
    /\ \A o \in Obj : o \in D => jt[o] = <<>>
    /\ \A o \in Obj : o \notin D /\ o # c => jt[o] = it[o]
    /\ DOMAIN jt[c] = DOMAIN it[c] \cup {k}
    /\ \A j \in DOMAIN it[c] : j # k => jt[c][j] = it[c][j]

\* A call writes an item that is not open any more, and what it gave up is deleted.
LEMMA ApartWritten ==
    ASSUME NEW P, NEW R, NEW fr \in Seq(Frame), NEW f \in Frame, NEW kd, NEW it,
           Apart(P, R, <<f>> \o fr, kd, it), NEW k \in Int, k > f.last, DOMAIN it[f.to] \subseteq Int,
           NEW D \in SUBSET P, NEW jt, NEW ke, ItemWritten(kd, it, ke, jt, D, f.to, k),
           NEW g, g = [f EXCEPT !.last = k]
    PROVE  Apart(P, R, <<g>> \o fr, ke, jt)
<1> DEFINE A == <<f>> \o fr
           B == <<g>> \o fr
<1>1. /\ CallApart(P, R, kd, f) /\ f.to \in Obj /\ f.from \in Obj
      /\ \A i : ~IsOpen(P, fr, f.to, i)
      /\ CallsApart(P, R, kd, fr) /\ \A n \in 1 .. Len(fr) : fr[n].to # f.to
    BY TopCall
<1>2. f.last \in Int /\ g \in Frame /\ g.to = f.to /\ g.from = f.from /\ g.last = k
    BY DEF Frame
<1>3. P \in SUBSET Obj /\ R \in SUBSET Obj /\ P \cap R = {}
      /\ ClosedIn(it, R) /\ (\A o \in R : kd[o] # "free")
    BY DEF Apart
<1>4. \A c, i : IsOpen(P, B, c, i) <=> IsOpen(P, fr, c, i) \/ (c = f.to /\ i > k)
  <2>1. \A c, i : IsOpen(P, B, c, i) <=> IsOpen(P, fr, c, i) \/ (c = g.to /\ i > g.last)
      BY <1>2, PushedOpen
  <2> HIDE DEF B
  <2> QED
      BY <2>1, <1>2
<1>5. \A c, i : IsOpen(P, A, c, i) <=> IsOpen(P, fr, c, i) \/ (c = f.to /\ i > f.last)
    BY PushedOpen
<1>6. f.to \notin D /\ D \cap R = {} /\ f.to \notin R
    BY <1>1, <1>3 DEF CallApart
<1>7. Apart(P, R, A, kd, it)
    OBVIOUS
<1> HIDE DEF A, B
<1>8. ASSUME NEW c \in Obj, NEW i \in DOMAIN jt[c], IsOpen(P, B, c, i)
      PROVE  i \in DOMAIN it[c] /\ jt[c][i] = it[c][i] /\ IsOpen(P, A, c, i)
  <2>1. c \notin D
      BY NoItems DEF ItemWritten
  <2>2. CASE c = f.to
    <3>1. i > k /\ i \in DOMAIN it[c] \cup {k}
        BY <1>1, <1>4, <1>8, <2>2 DEF ItemWritten
    <3>2. i \in Int /\ i # k
        BY <3>1, <2>2
    <3>3. i \in DOMAIN it[c] /\ jt[c][i] = it[c][i]
        BY <3>1, <3>2, <2>2 DEF ItemWritten
    <3>4. i > f.last
        BY <3>1, <3>2, <1>2
    <3> QED
        BY <1>5, <2>2, <3>3, <3>4
  <2>3. CASE c # f.to
    <3>1. jt[c] = it[c]
        BY <2>1, <2>3 DEF ItemWritten
    <3> QED
        BY <1>4, <1>5, <1>8, <2>3, <3>1
  <2> QED
      BY <2>2, <2>3
<1>9. CallsApart(P, R, ke, B)
  <2>1. \A x : x.to \in Obj /\ CallApart(P, R, kd, x) => CallApart(P, R, ke, x)
      BY DEF CallApart, ItemWritten
  <2>2. \A n \in 1 .. Len(fr) : fr[n] \in Frame
      OBVIOUS
  <2>3. CallsApart(P, R, ke, fr)
      BY <1>1, <2>1, <2>2 DEF CallsApart, Frame
  <2>4. CallApart(P, R, kd, g)
      BY <1>1, <1>2 DEF CallApart
  <2>5. CallApart(P, R, ke, g)
      BY <2>1, <2>4, <1>1, <1>2
  <2>6. \A n \in 1 .. Len(fr) : fr[n].to # g.to
      BY <1>1, <1>2
  <2> QED
      BY <1>2, <2>3, <2>5, <2>6, PushedApart DEF B
<1>10. ClosedIn(jt, R)
  <2>1. \A c \in R : jt[c] = it[c]
      BY <1>3, <1>6 DEF ItemWritten
  <2> QED
      BY <2>1, <1>3 DEF ClosedIn
<1>11. \A o \in R : ke[o] # "free"
    BY <1>3, <1>6 DEF ItemWritten
<1>12. ASSUME NEW c \in Obj, NEW i \in DOMAIN jt[c], IsOpen(P, B, c, i), jt[c][i] \in Obj
       PROVE  jt[c][i] \in P
  <2>1. i \in DOMAIN it[c] /\ jt[c][i] = it[c][i] /\ IsOpen(P, A, c, i)
      BY <1>8, <1>12
  <2> QED
      BY <2>1, <1>7, <1>12 DEF Apart
<1>13. ASSUME NEW c \in Obj, NEW d \in Obj, NEW i \in DOMAIN jt[c], NEW j \in DOMAIN jt[d],
              IsOpen(P, B, c, i), IsOpen(P, B, d, j), jt[c][i] = jt[d][j], jt[c][i] \in Obj
       PROVE  c = d /\ i = j
  <2>1. i \in DOMAIN it[c] /\ jt[c][i] = it[c][i] /\ IsOpen(P, A, c, i)
      BY <1>8, <1>13
  <2>2. j \in DOMAIN it[d] /\ jt[d][j] = it[d][j] /\ IsOpen(P, A, d, j)
      BY <1>8, <1>13
  <2>3. it[c][i] = it[d][j] /\ it[c][i] \in Obj
      BY <2>1, <2>2, <1>13
  <2> QED
      BY <2>1, <2>2, <2>3, <1>7 DEF Apart
<1>14. Apart(P, R, B, ke, jt)
    BY <1>3, <1>9, <1>10, <1>11, <1>12, <1>13 DEF Apart
<1> QED
    BY <1>14 DEF B

\* The counts after the references inc are taken and dec are given up.
CountsAfter(inc, dec) == [o \in Obj |-> count[o] + inc[o] - dec[o]]

\* What a call gives up, when it assigns the entry under k, is open: only P loses
\* objects.
LEMMA WriteDeletes ==
    ASSUME HeapAssumption, Exact, NEW P, NEW R, NEW fr \in Seq(Frame), NEW f \in Frame,
           Apart(P, R, <<f>> \o fr, kind, items), NEW k \in Int, k > f.last,
           NEW old, old = EntryOf(f.to, k),
           NEW g, ItemsFor(kind, f.to, g), NEW inc, Balanced(items[f.to], g, inc, One(old))
    PROVE  Deleted(kind, With(f.to, g), CountsAfter(inc, One(old))) \subseteq P
<1>1. /\ CallApart(P, R, kind, f) /\ f.to \in Obj
      /\ \A i : i > f.last => IsOpen(P, <<f>> \o fr, f.to, i)
    BY TopCall
<1>2. PICK F : F = <<f>> \o fr
    OBVIOUS
<1>3. Apart(P, R, F, kind, items) /\ IsOpen(P, F, f.to, k)
    BY <1>1, <1>2
<1>4. P \in SUBSET Obj /\ f.to \notin P /\ f.to \in Container
    BY <1>1, <1>3 DEF Apart, CallApart, Container
<1>5. Closed(P)
  <2>1. \A c, i : c \in P => IsOpen(P, F, c, i)
      BY DEF IsOpen
  <2> QED
      BY <2>1, <1>3, <1>4 DEF Closed, ClosedIn, Apart
<1>6. \A o \in Obj : One(old)[o] # 0 => o \in P
  <2>1. old \in Obj => HasKey(f.to, k)
      BY DEF HeapAssumption, EntryOf
  <2>2. old \in Obj => old \in P
      BY <2>1, <1>1, <1>3 DEF Apart, HasKey, EntryOf
  <2> QED
      BY <2>2 DEF One
<1> QED
    BY <1>4, <1>5, <1>6, ChangeDeletes DEF CountsAfter

\* A call does not delete the dict that it reads.
LEMMA SourceKept ==
    ASSUME HeapAssumption, Exact, NEW P, NEW R, NEW fr \in Seq(Frame), NEW f \in Frame,
           Apart(P, R, <<f>> \o fr, kind, items), NEW k \in Int, k > f.last,
           HasKey(f.to, k), NEW v \in LiveValue(kind), v = items[f.from][k]
    PROVE  ~SourceDeleted(<<f.to, k>>, <<f.from, k>>)
<1>1. WellFormed(kind, items) /\ f.to \in Container /\ k \in DOMAIN items[f.to]
    BY DEF Exact, HeapOK, Frame, Container, HasKey
<1>2. PICK g : g = [items[f.to] EXCEPT ![k] = v]
    OBVIOUS
<1>3. ItemsFor(kind, f.to, g) /\ IsFiniteSet(DOMAIN items[f.to])
    BY <1>1, <1>2, WriteItems
<1>4. PICK old : old = items[f.to][k]
    OBVIOUS
<1>5. Balanced(items[f.to], g, One(v), One(old))
    BY <1>1, <1>2, <1>3, <1>4, ReplaceBalanced
<1>6. old = EntryOf(f.to, k)
    BY <1>4 DEF EntryOf
<1>7. Deleted(kind, With(f.to, g), [o \in Obj |-> count[o] + One(v)[o] - One(old)[o]]) \subseteq P
  <2>1. PICK inc : inc = One(v)
      OBVIOUS
  <2>2. Balanced(items[f.to], g, inc, One(old))
      BY <1>5, <2>1
  <2>3. Deleted(kind, With(f.to, g), CountsAfter(inc, One(old))) \subseteq P
      BY <1>3, <1>6, <2>2, WriteDeletes
  <2> QED
      BY <2>1, <2>3 DEF CountsAfter
<1>8. f.from \notin P
  <2>1. f.from \in R
      BY TopCall DEF CallApart
  <2> QED
      BY <2>1 DEF Apart
<1>9. Write(<<f.to, k>>, v) = With(f.to, g) /\ At(<<f.to, k>>) = old /\ At(<<f.from, k>>) = v
    BY <1>2, <1>4 DEF Write, With, At
<1> QED
    BY <1>7, <1>8, <1>9 DEF SourceDeleted

\* A call assigns the entry under k, and goes on to the next key.
LEMMA WriteApart ==
    ASSUME HeapAssumption, Exact, NEW P, NEW R, NEW fr \in Seq(Frame), NEW f \in Frame,
           Apart(P, R, <<f>> \o fr, kind, items), kind[f.to] = "dict",
           NEW k \in Key, k \in Int, k > f.last,
           NEW v \in LiveValue(kind), NEW old, old = EntryOf(f.to, k),
           Settle(kind, With(f.to, [WithKey(f.to, k) EXCEPT ![k] = Put(old, v)]), cap,
                  Takes(old, v), GivesUp(old)),
           NEW h, h = [f EXCEPT !.last = k]
    PROVE  Apart(P, R, <<h>> \o fr, kind', items')
<1>1. PICK o \in Obj : o = f.to
    BY DEF Frame
<1>2. PICK g : g = [WithKey(o, k) EXCEPT ![k] = Put(old, v)]
    OBVIOUS
<1>3. kind[o] = "dict" /\ old = EntryOf(o, k)
    BY <1>1
<1>4. /\ g \in [DOMAIN g -> LiveValue(kind)] /\ DOMAIN g \subseteq Key /\ IsFiniteSet(DOMAIN g)
      /\ Balanced(items[o], g, Takes(old, v), GivesUp(old))
      /\ DOMAIN g = DOMAIN items[o] \cup {k}
      /\ \A j \in DOMAIN items[o] : j # k => g[j] = items[o][j]
  <2>1. g = Entered(o, k, v)
      BY <1>2, <1>3 DEF Entered
  <2>2. IsEntered(o, k, old, v, g)
      BY <1>3, <2>1, EntryItems
  <2> QED
      BY <2>2 DEF IsEntered
<1>5. ItemsFor(kind, o, g) /\ o # Root /\ Key \subseteq Int
    BY <1>3, <1>4 DEF ItemsFor, HeapAssumption
<1>6. PICK inc : inc = Takes(old, v)
    OBVIOUS
<1>7. PICK cn : cn = [x \in Obj |-> count[x] + inc[x] - One(old)[x]]
    OBVIOUS
<1>8. PICK D : D = Deleted(kind, With(o, g), cn)
    OBVIOUS
<1>9. D \subseteq P
  <2>1. Balanced(items[f.to], g, inc, One(old)) /\ ItemsFor(kind, f.to, g)
      BY <1>1, <1>4, <1>5, <1>6 DEF GivesUp
  <2>2. Deleted(kind, With(f.to, g), CountsAfter(inc, One(old))) \subseteq P
      BY <2>1, WriteDeletes
  <2> QED
      BY <1>1, <1>7, <1>8, <2>2 DEF CountsAfter
<1>10. Settle(kind, With(o, g), cap, inc, One(old))
    BY <1>1, <1>2, <1>6 DEF GivesUp
<1>11. PICK jt : jt = With(o, g)
    OBVIOUS
<1>12. /\ kind' = [x \in Obj |-> IF x \in D THEN "free" ELSE kind[x]]
       /\ items' = [c \in Container |-> IF c \in D THEN <<>> ELSE jt[c]]
    BY <1>7, <1>8, <1>10, <1>11, SettleIs
<1>13. jt[o] = g /\ \A c \in Obj : c # o => jt[c] = items[c]
    BY <1>11 DEF With, Exact, HeapOK, WellFormed, Container
<1>14. o \notin D
    BY <1>1, <1>9, TopCall DEF CallApart
<1>15. ItemWritten(kind, items, kind', items', D, f.to, k)
  <2>1. \A c \in Obj : kind'[c] = IF c \in D THEN "free" ELSE kind[c]
      BY <1>12
  <2>2. \A c \in Obj : items'[c] = IF c \in D THEN <<>> ELSE jt[c]
      BY <1>12 DEF Container
  <2>3. items'[o] = g
      BY <2>2, <1>13, <1>14
  <2> QED
      BY <2>1, <2>2, <2>3, <1>1, <1>4, <1>13 DEF ItemWritten
<1>16. DOMAIN items[f.to] \subseteq Int
    BY <1>1, <1>4, <1>5
<1>17. D \in SUBSET P
    BY <1>9
<1> QED
    BY <1>15, <1>16, <1>17, ApartWritten


\* A call goes on to the dicts under k.
LEMMA CallApartNested ==
    ASSUME HeapAssumption, Exact, NEW P, NEW R, NEW fr \in Seq(Frame), NEW f \in Frame,
           Apart(P, R, <<f>> \o fr, kind, items), kind[f.to] = "dict",
           NEW k \in Int, k > f.last, k \in DOMAIN items[f.from],
           NEW old, old = EntryOf(f.to, k), IsDict(old),
           NEW from, from = items[f.from][k], IsDict(from), NEW g, g = [f EXCEPT !.last = k]
    PROVE  Apart(P \ {old}, R, <<NestedCall(f, k)>> \o (<<g>> \o fr), kind, items)
<1>1. HasKey(f.to, k) /\ old = items[f.to][k]
    BY DEF HeapAssumption, EntryOf, IsDict
<1>2. old \in Obj /\ from \in Obj /\ kind[old] # "free"
    BY DEF IsDict
<1>3. f.to \in Obj /\ CallApart(P, R, kind, f)
    BY TopCall
<1>4. k \in DOMAIN items[f.to] /\ DOMAIN items[f.to] \subseteq Int
  <2>1. DOMAIN items[f.to] \subseteq Key
      BY <1>3, ExactItems
  <2> QED
      BY <1>1, <2>1 DEF HasKey, HeapAssumption
<1>5. from \in R
    BY <1>2, <1>3 DEF Apart, ClosedIn, CallApart
<1>6. PICK h : h = NestedCall(f, k)
    OBVIOUS
<1>7. h = [to |-> old, from |-> from, last |-> -1]
    BY <1>1, <1>6 DEF NestedCall
<1>8. Apart(P \ {old}, R, <<h>> \o (<<g>> \o fr), kind, items)
    BY <1>1, <1>2, <1>4, <1>5, <1>7, ApartNested
<1> QED
    BY <1>6, <1>8

\* The calls under way stay apart, and their behaviour defined.
LEMMA StepApart ==
    ASSUME HeapAssumption, IInv, frames # <<>>, bad = "no", UpdateStep,
           NEW P, NEW R, Apart(P, R, frames, kind, items)
    PROVE  bad' = "no" /\ \E Q : Apart(Q, R, frames', kind', items')
<1> DEFINE f == Head(frames)
           k == CHOOSE j \in Later(f) : \A i \in Later(f) : j <= i
           old == IF HasKey(f.to, k) THEN items[f.to][k] ELSE Undef
           from == items[f.from][k]
           g == [f EXCEPT !.last = k]
           fr == Tail(frames)
<1>1. /\ Later(f) # {}
      /\ \/ kind[f.to] = "free"
         \/ /\ IsDict(old) /\ IsDict(from) /\ Len(frames) = MaxDepth
         \/ /\ IsDict(old) /\ IsDict(from)
            /\ frames' = <<NestedCall(f, k)>> \o (<<g>> \o fr)
            /\ UNCHANGED <<items, kind, bad>>
         \/ f.to = f.from
         \/ HasKey(f.to, k) /\ SourceDeleted(<<f.to, k>>, <<f.from, k>>)
         \/ /\ Settle(kind, With(f.to, [WithKey(f.to, k) EXCEPT ![k] = Put(old, from)]),
                      cap, Takes(old, from), GivesUp(old))
            /\ frames' = <<g>> \o fr /\ UNCHANGED bad
    BY DEF UpdateStep
<1>2. /\ f \in Frame
      /\ kind[f.to] \in {"dict", "free"} /\ kind[f.from] \in {"dict", "free"}
      /\ fr \in Seq(Frame) /\ frames = <<f>> \o fr
    BY TopFrame DEF FramesOK
<1>3. k = CHOOSE j \in Later(f) : \A i \in Later(f) : j <= i
    OBVIOUS
<1>4. old = EntryOf(f.to, k)
    BY DEF EntryOf
<1>5. from = items[f.from][k]
    OBVIOUS
<1>6. g = [f EXCEPT !.last = k]
    OBVIOUS
<1>7. Exact
    BY DEF IInv
<1> HIDE DEF f, k, old, from, g, fr
<1>8. /\ k \in Key /\ k \in Int /\ k \in DOMAIN items[f.from]
      /\ items[f.from][k] \in LiveValue(kind) /\ k > f.last
    BY <1>1, <1>2, <1>3, <1>7, NextKey
<1>9. Apart(P, R, <<f>> \o fr, kind, items)
    BY <1>2
<1>10. CallApart(P, R, kind, f)
    BY <1>2, <1>9, TopCall
<1>11. kind[f.to] = "dict" /\ f.to # f.from
    BY <1>2, <1>10 DEF CallApart
<1>12. ASSUME IsDict(old), IsDict(from)
       PROVE  /\ Apart(P \ {old}, R, <<NestedCall(f, k)>> \o (<<g>> \o fr), kind, items)
              /\ Len(frames) # MaxDepth
  <2>1. Apart(P \ {old}, R, <<NestedCall(f, k)>> \o (<<g>> \o fr), kind, items)
      BY <1>2, <1>4, <1>5, <1>6, <1>7, <1>8, <1>9, <1>11, <1>12, CallApartNested
  <2>2. NestedCall(f, k) \in Frame
    <3>1. old = items[f.to][k]
        BY <1>4, <1>12 DEF EntryOf, IsDict, HeapAssumption
    <3> QED
        BY <3>1, <1>5, <1>12 DEF NestedCall, Frame, IsDict
  <2>3. g \in Frame
      BY <1>2, <1>6, <1>8 DEF Frame
  <2>4. PICK F : F = <<NestedCall(f, k)>> \o (<<g>> \o fr)
      OBVIOUS
  <2>5. F \in Seq(Frame) /\ Len(F) = Len(fr) + 2 /\ Len(frames) = Len(fr) + 1 /\ Len(fr) \in Nat
      BY <1>2, <2>2, <2>3, <2>4
  <2>6. Len(F) <= Cardinality(Obj)
      BY <2>1, <2>4, <2>5, CallsBounded
  <2>7. Cardinality(Obj) \in Nat
      BY FS_CardinalityType DEF HeapAssumption
  <2> QED
      BY <2>1, <2>5, <2>6, <2>7 DEF HeapAssumption
<1>13. HasKey(f.to, k) => ~SourceDeleted(<<f.to, k>>, <<f.from, k>>)
    BY <1>2, <1>7, <1>8, <1>9, SourceKept
<1>14. CASE /\ IsDict(old) /\ IsDict(from)
            /\ frames' = <<NestedCall(f, k)>> \o (<<g>> \o fr)
            /\ UNCHANGED <<items, kind, bad>>
    BY <1>12, <1>14
<1>15. CASE /\ Settle(kind, With(f.to, [WithKey(f.to, k) EXCEPT ![k] = Put(old, from)]),
                      cap, Takes(old, from), GivesUp(old))
            /\ frames' = <<g>> \o fr /\ UNCHANGED bad
  <2>1. Apart(P, R, <<g>> \o fr, kind', items')
      BY <1>2, <1>4, <1>5, <1>6, <1>7, <1>8, <1>9, <1>11, <1>15, WriteApart
  <2> QED
      BY <2>1, <1>15
<1> QED
    BY <1>1, <1>11, <1>12, <1>13, <1>14, <1>15


\* An object that is held once among S is held by one item.
LEMMA HeldOnce ==
    ASSUME HeapAssumption, Exact, NEW S \in SUBSET Obj, NEW o \in Obj, HeldBy(items, S)[o] = 1,
           NEW c \in S, NEW d \in S, NEW i \in DOMAIN items[c], NEW j \in DOMAIN items[d],
           items[c][i] = o, items[d][j] = o
    PROVE  c = d /\ i = j
<1>1. PICK T : T = RefsFrom(items, S, o)
    OBVIOUS
<1>2. FiniteItems(items) /\ S \in SUBSET Container
    BY WellFormedItems DEF Exact, HeapOK, Container
<1>3. IsFiniteSet(T)
    BY <1>1, <1>2, RefsFinite
<1>4. Cardinality(T) = 1
    BY <1>1, HeldByIs
<1>5. <<c, i>> \in T /\ <<d, j>> \in T
    BY <1>1, InRefsFrom
<1>6. <<c, i>> = <<d, j>>
  <2>1. PICK x : T = {x}
      BY <1>3, <1>4, FS_Singleton
  <2> QED
      BY <1>5, <2>1
<1> QED
    BY <1>6

\* The first call: the dict is a tree, and its argument has no part of it.
LEMMA FirstApart ==
    ASSUME HeapAssumption, Exact, NEW p, NEW q, Update(p, q), apart'
    PROVE  \E P, R : Apart(P, R, frames', kind', items')
<1>1. PICK T \in Obj, F \in Obj : T = At(p) /\ F = At(q) /\ kind[T] = "dict" /\ kind[F] = "dict"
    BY DEF Update, IsDict
<1>2. PICK S : S = Reachable({T})
    OBVIOUS
<1>3. PICK R : R = Reachable({F})
    OBVIOUS
<1>4. PICK h : h = [to |-> T, from |-> F, last |-> -1]
    OBVIOUS
<1>5. frames' = <<h>> /\ kind' = kind /\ items' = items
    BY <1>1, <1>4 DEF Update
<1>6. S \cap R = {} /\ \A c \in S : HeldBy(items, S)[c] = IF c = T THEN 0 ELSE 1
    BY <1>1, <1>2, <1>3 DEF Update, IsTree
<1>7. S \in SUBSET Obj /\ T \in S /\ Closed(S) /\ R \in SUBSET Obj /\ F \in R /\ Closed(R)
    BY <1>2, <1>3, ReachableIs
<1>8. FiniteItems(items) /\ \A c \in Container : \A i \in DOMAIN items[c] : items[c][i] \in LiveValue(kind)
    BY WellFormedItems DEF Exact, HeapOK
<1>9. \A o \in R : kind[o] # "free"
  <2>1. PICK L : L = {o \in Obj : kind[o] # "free"}
      OBVIOUS
  <2>2. Closed(L)
      BY <1>8, <2>1 DEF Closed, ClosedIn, LiveValue, Container, HeapAssumption
  <2>3. {F} \subseteq L
      BY <1>1, <2>1
  <2>4. R \subseteq L
      BY <1>3, <2>2, <2>3, ReachableIs
  <2> QED
      BY <2>1, <2>4
<1>10. PICK P : P = S \ {T}
    OBVIOUS
<1>11. ASSUME NEW c \in S, NEW i \in DOMAIN items[c] PROVE items[c][i] # T
  <2> SUFFICES ASSUME items[c][i] = T PROVE FALSE
      OBVIOUS
  <2>1. PICK U : U = RefsFrom(items, S, T)
      OBVIOUS
  <2>2. IsFiniteSet(U)
      BY <1>7, <1>8, <2>1, RefsFinite DEF Container
  <2>3. Cardinality(U) = 0
      BY <1>6, <1>7, <2>1, HeldByIs
  <2>4. <<c, i>> \in U
      BY <2>1, InRefsFrom
  <2> QED
      BY <2>2, <2>3, <2>4, FS_EmptySet
<1>12. PICK fr : fr = <<h>>
    OBVIOUS
<1>13. Len(fr) = 1 /\ fr[1] = h /\ h.to = T /\ h.from = F
    BY <1>4, <1>12
<1>14. \A c, i : IsOpen(P, fr, c, i) => c \in S
    BY <1>7, <1>10, <1>13 DEF IsOpen
<1>15. CallsApart(P, R, kind, fr)
    BY <1>1, <1>6, <1>7, <1>10, <1>13 DEF CallsApart, CallApart
<1>16. ASSUME NEW c \in Obj, NEW i \in DOMAIN items[c], IsOpen(P, fr, c, i), items[c][i] \in Obj
       PROVE  items[c][i] \in P
    BY <1>7, <1>10, <1>11, <1>14, <1>16 DEF Closed, ClosedIn
<1>17. ASSUME NEW c \in Obj, NEW d \in Obj, NEW i \in DOMAIN items[c], NEW j \in DOMAIN items[d],
              IsOpen(P, fr, c, i), IsOpen(P, fr, d, j), items[c][i] = items[d][j], items[c][i] \in Obj
       PROVE  c = d /\ i = j
  <2>1. PICK o \in Obj : o = items[c][i]
      BY <1>17
  <2>2. c \in S /\ d \in S
      BY <1>14, <1>17
  <2>3. o \in S /\ o # T
      BY <1>10, <1>16, <1>17, <2>1
  <2>4. HeldBy(items, S)[o] = 1
      BY <1>6, <2>3
  <2> QED
      BY <1>7, <1>17, <2>1, <2>2, <2>4, HeldOnce
<1>18. Apart(P, R, fr, kind, items)
    BY <1>6, <1>7, <1>9, <1>10, <1>15, <1>16, <1>17 DEF Apart, Closed
<1> QED
    BY <1>5, <1>12, <1>18

\* The calls of Update under way are apart, and their behaviour is defined, if the
\* first one changes a tree that its argument has no part of.
UpdateApart ==
    frames # <<>> /\ apart => bad = "no" /\ \E P, R : Apart(P, R, frames, kind, items)

\* A step keeps that.
LEMMA UpdateStaysApart ==
    ASSUME HeapAssumption, IInv, UpdateApart, [Next]_vars
    PROVE  UpdateApart'
<1> SUFFICES ASSUME frames' # <<>>, apart'
             PROVE  bad' = "no" /\ \E P, R : Apart(P, R, frames', kind', items')
    BY DEF UpdateApart
<1>1. CASE UNCHANGED vars
    BY <1>1 DEF UpdateApart, vars
<1>2. CASE Next /\ frames = <<>>
  <2>1. Exact /\ Operation /\ bad = "no"
      BY <1>2 DEF Next, IInv
  <2>2. PICK p, q : Update(p, q)
      BY <1>2, <2>1, OperationKeeps DEF Quiet
  <2> QED
      BY <2>1, <2>2, FirstApart DEF Update
<1>3. CASE Next /\ frames # <<>> /\ UpdateStep
  <2>1. apart /\ bad = "no"
      BY <1>3 DEF Next, UpdateStep, Fail
  <2>2. PICK P, R : Apart(P, R, frames, kind, items)
      BY <1>3, <2>1 DEF UpdateApart
  <2> QED
      BY <1>3, <2>1, <2>2, StepApart
<1>4. CASE Next /\ frames # <<>> /\ UpdateReturn
  <2>1. /\ Head(frames) \in Frame /\ Tail(frames) \in Seq(Frame)
        /\ frames = <<Head(frames)>> \o Tail(frames)
      BY <1>4, TopFrame DEF FramesOK
  <2>2. apart /\ bad = "no"
    <3>1. Len(frames) = 1 => Tail(frames) = <<>>
      <4>1. PICK fr \in Seq(Frame) : fr = Tail(frames)
          BY <2>1
      <4>2. Len(frames) = Len(fr) + 1 /\ Len(fr) \in Nat
          BY <2>1, <4>1
      <4> QED
          BY <4>1, <4>2, EmptySeq
    <3> QED
        BY <1>4, <3>1 DEF Next, UpdateReturn, Fail
  <2>3. PICK P, R : Apart(P, R, frames, kind, items)
      BY <1>4, <2>2 DEF UpdateApart
  <2>4. PICK f, fr : f = Head(frames) /\ fr = Tail(frames)
      OBVIOUS
  <2>5. Apart(P, R, <<f>> \o fr, kind, items) /\ f \in Frame /\ fr \in Seq(Frame)
      BY <2>1, <2>3, <2>4
  <2>6. kind[Head(frames).from] # "free"
    <3>1. f.from \in R
        BY <2>5, TopCall DEF CallApart
    <3> QED
        BY <2>3, <2>4, <3>1 DEF Apart
  <2>7. frames' = fr /\ UNCHANGED <<items, kind, bad>>
      BY <1>4, <2>4, <2>6 DEF UpdateReturn
  <2>8. Apart(P, R, fr, kind, items)
      BY <2>5, ApartReturn
  <2> QED
      BY <2>2, <2>7, <2>8
<1> QED
    BY <1>1, <1>2, <1>3, <1>4 DEF Next

\* Assignments and calls of Update that use a value for its own change are defined:
\* operator = (dynamic.cpp) keeps its source as long as the variables reach it, and
\* Impl<DICT>::Update (impl_dict.h), which recurses and deletes while it iterates,
\* meets no deleted map and ends, for a tree that its argument has no part of.
THEOREM SelfUseAlwaysDefined ==
    ASSUME HeapAssumption
    PROVE  Spec => []SelfUseDefined
<1>1. Init => UpdateApart
    BY DEF Init, UpdateApart
<1>2. IInv /\ UpdateApart /\ [Next]_vars => UpdateApart'
    BY UpdateStaysApart
<1>3. IInv /\ UpdateApart => SelfUseDefined
  <2> SUFFICES ASSUME IInv, UpdateApart PROVE SelfUseDefined
      OBVIOUS
  <2>1. AssignDefined
      BY SourcesStay DEF IInv
  <2> QED
      BY <2>1 DEF SelfUseDefined, UpdateDefined, UpdateApart
<1> QED
    BY <1>1, <1>2, <1>3, CountsInvariant, PTL DEF Spec


-----------------------------------------------------------------------------
(* What Clone makes.                                                       *)

\* The container of the destination is reached without the value that it gives up,
\* so that it is not deleted, and what the clone leads to is what was made.
LEMMA ClonesApart ==
    ASSUME HeapAssumption, Exact
    PROVE  CloneIsApart
<1> SUFFICES ASSUME NEW d \in Place, NEW s \in Place, Clone(d, s), bad' = "no", At(d) # None, At(s) \in Obj
             PROVE  ReachableIn(items', {items'[d[1]][d[2]]}) \cap Live = {}
    BY DEF CloneIsApart
<1>1. IsPlace(d) /\ IsPlace(s)
    BY PlaceIs DEF Exact, HeapOK
<1>2. PICK made, it : Cloned(d, s, made, it)
    BY <1>1, CloneMakes
<1>3. /\ made \in SUBSET (Obj \ Live) /\ ClosedIn(it, made) /\ \A c \in made : items[c] = <<>>
      /\ \A c \in Container \ made : c # d[1] => it[c] = items[c]
      /\ it[d[1]][d[2]] \in made /\ FiniteItems(it)
    BY <1>2 DEF Cloned
<1>4. PICK kd, cn : /\ \A o \in Obj : cn[o] = RefCount(it, o)
                    /\ items' = [c \in Container |-> IF c \in Deleted(kd, it, cn) THEN <<>> ELSE it[c]]
    BY <1>2 DEF Cloned
<1>5. PICK c \in Container : c = d[1]
    BY <1>1 DEF IsPlace
<1>6. c \in Reachable({Root})
    BY <1>5 DEF Place, Places
<1>7. c \in ReachableIn(it, {Root})
  <2>1. PICK S : S = ReachableIn(it, {Root})
      OBVIOUS
  <2>2. Root \in S /\ S \subseteq Container /\ ClosedIn(it, S)
      BY <2>1, ReachableInIs DEF Container
  <2> SUFFICES ASSUME c \notin S PROVE FALSE
      BY <2>1
  <2>3. Closed(S)
    <3> SUFFICES ASSUME NEW e \in S, NEW i \in DOMAIN items[e], items[e][i] \in Obj PROVE items[e][i] \in S
        BY DEF Closed, ClosedIn
    <3>1. e \notin made
        BY <1>3, NoItems
    <3>2. it[e] = items[e]
        BY <3>1, <1>3, <1>5, <2>2
    <3> QED
        BY <3>2, <2>2 DEF ClosedIn
  <2>4. Reachable({Root}) \subseteq S
      BY <2>2, <2>3, ReachableIs
  <2> QED
      BY <2>4, <1>6
<1>8. c \notin Deleted(kd, it, cn)
    BY <1>3, <1>4, <1>7, ReachedStays
<1>9. PICK top : top = items'[d[1]][d[2]]
    OBVIOUS
<1>10. top \in made
    BY <1>3, <1>4, <1>5, <1>8, <1>9
<1>11. ClosedIn(items', made)
  <2>1. \A e \in made : items'[e] = it[e] \/ items'[e] = <<>>
      BY <1>3, <1>4 DEF Container
  <2> QED
      BY <2>1, <1>3, NoItems DEF ClosedIn
<1>12. {top} \subseteq made
    BY <1>10
<1>13. ReachableIn(items', {top}) \subseteq made
    BY <1>11, <1>12, ReachableInIs
<1> QED
    BY <1>3, <1>9, <1>13

\* The objects on a path are as many as its items and one, or one of them is on a
\* cycle: a path as long as there are objects comes to an object twice.
LEMMA LongPathsRepeat ==
    ASSUME HeapAssumption, Exact, NEW v \in LiveValue(kind), Path(v)[Cardinality(Obj)] # {}
    PROVE  \E c \in Reachable({v} \cap Obj) : OnCycle(c)
<1>1. PICK path : path = Path(v)
    OBVIOUS
<1>2. path[0] = FirstPath(v) /\ \A n \in Nat : path[n + 1] = NextPaths(path[n])
    BY <1>1, PathIs
<1>3. PICK R : R = Reachable({v} \cap Obj)
    OBVIOUS
<1>4. {v} \cap Obj \subseteq R /\ R \subseteq Obj /\ Closed(R)
    BY <1>3, ReachableIs
<1>5. PICK N : N = Cardinality(Obj)
    OBVIOUS
<1>6. N \in Nat /\ IsFiniteSet(Obj)
    BY <1>5, FS_CardinalityType DEF HeapAssumption
<1> SUFFICES ASSUME \A c \in R : ~OnCycle(c) PROVE FALSE
    BY <1>3
<1> DEFINE Seen(S, o, n) == /\ S \in SUBSET R /\ Cardinality(S) = n + 1 /\ o \in S
                            /\ \A c \in S : o \in Reachable({c})
           Level(n) == \A q \in path[n] : \E S : Seen(S, q[2], n)
           T == {n \in Nat : Level(n)}
<1>7. Level(0)
  <2> SUFFICES ASSUME NEW q \in path[0] PROVE \E S : Seen(S, q[2], 0)
      OBVIOUS
  <2>1. v \in Obj /\ q = <<<<>>, v>>
      BY <1>2 DEF FirstPath
  <2>2. v \in R /\ v \in Reachable({v}) /\ Cardinality({v}) = 0 + 1
    <3>1. v \in R
        BY <2>1, <1>4
    <3>2. {v} \subseteq Reachable({v})
        BY ReachableIs
    <3>3. Cardinality({v}) = 1
        BY FS_Singleton
    <3> QED
        BY <3>1, <3>2, <3>3
  <2>3. Seen({v}, v, 0)
      BY <2>2
  <2>4. q[2] = v
      BY <2>1
  <2> QED
      BY <2>3, <2>4
<1>8. ASSUME NEW n \in Nat, Level(n) PROVE Level(n + 1)
  <2> SUFFICES ASSUME NEW r \in path[n + 1] PROVE \E S : Seen(S, r[2], n + 1)
      OBVIOUS
  <2>1. PICK q \in path[n] : \E i : Extends(r, q, i)
      BY <1>2, InNextPaths
  <2>2. PICK i : Extends(r, q, i)
      BY <2>1
  <2>3. PICK o : o = q[2]
      OBVIOUS
  <2>4. PICK w : w = items[o][i]
      OBVIOUS
  <2>5. i \in DOMAIN items[o] /\ w \in Obj /\ r[2] = w
      BY <2>2, <2>3, <2>4 DEF Extends
  <2>6. PICK S : Seen(S, o, n)
      BY <1>8, <2>1, <2>3
  <2>7. o \in R /\ w \in R
      BY <2>4, <2>5, <2>6, <1>4 DEF Closed, ClosedIn
  <2>8. w \notin S
    <3> SUFFICES ASSUME w \in S PROVE FALSE
        OBVIOUS
    <3>1. o \in Reachable({w}) /\ {w} = {w} \cap Obj
        BY <2>5, <2>6
    <3>2. OnCycle(o)
        BY <3>1, <2>4, <2>5 DEF OnCycle
    <3> QED
        BY <3>2, <2>7
  <2>9. PICK Q : Q = S \cup {w}
      OBVIOUS
  <2>10. IsFiniteSet(S)
    <3>1. S \in SUBSET Obj
        BY <2>6, <1>4
    <3> QED
        BY <3>1, <1>6, FS_Subset
  <2>11. Cardinality(Q) = n + 1 + 1
      BY <2>6, <2>8, <2>9, <2>10, FS_AddElement
  <2>12. ASSUME NEW c \in Q PROVE w \in Reachable({c})
    <3>1. CASE c \in S
      <4>1. o \in Reachable({c}) /\ Closed(Reachable({c}))
          BY <3>1, <2>6, ReachableIs
      <4> QED
          BY <4>1, <2>4, <2>5 DEF Closed, ClosedIn
    <3>2. CASE c = w
        BY <3>2, ReachableIs
    <3> QED
        BY <3>1, <3>2, <2>9
  <2>13. Q \in SUBSET R /\ w \in Q
      BY <2>6, <2>7, <2>9
  <2>14. Seen(Q, w, n + 1)
      BY <2>11, <2>12, <2>13
  <2> QED
      BY <2>5, <2>14
<1> HIDE DEF Level
<1>9. \A n \in Nat : Level(n)
  <2>1. 0 \in T
      BY <1>7
  <2>2. ASSUME NEW n \in Nat, n \in T PROVE n + 1 \in T
    <3>1. Level(n)
        BY <2>2
    <3>2. Level(n + 1)
        BY <3>1, <1>8
    <3>3. n + 1 \in Nat
        OBVIOUS
    <3> QED
        BY <3>2, <3>3
  <2> HIDE DEF T
  <2>3. Nat \subseteq T
      BY <2>1, <2>2, SetInduction
  <2> QED
      BY <2>3 DEF T
<1>10. PICK q \in path[N] : TRUE
    BY <1>1, <1>5
<1>11. PICK S : Seen(S, q[2], N)
    BY <1>6, <1>9, <1>10 DEF Level
<1>12. S \in SUBSET Obj
    BY <1>11, <1>4
<1>13. Cardinality(S) <= N
    BY <1>5, <1>6, <1>12, FS_Subset
<1> QED
    BY <1>6, <1>11, <1>13

\* So Clone has an end for what does not contain itself.
LEMMA ClonesEnd ==
    ASSUME HeapAssumption, Exact, bad = "no" \/ UNCHANGED vars
    PROVE  [CloneEnds]_vars
<1> SUFFICES ASSUME bad = "no", NEW d \in Place, NEW s \in Place, bad' = "endless", Clone(d, s)
             PROVE  \E c \in Reachable({At(s)} \cap Obj) : OnCycle(c)
    BY DEF CloneEnds
<1>1. WellFormed(kind, items)
    BY DEF Exact, HeapOK
<1>2. At(s) \in LiveValue(kind)
    BY <1>1, PlaceIs, PlaceHolds
<1>3. Path(At(s))[Cardinality(Obj)] # {}
    BY DEF Clone
<1> QED
    BY <1>2, <1>3, LongPathsRepeat

\* Dynamic::Clone copies all levels: what it makes leads to no object of before
\* the call, so that no later change of the one value shows in the other; and its
\* recursion ends unless the value contains itself.
THEOREM ClonesShareNothing ==
    ASSUME HeapAssumption
    PROVE  Spec => CloneSharesNothing
<1>1. IInv /\ [Next]_vars => [CloneIsApart /\ CloneEnds]_vars
  <2> SUFFICES ASSUME IInv, [Next]_vars PROVE [CloneIsApart /\ CloneEnds]_vars
      OBVIOUS
  <2>1. bad = "no" \/ UNCHANGED vars
      BY DEF Next
  <2> QED
      BY <2>1, ClonesApart, ClonesEnd DEF IInv
<1> QED
    BY <1>1, CountsInvariant, PTL DEF Spec, CloneSharesNothing

=============================================================================
