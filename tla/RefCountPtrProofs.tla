------------------------- MODULE RefCountPtrProofs -------------------------
(***************************************************************************)
(* What ref_count_ptr keeps, for every finite set of variables and objects *)
(* and every way objects point to one another.                             *)
(***************************************************************************)
EXTENDS RefCountPtr, Integers, WellFoundedInduction, FiniteSetTheorems, TLAPS

\* Where pointers point once the reset under way has let go of its object.
Cut == [p \in Roots \cup Objects |-> IF p = resetting THEN NoPtr ELSE ptr[p]]

\* What the variables of the client lead to without the pointer being reset.
Kept == Reached(Cut, Roots)

\* Every object has a pointer that counts.
Held == \A o \in alive : count[o] # 0

\* Of an assignment: its two sides differ; no other pointer that is still there
\* is reset; the left side stays, and is empty after its reset; and so stays the
\* right side, unless the left side alone led to it.
AssignUnderWay ==
    assign # NoAssign =>
        /\ assign.to \in Roots \cup Objects /\ assign.from \in Roots \cup Objects
        /\ assign.to # assign.from
        /\ resetting \in {assign.to, NoPtr} \/ resetting \notin Roots \cup alive
        /\ resetting = assign.to \/ ptr[assign.to] = NoPtr
        /\ assign.to \in Roots \cup Kept
        /\ assign.own \/ assign.from \in Roots \cup Kept

\* The inductive invariant.
IInv ==
    /\ PointersTypeOK
    /\ CountExact /\ NoDangling /\ Held
    /\ AssignUnderWay
    /\ UndefinedOnlyFromOwnPart /\ AssignmentAssigns

-----------------------------------------------------------------------------
\* A set of natural numbers has a least one.
LEMMA LeastNatural ==
    ASSUME NEW T \in SUBSET Nat, T # {}
    PROVE  \E x \in T : \A y \in T : x <= y
<1>1. \E x \in T : \A y \in T : ~(<<y, x>> \in OpToRel(<, Nat))
    BY NatLessThanWellFounded, WFMin
<1>2. PICK x \in T : \A y \in T : ~(<<y, x>> \in OpToRel(<, Nat))
    BY <1>1
<1>3. ASSUME NEW y \in T PROVE x <= y
  <2>1. ~(<<y, x>> \in {ss \in Nat \X Nat : ss[1] < ss[2]})
      BY <1>2 DEF OpToRel
  <2>2. x \in Nat /\ y \in Nat
      OBVIOUS
  <2>3. ~(y < x)
      BY <2>1, <2>2
  <2> QED
      BY <2>2, <2>3
<1> QED
    BY <1>3

-----------------------------------------------------------------------------
\* Pointers, and what they point to.
Pointer == Roots \cup Objects
Heap == [Pointer -> Objects \cup {NoPtr}]

\* Reached holds what the pointers point to and is closed.
LEMMA ReachedClosed ==
    ASSUME NEW f \in Heap, NEW from \in SUBSET Pointer
    PROVE  /\ Reached(f, from) \in SUBSET Objects
           /\ \A p \in from : f[p] \in Reached(f, from) \cup {NoPtr}
           /\ \A o \in Reached(f, from) : f[o] \in Reached(f, from) \cup {NoPtr}
<1>1. Reached(f, from) \in SUBSET Objects
    BY DEF Reached
<1>2. ASSUME NEW p \in from \cup Reached(f, from), f[p] # NoPtr
      PROVE  f[p] \in Reached(f, from)
  <2>1. f[p] \in Objects
      BY <1>1, <1>2 DEF Heap, Pointer
  <2>2. ASSUME NEW S \in SUBSET Objects,
               \A q \in from \cup S : f[q] \in S \cup {NoPtr}
        PROVE  f[p] \in S
    <3>1. p \in from \cup S
        BY <1>2, <2>2 DEF Reached
    <3> QED
        BY <3>1, <2>2, <1>2
  <2> QED
      BY <2>1, <2>2 DEF Reached
<1> QED
    BY <1>1, <1>2

\* Reached is the least such set.
LEMMA ReachedLeast ==
    ASSUME NEW f \in Heap, NEW from \in SUBSET Pointer, NEW C,
           \A p \in from : f[p] \in C \cup {NoPtr},
           \A o \in C : f[o] \in C \cup {NoPtr}
    PROVE  Reached(f, from) \subseteq C
<1> DEFINE S == C \cap Objects
<1>1. \A p \in from \cup S : f[p] \in S \cup {NoPtr}
    BY DEF Heap, Pointer
<1>2. S \in SUBSET Objects
    OBVIOUS
<1>3. ASSUME NEW o \in Reached(f, from) PROVE o \in S
  <2> HIDE DEF S
  <2> QED
      BY <1>1, <1>2 DEF Reached
<1> QED
    BY <1>3

\* Pointers that agree where Reached looks reach the same.
LEMMA ReachedAgree ==
    ASSUME RefCountPtrAssumption, NEW f \in Heap, NEW g \in Heap,
           NEW from \in SUBSET Pointer,
           \A p \in from \cup Reached(f, from) : f[p] = g[p]
    PROVE  Reached(g, from) = Reached(f, from)
<1>1. Reached(g, from) \subseteq Reached(f, from)
    BY ReachedClosed, ReachedLeast
<1>2. Reached(f, from) \subseteq Reached(g, from)
  <2>1. \A p \in from : f[p] \in Reached(g, from) \cup {NoPtr}
      BY ReachedClosed
  <2> DEFINE C == Reached(f, from) \cap Reached(g, from)
  <2>2. \A p \in from : f[p] \in C \cup {NoPtr}
      BY <2>1, ReachedClosed
  <2>3. \A o \in C : f[o] \in C \cup {NoPtr}
    <3> TAKE o \in C
    <3>1. f[o] \in Reached(f, from) \cup {NoPtr}
        BY ReachedClosed
    <3>2. g[o] \in Reached(g, from) \cup {NoPtr}
        BY ReachedClosed
    <3>3. f[o] = g[o]
        OBVIOUS
    <3> QED
        BY <3>1, <3>2, <3>3
  <2>4. Reached(f, from) \subseteq C
      BY <2>2, <2>3, ReachedLeast
  <2> QED
      BY <2>4
<1> QED
    BY <1>1, <1>2

-----------------------------------------------------------------------------
\* The pointers that count for an object.
Holders(o) == {p \in Existing : ptr[p] = o}

\* They are finitely many.
LEMMA HoldersFinite ==
    ASSUME RefCountPtrAssumption, PointersTypeOK, NEW o
    PROVE  IsFiniteSet(Holders(o)) /\ Cardinality(Holders(o)) \in Nat
<1>1. IsFiniteSet(Roots \cup Objects)
    BY FS_Union DEF RefCountPtrAssumption
<1>2. Holders(o) \in SUBSET (Roots \cup Objects)
    BY DEF Holders, Existing, PointersTypeOK
<1> QED
    BY <1>1, <1>2, FS_Subset, FS_CardinalityType

\* What the client leads to without the pointer being reset is there.
LEMMA KeptAlive ==
    ASSUME RefCountPtrAssumption, PointersTypeOK, NoDangling
    PROVE  /\ Cut \in Heap /\ ptr \in Heap
           /\ Kept \subseteq alive
           /\ resetting = NoPtr => Cut = ptr /\ Kept = Reached(ptr, Roots)
<1>1. Cut \in Heap /\ ptr \in Heap
    BY DEF Cut, Heap, Pointer, PointersTypeOK
<1>2. Roots \in SUBSET Pointer
    BY DEF Pointer
<1>3. \A p \in Roots : Cut[p] \in alive \cup {NoPtr}
    BY DEF Cut, PointersTypeOK, NoDangling, Existing
<1>4. \A o \in alive : Cut[o] \in alive \cup {NoPtr}
    BY DEF Cut, PointersTypeOK, NoDangling, Existing
<1>5. Kept \subseteq alive
    BY <1>1, <1>2, <1>3, <1>4, ReachedLeast DEF Kept
<1>6. resetting = NoPtr => Cut = ptr
    BY DEF Cut, PointersTypeOK, RefCountPtrAssumption
<1> QED
    BY <1>1, <1>5, <1>6 DEF Kept

\* What a client can name is there when no call is under way.
LEMMA NamedAlive ==
    ASSUME RefCountPtrAssumption, PointersTypeOK, NoDangling, resetting = NoPtr
    PROVE  Named \subseteq Roots \cup alive /\ Existing = Roots \cup alive
    BY KeptAlive DEF Named, Existing

\* A reset keeps the pointer it starts from: the way to it does not go
\* through it.
LEMMA NamedKept ==
    ASSUME RefCountPtrAssumption, NEW f \in Heap, NEW g \in Heap, NEW p \in Pointer,
           p \in Roots \cup Reached(f, Roots),
           \A q \in Pointer : q # p => g[q] = f[q]
    PROVE  p \in Roots \cup Reached(g, Roots)
<1> SUFFICES ASSUME p \notin Roots, p \notin Reached(g, Roots)
             PROVE  FALSE
    OBVIOUS
<1>1. Roots \in SUBSET Pointer /\ Objects \subseteq Pointer
    BY DEF Pointer
<1>2. \A q \in Roots : f[q] \in Reached(g, Roots) \cup {NoPtr}
    BY <1>1, ReachedClosed
<1>3. \A o \in Reached(g, Roots) : f[o] \in Reached(g, Roots) \cup {NoPtr}
    BY <1>1, ReachedClosed
<1>4. Reached(f, Roots) \subseteq Reached(g, Roots)
    BY <1>1, <1>2, <1>3, ReachedLeast
<1> QED
    BY <1>4

-----------------------------------------------------------------------------
\* A level of a reset takes one pointer away, and nothing a client leads to.
LEMMA ReleaseKeeps ==
    ASSUME RefCountPtrAssumption, PointersTypeOK, CountExact, NoDangling, Release
    PROVE  Kept' = Kept
<1> DEFINE o == ptr[resetting]
           r == resetting
<1>1. resetting \in Roots \cup Objects /\ o \in alive
    BY DEF Release, PointersTypeOK, NoDangling, Existing
<1>2. CASE count[o] = 1
  <2>1. Holders(o) = {r}
    <3>1. r \in Holders(o)
        BY <1>1 DEF Holders, Existing, Release
    <3>2. Cardinality(Holders(o)) = 1
        BY <1>1, <1>2 DEF CountExact, Holders
    <3>3. PICK x : Holders(o) = {x}
        BY <3>2, HoldersFinite, FS_Singleton
    <3> QED
        BY <3>1, <3>3
  <2>2. Cut \in Heap /\ Kept \subseteq alive
      BY KeptAlive
  <2>3. \A p \in Roots \cup Kept : Cut[p] # o
    <3> TAKE p \in Roots \cup Kept
    <3>1. p \in Existing /\ p \in Roots \cup Objects
        BY <2>2 DEF Existing, PointersTypeOK
    <3>2. CASE p = r
        BY <3>1, <3>2 DEF Cut, Release
    <3>3. CASE p # r
        BY <3>1, <3>3, <2>1 DEF Cut, Holders
    <3> QED
        BY <3>2, <3>3
  <2>4. Roots \in SUBSET Pointer
      BY DEF Pointer
  <2>5. Kept \subseteq Kept \ {o}
    <3>1. \A p \in Roots : Cut[p] \in (Kept \ {o}) \cup {NoPtr}
        BY <2>2, <2>3, <2>4, ReachedClosed DEF Kept
    <3>2. \A p \in Kept \ {o} : Cut[p] \in (Kept \ {o}) \cup {NoPtr}
        BY <2>2, <2>3, <2>4, ReachedClosed DEF Kept
    <3> QED
        BY <3>1, <3>2, <2>2, <2>4, ReachedLeast DEF Kept
  <2>6. Cut' \in Heap /\ \A p \in Roots \cup Objects : p # o => Cut'[p] = Cut[p]
    <3>1. resetting' = o /\ ptr' = [ptr EXCEPT ![r] = NoPtr]
        BY <1>2 DEF Release
    <3>2. ptr' \in Heap
        BY <3>1, <1>1 DEF PointersTypeOK, Heap, Pointer
    <3> QED
        BY <3>1, <3>2 DEF Cut, Heap, Pointer, PointersTypeOK
  <2>7. \A p \in Roots \cup Kept : Cut[p] = Cut'[p]
      BY <2>5, <2>6, <2>2, <1>1 DEF RefCountPtrAssumption, PointersTypeOK
  <2> QED
      BY <2>2, <2>4, <2>6, <2>7, ReachedAgree DEF Kept
<1>3. CASE count[o] # 1
  <2>1. resetting' = NoPtr /\ ptr' = [ptr EXCEPT ![r] = NoPtr]
      BY <1>3 DEF Release
  <2>2. Cut' = Cut
      BY <2>1 DEF Cut, PointersTypeOK, RefCountPtrAssumption
  <2> QED
      BY <2>2 DEF Kept
<1> QED
    BY <1>2, <1>3

\* And so does a reset of a pointer that holds nothing.
LEMMA NothingToReleaseKeeps ==
    ASSUME RefCountPtrAssumption, PointersTypeOK, NothingToRelease
    PROVE  Kept' = Kept
<1>1. Cut' = Cut
    BY DEF Cut, PointersTypeOK, RefCountPtrAssumption, NothingToRelease
<1> QED
    BY <1>1 DEF Kept

-----------------------------------------------------------------------------
\* The invariant holds before the first call.
LEMMA InitIInv ==
    ASSUME RefCountPtrAssumption, PointersInit
    PROVE  IInv
<1>1. PointersTypeOK /\ CountExact /\ Held
    BY DEF PointersInit, PointersTypeOK, CountExact, Held, NoAssign
<1>2. NoDangling
    BY DEF PointersInit, NoDangling, Existing
<1>3. AssignUnderWay /\ UndefinedOnlyFromOwnPart /\ AssignmentAssigns
    BY DEF PointersInit, AssignUnderWay, UndefinedOnlyFromOwnPart, AssignmentAssigns
<1> QED
    BY <1>1, <1>2, <1>3 DEF IInv

\* A new object has one holder, and no other object gets or loses one.
LEMMA MakeIInv ==
    ASSUME RefCountPtrAssumption, IInv, NEW p \in Pointer, NEW o \in Objects, Make(p, o)
    PROVE  IInv'
<1> USE DEF IInv
<1>1. Idle /\ resetting' = NoPtr /\ assign' = NoAssign /\ resetting = NoPtr
    BY DEF Make, Idle
<1>2. p \in Roots \cup alive /\ Existing = Roots \cup alive /\ p # o /\ o \notin Roots
    BY <1>1, NamedAlive DEF Make, RefCountPtrAssumption
<1>3. /\ ptr' = [ptr EXCEPT ![p] = o, ![o] = NoPtr]
      /\ count' = [count EXCEPT ![o] = 1]
      /\ alive' = alive \cup {o}
      /\ ptr[p] = NoPtr /\ o \notin alive
      /\ undefined' = undefined
    BY DEF Make
<1>4. PointersTypeOK'
    BY <1>1, <1>3 DEF PointersTypeOK, NoAssign, Pointer
<1>5. Existing' = Existing \cup {o}
    BY <1>1, <1>2, <1>3 DEF Existing
<1>6. ptr'[p] = o /\ ptr'[o] = NoPtr
      /\ \A q \in Pointer : q \notin {p, o} => ptr'[q] = ptr[q]
    BY <1>2, <1>3 DEF PointersTypeOK, Pointer
<1>7. \A x \in Existing : x \in Pointer /\ ptr[x] \in alive \cup {NoPtr}
    BY <1>2 DEF NoDangling, PointersTypeOK, Pointer
<1>8. NoDangling'
  <2>1. ASSUME NEW x \in Existing' PROVE ptr'[x] \in alive' \cup {NoPtr}
    <3>1. alive' = alive \cup {o}
        BY <1>3
    <3>2. CASE x \in {p, o}
        BY <3>1, <3>2, <1>6
    <3>3. CASE x \notin {p, o}
        BY <3>1, <3>3, <1>5, <1>6, <1>7
    <3> QED
        BY <3>2, <3>3
  <2> QED
      BY <2>1 DEF NoDangling
<1>9. ASSUME NEW x \in alive'
      PROVE  count'[x] = Cardinality(Holders(x)') /\ count'[x] # 0
  <2>1. CASE x = o
    <3>1. \A q \in Existing' : ptr'[q] = o <=> q = p
      <4>1. o \notin alive /\ o # NoPtr
          BY <1>3 DEF RefCountPtrAssumption
      <4>2. \A q \in Existing : ptr[q] # o
          BY <4>1, <1>7
      <4> QED
          BY <4>1, <4>2, <1>5, <1>6, <1>7
    <3>2. p \in Existing'
        BY <1>2, <1>5
    <3>3. Holders(x)' = {p}
        BY <2>1, <3>1, <3>2 DEF Holders
    <3>4. count'[x] = 1
        BY <2>1, <1>3 DEF PointersTypeOK
    <3>5. Cardinality({p}) = 1
        BY FS_Singleton, Zenon
    <3> QED
        BY <3>3, <3>4, <3>5
  <2>2. CASE x # o
    <3>1. x \in alive /\ x # NoPtr
        BY <2>2, <1>3 DEF PointersTypeOK, RefCountPtrAssumption
    <3>2. Holders(x)' = Holders(x)
        BY <2>2, <3>1, <1>2, <1>3, <1>5, <1>6, <1>7 DEF Holders
    <3>3. count'[x] = count[x]
        BY <2>2, <3>1, <1>3 DEF PointersTypeOK
    <3> QED
        BY <3>1, <3>2, <3>3 DEF CountExact, Held, Holders
  <2> QED
      BY <2>1, <2>2
<1>10. CountExact' /\ Held'
    BY <1>9 DEF CountExact, Held, Holders
<1>11. AssignUnderWay' /\ AssignmentAssigns'
    BY <1>1 DEF AssignUnderWay, AssignmentAssigns
<1>12. UndefinedOnlyFromOwnPart'
    BY <1>1, <1>3 DEF UndefinedOnlyFromOwnPart, Idle
<1> QED
    BY <1>4, <1>8, <1>10, <1>11, <1>12

\* A pointer that was empty and points to what another one points to is one more
\* holder: of a copy and of the second part of an assignment.
LEMMA OneMoreHolder ==
    ASSUME RefCountPtrAssumption, PointersTypeOK, CountExact, NoDangling, Held,
           NEW CONSTANT p \in Existing, NEW CONSTANT v \in alive \cup {NoPtr},
           ptr[p] = NoPtr, ptr' = [ptr EXCEPT ![p] = v], count' = Incremented(v),
           alive' = alive, resetting' = resetting
    PROVE  /\ ptr' \in [Roots \cup Objects -> Objects \cup {NoPtr}]
           /\ count' \in [Objects -> Nat]
           /\ CountExact' /\ NoDangling' /\ Held'
<1>1. Existing' = Existing /\ \A x \in Existing : x \in Roots \cup Objects
    BY DEF Existing, PointersTypeOK
<1>2. ptr' \in [Roots \cup Objects -> Objects \cup {NoPtr}] /\ count' \in [Objects -> Nat]
  <2>1. ptr' \in [Roots \cup Objects -> Objects \cup {NoPtr}]
      BY DEF PointersTypeOK
  <2>2. CASE v = NoPtr
      BY <2>1, <2>2 DEF PointersTypeOK, Incremented
  <2>3. CASE v # NoPtr
    <3>1. count' = [count EXCEPT ![v] = @ + 1] /\ v \in Objects
        BY <2>3 DEF PointersTypeOK, Incremented
    <3>2. count' \in [Objects -> Nat]
        BY <3>1 DEF PointersTypeOK
    <3> QED
        BY <2>1, <3>2
  <2> QED
      BY <2>2, <2>3
<1>3. ptr'[p] = v /\ \A x \in Existing : x # p => ptr'[x] = ptr[x]
    BY <1>1 DEF PointersTypeOK
<1>4. NoDangling'
    BY <1>1, <1>3 DEF NoDangling
<1>5. ASSUME NEW x \in alive'
      PROVE  count'[x] = Cardinality(Holders(x)') /\ count'[x] # 0
  <2>1. x \in alive /\ x \in Objects /\ x # NoPtr /\ count[x] \in Nat
      BY DEF PointersTypeOK, RefCountPtrAssumption
  <2>2. count[x] = Cardinality(Holders(x)) /\ count[x] # 0
      BY <2>1 DEF CountExact, Held, Holders
  <2>3. CASE x = v
    <3>1. Holders(x)' = Holders(x) \cup {p} /\ p \notin Holders(x)
        BY <2>1, <2>3, <1>1, <1>3 DEF Holders
    <3>2. count'[x] = count[x] + 1
        BY <2>1, <2>3 DEF Incremented, PointersTypeOK
    <3>3. Cardinality(Holders(x) \cup {p}) = Cardinality(Holders(x)) + 1
        BY <3>1, HoldersFinite, FS_AddElement
    <3> QED
        BY <3>1, <3>2, <3>3, <2>1, <2>2
  <2>4. CASE x # v
    <3>1. Holders(x)' = Holders(x)
        BY <2>1, <2>4, <1>1, <1>3 DEF Holders
    <3>2. count'[x] = count[x]
        BY <2>1, <2>4 DEF Incremented, PointersTypeOK
    <3> QED
        BY <3>1, <3>2, <2>2
  <2> QED
      BY <2>3, <2>4
<1>6. CountExact' /\ Held'
    BY <1>5 DEF CountExact, Held, Holders
<1> QED
    BY <1>2, <1>4, <1>6

\* A copy is one more holder.
LEMMA CopyIInv ==
    ASSUME RefCountPtrAssumption, IInv, NEW p \in Pointer, NEW q \in Pointer, Copy(p, q)
    PROVE  IInv'
<1> USE DEF IInv
<1>1. Idle /\ resetting' = resetting /\ assign' = NoAssign /\ resetting = NoPtr
      /\ alive' = alive /\ undefined' = undefined
    BY DEF Copy, Idle
<1>2. p \in Existing /\ q \in Existing
    BY <1>1, NamedAlive DEF Copy
<1>3. PICK v : v = ptr[q]
    OBVIOUS
<1>4. v \in alive \cup {NoPtr} /\ ptr[p] = NoPtr
      /\ ptr' = [ptr EXCEPT ![p] = v] /\ count' = Incremented(v)
    BY <1>2, <1>3 DEF NoDangling, Copy
<1>5. /\ ptr' \in [Roots \cup Objects -> Objects \cup {NoPtr}]
      /\ count' \in [Objects -> Nat]
      /\ CountExact' /\ NoDangling' /\ Held'
    BY <1>1, <1>2, <1>4, OneMoreHolder
<1>6. PointersTypeOK'
    BY <1>1, <1>5 DEF PointersTypeOK, NoAssign
<1>7. AssignUnderWay' /\ AssignmentAssigns'
    BY <1>1 DEF AssignUnderWay, AssignmentAssigns
<1>8. UndefinedOnlyFromOwnPart'
    BY <1>1 DEF UndefinedOnlyFromOwnPart, Idle
<1> QED
    BY <1>5, <1>6, <1>7, <1>8

\* Beginning a reset changes no pointer: the pointer was there before.
LEMMA BeginReset ==
    ASSUME RefCountPtrAssumption, PointersTypeOK, CountExact, NoDangling, Held,
           NEW CONSTANT p \in Pointer, p \in Named, resetting = NoPtr, resetting' = p,
           ptr' = ptr, count' = count, alive' = alive
    PROVE  /\ CountExact' /\ NoDangling' /\ Held'
           /\ Existing' = Existing /\ p \in Roots \cup alive
           /\ p \in Roots \cup Kept'
           /\ Kept' = Reached([ptr EXCEPT ![p] = NoPtr], Roots)
<1>1. p \in Roots \cup alive /\ Existing = Roots \cup alive
    BY NamedAlive
<1>2. Existing' = Existing
    BY <1>1 DEF Existing, PointersTypeOK
<1>3. CountExact' /\ NoDangling' /\ Held'
    BY <1>2 DEF CountExact, NoDangling, Held
<1>4. Cut' = [ptr EXCEPT ![p] = NoPtr] /\ Cut' \in Heap /\ ptr \in Heap
    BY DEF Cut, PointersTypeOK, Heap, Pointer
<1>5. Kept' = Reached([ptr EXCEPT ![p] = NoPtr], Roots)
    BY <1>4 DEF Kept
<1>6. p \in Roots \cup Kept'
  <2>1. \A q \in Pointer : q # p => (Cut')[q] = ptr[q]
      BY <1>4 DEF Heap
  <2>2. p \in Roots \cup Reached(ptr, Roots)
      BY DEF Named
  <2>3. p \in Roots \cup Reached(Cut', Roots)
      BY <1>4, <2>1, <2>2, NamedKept
  <2> QED
      BY <2>3 DEF Kept
<1> QED
    BY <1>1, <1>2, <1>3, <1>5, <1>6

\* reset begins.
LEMMA ResetIInv ==
    ASSUME RefCountPtrAssumption, IInv, NEW p \in Pointer, Reset(p)
    PROVE  IInv'
<1> USE DEF IInv
<1>1. Idle /\ resetting = NoPtr /\ resetting' = p /\ assign' = NoAssign /\ p \in Named
      /\ ptr' = ptr /\ count' = count /\ alive' = alive /\ undefined' = undefined
    BY DEF Reset, Idle
<1>2. CountExact' /\ NoDangling' /\ Held'
    BY <1>1, BeginReset
<1>3. PointersTypeOK'
    BY <1>1 DEF PointersTypeOK, NoAssign, Pointer
<1>4. AssignUnderWay' /\ AssignmentAssigns'
    BY <1>1 DEF AssignUnderWay, AssignmentAssigns
<1>5. UndefinedOnlyFromOwnPart'
    BY <1>1 DEF UndefinedOnlyFromOwnPart, Idle
<1> QED
    BY <1>2, <1>3, <1>4, <1>5

\* operator = begins with the reset of its left side.
LEMMA AssignIInv ==
    ASSUME RefCountPtrAssumption, IInv, NEW p \in Pointer, NEW q \in Pointer, Assign(p, q)
    PROVE  IInv'
<1> USE DEF IInv
<1>1. Idle /\ resetting = NoPtr /\ resetting' = p /\ p \in Named /\ p # q
      /\ ptr' = ptr /\ count' = count /\ alive' = alive /\ undefined' = undefined
    BY DEF Assign, Idle
<1>2. /\ CountExact' /\ NoDangling' /\ Held'
      /\ p \in Roots \cup Kept'
      /\ Kept' = Reached([ptr EXCEPT ![p] = NoPtr], Roots)
    BY <1>1, BeginReset
<1>3. assign'.to = p /\ assign'.from = q /\ assign'.value = ptr[q]
      /\ assign'.own = OwnPart(p, q)
    BY DEF Assign
<1>4. PointersTypeOK'
    BY <1>1, <1>3 DEF PointersTypeOK, Pointer
<1>5. assign'.own \/ q \in Roots \cup Kept'
    BY <1>2, <1>3 DEF OwnPart, Pointer
<1>6. AssignUnderWay'
    BY <1>1, <1>2, <1>3, <1>5 DEF AssignUnderWay, Pointer
<1>7. AssignmentAssigns'
    BY <1>1, <1>3 DEF AssignmentAssigns
<1>8. UndefinedOnlyFromOwnPart'
    BY <1>1 DEF UndefinedOnlyFromOwnPart, Idle
<1> QED
    BY <1>2, <1>4, <1>6, <1>7, <1>8

\* A level of a reset: the object loses this holder, every other object keeps
\* its holders, and a deleted object had no other.
LEMMA ReleaseCounts ==
    ASSUME RefCountPtrAssumption, PointersTypeOK, CountExact, NoDangling, Held, Release
    PROVE  PointersTypeOK' /\ CountExact' /\ NoDangling' /\ Held'
<1>1. PICK r : r = resetting
    OBVIOUS
<1>2. PICK o : o = ptr[r]
    OBVIOUS
<1>3. /\ r \in Roots \cup Objects /\ r \in Existing /\ o \in alive /\ o \in Objects
      /\ o # NoPtr /\ r # NoPtr /\ count[o] \in Nat /\ o \notin Roots
    BY <1>1, <1>2 DEF Release, PointersTypeOK, NoDangling, Existing, RefCountPtrAssumption
<1>4. /\ ptr' = [ptr EXCEPT ![r] = NoPtr]
      /\ count' = [count EXCEPT ![o] = @ - 1]
      /\ assign' = assign /\ undefined' = undefined
    BY <1>1, <1>2 DEF Release
<1>5. \/ count[o] = 1 /\ alive' = alive \ {o} /\ resetting' = o
      \/ count[o] # 1 /\ alive' = alive /\ resetting' = NoPtr
    BY <1>1, <1>2 DEF Release
<1>6. count[o] = Cardinality(Holders(o)) /\ count[o] # 0 /\ r \in Holders(o)
    BY <1>2, <1>3 DEF CountExact, Held, Holders
<1>7. PointersTypeOK'
  <2>1. ptr' \in [Roots \cup Objects -> Objects \cup {NoPtr}]
      BY <1>4 DEF PointersTypeOK
  <2>2. count' \in [Objects -> Nat]
    <3>1. count[o] - 1 \in Nat
        BY <1>3, <1>6
    <3> QED
        BY <3>1, <1>3, <1>4 DEF PointersTypeOK
  <2>3. alive' \subseteq Objects /\ resetting' \in Roots \cup Objects \cup {NoPtr}
      BY <1>3, <1>5 DEF PointersTypeOK
  <2> QED
      BY <2>1, <2>2, <2>3, <1>4 DEF PointersTypeOK
<1>8. /\ Existing' \subseteq Existing /\ Existing \subseteq Existing' \cup {r}
      /\ \A x \in Existing : x \in Roots \cup Objects
    BY <1>1, <1>3, <1>5 DEF Existing, PointersTypeOK
<1>9. ptr'[r] = NoPtr /\ \A x \in Roots \cup Objects : x # r => ptr'[x] = ptr[x]
    BY <1>3, <1>4 DEF PointersTypeOK
<1>10. count[o] = 1 => Holders(o) = {r}
    BY <1>6, HoldersFinite, FS_Singleton
<1>11. NoDangling'
  <2>1. ASSUME NEW x \in Existing' PROVE ptr'[x] \in alive' \cup {NoPtr}
    <3>1. CASE x = r
        BY <3>1, <1>9
    <3>2. CASE x # r
      <4>1. x \in Existing /\ ptr'[x] = ptr[x]
          BY <3>2, <1>8, <1>9
      <4>2. ptr[x] \in alive \cup {NoPtr}
          BY <4>1 DEF NoDangling
      <4>3. CASE count[o] = 1
        <5>1. ptr[x] # o
            BY <4>1, <4>3, <3>2, <1>10 DEF Holders
        <5> QED
            BY <4>1, <4>2, <4>3, <5>1, <1>5
      <4>4. CASE count[o] # 1
          BY <4>1, <4>2, <4>4, <1>5
      <4> QED
          BY <4>3, <4>4
    <3> QED
        BY <3>1, <3>2
  <2> QED
      BY <2>1 DEF NoDangling
<1>12. ASSUME NEW x \in alive'
       PROVE  count'[x] = Cardinality(Holders(x)') /\ count'[x] # 0
  <2>1. x \in alive /\ x \in Objects /\ x # NoPtr /\ count[x] \in Nat
      BY <1>5 DEF PointersTypeOK, RefCountPtrAssumption
  <2>2. count[x] = Cardinality(Holders(x)) /\ count[x] # 0
      BY <2>1 DEF CountExact, Held, Holders
  <2>3. Holders(x)' = Holders(x) \ {r}
      BY <2>1, <1>8, <1>9 DEF Holders
  <2>4. CASE x = o
    <3>1. count'[x] = count[x] - 1 /\ count[x] # 1
        BY <2>1, <2>4, <1>4, <1>5 DEF PointersTypeOK
    <3>2. Cardinality(Holders(x) \ {r}) = Cardinality(Holders(x)) - 1
        BY <2>4, <1>6, HoldersFinite, FS_RemoveElement
    <3> QED
        BY <3>1, <3>2, <2>1, <2>2, <2>3
  <2>5. CASE x # o
    <3>1. count'[x] = count[x]
        BY <2>1, <2>5, <1>4 DEF PointersTypeOK
    <3>2. Holders(x) \ {r} = Holders(x)
        BY <2>5, <1>2 DEF Holders
    <3> QED
        BY <3>1, <3>2, <2>2, <2>3
  <2> QED
      BY <2>4, <2>5
<1>13. CountExact' /\ Held'
    BY <1>12 DEF CountExact, Held, Holders
<1> QED
    BY <1>7, <1>11, <1>13

\* A level of a reset: of an assignment under way it changes neither the left
\* side's being there nor, unless the left side alone led to it, the right side.
LEMMA ReleaseIInv ==
    ASSUME RefCountPtrAssumption, IInv, Release
    PROVE  IInv'
<1> USE DEF IInv
<1>1. PointersTypeOK' /\ CountExact' /\ NoDangling' /\ Held'
    BY ReleaseCounts
<1>2. Kept' = Kept
    BY ReleaseKeeps
<1>3. PICK r : r = resetting
    OBVIOUS
<1>4. PICK o : o = ptr[r]
    OBVIOUS
<1>5. /\ r \in Roots \cup Objects /\ o \in alive /\ o \in Objects
      /\ o \notin Roots /\ r # NoPtr /\ o # NoPtr
    BY <1>3, <1>4 DEF Release, PointersTypeOK, NoDangling, Existing, RefCountPtrAssumption
<1>6. ptr' = [ptr EXCEPT ![r] = NoPtr] /\ assign' = assign /\ undefined' = undefined
    BY <1>3, <1>4 DEF Release
<1>7. \/ alive' = alive \ {o} /\ resetting' = o
      \/ alive' = alive /\ resetting' = NoPtr
    BY <1>3, <1>4 DEF Release
<1>8. ptr'[r] = NoPtr /\ \A x \in Roots \cup Objects : x # r => ptr'[x] = ptr[x]
    BY <1>5, <1>6 DEF PointersTypeOK
<1>9. AssignUnderWay'
  <2> SUFFICES ASSUME assign # NoAssign
               PROVE  /\ resetting' \in {assign.to, NoPtr} \/ resetting' \notin Roots \cup alive'
                      /\ resetting' = assign.to \/ ptr'[assign.to] = NoPtr
      BY <1>2, <1>6 DEF AssignUnderWay
  <2>1. resetting' \in {assign.to, NoPtr} \/ resetting' \notin Roots \cup alive'
      BY <1>5, <1>7
  <2>2. ptr'[assign.to] = NoPtr
      BY <1>3, <1>8 DEF AssignUnderWay
  <2> QED
      BY <2>1, <2>2
<1>10. AssignmentAssigns'
  <2> SUFFICES ASSUME assign # NoAssign, assign.from \in Existing'
               PROVE  ptr'[assign.from] = assign.value
      BY <1>6 DEF AssignmentAssigns
  <2>1. assign.from \in Existing
      BY <1>5, <1>7 DEF Existing
  <2>2. ptr[assign.from] = assign.value
      BY <2>1 DEF AssignmentAssigns
  <2>3. assign.from # r
    <3> SUFFICES ASSUME assign.from = r PROVE FALSE
        OBVIOUS
    <3>1. r \notin Roots \cup alive
        BY <1>3, <1>5 DEF AssignUnderWay
    <3>2. r \notin Existing'
        BY <3>1, <1>5, <1>7 DEF Existing
    <3> QED
        BY <3>2
  <2> QED
      BY <2>2, <2>3, <1>8 DEF AssignUnderWay
<1>11. UndefinedOnlyFromOwnPart'
    BY <1>6 DEF UndefinedOnlyFromOwnPart
<1> QED
    BY <1>1, <1>9, <1>10, <1>11

\* A reset ends at a pointer that holds nothing.
LEMMA NothingToReleaseIInv ==
    ASSUME RefCountPtrAssumption, IInv, NothingToRelease
    PROVE  IInv'
<1> USE DEF IInv
<1>1. /\ resetting # NoPtr /\ ptr[resetting] = NoPtr /\ resetting' = NoPtr
      /\ ptr' = ptr /\ count' = count /\ alive' = alive /\ assign' = assign
      /\ undefined' = undefined
    BY DEF NothingToRelease
<1>2. Kept' = Kept
    BY NothingToReleaseKeeps
<1>3. PointersTypeOK' /\ Held'
    BY <1>1 DEF PointersTypeOK, Held
<1>4. Existing' \subseteq Existing /\ Existing \subseteq Existing' \cup {resetting}
    BY <1>1 DEF Existing
<1>5. NoDangling'
    BY <1>1, <1>4 DEF NoDangling
<1>6. CountExact'
  <2>1. ASSUME NEW o \in alive PROVE Holders(o)' = Holders(o)
    <3>1. o # NoPtr
        BY DEF PointersTypeOK, RefCountPtrAssumption
    <3> QED
        BY <3>1, <1>1, <1>4 DEF Holders
  <2> QED
      BY <2>1, <1>1 DEF CountExact, Holders
<1>7. AssignUnderWay'
    BY <1>1, <1>2 DEF AssignUnderWay
<1>8. AssignmentAssigns' /\ UndefinedOnlyFromOwnPart'
    BY <1>1, <1>4 DEF AssignmentAssigns, UndefinedOnlyFromOwnPart
<1> QED
    BY <1>3, <1>5, <1>6, <1>7, <1>8

\* The second part of an assignment, whether its right side is there or gone.
LEMMA FinishAssignIInv ==
    ASSUME RefCountPtrAssumption, IInv, FinishAssign
    PROVE  IInv'
<1> USE DEF IInv
<1>1. /\ resetting = NoPtr /\ assign # NoAssign /\ alive' = alive
      /\ resetting' = resetting
    BY DEF FinishAssign
<1>2. PICK p : p = assign.to
    OBVIOUS
<1>3. PICK q : q = assign.from
    OBVIOUS
<1>4. Kept \subseteq alive /\ Existing = Roots \cup alive
    BY <1>1, KeptAlive DEF Existing
<1>5. p \in Existing /\ p \in Roots \cup Objects /\ p # NoPtr
      /\ (assign.own \/ q \in Roots \cup alive)
    BY <1>1, <1>2, <1>3, <1>4 DEF AssignUnderWay, RefCountPtrAssumption
<1>6. ptr[p] = NoPtr
    BY <1>1, <1>2, <1>5 DEF AssignUnderWay
<1>7. CASE q \in Roots \cup alive
  <2>1. PICK v : v = ptr[q]
      OBVIOUS
  <2>2. v \in alive \cup {NoPtr}
      BY <2>1, <1>4, <1>7 DEF NoDangling
  <2>3. ptr' = [ptr EXCEPT ![p] = v] /\ count' = Incremented(v) /\ assign' = NoAssign
        /\ undefined' = undefined
      BY <2>1, <1>2, <1>3, <1>7 DEF FinishAssign
  <2>4. /\ ptr' \in [Roots \cup Objects -> Objects \cup {NoPtr}]
        /\ count' \in [Objects -> Nat]
        /\ CountExact' /\ NoDangling' /\ Held'
      BY <2>2, <2>3, <1>1, <1>5, <1>6, OneMoreHolder
  <2>5. PointersTypeOK'
      BY <2>3, <2>4, <1>1 DEF PointersTypeOK, NoAssign
  <2>6. AssignUnderWay' /\ AssignmentAssigns'
      BY <2>3 DEF AssignUnderWay, AssignmentAssigns
  <2>7. ~undefined
      BY DEF FinishAssign
  <2>8. UndefinedOnlyFromOwnPart'
      BY <2>3, <2>7 DEF UndefinedOnlyFromOwnPart
  <2> QED
      BY <2>4, <2>5, <2>6, <2>8
<1>8. CASE q \notin Roots \cup alive
  <2>1. ptr' = ptr /\ count' = count /\ assign' = assign /\ undefined' = TRUE
      BY <1>3, <1>8 DEF FinishAssign
  <2>2. PointersTypeOK' /\ Held'
      BY <2>1, <1>1 DEF PointersTypeOK, Held
  <2>3. Existing' = Existing /\ Kept' = Kept
      BY <2>1, <1>1 DEF Existing, Kept, Cut
  <2>4. CountExact' /\ NoDangling' /\ AssignmentAssigns'
      BY <2>1, <2>3, <1>1 DEF CountExact, NoDangling, AssignmentAssigns
  <2>5. AssignUnderWay'
      BY <2>1, <2>3, <1>1 DEF AssignUnderWay
  <2>6. UndefinedOnlyFromOwnPart'
      BY <2>1, <1>5, <1>8 DEF UndefinedOnlyFromOwnPart
  <2> QED
      BY <2>2, <2>4, <2>5, <2>6
<1> QED
    BY <1>7, <1>8

\* Every object no variable leads to is in a ring or held by one: of the objects
\* that lead to it take one that reaches most; what points to that one reaches
\* no more, so it reaches itself.
LEMMA NothingElseStays ==
    ASSUME RefCountPtrAssumption, IInv
    PROVE  OnlyRingsStay
<1> SUFFICES ASSUME Idle, NEW o \in alive, o \notin Reached(ptr, Roots)
             PROVE  \E r \in alive : {r, o} \subseteq Reached(ptr, {r})
    BY DEF OnlyRingsStay
<1>1. PointersTypeOK /\ CountExact /\ NoDangling /\ Held /\ resetting = NoPtr
    BY DEF IInv, Idle
<1>2. ptr \in Heap /\ Existing = Roots \cup alive /\ Roots \in SUBSET Pointer
      /\ alive \subseteq Objects /\ Objects \subseteq Pointer
    BY <1>1, NamedAlive, KeptAlive DEF Pointer, PointersTypeOK
<1> DEFINE N == Cardinality(Objects)
           D(x) == Reached(ptr, {x})
           U == alive \ Reached(ptr, Roots)
           A == {x \in U : x = o \/ o \in D(x)}
<1>3. N \in Nat /\ IsFiniteSet(Objects)
    BY FS_CardinalityType DEF RefCountPtrAssumption
<1>4. \A x \in U : D(x) \in SUBSET Objects /\ ptr[x] \in D(x) \cup {NoPtr}
                  /\ \A y \in D(x) : ptr[y] \in D(x) \cup {NoPtr}
    BY <1>2, ReachedClosed
<1>5. \A x \in U : IsFiniteSet(D(x)) /\ Cardinality(D(x)) \in Nat /\ Cardinality(D(x)) <= N
  <2> TAKE x \in U
  <2> HIDE DEF D, U
  <2>1. D(x) \in SUBSET Objects
      BY <1>4
  <2> QED
      BY <2>1, <1>3, FS_Subset, FS_CardinalityType
<1>6. ASSUME NEW x \in U PROVE \E y \in U : ptr[y] = x
  <2>1. count[x] = Cardinality(Holders(x)) /\ count[x] # 0
      BY <1>1 DEF CountExact, Held, Holders
  <2>2. Holders(x) # {}
      BY <2>1, FS_EmptySet
  <2>3. PICK y \in Existing : ptr[y] = x
      BY <2>2 DEF Holders
  <2>4. x # NoPtr
      BY <1>1 DEF PointersTypeOK, RefCountPtrAssumption
  <2>5. y \notin Roots /\ y \notin Reached(ptr, Roots)
      BY <2>3, <2>4, <1>2, ReachedClosed
  <2> QED
      BY <2>3, <2>5, <1>2
<1>7. ASSUME NEW x \in U, NEW y \in U, ptr[y] = x
      PROVE  D(x) \cup {x} \subseteq D(y)
  <2>1. x # NoPtr
      BY <1>1 DEF PointersTypeOK, RefCountPtrAssumption
  <2>2. x \in D(y)
      BY <1>4, <1>7, <2>1
  <2>3. D(x) \subseteq D(y)
    <3>1. {x} \in SUBSET Pointer
        BY <1>2
    <3>2. \A p \in {x} : ptr[p] \in D(y) \cup {NoPtr}
        BY <1>4, <2>2
    <3>3. \A p \in D(y) : ptr[p] \in D(y) \cup {NoPtr}
        BY <1>4
    <3> QED
        BY <3>1, <3>2, <3>3, <1>2, ReachedLeast
  <2> QED
      BY <2>2, <2>3
<1> HIDE DEF D, U
<1>8. \E x \in A : \A y \in A : Cardinality(D(y)) <= Cardinality(D(x))
  <2> DEFINE T == {N - Cardinality(D(x)) : x \in A}
  <2>1. T \in SUBSET Nat
      BY <1>3, <1>5
  <2>2. o \in A
      BY DEF U
  <2>3. T # {}
      BY <2>2
  <2>4. PICK n \in T : \A m \in T : n <= m
      BY <2>1, <2>3, LeastNatural
  <2>5. PICK x \in A : n = N - Cardinality(D(x))
      BY <2>4
  <2>6. ASSUME NEW y \in A PROVE Cardinality(D(y)) <= Cardinality(D(x))
    <3>1. n <= N - Cardinality(D(y))
        BY <2>4
    <3> QED
        BY <3>1, <2>5, <1>3, <1>5
  <2> QED
      BY <2>5, <2>6
<1>9. PICK x \in A : \A y \in A : Cardinality(D(y)) <= Cardinality(D(x))
    BY <1>8
<1>10. PICK y \in U : ptr[y] = x
    BY <1>6
<1>11. D(x) \cup {x} \subseteq D(y)
    BY <1>7, <1>10
<1>12. y \in A
    BY <1>11
<1>13. D(x) = D(y)
  <2>1. Cardinality(D(x)) <= Cardinality(D(y)) /\ Cardinality(D(y)) <= Cardinality(D(x))
        /\ (Cardinality(D(y)) = Cardinality(D(x)) => D(y) = D(x))
      BY <1>5, <1>9, <1>10, <1>11, <1>12, FS_Subset
  <2> QED
      BY <2>1, <1>5, <1>10
<1>14. {x, o} \subseteq D(x) /\ x \in alive
    BY <1>11, <1>13 DEF U
<1> QED
    BY <1>14 DEF D

-----------------------------------------------------------------------------
\* IInv is an invariant: every call and every step of a call keeps it.
THEOREM PointersInvariant ==
    ASSUME RefCountPtrAssumption
    PROVE  PointersSpec => []IInv
<1>1. PointersInit => IInv
    BY InitIInv
<1>2. IInv /\ [PointersNext]_pointersVars => IInv'
  <2> SUFFICES ASSUME IInv, [PointersNext]_pointersVars PROVE IInv'
      OBVIOUS
  <2>1. ASSUME NEW p \in Pointer, NEW o \in Objects, Make(p, o) PROVE IInv'
      BY <2>1, MakeIInv
  <2>2. ASSUME NEW p \in Pointer, NEW q \in Pointer, Copy(p, q) PROVE IInv'
      BY <2>2, CopyIInv
  <2>3. ASSUME NEW p \in Pointer, NEW q \in Pointer, Assign(p, q) PROVE IInv'
      BY <2>3, AssignIInv
  <2>4. ASSUME NEW p \in Pointer, Reset(p) PROVE IInv'
      BY <2>4, ResetIInv
  <2>5. CASE Release
      BY <2>5, ReleaseIInv
  <2>6. CASE NothingToRelease
      BY <2>6, NothingToReleaseIInv
  <2>7. CASE FinishAssign
      BY <2>7, FinishAssignIInv
  <2>8. CASE UNCHANGED pointersVars
      BY <2>8 DEF pointersVars, IInv, PointersTypeOK, CountExact, NoDangling, Held, AssignUnderWay,
         UndefinedOnlyFromOwnPart, AssignmentAssigns, Existing, Kept, Cut
  <2> QED
      BY <2>1, <2>2, <2>3, <2>4, <2>5, <2>6, <2>7, <2>8 DEF PointersNext, Continue, Pointer
<1> QED
    BY <1>1, <1>2, PTL DEF PointersSpec

\* For all variables and objects: at every level of a reset and between the two
\* parts of an assignment the counter of an object is the number of pointers to
\* it and no pointer leads to a deleted object; between calls nothing but rings
\* is left over; and operator = assigns what its right side was when it was
\* called, unless the left side alone led to it. (ref_count_ptr.h)
THEOREM PointersAlwaysCounted ==
    ASSUME RefCountPtrAssumption
    PROVE  PointersSpec => []PointersCounted
<1>1. IInv => PointersCounted
    BY NothingElseStays DEF IInv, PointersCounted
<1> QED
    BY <1>1, PointersInvariant, PTL

=============================================================================
