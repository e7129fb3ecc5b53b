---------------------------- MODULE RefCountPtr ----------------------------
(***************************************************************************)
(* detail::ref_count_ptr (nkit/detail/ref_count_ptr.h): pointers that      *)
(* count.  A pointer is a variable of the client (a root) or the member of *)
(* an object, named by the object: indexes, builders of grouped tables,    *)
(* group indexes and aggregators hold one another in this way.  reset may  *)
(* delete the object, whose destructor resets its member in turn; each     *)
(* level of that is a step, and an assignment reads its right side after   *)
(* the last one.                                                           *)
(***************************************************************************)
EXTENDS Naturals, FiniteSets

CONSTANTS Roots, Objects, NoPtr

\* What an instance gives for the constants.
RefCountPtrAssumption ==
    /\ IsFiniteSet(Roots) /\ IsFiniteSet(Objects)
    /\ Roots \cap Objects = {}
    /\ NoPtr \notin Roots \cup Objects

VARIABLES
    ptr,        \* obj_ and counter_ of every pointer
    count,      \* *counter_ of every object
    alive,      \* the objects that are not deleted
    resetting,  \* the pointer whose reset is under way
    assign,     \* the assignment that reset is the first part of; value and
                \* own are history: what from pointed to when it was called
    undefined   \* a pointer was read in an object that is gone

pointersVars == <<ptr, count, alive, resetting, assign, undefined>>

NoAssign == [to |-> NoPtr, from |-> NoPtr, value |-> NoPtr, own |-> FALSE]

PointersInit ==
    /\ ptr = [p \in Roots \cup Objects |-> NoPtr]
    /\ count = [o \in Objects |-> 0]
    /\ alive = {}
    /\ resetting = NoPtr /\ assign = NoAssign
    /\ undefined = FALSE

\* What the pointers in a set lead to, where f tells where pointers point: the
\* least set that is closed under following pointers.
Reached(f, from) ==
    {o \in Objects : \A S \in SUBSET Objects :
        (\A p \in from \cup S : f[p] \in S \cup {NoPtr}) => o \in S}

\* The pointers a client can name.
Named == Roots \cup Reached(ptr, Roots)

\* q is in an object to which p alone leads.
OwnPart(p, q) == q \in Objects \ Reached([ptr EXCEPT ![p] = NoPtr], Roots)

Idle == resetting = NoPtr /\ assign = NoAssign /\ ~undefined

Incremented(o) == IF o = NoPtr THEN count ELSE [count EXCEPT ![o] = @ + 1]

-----------------------------------------------------------------------------
\* ref_count_ptr(T *), with a new object.
Make(p, o) ==
    /\ Idle /\ p \in Named /\ ptr[p] = NoPtr /\ o \in Objects \ alive
    /\ ptr' = [ptr EXCEPT ![p] = o, ![o] = NoPtr]
    /\ count' = [count EXCEPT ![o] = 1]
    /\ alive' = alive \cup {o}
    /\ UNCHANGED <<resetting, assign, undefined>>

\* Mutant: a copy is not counted.
CopyUncounted(p, q) ==
    /\ Idle /\ p \in Named /\ q \in Named /\ ptr[p] = NoPtr
    /\ ptr' = [ptr EXCEPT ![p] = ptr[q]]
    /\ UNCHANGED <<count, alive, resetting, assign, undefined>>

\* The copy constructor, and the one that takes a pointer to a derived class.
Copy(p, q) ==
    /\ Idle /\ p \in Named /\ q \in Named /\ ptr[p] = NoPtr
    /\ ptr' = [ptr EXCEPT ![p] = ptr[q]]
    /\ count' = Incremented(ptr[q])
    /\ UNCHANGED <<alive, resetting, assign, undefined>>

\* reset, and the destructor of a variable, which is not used any more.
Reset(p) ==
    /\ Idle /\ p \in Named
    /\ resetting' = p
    /\ UNCHANGED <<ptr, count, alive, assign, undefined>>

\* operator = up to its reset.
Assign(p, q) ==
    /\ Idle /\ p \in Named /\ q \in Named /\ p # q
    /\ resetting' = p
    /\ assign' = [to |-> p, from |-> q, value |-> ptr[q], own |-> OwnPart(p, q)]
    /\ UNCHANGED <<ptr, count, alive, undefined>>

\* A level of reset that holds an object: when it was the last pointer the
\* object is deleted, and its member is next.
Release ==
    LET o == ptr[resetting]
    IN  /\ resetting # NoPtr /\ o # NoPtr
        /\ ptr' = [ptr EXCEPT ![resetting] = NoPtr]
        /\ count' = [count EXCEPT ![o] = @ - 1]
        /\ IF count[o] = 1
           THEN alive' = alive \ {o} /\ resetting' = o
           ELSE resetting' = NoPtr /\ UNCHANGED alive
        /\ UNCHANGED <<assign, undefined>>

\* A reset of a pointer without a counter.
NothingToRelease ==
    /\ resetting # NoPtr /\ ptr[resetting] = NoPtr
    /\ resetting' = NoPtr
    /\ UNCHANGED <<ptr, count, alive, assign, undefined>>

\* The rest of operator =, which reads its right side now.
FinishAssign ==
    LET p == assign.to
        q == assign.from
    IN  /\ resetting = NoPtr /\ assign # NoAssign /\ ~undefined
        /\ IF q \in Roots \cup alive
           THEN /\ ptr' = [ptr EXCEPT ![p] = ptr[q]]
                /\ count' = Incremented(ptr[q])
                /\ assign' = NoAssign
                /\ UNCHANGED undefined
           ELSE /\ undefined' = TRUE
                /\ UNCHANGED <<ptr, count, assign>>
        /\ UNCHANGED <<alive, resetting>>

Continue == Release \/ NothingToRelease \/ FinishAssign

PointersNext ==
    \/ \E p \in Roots \cup Objects : \E o \in Objects : Make(p, o)
    \/ \E p, q \in Roots \cup Objects : Copy(p, q) \/ Assign(p, q)
    \/ \E p \in Roots \cup Objects : Reset(p)
    \/ Continue

\* A call that was begun goes on.
PointersSpec == PointersInit /\ [][PointersNext]_pointersVars /\ WF_pointersVars(Continue)

-----------------------------------------------------------------------------
\* Type invariant.
PointersTypeOK ==
    /\ ptr \in [Roots \cup Objects -> Objects \cup {NoPtr}]
    /\ count \in [Objects -> Nat]
    /\ alive \subseteq Objects
    /\ resetting \in Roots \cup Objects \cup {NoPtr}
    /\ assign.to \in Roots \cup Objects \cup {NoPtr}
    /\ assign.from \in Roots \cup Objects \cup {NoPtr}
    /\ undefined \in BOOLEAN

\* The pointers there are: the member of an object is one until the destructor
\* of the object has reset it.
Existing == Roots \cup alive \cup ({resetting} \ {NoPtr})

\* The counter of an object is the number of pointers to it, at every level of
\* a reset and between the two parts of an assignment.
CountExact ==
    \A o \in alive : count[o] = Cardinality({p \in Existing : ptr[p] = o})

\* No pointer there is leads to an object that was deleted: delete obj_ is the
\* step of the last one.
NoDangling == \A p \in Existing : ptr[p] \in alive \cup {NoPtr}

\* Between calls an object that no variable leads to is in a ring of objects or
\* held by one: nothing else is left over.
OnlyRingsStay ==
    Idle => \A o \in alive :
        \/ o \in Reached(ptr, Roots)
        \/ \E r \in alive : {r, o} \subseteq Reached(ptr, {r})

\* operator = reads a right side that is gone only when the left side alone led
\* to it (p = p->next): then, and only then, the order of reset and read shows.
UndefinedOnlyFromOwnPart == undefined => assign.own

\* What operator = reads after its reset, if it is there, is what the right side
\* was when the assignment was called: the left side becomes that.
AssignmentAssigns ==
    (assign # NoAssign /\ assign.from \in Existing) => ptr[assign.from] = assign.value

\* What clients rely on: objects live exactly as long as pointers lead to them,
\* or as rings hold them, and assignments assign.
PointersCounted ==
    /\ PointersTypeOK
    /\ CountExact /\ NoDangling
    /\ OnlyRingsStay
    /\ UndefinedOnlyFromOwnPart /\ AssignmentAssigns

=============================================================================
