---------------------------- MODULE DynamicHeap ----------------------------
(***************************************************************************)
(* The values of nkit::Dynamic and the reference counts behind them        *)
(* (src/src/dynamic/dynamic.cpp, nkit/dynamic/impl.h, impl_list.h,         *)
(* impl_dict.h).  A Dynamic is a scalar or a pointer to a Shared object    *)
(* with a count.  Lists and dicts hold Dynamics themselves, so a client    *)
(* builds shared, nested and cyclic values, and names by v[0]["k"] a place *)
(* inside a container that another name may free.                          *)
(*                                                                         *)
(* A place is <<c, i>>: item i of the object c, or the variable i if c is  *)
(* Root.  D_NONE, the global that stands for a missing item, is a variable *)
(* too.  The client names places it can reach from the variables, one      *)
(* operation at a time.  bad tells why the behaviour became undefined: the *)
(* model stops there.                                                      *)
(***************************************************************************)
EXTENDS Integers, Sequences, FiniteSets, Functions

CONSTANTS
    Var,        \* the client's variables
    Obj,        \* addresses for Shared<std::string>, SharedVector, SharedMap
    Kind,       \* the types the client makes, of "string", "list" and "dict"
    Key,        \* keys of dicts, in the order of std::map
    Root,       \* the pseudo container of the variables
    D_NONE,     \* the global variable
    Undef,      \* a value of type UNDEF
    None,       \* a value of type NONE
    MaxItems,   \* bound: items in all containers together
    MaxDepth    \* bound: nested calls of Impl<DICT>::Update

\* What an instance gives for the constants.
HeapAssumption ==
    /\ IsFiniteSet(Var) /\ IsFiniteSet(Obj) /\ Key \subseteq Nat /\ Kind \subseteq {"string", "list", "dict"}
    /\ Root \notin Obj /\ Undef \notin Obj /\ None \notin Obj /\ Undef # None
    /\ D_NONE \notin Var
    /\ MaxItems \in Nat /\ MaxDepth \in Nat
    /\ Cardinality(Obj) <= MaxDepth     \* no tree of dicts is deeper

VARIABLES
    items,      \* items[c]: the Dynamics in c, by position, key or name
    kind,       \* kind[o]: the type of the object at o, "free" if there is none
    count,      \* count[o]: refcount_ of the object at o
    cap,        \* cap[o]: capacity of the vector at o
    frames,     \* the calls of Impl<DICT>::Update under way, innermost first
    apart,      \* history: the last Update changes a tree that its argument has no part of
    bad         \* why the behaviour is undefined, "no" if it is not

vars == <<items, kind, count, cap, frames, apart, bad>>

Value == {Undef, None} \cup Obj
Live == {o \in Obj : kind[o] # "free"}
Places(C) == UNION {{<<c, i>> : i \in DOMAIN items[c]} : c \in C}
At(p) == items[p[1]][p[2]]

IsList(v) == v \in Obj /\ kind[v] = "list"
IsDict(v) == v \in Obj /\ kind[v] = "dict"

Init ==
    /\ items = [c \in Obj \cup {Root} |->
                  IF c = Root
                  THEN [x \in Var \cup {D_NONE} |-> IF x = D_NONE THEN None ELSE Undef]
                  ELSE <<>>]
    /\ kind = [o \in Obj |-> "free"]
    /\ count = [o \in Obj |-> 0]
    /\ cap = [o \in Obj |-> 0]
    /\ frames = <<>>
    /\ apart = TRUE
    /\ bad = "no"

-----------------------------------------------------------------------------
(* What the client can name, and how containers refer to each other.       *)

\* C and the objects that C holds, directly or through others: the least set that
\* has them
ReachableIn(it, C) ==
    LET closed == {S \in {C \cup T : T \in SUBSET (Obj \ C)} :
                      \A c \in S : \A i \in DOMAIN it[c] : it[c][i] \in Obj => it[c][i] \in S}
    IN  {c \in C \cup Obj : \A S \in closed : c \in S}

Reachable(C) == ReachableIn(items, C)

Place == Places(Reachable({Root}))

\* how often the items I of the function f refer to o
Refers(f, I, o) == Cardinality({i \in I : f[i] = o})

-----------------------------------------------------------------------------
(* Reference counts.  An operation says which references it takes and      *)
(* gives up; an object whose count reaches 0 is deleted, and with it the   *)
(* references of its items.                                                *)

Nothing == [o \in Obj |-> 0]
One(v) == [o \in Obj |-> IF v = o THEN 1 ELSE 0]
Sum(f, g) == [o \in Obj |-> f[o] + g[o]]
AllOf(f, I) == [o \in Obj |-> Refers(f, I, o)]

\* the references the items of D hold
HeldBy(it, D) ==
    [o \in Obj |-> Cardinality(UNION {{<<d, i>> : i \in {j \in DOMAIN it[d] : it[d][j] = o}} : d \in D})]

\* Mutant: an object goes when one reference is left.
DeletedEarly(kd, it, cn) == {o \in Obj : kd[o] # "free" /\ cn[o] <= 1}

\* the objects that have no references but those of the items of D
OnlyFrom(kd, it, cn, D) ==
    LET held == HeldBy(it, D) IN {o \in Obj : kd[o] # "free" /\ cn[o] = held[o]}

\* the objects deleted when the counts are cn and the items are it: those with
\* count 0, and those to which then only deleted ones refer
Deleted(kd, it, cn) ==
    LET live == {o \in Obj : kd[o] # "free"}
        zero == {o \in live : cn[o] = 0}
        closed == {D \in {zero \cup T : T \in SUBSET (live \ zero)} :
                      OnlyFrom(kd, it, cn, D) \subseteq D}
    IN  IF zero = {} THEN {} ELSE {o \in live : \A D \in closed : o \in D}

\* the state after the references inc are taken, dec are given up, the items
\* are it and what nobody refers to is deleted
Settle(kd, it, cp, inc, dec) ==
    LET cn == [o \in Obj |-> count[o] + inc[o] - dec[o]]
        D == Deleted(kd, it, cn)
        gone == HeldBy(it, D)
    IN  /\ kind' = [o \in Obj |-> IF o \in D THEN "free" ELSE kd[o]]
        /\ items' = [c \in Obj \cup {Root} |-> IF c \in D THEN <<>> ELSE it[c]]
        /\ count' = [o \in Obj |-> IF o \in D THEN 0 ELSE cn[o] - gone[o]]
        /\ cap' = [o \in Obj |-> IF o \in D THEN 0 ELSE cp[o]]

Fail(why) == bad' = why /\ UNCHANGED <<items, kind, count, cap, frames, apart>>

\* the items with f in place of those of c
With(c, f) == [items EXCEPT ![c] = f]
Write(p, v) == [items EXCEPT ![p[1]][p[2]] = v]

\* operator = into a place that holds old: a NONE keeps its value
Put(old, new) == IF old = None THEN None ELSE new

\* Mutant: the count is raised also when a NONE keeps its value.
TakesAlways(old, new) == One(new)

\* the references operator = takes and gives up
Takes(old, new) == IF old = None THEN Nothing ELSE One(new)
GivesUp(old) == One(old)

-----------------------------------------------------------------------------
(* Values as a whole.                                                      *)

\* from is read again after the old value of the destination was given up
SourceDeleted(d, s) ==
    /\ At(d) \in Obj
    /\ s[1] \in Deleted(kind, Write(d, At(s)),
                        [o \in Obj |-> count[o] + One(At(s))[o] - One(At(d))[o]])

Assign(d, s) ==
    \/ d = s /\ UNCHANGED vars
    \/ d # s /\ SourceDeleted(d, s) /\ Fail("source")
    \/ /\ d # s /\ ~SourceDeleted(d, s)
       /\ Settle(kind, Write(d, Put(At(d), At(s))), cap, Takes(At(d), At(s)), GivesUp(At(d)))
       /\ UNCHANGED <<frames, apart, bad>>

\* d = Dynamic(), and the end of the scope of a variable
Reset(d) ==
    /\ Settle(kind, Write(d, Put(At(d), Undef)), cap, Nothing, GivesUp(At(d)))
    /\ UNCHANGED <<frames, apart, bad>>

\* d = Dynamic(""), Dynamic::List(), Dynamic::Dict(): the temporary has the
\* first reference and gives it up in the end
Create(d, k) == \E o \in Obj \ Live :
    /\ Settle([kind EXCEPT ![o] = k], Write(d, Put(At(d), o)), cap,
              Sum(One(o), Takes(At(d), o)), Sum(GivesUp(At(d)), One(o)))
    /\ UNCHANGED <<frames, apart, bad>>

\* type_ and data_ change places: no count is touched
Swap(p, q) ==
    /\ items' = [items EXCEPT ![p[1]][p[2]] = At(q), ![q[1]][q[2]] = At(p)]
    /\ UNCHANGED <<kind, count, cap, frames, apart, bad>>

\* OP_CLEAR of the type the place holds
Clear(p) ==
    /\ IF At(p) \in Obj
       THEN LET o == At(p) IN
            Settle(kind, With(o, <<>>), cap, Nothing, AllOf(items[o], DOMAIN items[o]))
       ELSE Settle(kind, Write(p, Undef), cap, Nothing, Nothing)
    /\ UNCHANGED <<frames, apart, bad>>

-----------------------------------------------------------------------------
(* Lists.  An operation on a place that holds no list does nothing.        *)

\* std::vector moves its items to a buffer of twice the size when it is full
Grow(c, n) ==
    LET size[k \in Nat] == IF k = 0 THEN c
                           ELSE IF size[k - 1] = 0 THEN 1 ELSE 2 * size[k - 1]
    IN  size[CHOOSE k \in 0 .. n : n <= size[k] /\ \A j \in 0 .. k - 1 : size[j] < n]

Room(n) == Cardinality(Places(Obj)) + n <= MaxItems

\* the list o becomes f: references inc are taken and dec given up
SetList(o, f, inc, dec) ==
    /\ Settle(kind, With(o, f), [cap EXCEPT ![o] = Grow(@, Len(f))], inc, dec)
    /\ UNCHANGED <<frames, apart, bad>>

PushBack(p, s) ==
    /\ IsList(At(p)) /\ Room(1)
    /\ SetList(At(p), Append(items[At(p)], At(s)), One(At(s)), Nothing)

\* insert at begin(): into a new buffer if this one is full; otherwise the last
\* item is copied to the end and the others are assigned, from the last one on
PushFront(p, s) ==
    /\ IsList(At(p)) /\ Room(1)
    /\ LET o == At(p)
           f == items[o]
           n == Len(f)
           from(i) == IF i = 1 THEN At(s) ELSE f[i - 1]
           kept == {i \in 1 .. n : f[i] = None}
       IN  IF n = 0 \/ cap[o] = n
           THEN SetList(o, <<At(s)>> \o f, One(At(s)), Nothing)
           ELSE SetList(o, [i \in 1 .. n + 1 |-> IF i = n + 1 THEN f[n] ELSE Put(f[i], from(i))],
                        Sum(One(f[n]), AllOf([i \in 1 .. n |-> from(i)], (1 .. n) \ kept)),
                        AllOf(f, 1 .. n))

PopBack(p) ==
    /\ IsList(At(p)) /\ items[At(p)] # <<>>
    /\ LET f == items[At(p)] IN
       SetList(At(p), SubSeq(f, 1, Len(f) - 1), Nothing, One(f[Len(f)]))

\* vector::erase of the items a .. b - 1 of f: the later ones are assigned to the
\* earlier places and the last b - a are destroyed
Erased(f, a, b) ==
    [i \in 1 .. Len(f) - (b - a) |-> IF i < a THEN f[i] ELSE Put(f[i], f[i + (b - a)])]

EraseRange(o, a, b) ==
    LET f == items[o]
        moved == a .. Len(f) - (b - a)
    IN  SetList(o, Erased(f, a, b),
                AllOf([i \in moved |-> f[i + (b - a)]], {i \in moved : f[i] # None}),
                AllOf(f, a .. Len(f)))

PopFront(p) == IsList(At(p)) /\ items[At(p)] # <<>> /\ EraseRange(At(p), 1, 2)

\* Erase(pos), whose assert demands a position of the list
Erase(p, i) == IsList(At(p)) /\ i \in DOMAIN items[At(p)] /\ EraseRange(At(p), i, i + 1)

\* Erase(from, to): nothing before the list's end is checked for to < from
EraseFromTo(p, a, b) ==
    /\ IsList(At(p)) /\ a \in DOMAIN items[At(p)]
    /\ LET n == Len(items[At(p)])
           end == IF b > n THEN n + 1 ELSE b
       IN  IF end < a THEN Fail("range") ELSE EraseRange(At(p), a, end)

\* copies the items from begin() to end() by push_back; when the list is its own
\* source, the first move to a new buffer leaves the rest to be read from the old
AppendAll(o, r) ==
    LET f == items[o]
        g == items[r]
    IN  IF o = r /\ cap[o] - Len(f) + 1 < Len(f)
        THEN Fail("buffer")
        ELSE Room(Len(g)) /\ SetList(o, f \o g, AllOf(g, DOMAIN g), Nothing)

Extend(p, q) ==
    /\ p # q /\ IsList(At(p))
    /\ IF IsList(At(q))
       THEN AppendAll(At(p), At(q))
       ELSE PushBack(p, q)

\* operator += of a list takes the data of any operand for a vector
AddAssign(p, q) ==
    /\ IsList(At(p))
    /\ IF IsList(At(q))
       THEN AppendAll(At(p), At(q))
       ELSE Fail("type")

\* operator -= and /= by a number: the list keeps n items
Truncate(p, n) ==
    /\ IsList(At(p)) /\ n <= Len(items[At(p)])
    /\ LET f == items[At(p)] IN
       SetList(At(p), SubSeq(f, 1, n), Nothing, AllOf(f, n + 1 .. Len(f)))

\* operator *=: the items are copied n times and the old ones destroyed (for n < 0
\* reserve throws std::length_error before anything changed, or the list is empty)
Repeat(p, n) ==
    /\ IsList(At(p))
    /\ LET o == At(p)
           f == items[o]
           g == [i \in 1 .. n * Len(f) |-> f[((i - 1) % Len(f)) + 1]]
       IN  /\ Room(Len(g) - Len(f))
           /\ Settle(kind, With(o, g), [cap EXCEPT ![o] = Len(g)],
                     AllOf(g, DOMAIN g), AllOf(f, DOMAIN f))
           /\ UNCHANGED <<frames, apart, bad>>

-----------------------------------------------------------------------------
(* Dicts.  operator [] and Get make the entry they do not find.            *)

HasKey(o, k) == k \in DOMAIN items[o]
WithKey(o, k) ==
    [j \in DOMAIN items[o] \cup {k} |-> IF HasKey(o, j) THEN items[o][j] ELSE Undef]

Get(p, k) ==
    /\ IsDict(At(p)) /\ ~HasKey(At(p), k) /\ Room(1)
    /\ Settle(kind, With(At(p), WithKey(At(p), k)), cap, Nothing, Nothing)
    /\ UNCHANGED <<frames, apart, bad>>

\* Update(key, value): the entry is made, then assigned
Set(p, k, s) ==
    /\ IsDict(At(p))
    /\ IF HasKey(At(p), k)
       THEN Assign(<<At(p), k>>, s)
       ELSE /\ Room(1)
            /\ Settle(kind, With(At(p), [WithKey(At(p), k) EXCEPT ![k] = At(s)]), cap, One(At(s)), Nothing)
            /\ UNCHANGED <<frames, apart, bad>>

EraseKey(p, k) ==
    /\ IsDict(At(p)) /\ HasKey(At(p), k)
    /\ LET f == items[At(p)] IN
       Settle(kind, With(At(p), [j \in DOMAIN f \ {k} |-> f[j]]), cap, Nothing, One(f[k]))
    /\ UNCHANGED <<frames, apart, bad>>

\* what o leads to is a tree: each object is held by one item of it, and o by none
IsTree(o) ==
    LET S == Reachable({o})
        held == HeldBy(items, S)
    IN  \A c \in S : held[c] = IF c = o THEN 0 ELSE 1

\* Update(rv): a call per pair of dicts under the same key, an iterator over rv
Update(p, q) ==
    /\ p # q /\ IsDict(At(p)) /\ IsDict(At(q))
    /\ frames' = <<[to |-> At(p), from |-> At(q), last |-> -1]>>
    /\ apart' = (IsTree(At(p)) /\ Reachable({At(p)}) \cap Reachable({At(q)}) = {})
    /\ UNCHANGED <<items, kind, count, cap, bad>>

Later(f) == {k \in DOMAIN items[f.from] : k > f.last}

\* Update of the dict under k by the dict under k
NestedCall(f, k) == [to |-> items[f.to][k], from |-> items[f.from][k], last |-> -1]

UpdateStep ==
    LET f == Head(frames)
        k == CHOOSE j \in Later(f) : \A i \in Later(f) : j <= i
        old == IF HasKey(f.to, k) THEN items[f.to][k] ELSE Undef
        from == items[f.from][k]
        seen == <<[f EXCEPT !.last = k]>> \o Tail(frames)
    IN  /\ Later(f) # {}
        /\ \/ kind[f.to] = "free" /\ Fail("container")
           \/ /\ kind[f.to] # "free" /\ IsDict(old) /\ IsDict(from)
              /\ \/ Len(frames) = MaxDepth /\ Fail("endless")
                 \/ /\ Len(frames) < MaxDepth
                    /\ frames' = <<NestedCall(f, k)>> \o seen
                    /\ UNCHANGED <<items, kind, count, cap, apart, bad>>
           \/ /\ kind[f.to] # "free" /\ ~(IsDict(old) /\ IsDict(from))
              /\ \/ f.to = f.from /\ UNCHANGED <<items, kind, count, cap, bad>>
                 \/ /\ f.to # f.from /\ HasKey(f.to, k) /\ SourceDeleted(<<f.to, k>>, <<f.from, k>>)
                    /\ bad' = "source" /\ UNCHANGED <<items, kind, count, cap>>
                 \/ /\ f.to # f.from /\ ~(HasKey(f.to, k) /\ SourceDeleted(<<f.to, k>>, <<f.from, k>>))
                    /\ HasKey(f.to, k) \/ Room(1)
                    /\ Settle(kind, With(f.to, [WithKey(f.to, k) EXCEPT ![k] = Put(old, from)]),
                              cap, Takes(old, from), GivesUp(old))
                    /\ UNCHANGED bad
              /\ frames' = seen /\ UNCHANGED apart

\* the iterator is at the end, or the map it goes over is gone
UpdateReturn ==
    IF kind[Head(frames).from] = "free"
    THEN Fail("container")
    ELSE /\ Later(Head(frames)) = {}
         /\ frames' = Tail(frames)
         /\ apart' = (apart \/ Len(frames) = 1)
         /\ UNCHANGED <<items, kind, count, cap, bad>>

-----------------------------------------------------------------------------
(* Clone: a new object for every path from the value through its items.    *)

\* the paths of length n from v, each with the object it leads to
Path(v) ==
    LET path[n \in Nat] ==
          IF n = 0 THEN IF v \in Obj THEN {<<<<>>, v>>} ELSE {}
          ELSE UNION {{<<Append(q[1], i), items[q[2]][i]>> :
                         i \in {j \in DOMAIN items[q[2]] : items[q[2]][j] \in Obj}} : q \in path[n - 1]}
    IN  path

\* Mutant: the clone has the items themselves.
CloneShallow(d, s) ==
    IF At(s) \in Obj
    THEN \E o \in Obj \ Live :
           /\ Room(Cardinality(DOMAIN items[At(s)]))
           /\ Settle([kind EXCEPT ![o] = kind[At(s)]],
                     [Write(d, Put(At(d), o)) EXCEPT ![o] = items[At(s)]],
                     [cap EXCEPT ![o] = cap[At(s)]],
                     Sum(AllOf(items[At(s)], DOMAIN items[At(s)]), Sum(One(o), Takes(At(d), o))),
                     Sum(GivesUp(At(d)), One(o)))
           /\ UNCHANGED <<frames, apart, bad>>
    ELSE Assign(d, s)

\* d = s.Clone(); the recursion has no end if an object holds itself
Clone(d, s) ==
    LET path == Path(At(s))
        all == UNION {path[n] : n \in 0 .. Cardinality(Obj)}
        size == Cardinality(UNION {{<<q, i>> : i \in DOMAIN items[q[2]]} : q \in all})
    IN  IF path[Cardinality(Obj)] # {}
        THEN Fail("endless")
        ELSE /\ Cardinality(all) <= Cardinality(Obj \ Live) /\ Room(size)
             /\ \E new \in Injection(all, Obj \ Live) :
                  LET made == Range(new)
                      of == [o \in made |-> CHOOSE q \in all : new[q] = o]
                      copy(q, i) == LET v == items[q[2]][i] IN
                                    IF v \in Obj THEN new[<<Append(q[1], i), v>>] ELSE v
                      top == IF At(s) \in Obj THEN new[<<<<>>, At(s)>>] ELSE At(s)
                  IN  /\ Settle([o \in Obj |-> IF o \in made THEN kind[of[o][2]] ELSE kind[o]],
                                [c \in Obj \cup {Root} |->
                                   IF c \in made
                                   THEN [i \in DOMAIN items[of[c][2]] |-> copy(of[c], i)]
                                   ELSE Write(d, Put(At(d), top))[c]],
                                [o \in Obj |-> IF o \in made /\ IsList(of[o][2])
                                               THEN Grow(0, Len(items[of[o][2]])) ELSE cap[o]],
                                Sum([o \in Obj |-> IF o \in made THEN 1 ELSE 0], Takes(At(d), top)),
                                Sum(GivesUp(At(d)), One(top)))
                      /\ UNCHANGED <<frames, apart, bad>>

-----------------------------------------------------------------------------
Operation ==
    \E p \in Place :
      \/ Reset(p) \/ Clear(p) \/ PopBack(p) \/ PopFront(p)
      \/ \E k \in Kind : Create(p, k)
      \/ \E k \in Key : Get(p, k) \/ EraseKey(p, k)
      \/ \E i \in 1 .. MaxItems : Erase(p, i) \/ Truncate(p, i - 1)
      \/ \E a, b \in 1 .. MaxItems + 1 : EraseFromTo(p, a, b)
      \/ \E n \in {0, 2} : Repeat(p, n)
      \/ \E q \in Place :
           \/ Assign(p, q) \/ Swap(p, q) \/ Clone(p, q)
           \/ PushBack(p, q) \/ PushFront(p, q) \/ Extend(p, q) \/ AddAssign(p, q)
           \/ Update(p, q)
           \/ \E k \in Key : Set(p, k, q)

Next ==
    /\ bad = "no"
    /\ \/ frames = <<>> /\ Operation
       \/ frames # <<>> /\ (UpdateStep \/ UpdateReturn)

Spec == Init /\ [][Next]_vars

-----------------------------------------------------------------------------
\* Every variable has its type; a free address holds nothing.
TypeOK ==
    /\ kind \in [Obj -> Kind \cup {"free"}]
    /\ count \in [Obj -> Nat] /\ cap \in [Obj -> Nat]
    /\ DOMAIN items[Root] = Var \cup {D_NONE}
    /\ \A c \in Obj \cup {Root} : Range(items[c]) \subseteq Value
    /\ \A o \in Obj : CASE kind[o] = "list" -> DOMAIN items[o] = 1 .. Len(items[o]) /\ Len(items[o]) <= cap[o]
                        [] kind[o] = "dict" -> DOMAIN items[o] \subseteq Key
                        [] OTHER -> items[o] = <<>>
    /\ bad \in {"no", "source", "buffer", "range", "type", "container", "endless"}

\* The count of a live object is the number of places that refer to it, and no
\* place refers to a deleted one (RefCounted's asserts, impl.h: a count of 0 is
\* never raised or lowered, and an object goes with count 0).
RefCountsExact ==
    \A o \in Obj :
      /\ count[o] = Cardinality({p \in Places(Obj \cup {Root}) : At(p) = o})
      /\ o \in Live <=> count[o] > 0

OnCycle(o) == \E i \in DOMAIN items[o] : o \in Reachable({items[o][i]} \cap Obj)

\* Nothing leaks but cycles: what no variable reaches is held by an object that
\* holds itself.
OnlyCyclesLeak ==
    \A o \in Live : \/ o \in Reachable({Root})
                    \/ \E c \in Live : OnCycle(c) /\ o \in Reachable({c})

\* The count of every object is the number of values that refer to it, and only
\* what is in a cycle, or hangs from one, is left over.
CountsExact == TypeOK /\ RefCountsExact /\ OnlyCyclesLeak

\* operator = reads its source after the old value of the destination is given
\* up: it is gone by then only if nothing else reaches the source's container.
AssignDefined ==
    \A d, s \in Place :
      SourceDeleted(d, s) => s[1] \notin ReachableIn(Write(d, At(s)), {Root})

\* Update iterates over a map and deletes others: it never touches a deleted one,
\* and it ends, if the dict it changes is a tree and its argument shares no part
\* of it.
UpdateDefined == frames # <<>> /\ apart => bad = "no"

\* Values that use themselves: as sources of assignments, and as arguments of
\* Update.
SelfUseDefined == AssignDefined /\ UpdateDefined

\* What Clone makes has no object of before the call in it (a step that leaves the
\* container of d as it was wrote nothing there).
CloneIsApart ==
    bad' = "no" =>
    \A d \in {p \in Place : At(p) # None /\ items'[p[1]] # items[p[1]]} :
    \A s \in {p \in Place : At(p) \in Obj} :
      Clone(d, s) => ReachableIn(items', {items'[d[1]][d[2]]}) \cap Live = {}

\* Clone recurses without end only through a value that contains itself.
CloneEnds ==
    bad' = "endless" =>
    \A d, s \in Place : Clone(d, s) => \E c \in Reachable({At(s)} \cap Obj) : OnCycle(c)

\* A clone shares no object with what it was made from: Clone copies all levels; and
\* it comes to an end unless the value contains itself.
CloneSharesNothing == [][CloneIsApart /\ CloneEnds]_vars

\* What README.md says of NONE, "represents NULL value, that can not be changed":
\* the NONE that stands for missing items stays one.
NoneNeverChanges == items[Root][D_NONE] = None
=============================================================================
