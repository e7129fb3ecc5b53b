----------------------------- MODULE TableCells -----------------------------
(***************************************************************************)
(* The cells of a Dynamic table as what they are: references to counted    *)
(* strings (src/src/dynamic/dynamic_table.cpp).  Table has values in the   *)
(* cells; here a string is an object the caller may hold too, change in    *)
(* place and release, and the key of an index entry is a pointer to the    *)
(* string of the row that made the entry, without a reference.             *)
(*                                                                         *)
(* The table has two columns of strings and one index, on the first.  The  *)
(* rows a key has are kept in order by Table's rules; a call that would    *)
(* meet a vector out of order ends a behaviour here, since Table tells     *)
(* what happens then.                                                      *)
(***************************************************************************)
EXTENDS Integers, Sequences, SequencesExt, FiniteSetsExt

CONSTANTS
    Str,        \* string objects, free ones included
    Value,      \* what a string may hold: numbers, in the order of strings
    Var,        \* variables of the caller
    None,       \* a variable that holds no string
    MaxRows,    \* bound: rows
    MaxShort,   \* bound: calls of SetRow with one argument
    MayChange   \* the caller changes strings in place

\* What an instance gives for the constants.
TableCellsAssumption ==
    /\ Value \subseteq Nat /\ 0 \in Value /\ None \notin Str /\ IsFiniteSet(Var)
    /\ {MaxRows, MaxShort} \subseteq Nat /\ MayChange \in BOOLEAN

VARIABLES
    val,      \* the contents of each string, 0 if it is not there
    count,    \* references to it, 0 if it is destroyed or not made yet
    held,     \* the caller's variables
    rows,     \* the rows: two cells, and (history) whether the iterator came to it
    entries,  \* index_map_ in its order: key, row numbers, whether the iterator is in it
    alive,    \* the table has been neither cleared nor destroyed
    indexed,  \* the index exists
    it,       \* an iterator of the index: the position in its entry, (history) its bound
    fault,    \* how a call went wrong, "none" before that
    short,    \* history: calls of SetRow with fewer arguments than columns
    twins,    \* history: two rows had different strings of one value as keys
    changed   \* history: a key was changed in place

vars == <<val, count, held, rows, entries, alive, indexed, it, fault, short, twins, changed>>

Off == [on |-> FALSE]
Height == Len(rows)

\* History: the rows rs have different strings of one value as keys.
HasTwins(rs, v) ==
    \E a, b \in Range(rs) : a.cells[1] # b.cells[1] /\ v[a.cells[1]] = v[b.cells[1]]

\* The iterator is in the n-th of xs, in none if n is 0
Mark(xs, n) == [k \in DOMAIN xs |-> [xs[k] EXCEPT !.here = (k = n)]]

Running == alive /\ fault = "none"

Broken(f) ==
    /\ fault' = f
    /\ UNCHANGED <<val, count, held, rows, entries, alive, indexed, it, short, twins, changed>>

-----------------------------------------------------------------------------
(* Counted strings.                                                        *)

Inc(cnt, s) == [cnt EXCEPT ![s] = @ + 1]
Dec(cnt, s) == [cnt EXCEPT ![s] = @ - 1]

\* The contents that are left when the counts are cnt
Left(v, cnt) == [s \in Str |-> IF cnt[s] = 0 THEN 0 ELSE v[s]]

\* The caller makes a string and holds it, releases it, or takes the one of a cell.
NewString(x, s, v) ==
    /\ Running /\ held[x] = None /\ count[s] = 0
    /\ held' = [held EXCEPT ![x] = s]
    /\ val' = [val EXCEPT ![s] = v]
    /\ count' = [count EXCEPT ![s] = 1]
    /\ UNCHANGED <<rows, entries, alive, indexed, it, fault, short, twins, changed>>

Release(x) ==
    /\ fault = "none" /\ held[x] # None
    /\ held' = [held EXCEPT ![x] = None]
    /\ count' = Dec(count, held[x])
    /\ val' = Left(val, count')
    /\ UNCHANGED <<rows, entries, alive, indexed, it, fault, short, twins, changed>>

GetCellValue(n, c, x) ==
    /\ Running /\ held[x] = None /\ n < Height
    /\ held' = [held EXCEPT ![x] = rows[n + 1].cells[c]]
    /\ count' = Inc(count, rows[n + 1].cells[c])
    /\ UNCHANGED <<val, rows, entries, alive, indexed, it, fault, short, twins, changed>>

\* +=, -=, *= and Clear of a string change it for everyone who holds it
ChangeInPlace(x, v) ==
    /\ Running /\ MayChange /\ held[x] # None /\ val[held[x]] # v
    /\ val' = [val EXCEPT ![held[x]] = v]
    /\ changed' = (changed \/ \E row \in Range(rows) : row.cells[1] = held[x])
    /\ twins' = (twins \/ HasTwins(rows, val'))
    /\ UNCHANGED <<count, held, rows, entries, alive, indexed, it, fault, short>>

-----------------------------------------------------------------------------
(* The index.                                                              *)

\* The order std::map relies on: keys that can be read, each less than the next.
InOrder(es, v, cnt) ==
    /\ \A p \in DOMAIN es : cnt[es[p].key] > 0
    /\ \A p, q \in DOMAIN es : p < q => v[es[p].key] < v[es[q].key]

\* Where a search for the value x may end: 0 is "not found".  Without the order, or
\* with keys that are destroyed, it may miss an entry or take a destroyed key for x.
Search(es, v, cnt, x) ==
    LET dead == {p \in DOMAIN es : cnt[es[p].key] = 0}
        equal == {p \in DOMAIN es \ dead : v[es[p].key] = x}
    IN  IF InOrder(es, v, cnt) THEN IF equal = {} THEN {0} ELSE equal
        ELSE {0} \cup equal \cup dead

\* Vectors std::lower_bound may be used on: those in order, for any number.
Ordered(es) == \A p \in DOMAIN es : \A a, b \in DOMAIN es[p].rows :
                  a < b => es[p].rows[a] < es[p].rows[b]

\* Mutant: upper_bound for lower_bound, the row at n keeps its number.
ShiftedAfter(es, n, by) ==
    [p \in DOMAIN es |-> [es[p] EXCEPT
        !.rows = [k \in DOMAIN @ |-> IF @[k] > n THEN @[k] + by ELSE @[k]]]]

\* The row numbers from n on, increased or decreased
Shifted(es, n, by) ==
    [p \in DOMAIN es |-> [es[p] EXCEPT
        !.rows = [k \in DOMAIN @ |-> IF @[k] >= n THEN @[k] + by ELSE @[k]]]]

\* NotifyRowDelete, for the entry p the search ended at
RowDeleted(es, p, n) ==
    LET kept == SelectSeq(es[p].rows, LAMBDA r : r # n)
    IN  IF kept = <<>> THEN RemoveAt(es, p) ELSE [es EXCEPT ![p].rows = kept]

\* index_map_[key]: a new entry goes before the keys that are greater
WithEntry(es, p, s, v) ==
    IF p # 0 THEN es
    ELSE InsertAt(es, 1 + Cardinality({q \in DOMAIN es : v[es[q].key] < v[s]}),
                  [key |-> s, rows |-> <<>>, here |-> FALSE])

\* NotifyRowInsert
RowInserted(es, p, s, v, n, incremental) ==
    LET base == WithEntry(es, p, s, v)
        at == IF p # 0 THEN p ELSE CHOOSE q \in DOMAIN base : base[q].rows = <<>>
        moved == IF incremental THEN Shifted(base, n, 1) ELSE base
        pushed == [moved EXCEPT ![at].rows = Append(@, n)]
    IN  IF incremental THEN [pushed EXCEPT ![at].rows = SortSeq(@, <)] ELSE pushed

\* An iterator must not be used once its entry has been changed or erased.
Keep(rs, es, lost) ==
    /\ it' = IF lost THEN Off ELSE it
    /\ rows' = IF lost THEN Mark(rs, 0) ELSE rs
    /\ entries' = IF lost THEN Mark(es, 0) ELSE es

-----------------------------------------------------------------------------
(* The table.                                                              *)

\* Arguments the caller holds, and a string for the default if there is one too few.
Arguments(args, d) ==
    /\ \A c \in DOMAIN args : held[args[c]] # None
    /\ IF Len(args) = 2 THEN d = held[args[1]] ELSE count[d] = 0

RowOf(args, d) == [c \in 1..2 |-> IF c <= Len(args) THEN held[args[c]] ELSE d]

WithDefault(args, d) == IF Len(args) = 2 THEN val ELSE [val EXCEPT ![d] = 0]

\* The row n gets the cells, which the counts cnt allow for, and the index is told
Place(rs, n, cells, v, cnt, es, incremental, touched) ==
    \E p \in IF indexed THEN Search(es, v, cnt, v[cells[1]]) ELSE {0} :
        /\ val' = Left(v, cnt)
        /\ count' = cnt
        /\ Keep(rs, IF indexed THEN RowInserted(es, p, cells[1], v, n, incremental) ELSE es,
                touched \/ (p # 0 /\ es[p].here))
        /\ twins' = (twins \/ HasTwins(rs, v))
        /\ UNCHANGED <<held, alive, indexed, fault, changed>>

\* Mutant: the reference of the second cell is not counted.
AppendRowUncounted(args, d) ==
    /\ Running /\ Height < MaxRows /\ Arguments(args, d)
    /\ LET cells == RowOf(args, d)
       IN  Place(Append(rows, [cells |-> cells, here |-> FALSE]), Height, cells,
                 WithDefault(args, d), Inc(count, cells[1]), entries, FALSE, FALSE)
    /\ UNCHANGED short

AppendRow(args, d) ==
    /\ Running /\ Height < MaxRows /\ Arguments(args, d)
    /\ LET cells == RowOf(args, d)
       IN  Place(Append(rows, [cells |-> cells, here |-> FALSE]), Height, cells,
                 WithDefault(args, d), Inc(Inc(count, cells[1]), cells[2]), entries, FALSE, FALSE)
    /\ UNCHANGED short

InsertRow(n, args, d) ==
    /\ Running /\ Height < MaxRows /\ n < Height /\ Arguments(args, d)
    /\ IF indexed /\ ~Ordered(entries) THEN Broken("disorder")
       ELSE LET cells == RowOf(args, d)
            IN  /\ Place(InsertAt(rows, n + 1, [cells |-> cells, here |-> FALSE]), n, cells,
                         WithDefault(args, d), Inc(Inc(count, cells[1]), cells[2]), entries, TRUE, FALSE)
                /\ UNCHANGED short

\* NotifyRowDelete: the entries it may leave, whether its assertions hold, and whether
\* the iterator is in the entry it changes
Unlisted(n) ==
    IF ~indexed THEN {[ok |-> TRUE, entries |-> entries, here |-> FALSE]}
    ELSE {IF p # 0 /\ n \in Range(entries[p].rows)
          THEN [ok |-> TRUE, entries |-> RowDeleted(entries, p, n), here |-> entries[p].here]
          ELSE [ok |-> FALSE] :
            p \in Search(entries, val, count, val[rows[n + 1].cells[1]])}

DeleteRow(n) ==
    /\ Running /\ n < Height
    /\ \E u \in Unlisted(n) :
          IF ~u.ok THEN Broken("index_assert")
          ELSE IF ~Ordered(u.entries) THEN Broken("disorder")
          ELSE /\ Keep(RemoveAt(rows, n + 1), Shifted(u.entries, n, -1), u.here)
               /\ count' = Dec(Dec(count, rows[n + 1].cells[1]), rows[n + 1].cells[2])
               /\ val' = Left(val, count')
               /\ UNCHANGED <<held, alive, indexed, fault, short, twins, changed>>

\* A cell without an argument is overwritten by the default, its string is not released
SetRow(n, args, d) ==
    /\ Running /\ n < Height /\ Arguments(args, d)
    /\ Len(args) = 2 \/ short < MaxShort
    /\ LET old == rows[n + 1].cells
           cells == RowOf(args, d)
           freed == IF Len(args) = 2 THEN Dec(Dec(count, old[1]), old[2]) ELSE Dec(count, old[1])
       IN  \E u \in Unlisted(n) :
             IF ~u.ok THEN Broken("index_assert")
             ELSE /\ Place([rows EXCEPT ![n + 1].cells = cells], n, cells, WithDefault(args, d),
                           Inc(Inc(freed, cells[1]), cells[2]), u.entries, FALSE, u.here)
                  /\ short' = short + 2 - Len(args)

SetCellValue(n, c, x) ==
    /\ Running /\ n < Height /\ held[x] # None
    /\ LET cells == [rows[n + 1].cells EXCEPT ![c] = held[x]]
           set == [rows EXCEPT ![n + 1].cells = cells]
           cnt == Inc(Dec(count, rows[n + 1].cells[c]), held[x])
       IN  IF c = 1
           THEN \E u \in Unlisted(n) :
                  IF ~u.ok THEN Broken("index_assert")
                  ELSE /\ Place(set, n, cells, val, cnt, u.entries, FALSE, u.here)
                       /\ UNCHANGED short
           ELSE /\ rows' = set /\ count' = cnt /\ val' = Left(val, cnt)
                /\ UNCHANGED <<held, entries, alive, indexed, it, fault, short, twins, changed>>

\* BuildIndex, then Subscribe
CreateIndex ==
    /\ Running /\ ~indexed
    /\ indexed' = TRUE
    /\ entries' = LET Key(r) == rows[r + 1].cells[1]
                      Add(es, r) == RowInserted(es, Max(Search(es, val, count, val[Key(r)])),
                                                Key(r), val, r, FALSE)
                  IN  FoldLeft(Add, <<>>, [k \in DOMAIN rows |-> k - 1])
    /\ UNCHANGED <<val, count, held, rows, alive, it, fault, short, twins, changed>>

\* The counts once the cells of the first n rows are destroyed, for each n
Released ==
    LET cnt[n \in 0..Height] ==
          IF n = 0 THEN count ELSE Dec(Dec(cnt[n - 1], rows[n].cells[1]), rows[n].cells[2])
    IN  cnt

\* Clear, or the destructor, which calls it
Clear ==
    /\ Running
    /\ alive' = FALSE /\ indexed' = FALSE /\ it' = Off
    /\ count' = Released[Height]
    /\ val' = Left(val, count')
    /\ rows' = <<>>
    /\ entries' = Mark(entries, 0)
    /\ UNCHANGED <<held, fault, short, twins, changed>>

-----------------------------------------------------------------------------
(* Iterators.                                                              *)

\* The iterator comes to the row at pos of the entry p, or to the end
At(p, pos, least) ==
    IF p \in DOMAIN entries
    THEN /\ it' = [on |-> TRUE, pos |-> pos, least |-> least]
         /\ entries' = Mark(entries, p)
         /\ rows' = Mark(rows, entries[p].rows[pos] + 1)
    ELSE Keep(rows, entries, TRUE)

\* GetEqual, GetLower (from the value on), GetGrater (after it) and begin
Get(kind, x) ==
    /\ Running /\ indexed /\ ~it.on
    /\ LET from == IF kind = "grater" THEN x + 1 ELSE IF kind = "begin" THEN 0 ELSE x
           found == {p \in DOMAIN entries :
                       IF kind = "equal" THEN val[entries[p].key] = x
                       ELSE val[entries[p].key] >= from}
       IN  IF ~InOrder(entries, val, count) THEN Broken("undefined")
           ELSE /\ At(IF found = {} THEN 0 ELSE Min(found), 1, from)
                /\ UNCHANGED <<val, count, held, alive, indexed, fault, short, twins, changed>>

\* ConstIterator::operator ++
Advance ==
    /\ Running /\ it.on
    /\ LET p == CHOOSE q \in DOMAIN entries : entries[q].here
       IN  IF it.pos < Len(entries[p].rows) THEN At(p, it.pos + 1, it.least)
           ELSE At(p + 1, 1, it.least)
    /\ UNCHANGED <<val, count, held, alive, indexed, fault, short, twins, changed>>

-----------------------------------------------------------------------------

Init ==
    /\ val = [s \in Str |-> 0] /\ count = [s \in Str |-> 0]
    /\ held = [x \in Var |-> None]
    /\ rows = <<>> /\ entries = <<>> /\ alive = TRUE /\ indexed = FALSE /\ it = Off
    /\ fault = "none" /\ short = 0 /\ twins = FALSE /\ changed = FALSE

Args == UNION {[1..n -> Var] : n \in 1..2}

Next ==
    \/ \E x \in Var, s \in Str, v \in Value : NewString(x, s, v)
    \/ \E x \in Var : Release(x)
    \/ \E n \in 0..MaxRows, c \in 1..2, x \in Var : GetCellValue(n, c, x) \/ SetCellValue(n, c, x)
    \/ \E x \in Var, v \in Value : ChangeInPlace(x, v)
    \/ \E args \in Args, d \in Str : AppendRow(args, d)
    \/ \E n \in 0..MaxRows, args \in Args, d \in Str : InsertRow(n, args, d) \/ SetRow(n, args, d)
    \/ \E n \in 0..MaxRows : DeleteRow(n)
    \/ CreateIndex \/ Clear \/ Advance
    \/ \E kind \in {"equal", "lower", "grater", "begin"}, x \in Value : Get(kind, x)

Spec == Init /\ [][Next]_vars

-----------------------------------------------------------------------------
(* Properties.                                                             *)

\* References to a string: variables, and cells of the two columns
Holders(s) ==
    Cardinality({x \in Var : held[x] = s})
      + Cardinality({n \in DOMAIN rows : rows[n].cells[1] = s})
      + Cardinality({n \in DOMAIN rows : rows[n].cells[2] = s})

\* Types; an index entry has rows of the table, each row at most once.
TypeOK ==
    /\ val \in [Str -> Value] /\ count \in [Str -> Nat] /\ held \in [Var -> Str \cup {None}]
    /\ \A n \in DOMAIN rows : rows[n].cells \in [1..2 -> Str]
    /\ \A p \in DOMAIN entries :
         /\ entries[p].key \in Str /\ entries[p].rows # <<>>
         /\ alive => Range(entries[p].rows) \subseteq 0..(Height - 1)
         /\ IsInjective(entries[p].rows)
    /\ fault \in {"none", "index_assert", "disorder", "undefined"}

\* Whatever the caller holds, releases, shares or sets, no string is destroyed while a
\* cell or a variable refers to it: every row method counts what it copies.
CellsAlive == \A s \in Str : count[s] >= Holders(s)

\* No string outlives its last holder, the destructor and Clear included, unless a
\* SetRow with fewer arguments than columns overwrote a cell it did not release.
OnlyShortSetRowLeaks == short = 0 => \A s \in Str : count[s] = Holders(s)

\* Every string a row refers to is alive and every reference to a string is counted,
\* and so given up in the end, also when a caller changes strings in place; only
\* SetRow with fewer arguments than columns keeps one. (dynamic_table.cpp, AppendRow,
\* InsertRow, SetRow, SetCellValue, DeleteRow, Clear)
CellsCounted == CellsAlive /\ OnlyShortSetRowLeaks

\* As long as rows with equal keys share one string, and no key is changed in place, the
\* index is sound: its keys can be read and are in order, each has the rows with its
\* value, and the assertions of NotifyRowDelete hold.
SoundUnlessKeysShared ==
    ~twins /\ ~changed =>
      /\ fault \notin {"index_assert", "undefined"}
      /\ (indexed /\ fault = "none") =>
           /\ InOrder(entries, val, count)
           /\ \A n \in DOMAIN rows : \E p \in DOMAIN entries :
                val[entries[p].key] = val[rows[n].cells[1]] /\ n - 1 \in Range(entries[p].rows)

\* Rows are inserted and deleted around an iterator: as long as its own entry is not
\* touched it stays on the row it came to, and it never comes to a row below the bound
\* it was made with.
IteratorKeepsItsRow ==
    (it.on /\ Running /\ ~twins /\ ~changed) =>
      \E p \in DOMAIN entries :
        /\ entries[p].here /\ it.pos \in DOMAIN entries[p].rows
        /\ LET row == rows[entries[p].rows[it.pos] + 1]
           IN  row.here /\ val[row.cells[1]] >= it.least

\* dynamic_table.cpp, NotifyRowDelete, "assert(row_pos != index_map_.end())": the row
\* that is deleted or replaced is found under its key.
RowFoundUnderItsKey == fault # "index_assert"
=============================================================================
