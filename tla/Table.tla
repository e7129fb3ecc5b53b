------------------------------- MODULE Table -------------------------------
(***************************************************************************)
(* nkit::detail::SharedTable with the TableIndex objects subscribed to it  *)
(* (src/src/dynamic/dynamic_table.cpp).                                    *)
(*                                                                         *)
(* A table keeps its cells in one growing array, and every row-changing    *)
(* operation notifies each subscribed index, which keeps a std::map from   *)
(* keys to vectors of row numbers.  DeleteRow and InsertRow renumber the   *)
(* rows behind them, and the index follows by shifting, in every vector,   *)
(* the part that std::lower_bound finds.                                   *)
(*                                                                         *)
(* Row numbers are 0-based, as in the code; row r is rows[r + 1].          *)
(* Columns are 1-based.                                                    *)
(***************************************************************************)
EXTENDS Integers, Sequences, FiniteSets, SequencesExt

CONSTANTS
    Width,          \* number of columns of the table definition
    Type,           \* the cell types
    ColumnType,     \* ColumnType[c]: declared type of column c
    Dynamic,        \* the values a caller may pass
    TypeOf,         \* TypeOf[v]: type_ of the value v
    Default,        \* Default[t]: Dynamic::GetDefault(t) seen as a cell of type t
    Comparable,     \* the types GetComparator has a comparator for
    Index,          \* the TableIndex objects a client holds
    IndexColumns,   \* IndexColumns[i]: column_nums_ of index i
    MaxRows,        \* bound: rows of the table
    MaxArgs,        \* bound: length of an argument vector
    SizeMax         \* the largest size_t

ASSUME WidthAssumption == Width \in Nat \ {0}
ASSUME TypeAssumption ==
    /\ ColumnType \in [1..Width -> Type]
    /\ TypeOf \in [Dynamic -> Type]
    /\ Default \in [Type -> Dynamic]
    /\ \A t \in Type : TypeOf[Default[t]] = t
ASSUME IndexAssumption ==
    /\ IndexColumns \in [Index -> Seq(1..Width)]
    /\ \A i \in Index : \A c \in Range(IndexColumns[i]) : ColumnType[c] # "STRING"
    /\ Comparable \subseteq Type
ASSUME BoundAssumption ==
    /\ MaxRows \in Nat
    /\ MaxArgs \in Nat
    /\ SizeMax \in Nat
    /\ MaxRows <= SizeMax

VARIABLES
    alive,      \* the SharedTable object exists
    width,      \* columns_.size(), also the storage's grow_factor_
    rows,       \* storage_, one tuple of width cells per row; rows_ is its length
    subscribed, \* table_index_set_
    refer,      \* refer[i]: refer_to_table_ of index i
    map,        \* map[i]: index_map_ of index i, a function with the present keys as domain
    reset,      \* history: SetRow or SetCellValue re-inserted a row in index i
    misled,     \* history: the indexes, since they were built, in which
                \* std::lower_bound searched a range that is not partitioned
    fault       \* the assertion that failed, or the element that is not there

vars == <<alive, width, rows, subscribed, refer, map, reset, misled, fault>>

(***************************************************************************)
(* How a call can end the program:                                         *)
(*   index_assert    an assertion of NotifyRowDelete does not hold         *)
(*   get_assert      the assertion of StorageImpl::get does not hold       *)
(*   empty_assert    the one of StorageImpl::insert and remove does not    *)
(*   range           an element outside a vector is used                   *)
(* A search by std::lower_bound in a range that is not partitioned ends    *)
(* nothing: the loop renumbers from wherever the search stops, and the     *)
(* calls go on with an index that is wrong.                                *)
(***************************************************************************)
Fault == {"none", "index_assert", "get_assert", "empty_assert", "range"}

Height == Len(rows)
Row == [1..width -> Dynamic]

(***************************************************************************)
(* The key MakeKey copies from a row.  Keys are values here: a cell of any *)
(* type but STRING is its own 64 bits.  The key of a STRING column is a    *)
(* pointer nobody counts, which IndexAssumption leaves to TableCells.      *)
(***************************************************************************)
KeyOf(i, row) == [j \in DOMAIN IndexColumns[i] |-> row[IndexColumns[i][j]]]
Vargs == UNION {[1..n -> Dynamic] : n \in 0..MaxArgs}
RowNum == 0..(MaxRows + 1)
ColNum == 1..(Width + 1)

-----------------------------------------------------------------------------
(***************************************************************************)
(* The vectors of row numbers.                                             *)
(***************************************************************************)

\* The precondition of std::lower_bound(v.begin(), v.end(), n).
Partitioned(v, n) ==
    \A a, b \in DOMAIN v : a < b /\ v[a] >= n => v[b] >= n

(***************************************************************************)
(* The positions a binary search for n may return: the element before it   *)
(* was seen below n and the element at it was not.  On a partitioned       *)
(* vector there is one such position.                                      *)
(***************************************************************************)
LowerBound(v, n) ==
    {p \in 1..(Len(v) + 1) : /\ p = 1 \/ v[p - 1] < n
                             /\ p = Len(v) + 1 \/ v[p] >= n}

\* ++ and -- on a size_t.
SizeInc(n) == IF n = SizeMax THEN 0 ELSE n + 1
SizeDec(n) == IF n = 0 THEN SizeMax ELSE n - 1

\* Mutants: the loops skip the first element.
IncFromNext(v, p) == [j \in DOMAIN v |-> IF j > p THEN SizeInc(v[j]) ELSE v[j]]
DecFromNext(v, p) == [j \in DOMAIN v |-> IF j > p THEN SizeDec(v[j]) ELSE v[j]]

\* The loops "for (; reference != end; ++reference) ++(*reference)" and "--".
IncFrom(v, p) == [j \in DOMAIN v |-> IF j >= p THEN SizeInc(v[j]) ELSE v[j]]
DecFrom(v, p) == [j \in DOMAIN v |-> IF j >= p THEN SizeDec(v[j]) ELSE v[j]]

\* The possible results of one of those loops run over every entry of map m.
IncAll(m, n) ==
    {[k \in DOMAIN m |-> IncFrom(m[k], p[k])] :
        p \in {q \in [DOMAIN m -> 1..(MaxRows + 2)] :
                 \A k \in DOMAIN m : q[k] \in LowerBound(m[k], n)}}
DecAll(m, n) ==
    {[k \in DOMAIN m |-> DecFrom(m[k], p[k])] :
        p \in {q \in [DOMAIN m -> 1..(MaxRows + 2)] :
                 \A k \in DOMAIN m : q[k] \in LowerBound(m[k], n)}}

Ascending(v) == \A a, b \in DOMAIN v : a < b => v[a] <= v[b]

Occurrences(v, n) == Cardinality({j \in DOMAIN v : v[j] = n})

\* The results of std::stable_sort on v.
Sorted(v) ==
    {s \in [DOMAIN v -> Range(v)] :
        /\ Ascending(s)
        /\ \A n \in Range(v) : Occurrences(s, n) = Occurrences(v, n)}


-----------------------------------------------------------------------------
(***************************************************************************)
(* TableIndex: building the map and following the table.                   *)
(***************************************************************************)

\* std::find: the position of the first n in v.
Find(v, n) == Min({j \in DOMAIN v : v[j] = n})

\* The two assertions of NotifyRowDelete: the key and, under it, the row are there.
Found(m, k, n) == k \in DOMAIN m /\ n \in Range(m[k])

\* index_map_[k]: the entry is made, empty, if it is not there.
Entry(m, k) == [x \in DOMAIN m \cup {k} |-> IF x \in DOMAIN m THEN m[x] ELSE <<>>]

\* Mutant: an empty entry stays.
EraseRowOnly(m, k, n) == [m EXCEPT ![k] = RemoveAt(@, Find(@, n))]

\* NotifyRowDelete up to the test of incremental; an empty entry is erased.
EraseRow(m, k, n) ==
    LET v == RemoveAt(m[k], Find(m[k], n))
    IN  IF v = <<>>
        THEN [x \in DOMAIN m \ {k} |-> m[x]]
        ELSE [m EXCEPT ![k] = v]

\* NotifyRowDelete(data, n, true): the results it can have.
RowDeleted(m, k, n) == DecAll(EraseRow(m, k, n), n)

\* NotifyRowInsert(data, n, false).
PushBack(m, k, n) == [Entry(m, k) EXCEPT ![k] = Append(@, n)]

\* Mutant: no std::stable_sort.
RowInsertedUnsorted(m, k, n) ==
    {[s EXCEPT ![k] = Append(@, n)] : s \in IncAll(Entry(m, k), n)}

\* NotifyRowInsert(data, n, true): the results it can have.
RowInserted(m, k, n) ==
    UNION {{[s EXCEPT ![k] = v] : v \in Sorted(Append(s[k], n))} :
              s \in IncAll(Entry(m, k), n)}

\* Every entry of m meets the precondition of std::lower_bound for n.
AllPartitioned(m, n) == \A k \in DOMAIN m : Partitioned(m[k], n)

\* The functions that pick, for each x, a member of choices[x].
Picks(choices) ==
    {f \in [DOMAIN choices -> UNION Range(choices)] :
        \A x \in DOMAIN choices : f[x] \in choices[x]}

\* BuildIndex: the rows in order, each pushed to the vector of its key.
RowsWithKey(i, k) == {r \in 0..(Height - 1) : KeyOf(i, rows[r + 1]) = k}
BuildIndex(i) ==
    Picks([k \in {KeyOf(i, rows[r]) : r \in 1..Height} |->
             {v \in [1..Cardinality(RowsWithKey(i, k)) -> RowsWithKey(i, k)] :
                 /\ Range(v) = RowsWithKey(i, k)
                 /\ \A a, b \in DOMAIN v : a < b => v[a] < v[b]}])

-----------------------------------------------------------------------------
(***************************************************************************)
(* SharedTable: the operations of Dynamic on a table.                      *)
(***************************************************************************)

Init ==
    /\ alive = TRUE
    /\ width = Width
    /\ rows = <<>>
    /\ subscribed = {}
    /\ refer = [i \in Index |-> FALSE]
    /\ map = [i \in Index |-> <<>>]
    /\ reset = [i \in Index |-> FALSE]
    /\ misled = {}
    /\ fault = "none"

Running == alive /\ fault = "none"

\* A call that returns without changing anything.
Refused == UNCHANGED vars

\* A call that ends the program with fault f.
Faulty(f) ==
    /\ fault' = f
    /\ UNCHANGED <<alive, width, rows, subscribed, refer, map, reset, misled>>

\* Mutant: the types are not compared.
ValidateSize(vargs) == vargs # <<>>

Validate(vargs) ==
    /\ vargs # <<>>
    /\ \A c \in 1..width : c <= Len(vargs) => TypeOf[vargs[c]] = ColumnType[c]

\* The cells made from the arguments; a missing one is the column's default.
MakeRow(vargs) ==
    [c \in 1..width |-> IF c <= Len(vargs) THEN vargs[c] ELSE Default[ColumnType[c]]]

AppendRow(vargs) ==
    /\ Running
    /\ \/ ~Validate(vargs) /\ Refused
       \/ /\ Validate(vargs)
          /\ Height < MaxRows
          /\ LET row == MakeRow(vargs)
             IN  /\ rows' = Append(rows, row)
                 /\ map' = [i \in Index |->
                               IF i \in subscribed
                               THEN PushBack(map[i], KeyOf(i, row), Height)
                               ELSE map[i]]
          /\ UNCHANGED <<alive, width, subscribed, refer, reset, misled, fault>>

\* NotifyRowDelete finds row n in every subscribed index of S.
AllFound(S, n) == \A i \in S : Found(map[i], KeyOf(i, rows[n + 1]), n)

\* DeleteRow past its assertions: the indexes follow, then the storage.
RemoveRow(n) ==
    LET key(i) == KeyOf(i, rows[n + 1])
    IN  /\ map' \in Picks([i \in Index |->
                             IF i \in subscribed
                             THEN RowDeleted(map[i], key(i), n)
                             ELSE {map[i]}])
        /\ misled' = misled \cup
             {i \in subscribed : ~AllPartitioned(EraseRow(map[i], key(i), n), n)}
        /\ rows' = RemoveAt(rows, n + 1)
        /\ UNCHANGED <<alive, width, subscribed, refer, reset, fault>>

DeleteRow(n) ==
    /\ Running
    /\ \/ n >= Height /\ Refused
       \/ /\ n < Height /\ width = 0
          /\ Faulty("empty_assert")
       \/ /\ n < Height /\ width # 0
          /\ IF AllFound(subscribed, n) THEN RemoveRow(n) ELSE Faulty("index_assert")

InsertRow(n, vargs) ==
    /\ Running
    /\ \/ (n >= Height \/ ~Validate(vargs)) /\ Refused
       \/ /\ n < Height /\ Validate(vargs)
          /\ width = 0
          /\ Faulty("empty_assert")
       \/ /\ n < Height /\ Validate(vargs)
          /\ width # 0
          /\ Height < MaxRows
          /\ LET row == MakeRow(vargs)
             IN  /\ rows' = InsertAt(rows, n + 1, row)
                 /\ map' \in Picks([i \in Index |->
                                     IF i \in subscribed
                                     THEN RowInserted(map[i], KeyOf(i, row), n)
                                     ELSE {map[i]}])
          /\ misled' = misled \cup {i \in subscribed : ~AllPartitioned(map[i], n)}
          /\ UNCHANGED <<alive, width, subscribed, refer, reset, fault>>

\* Row n becomes row: the indexes of S drop it under its old key and take it
\* back under its new one.
ReplaceRow(S, n, row) ==
    /\ rows' = [rows EXCEPT ![n + 1] = row]
    /\ map' = [i \in Index |->
                  IF i \in S
                  THEN PushBack(EraseRow(map[i], KeyOf(i, rows[n + 1]), n), KeyOf(i, row), n)
                  ELSE map[i]]
    /\ reset' = [i \in Index |-> reset[i] \/ i \in S]
    /\ UNCHANGED <<alive, width, subscribed, refer, misled, fault>>

SetRow(n, vargs) ==
    /\ Running
    /\ \/ (n >= Height \/ ~Validate(vargs)) /\ Refused
       \/ /\ n < Height /\ Validate(vargs)
          /\ IF AllFound(subscribed, n)
             THEN ReplaceRow(subscribed, n, MakeRow(vargs))
             ELSE Faulty("index_assert")

\* The subscribed indexes for which IsIndexedColumn(c) holds.
IndexedBy(c) == {i \in subscribed : c \in Range(IndexColumns[i])}

(***************************************************************************)
(* The range test of SetCellValue is "row_num >= height() && col_num >=    *)
(* col_size": a call with one of the two out of range goes on.  A column   *)
(* out of range is used in columns_[col_num]; a row out of range reaches   *)
(* StorageImpl::get, whose assertion lets row_num = height() pass.         *)
(***************************************************************************)
SetCellValue(n, c, v) ==
    /\ Running
    /\ \/ n >= Height /\ c > width /\ Refused
       \/ n < Height /\ c > width /\ Faulty("range")
       \/ c <= width /\ TypeOf[v] # ColumnType[c] /\ Refused
       \/ /\ c <= width /\ TypeOf[v] = ColumnType[c]
          /\ n > Height
          /\ Faulty("get_assert")
       \/ /\ c <= width /\ TypeOf[v] = ColumnType[c]
          /\ n = Height
          /\ Faulty("range")
       \/ /\ c <= width /\ TypeOf[v] = ColumnType[c]
          /\ n < Height
          /\ IF AllFound(IndexedBy(c), n)
             THEN ReplaceRow(IndexedBy(c), n, [rows[n + 1] EXCEPT ![c] = v])
             ELSE Faulty("index_assert")

(***************************************************************************)
(* TableIndex::Create finds every column by its name and a comparator for  *)
(* its type, or returns a null pointer; a definition of spaces only names  *)
(* no column and is accepted.  A client's i that was detached earlier is   *)
(* replaced by the new object.                                             *)
(***************************************************************************)
Creatable(i) ==
    \A c \in Range(IndexColumns[i]) : c <= width /\ ColumnType[c] \in Comparable

CreateIndex(i) ==
    /\ Running
    /\ i \notin subscribed
    /\ \/ ~Creatable(i) /\ Refused
       \/ /\ Creatable(i)
          /\ \E m \in BuildIndex(i) : map' = [map EXCEPT ![i] = m]
          /\ subscribed' = subscribed \cup {i}
          /\ refer' = [refer EXCEPT ![i] = TRUE]
          /\ reset' = [reset EXCEPT ![i] = FALSE]
          /\ misled' = misled \ {i}
          /\ UNCHANGED <<alive, width, rows, fault>>

\* UnSubscribe and UnSubscribeAll: the indexes of S are told and forgotten.
UnSubscribe(S) ==
    /\ refer' = [i \in Index |-> refer[i] /\ i \notin S]
    /\ subscribed' = subscribed \ S

DeleteIndex(i) ==
    /\ Running
    /\ UnSubscribe({i} \cap subscribed)
    /\ UNCHANGED <<alive, width, rows, map, reset, misled, fault>>

DeleteAllIndices ==
    /\ Running
    /\ UnSubscribe(subscribed)
    /\ UNCHANGED <<alive, width, rows, map, reset, misled, fault>>

\* Mutant: the indexes are not told.
ClearTableOnly ==
    /\ subscribed' = {} /\ UNCHANGED refer
    /\ width' = 0
    /\ rows' = <<>>

\* SharedTable::Clear; the columns go too, and later rows have no cells.
ClearTable ==
    /\ UnSubscribe(subscribed)
    /\ width' = 0
    /\ rows' = <<>>

Clear ==
    /\ Running
    /\ ClearTable
    /\ UNCHANGED <<alive, map, reset, misled, fault>>

\* The last Dynamic that holds the table goes: ~SharedTable.
Destroy ==
    /\ Running
    /\ ClearTable
    /\ alive' = FALSE
    /\ UNCHANGED <<map, reset, misled, fault>>

\* Dynamic::Table with the same definition; the client's old indexes stay detached.
Create ==
    /\ ~alive /\ fault = "none"
    /\ alive' = TRUE
    /\ width' = Width
    /\ rows' = <<>>
    /\ UNCHANGED <<subscribed, refer, map, reset, misled, fault>>

Next ==
    \/ \E vargs \in Vargs : AppendRow(vargs)
    \/ \E n \in RowNum : DeleteRow(n)
    \/ \E n \in RowNum, vargs \in Vargs : InsertRow(n, vargs)
    \/ \E n \in RowNum, vargs \in Vargs : SetRow(n, vargs)
    \/ \E n \in RowNum, c \in ColNum, v \in Dynamic : SetCellValue(n, c, v)
    \/ \E i \in Index : CreateIndex(i)
    \/ \E i \in Index : DeleteIndex(i)
    \/ DeleteAllIndices
    \/ Clear
    \/ Destroy
    \/ Create

Spec == Init /\ [][Next]_vars

-----------------------------------------------------------------------------
(***************************************************************************)
(* Properties.                                                             *)
(***************************************************************************)

\* The state is made of the values the C++ types allow: every row has the
\* table's width and the declared cell types, every index vector holds size_t.
TypeOK ==
    /\ alive \in BOOLEAN
    /\ width \in {0, Width}
    /\ rows \in Seq(Row)
    /\ \A r \in DOMAIN rows, c \in 1..width : TypeOf[rows[r][c]] = ColumnType[c]
    /\ subscribed \subseteq Index
    /\ refer \in [Index -> BOOLEAN]
    /\ reset \in [Index -> BOOLEAN]
    /\ misled \subseteq Index
    /\ fault \in Fault
    /\ DOMAIN map = Index
    /\ \A i \in Index : \A k \in DOMAIN map[i] : map[i][k] \in Seq(0..SizeMax)

\* Map m is the index i of the rows rs: no empty entry, no row number twice,
\* each entry lists only rows with its key, each row is listed under its key.
Describes(i, m, rs) ==
    /\ \A k \in DOMAIN m : m[k] # <<>>
    /\ \A k \in DOMAIN m : IsInjective(m[k])
    /\ \A k \in DOMAIN m : \A r \in Range(m[k]) : r < Len(rs) /\ KeyOf(i, rs[r + 1]) = k
    /\ \A r \in 0..(Len(rs) - 1) : Found(m, KeyOf(i, rs[r + 1]), r)

\* The incremental renumbering of NotifyRowDelete and NotifyRowInsert keeps up
\* with the table: over any calls, a subscribed index is exact as long as no
\* std::lower_bound searched one of its vectors that was not partitioned.
IndexExact == \A i \in subscribed \ misled : Describes(i, map[i], rows)

\* An assertion of NotifyRowDelete, that the key and the row are in the index,
\* fails in one case only: in an index that SetRow or SetCellValue put out of
\* order and that a later DeleteRow or InsertRow renumbered wrongly.  No other
\* sequence of calls loses a row.
NotifyAssertsFailOnlyIfMisled ==
    fault = "index_assert" => \E i \in subscribed \cap misled : reset[i]

\* Renumbering relies on sorted vectors, and only SetRow and SetCellValue put
\* row numbers out of order: an index they never touched since it was built
\* is in ascending order, and std::lower_bound was never misled in it.
DisorderOnlyFromSet ==
    \A i \in subscribed : ~reset[i] =>
        /\ \A k \in DOMAIN map[i] : Ascending(map[i][k])
        /\ i \notin misled

\* The lookups of an index test refer_to_table_ before they touch the table:
\* it is set exactly while a live table knows the index, and that table still
\* has every column the index reads.
ReferSound ==
    /\ \A i \in Index : refer[i] <=> i \in subscribed
    /\ \A i \in subscribed : alive /\ \A c \in Range(IndexColumns[i]) : c <= width

\* "Set methods. They update all existing indices" (dynamic.h:793): after any
\* of them every existing index describes the rows.
SetMethodsUpdateIndices == \A i \in subscribed : Describes(i, map[i], rows)

\* "assert((offset * grow_factor_) <= array_.size())" (StorageImpl::get) and
\* "assert(array_.size() != 0)" (StorageImpl::insert and remove) hold in every
\* call.
StorageAssertsHold == fault \notin {"get_assert", "empty_assert"}
=============================================================================
