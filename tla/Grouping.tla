------------------------------ MODULE Grouping ------------------------------
(***************************************************************************)
(* Grouping of tables: GroupIndex, its aggregators, GroupedTableBuilder    *)
(* and Group (src/src/dynamic/dynamic_table.cpp, nkit/dynamic.h).  A       *)
(* builder groups rows of a string and a number by the string, into COUNT, *)
(* SUM, MIN and MAX of the number.  The keys of its map are pointers to    *)
(* strings that only the rows of the grouped table keep alive, and         *)
(* GetResult hands out that very table, in which it then writes rows       *)
(* without counting references.                                            *)
(***************************************************************************)
EXTENDS Integers, Sequences, SequencesExt, FiniteSetsExt

CONSTANTS
    Str,      \* string objects, free ones included
    Word,     \* what a string may hold: numbers, in the order of strings
    Number,   \* what the caller puts into the column of numbers
    Bits,     \* the width of an unsigned integer
    None,     \* no string
    KeyCol,   \* the column of the string: 1, or 2 behind the number
    Minus,    \* the index definition starts with '-': descending
    MaxRows,  \* bound: rows put into the builder, rows of its table
    MaxTouch  \* bound: changes the caller makes to the builder's table

\* What an instance gives for the constants.
GroupingAssumption ==
    /\ Bits \in Nat \ {0} /\ Number \subseteq 0..(2^Bits - 1) /\ Word \subseteq Nat
    /\ None \notin Str /\ KeyCol \in 1..2 /\ Minus \in BOOLEAN
    /\ {MaxRows, MaxTouch} \subseteq Nat

VARIABLES
    val, count,      \* the strings: contents, and references
    held,            \* the string the caller holds, or None
    data,            \* current_data_: the pointer and the number of the last row
    map,             \* index_map_ in its order: keys and buckets
    table,           \* grouped_table_: the same, row by row
    builder, result, \* the builder exists; the caller holds its table
    fault,           \* how a call went wrong, "none" before that
    log,             \* history: the words and numbers of the rows put in
    short, touched,  \* history: a row was too short; changes of the table by the caller
    fresh            \* history: the last call was GetResult

vars == <<val, count, held, data, map, table, builder, result, fault, log, short, touched, fresh>>
strings == <<val, count, held>>
history == <<log, short, touched>>

Running == fault = "none"

Broken(f) ==
    /\ fault' = f
    /\ UNCHANGED <<strings, data, map, table, builder, result, log, touched, fresh>>

-----------------------------------------------------------------------------
(* Strings of the caller.                                                  *)

Left(v, cnt) == [s \in Str |-> IF cnt[s] = 0 THEN 0 ELSE v[s]]

NewString(s, w) ==
    /\ Running /\ held = None /\ count[s] = 0
    /\ held' = s
    /\ val' = [val EXCEPT ![s] = w] /\ count' = [count EXCEPT ![s] = 1]
    /\ UNCHANGED <<data, map, table, builder, result, fault, history, fresh>>

Release ==
    /\ Running /\ held # None
    /\ IF count[held] = 0 THEN Broken("undefined")
       ELSE /\ held' = None
            /\ count' = [count EXCEPT ![held] = @ - 1] /\ val' = Left(val, count')
            /\ UNCHANGED <<data, map, table, builder, result, fault, log, touched, fresh>>
    /\ UNCHANGED short

-----------------------------------------------------------------------------
(* Aggregators and the index.                                              *)

MaxData == 2^Bits - 1

\* A bucket starts with the defaults of COUNT, SUM, MIN and MAX.
Default == [count |-> 0, sum |-> 0, min |-> MaxData, max |-> 0]

\* Aggregator::Update, of every aggregator
Update(b, n) ==
    [count |-> b.count + 1,
     sum   |-> (b.sum + n) % 2^Bits,
     min   |-> IF b.min < n THEN b.min ELSE n,
     max   |-> IF b.max >= n THEN b.max ELSE n]

Before(w1, w2) == IF Minus THEN w1 > w2 ELSE w1 < w2

\* Where the map has the word w, 0 if it has not; the word of a key k is words[k]
Find(mp, w, words) ==
    LET at == {p \in DOMAIN mp : words[mp[p].key] = w} IN IF at = {} THEN 0 ELSE Min(at)

\* GroupIndex::UpdateIndex
UpdateIndex(mp, k, n, words) ==
    LET p == Find(mp, words[k], words)
        less == {q \in DOMAIN mp : Before(words[mp[q].key], words[k])}
    IN  IF p # 0 THEN [mp EXCEPT ![p].bucket = Update(@, n)]
        ELSE InsertAt(mp, 1 + Cardinality(less), [key |-> k, bucket |-> Update(Default, n)])

\* Group: the index of a whole table, whose rows in the order of the map are the result
Group(rows) ==
    FoldLeft(LAMBDA mp, row : UpdateIndex(mp, row.word, row.num, [w \in Word |-> w]), <<>>, rows)

\* What std::map relies on: keys that can be read, each before the next
KeysInOrder ==
    /\ \A p \in DOMAIN map : count[map[p].key] > 0
    /\ \A p, q \in DOMAIN map : p < q => Before(val[map[p].key], val[map[q].key])

-----------------------------------------------------------------------------
(* GroupedTableBuilder.                                                    *)

\* AppendRowUnsafe counts the string, SetRowUnsafe counts nothing.
AppendRowUnsafe(row) ==
    /\ table' = Append(table, row)
    /\ count' = [count EXCEPT ![row.key] = @ + 1]

\* Validate stores the columns the row has; the others keep the last row's.
Stored(n, full) ==
    [key |-> IF full \/ KeyCol = 1 THEN held ELSE data.key,
     num |-> IF full \/ KeyCol = 2 THEN n ELSE data.num]

InsertRow(n, full) ==
    /\ Running /\ builder /\ Len(log) < MaxRows
    /\ full \/ KeyCol = 1 => held # None
    /\ LET d == Stored(n, full)
       IN  IF d.key = None THEN Broken("abort")
           ELSE IF count[d.key] = 0 \/ ~KeysInOrder THEN Broken("undefined")
           ELSE /\ data' = d
                /\ map' = UpdateIndex(map, d.key, d.num, val)
                /\ IF Len(map') > Len(map)
                   THEN AppendRowUnsafe([key |-> d.key, bucket |-> Update(Default, d.num)])
                   ELSE UNCHANGED <<table, count>>
                /\ log' = Append(log, [word |-> val[d.key], num |-> d.num])
                /\ fresh' = FALSE
                /\ UNCHANGED <<val, held, builder, result, fault, touched>>
    /\ short' = (short \/ ~full)

\* The table after Build wrote the map over its first rows
Written == [r \in DOMAIN table |-> IF r \in DOMAIN map THEN map[r] ELSE table[r]]

GetResult ==
    /\ Running /\ builder
    /\ IF Len(map) > Len(table) THEN Broken("undefined")
       ELSE /\ table' = Written
            /\ result' = TRUE /\ fresh' = TRUE
            /\ UNCHANGED <<strings, data, map, builder, fault, log, touched>>
    /\ UNCHANGED short

-----------------------------------------------------------------------------
(* The caller's table, and the end of both.                                *)

\* Cells of rows given up: the references left, negative if there were too few
Given(rows) == [s \in Str |-> count[s] - Cardinality({r \in DOMAIN rows : rows[r].key = s})]

GiveUp(rows, Then) ==
    IF \E s \in Str : Given(rows)[s] < 0 THEN Broken("undefined") /\ UNCHANGED short
    ELSE /\ count' = Given(rows) /\ val' = Left(val, Given(rows))
         /\ UNCHANGED <<held, data, fault, history>>
         /\ fresh' = FALSE
         /\ Then

DeleteRow(r) ==
    /\ Running /\ result /\ touched < MaxTouch /\ r \in DOMAIN table
    /\ IF Given(<<table[r]>>)[table[r].key] < 0 THEN Broken("undefined")
       ELSE /\ count' = Given(<<table[r]>>) /\ val' = Left(val, count')
            /\ table' = RemoveAt(table, r)
            /\ touched' = touched + 1 /\ fresh' = FALSE
            /\ UNCHANGED <<held, data, map, builder, result, fault, log>>
    /\ UNCHANGED short

AppendRow(n) ==
    /\ Running /\ result /\ touched < MaxTouch /\ held # None /\ Len(table) < MaxRows
    /\ AppendRowUnsafe([key |-> held, bucket |-> Update(Default, n)])
    /\ touched' = touched + 1 /\ fresh' = FALSE
    /\ UNCHANGED <<val, held, data, map, builder, result, fault, log, short>>

\* Mutant: the rows of the table are not released.
DropResultKeepsRows ==
    /\ Running /\ result
    /\ GiveUp(<<>>, /\ table' = IF builder THEN table ELSE <<>>
                    /\ result' = FALSE /\ UNCHANGED <<map, builder>>)

\* The table goes with the last of its two holders.
DropResult ==
    /\ Running /\ result
    /\ GiveUp(IF builder THEN <<>> ELSE table,
              /\ table' = IF builder THEN table ELSE <<>>
              /\ result' = FALSE /\ UNCHANGED <<map, builder>>)

DestroyBuilder ==
    /\ Running /\ builder
    /\ GiveUp(IF result THEN <<>> ELSE table,
              /\ table' = IF result THEN table ELSE <<>>
              /\ builder' = FALSE /\ map' = <<>> /\ UNCHANGED result)

-----------------------------------------------------------------------------

Init ==
    /\ val = [s \in Str |-> 0] /\ count = [s \in Str |-> 0] /\ held = None
    /\ data = [key |-> None, num |-> 0]
    /\ map = <<>> /\ table = <<>> /\ builder = TRUE /\ result = FALSE /\ fault = "none"
    /\ log = <<>> /\ short = FALSE /\ touched = 0 /\ fresh = FALSE

Next ==
    \/ \E s \in Str, w \in Word : NewString(s, w)
    \/ Release
    \/ \E n \in Number, full \in BOOLEAN : InsertRow(n, full)
    \/ \E n \in Number : AppendRow(n)
    \/ \E r \in 1..MaxRows : DeleteRow(r)
    \/ GetResult \/ DropResult \/ DestroyBuilder

Spec == Init /\ [][Next]_vars

-----------------------------------------------------------------------------
(* Properties.                                                             *)

\* Types, with a bucket's number in the width of the column.
TypeOK ==
    /\ val \in [Str -> Nat] /\ count \in [Str -> Nat] /\ held \in Str \cup {None}
    /\ \A r \in DOMAIN table : table[r].bucket.sum \in 0..MaxData
    /\ fault \in {"none", "abort", "undefined"}

\* The rows of the grouping of rows, by what COUNT, SUM, MIN and MAX mean
Reference(rows) ==
    LET words == {row.word : row \in Range(rows)}
        Nums(w) == SelectSeq(rows, LAMBDA row : row.word = w)
        Bucket(w) ==
            [count |-> Len(Nums(w)),
             sum |-> FoldLeft(LAMBDA t, row : t + row.num, 0, Nums(w)) % 2^Bits,
             min |-> Min({row.num : row \in Range(Nums(w))}),
             max |-> Max({row.num : row \in Range(Nums(w))})]
    IN  {[word |-> w, bucket |-> Bucket(w), at |-> Cardinality({u \in words : Before(u, w)})] :
           w \in words}

Placed(rows, WordOf(_)) ==
    {[word |-> WordOf(rows[r].key), bucket |-> rows[r].bucket, at |-> r - 1] : r \in DOMAIN rows}

\* However the rows come, and however often the result was asked for in between, GetResult
\* gives one row for each key, in order, with the aggregates of all its rows; and Group
\* gives the same for a table with these rows.
ResultIsTheGrouping ==
    /\ Placed(Group(log), LAMBDA w : w) = Reference(log)
    /\ (fresh /\ Running /\ ~short /\ touched = 0) =>
         Placed(table, LAMBDA s : val[s]) = Reference(log)

\* The strings of the grouped table are counted exactly, although Build moves them between
\* rows uncounted: none is freed under the map's keys, none is left when both are gone.
StringsCounted ==
    (Running /\ touched = 0) =>
      /\ KeysInOrder
      /\ \A s \in Str : count[s] = Cardinality({r \in DOMAIN table : table[r].key = s})
                                     + (IF held = s THEN 1 ELSE 0)

\* A call is undefined or aborts only after the caller changed the table it got, or gave
\* a row without its key column, which uses the pointer the row before left behind.
DefinedUnlessMisused == fault = "none" \/ touched > 0 \/ (KeyCol = 2 /\ short)
=============================================================================
