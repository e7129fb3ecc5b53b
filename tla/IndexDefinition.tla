-------------------------- MODULE IndexDefinition --------------------------
(***************************************************************************)
(* From the definition of an index to its order: column names, their       *)
(* change, TableIndex::Create, GetComparator and IndexCompare              *)
(* (src/src/dynamic/dynamic_table.cpp, nkit/dynamic.h and                  *)
(* dynamic_table_index_comparators.cpp).  A key is compared in parts of    *)
(* PartSize columns, each by a function found under the types of the part, *)
(* and is kept in an array of fixed size with size_ right behind it, which *)
(* MakeKey fills without looking whether the columns fit.                  *)
(***************************************************************************)
EXTENDS Integers, Sequences, SequencesExt, FiniteSetsExt

CONSTANTS
    Types,     \* the types of the table's columns, in order
    Start,     \* their names at first
    Name,      \* names the caller may use
    PartSize,  \* NKIT_TABLE_INDEX_PART_SIZE: 3 in the code
    Parts,     \* parts a key has room for: 21 in the code
    KeyValue,  \* values of a key item, the 64 bits as a number
    MaxDef     \* bound: columns of a definition

\* What an instance gives for the constants.
IndexDefinitionAssumption ==
    /\ Len(Types) = Len(Start) /\ Range(Start) \subseteq Name
    /\ {PartSize, Parts} \subseteq Nat \ {0} /\ MaxDef \in Nat /\ KeyValue \subseteq Nat

VARIABLES
    names,  \* columns_[].name_
    index,  \* the index: its columns and their comparators, or why there is none
    made    \* history: the definition it was made from

vars == <<names, index, made>>

npos == 0
NoIndex(error) == [ok |-> FALSE, error |-> error]

\* IndexKey::MAX_SIZE and IndexCompare::MAX_SIZE
KeySize == PartSize * Parts
CompareSize == KeySize \div PartSize + 1

-----------------------------------------------------------------------------
(* Names.                                                                  *)

\* The first column of that name
column_number(name) ==
    LET at == {c \in DOMAIN names : names[c] = name} IN IF at = {} THEN npos ELSE Min(at)

SetColumnName(pos, name) ==
    /\ pos \in DOMAIN names
    /\ names' = IF column_number(name) # npos THEN [names EXCEPT ![pos] = name] ELSE names
    /\ UNCHANGED <<index, made>>

-----------------------------------------------------------------------------
(* The comparator.                                                         *)

\* Masks that have a comparator: there is none for BOOL and DATE_TIME.
Comparable(type) == type \in {"INTEGER", "UNSIGNED_INTEGER", "FLOAT", "STRING"}

\* The mask, cut into full parts and a shorter last one
PartsOf(mask) ==
    LET full == Len(mask) \div PartSize
        rest == Len(mask) % PartSize
        Part(i) == SubSeq(mask, (i - 1) * PartSize + 1, Min({i * PartSize, Len(mask)}))
    IN  [i \in 1..(full + IF rest > 0 THEN 1 ELSE 0) |-> Part(i)]

\* Every part must have a comparator, and AppendPartCompare room for it.
GetComparator(mask) ==
    IF /\ \A i \in DOMAIN mask : Comparable(mask[i].type)
       /\ Len(PartsOf(mask)) <= CompareSize
    THEN [ok |-> TRUE, fcomp |-> PartsOf(mask)] ELSE [ok |-> FALSE]

\* Comparator1 to Comparator3: the first item that differs decides.
CompareItem(item, a, b) ==
    LET r == IF a < b THEN -1 ELSE IF a > b THEN 1 ELSE 0 IN IF item.minus THEN -r ELSE r

ComparePart(part, k1, k2, from) ==
    FoldLeft(LAMBDA r, i : IF r # 0 THEN r ELSE CompareItem(part[i], k1[from + i], k2[from + i]),
             0, [i \in DOMAIN part |-> i])

\* Mutant: every part reads the first items of the keys.
CompareSamePart(fcomp, k1, k2) ==
    FoldLeft(LAMBDA r, i : IF r # 0 THEN r ELSE ComparePart(fcomp[i], k1, k2, 0),
             0, [i \in DOMAIN fcomp |-> i]) < 0

\* IndexCompare::operator ()
Compare(fcomp, k1, k2) ==
    FoldLeft(LAMBDA r, i : IF r # 0 THEN r ELSE ComparePart(fcomp[i], k1, k2, (i - 1) * PartSize),
             0, [i \in DOMAIN fcomp |-> i]) < 0

-----------------------------------------------------------------------------
(* IndexKey.                                                               *)

\* IndexKey(0): the array is not initialized.
Unset == -1
EmptyKey == [key |-> [i \in 1..KeySize |-> Unset], size |-> 0, outside |-> FALSE]

(***************************************************************************)
(* "key_[size_] = item; ++size_".  The element behind the array is size_   *)
(* itself, and what is behind that is outside the IndexKey.  To write      *)
(* there is undefined: a build that reads size_ again counts on from the   *)
(* item it has just put there, one that has it in a register overwrites    *)
(* the item with the count.                                                *)
(***************************************************************************)
PutItem(reread, k, item) ==
    [key |-> IF k.size < KeySize THEN [k.key EXCEPT ![k.size + 1] = item] ELSE k.key,
     size |-> 1 + IF reread /\ k.size = KeySize THEN item ELSE k.size,
     outside |-> k.outside \/ k.size > KeySize]

\* MakeKey for a row with these items in the columns of the index: what can come out.
MakeKey(items) ==
    {FoldLeft(LAMBDA k, item : PutItem(reread, k, item), EmptyKey, items) : reread \in BOOLEAN}

\* The items a comparator finds at pk1 and behind it; outside anything may be.
ItemsOf(k) ==
    [i \in 1..(KeySize + PartSize) |->
        IF i <= KeySize THEN k.key[i] ELSE IF i = KeySize + 1 THEN k.size ELSE Unset]

\* IndexKeyFrom: a lookup with n arguments in an index of columns columns goes on.
Looks(n, columns) == ~(n < columns \/ n > KeySize)

-----------------------------------------------------------------------------
(* TableIndex::Create.                                                     *)

Create(def) ==
    LET cols == [i \in DOMAIN def |-> column_number(def[i].name)]
        mask == [i \in DOMAIN def |-> [type |-> Types[cols[i]], minus |-> def[i].minus]]
        comp == GetComparator(mask)
    IN  /\ index' = IF def = <<>> THEN NoIndex("empty")
                    ELSE IF npos \in Range(cols) THEN NoIndex("column")
                    ELSE IF ~comp.ok THEN NoIndex("comparator")
                    ELSE [ok |-> TRUE, cols |-> cols, fcomp |-> comp.fcomp]
        /\ made' = def
        /\ UNCHANGED names

Item == [name : Name, minus : BOOLEAN]

Init ==
    /\ names = Start
    /\ index = NoIndex("none") /\ made = <<>>

Next ==
    \/ \E pos \in 1..(Len(Start) + 1), name \in Name : SetColumnName(pos, name)
    \/ /\ index = NoIndex("none")
       /\ \E n \in 0..MaxDef : \E def \in [1..n -> Item] : Create(def)

Spec == Init /\ [][Next]_vars

-----------------------------------------------------------------------------
(* Properties.                                                             *)

\* The items of a row in the columns of the index
Rows == [1..Len(made) -> KeyValue]

\* The columns of the index have room in a key.
Fits == Len(made) <= KeySize

\* The key is that of the row: each of its items is there, and size_ is their number.
Whole(k, row) ==
    k.size = Len(row) /\ ~k.outside /\ \A i \in DOMAIN row : ItemsOf(k)[i] = row[i]

\* Types; an index has a comparator for each column of its definition.
TypeOK ==
    /\ names \in [DOMAIN Start -> Name]
    /\ index.ok => Len(FlattenSeq(index.fcomp)) = Len(made)

\* The order of an index whose columns fit in a key is the one its definition says,
\* column by column with the signs, wherever the columns fall in the parts: the keys of
\* two rows are compared by the first column in which the rows differ, and by no other.
OrderIsTheDefinition ==
    index.ok /\ Fits => \A r1, r2 \in Rows : \A k1 \in MakeKey(r1), k2 \in MakeKey(r2) :
      Compare(index.fcomp, ItemsOf(k1), ItemsOf(k2)) <=>
        \E i \in DOMAIN made :
          /\ \A j \in 1..(i - 1) : r1[j] = r2[j]
          /\ IF made[i].minus THEN r1[i] > r2[i] ELSE r1[i] < r2[i]

\* MakeKey keeps to the key if and only if the definition fits.  One that is accepted
\* although it does not fit is at most a part too long; its keys lose items of the row or
\* are written beyond their end, and no lookup in such an index gets past IndexKeyFrom.
OverrunOnlyIfTooLong ==
    index.ok =>
        /\ Fits => \A row \in Rows : \A k \in MakeKey(row) : Whole(k, row)
        /\ ~Fits => /\ Len(made) <= KeySize + PartSize
                    /\ \A row \in Rows : \A k \in MakeKey(row) : ~Whole(k, row)
                    /\ \A n \in 0..(MaxDef + 1) : ~Looks(n, Len(made))
=============================================================================
