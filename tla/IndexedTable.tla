---------------------------- MODULE IndexedTable ----------------------------
(***************************************************************************)
(* What a Dynamic table with indexes promises its client: a sequence of    *)
(* rows and, for every index that exists, the rows of each key, always     *)
(* those of the rows as they are.  An index a Set method has reordered is  *)
(* at risk: it serves until rows are added or deleted, and may be lost     *)
(* then.  All promises end with a call that ends the program.              *)
(***************************************************************************)
EXTENDS Integers, SequencesExt

CONSTANTS
    Index,          \* the indexes a client may create
    KeyOf(_, _)     \* KeyOf(i, row): the key of row in index i

VARIABLES
    rows,       \* the rows, in order
    lookup,     \* lookup[i][k]: the numbers of the rows with key k in index i
    atRisk,     \* the indexes that may be lost
    kept        \* no call has ended the program

vars == <<rows, lookup, atRisk, kept>>

\* The index i of the rows rs: which row numbers each key has.
View(i, rs) ==
    [k \in {KeyOf(i, rs[r]) : r \in DOMAIN rs} |->
        {r \in 0..(Len(rs) - 1) : KeyOf(i, rs[r + 1]) = k}]

Init == rows = <<>> /\ lookup = <<>> /\ atRisk = {} /\ kept = TRUE

\* A row is added, at any place; the others keep their order.
Added == \E p \in DOMAIN rows' : rows = RemoveAt(rows', p)

\* A row is deleted.
Deleted == \E p \in DOMAIN rows : rows' = RemoveAt(rows, p)

\* One row has other cells.
Replaced ==
    /\ Len(rows') = Len(rows)
    /\ \E p \in DOMAIN rows : \A q \in DOMAIN rows : q # p => rows'[q] = rows[q]

\* The client adds or deletes a row, and the indexes S follow at once; only
\* an index at risk is not among them.
Change ==
    /\ kept /\ kept' = TRUE
    /\ Added \/ Deleted
    /\ \E S \in SUBSET DOMAIN lookup :
          /\ DOMAIN lookup \ S \subseteq atRisk
          /\ lookup' = [i \in S |-> View(i, rows')]
          /\ atRisk' = atRisk \cap S

\* The client sets a row or a cell.  Every index follows, and some are at risk
\* from here on.
Set ==
    /\ kept /\ kept' = TRUE
    /\ Replaced
    /\ lookup' = [i \in DOMAIN lookup |-> View(i, rows')]
    /\ \E S \in SUBSET DOMAIN lookup : atRisk' = atRisk \cup S

\* An index is created; it is not at risk.
Build ==
    /\ kept /\ kept' = TRUE
    /\ rows' = rows
    /\ \E i \in Index \ DOMAIN lookup :
          lookup' = [j \in DOMAIN lookup \cup {i} |-> View(j, rows)]
    /\ atRisk' = atRisk

\* Indexes are given up; the ones that stay are as they were.
Drop ==
    /\ kept /\ kept' = TRUE
    /\ rows' = rows
    /\ \E S \in SUBSET DOMAIN lookup :
          /\ lookup' = [i \in S |-> lookup[i]]
          /\ atRisk' = atRisk \cap S

\* The table is cleared, destroyed or made anew: no row, and no index.
Empty ==
    /\ kept /\ kept' = TRUE
    /\ rows' = <<>>
    /\ lookup' = <<>>
    /\ atRisk' = {}

\* A call ends the program.
Break ==
    /\ kept /\ kept' = FALSE
    /\ rows' = <<>>
    /\ lookup' = <<>>
    /\ atRisk' = {}

Next == Change \/ Set \/ Build \/ Drop \/ Empty \/ Break

Spec == Init /\ [][Next]_vars
=============================================================================
