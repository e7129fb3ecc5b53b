-------------------------- MODULE TableRefinement --------------------------
(***************************************************************************)
(* Table, with its renumbering of row numbers, implements IndexedTable,    *)
(* where an index is a function of the rows.                               *)
(***************************************************************************)
EXTENDS Table

\* The indexes the table knows that were never renumbered wrongly.
Serving == subscribed \ misled

\* What a client can look up in them: the rows per key.
Lookup == [i \in Serving |-> [k \in DOMAIN map[i] |-> Range(map[i][k])]]

Kept == fault = "none"

Abstract == INSTANCE IndexedTable WITH
    rows <- IF Kept THEN rows ELSE <<>>,
    lookup <- IF Kept THEN Lookup ELSE <<>>,
    atRisk <- IF Kept THEN {i \in Serving : reset[i]} ELSE {},
    kept <- Kept

\* Every operation of the table and its indexes is one step of IndexedTable:
\* no call leaves an index behind the rows unless SetRow or SetCellValue had
\* reordered it before, and only the client's own DeleteIndex, Clear and the
\* like take any other index away.
ImplementsIndexedTable == Abstract!Spec
=============================================================================
