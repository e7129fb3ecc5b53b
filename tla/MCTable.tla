------------------------------ MODULE MCTable ------------------------------
(***************************************************************************)
(* A table "INTEGER, STRING" with one index, on its first column.          *)
(***************************************************************************)
EXTENDS TableRefinement

CONSTANTS i0, i1, s0, byInt

MCColumnType == <<"INTEGER", "STRING">>
MCType == {"INTEGER", "STRING"}
MCDynamic == {i0, i1, s0}
MCTypeOf == (i0 :> "INTEGER") @@ (i1 :> "INTEGER") @@ (s0 :> "STRING")
MCDefault == ("INTEGER" :> i0) @@ ("STRING" :> s0)
MCIndexColumns == byInt :> <<1>>

\* The map of a detached index is not read again before CreateIndex makes a new
\* one: states that differ only there are one.
LiveState ==
    <<alive, width, rows, subscribed, refer, [i \in subscribed |-> map[i]],
      [i \in subscribed |-> reset[i]], subscribed \cap misled, fault>>
=============================================================================
