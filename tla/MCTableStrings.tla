--------------------------- MODULE MCTableStrings ---------------------------
(***************************************************************************)
(* Tables of strings.  Rows, entries of an index and an iterator with the  *)
(* strings their cells refer to; the builder of groups, with the string in *)
(* the first column, and in the second one with a descending index and a   *)
(* caller that changes the builder's table; the definitions of indexes     *)
(* over two columns.  Strings are told apart by nothing but who refers to  *)
(* them.                                                                   *)
(***************************************************************************)
EXTENDS TableCells, TLC

CONSTANTS
    Strings,    \* strings of the grouped table
    IterRows    \* rows of the table that is iterated over

VARIABLES part, gVal, gCount, gHeld, data, map, table, builder, result, gFault,
          log, gShort, touched, fresh, names, index, made

groupingVars == <<gVal, gCount, gHeld, data, map, table, builder, result,
                  gFault, log, gShort, touched, fresh>>
indexDefinitionVars == <<names, index, made>>
allVars == <<part, vars, groupingVars, indexDefinitionVars>>

StrSymmetry == Permutations(Strings) \cup Permutations(Str)

\* The parts, one of which a behaviour is about.  The first is the module that is
\* extended; the second has more rows, and strings that do not change.
Iterators == INSTANCE TableCells WITH MaxRows <- IterRows, MaxShort <- 0, MayChange <- FALSE
Grouped == INSTANCE Grouping WITH
    Str <- Strings, Word <- {0, 1, 2}, Number <- {1, 3}, Bits <- 2,
    None <- "None", KeyCol <- 1, Minus <- FALSE, MaxRows <- 4, MaxTouch <- 0,
    val <- gVal, count <- gCount, held <- gHeld, fault <- gFault,
    short <- gShort
Shared == INSTANCE Grouping WITH
    Str <- Str, Word <- {0, 1}, Number <- {1, 3}, Bits <- 2,
    None <- "None", KeyCol <- 2, Minus <- TRUE, MaxRows <- 3, MaxTouch <- 2,
    val <- gVal, count <- gCount, held <- gHeld, fault <- gFault,
    short <- gShort
Definition == INSTANCE IndexDefinition WITH
    Types <- <<"UNSIGNED_INTEGER", "BOOL">>, Start <- <<"a", "b">>,
    Name <- {"a", "b"}, PartSize <- 2, Parts <- 2, KeyValue <- {0, 1},
    MaxDef <- 7

ASSUME CellsAssumption == TableCellsAssumption
ASSUME IteratorsAssumption == Iterators!TableCellsAssumption
ASSUME GroupedAssumption == Grouped!GroupingAssumption
ASSUME SharedAssumption == Shared!GroupingAssumption
ASSUME DefinitionAssumption == Definition!IndexDefinitionAssumption

\* The variables of a component the behaviour is not about; those of TableCells keep
\* their initial values.
NotThis == "off"
NoGrouping ==
    /\ gVal = NotThis /\ gCount = NotThis /\ gHeld = NotThis /\ data = NotThis /\ map = NotThis
    /\ table = NotThis /\ builder = NotThis /\ result = NotThis /\ gFault = NotThis
    /\ log = NotThis /\ gShort = NotThis /\ touched = NotThis /\ fresh = NotThis
NoIndexDefinition == names = NotThis /\ index = NotThis /\ made = NotThis

MCInit ==
    \/ part = "cells" /\ Init /\ NoGrouping /\ NoIndexDefinition
    \/ part = "iterators" /\ Iterators!Init /\ NoGrouping /\ NoIndexDefinition
    \/ part = "grouping" /\ Grouped!Init /\ Init /\ NoIndexDefinition
    \/ part = "shared" /\ Shared!Init /\ Init /\ NoIndexDefinition
    \/ part = "definition" /\ Definition!Init /\ Init /\ NoGrouping

\* A step of one part.
InCells ==
    /\ part = "cells"
    /\ UNCHANGED <<part, groupingVars, indexDefinitionVars>>
InIterators ==
    /\ part = "iterators"
    /\ UNCHANGED <<part, groupingVars, indexDefinitionVars>>
InGrouped ==
    /\ part = "grouping"
    /\ UNCHANGED <<part, vars, indexDefinitionVars>>
InShared ==
    /\ part = "shared"
    /\ UNCHANGED <<part, vars, indexDefinitionVars>>
InDefinition ==
    /\ part = "definition"
    /\ UNCHANGED <<part, vars, groupingVars>>

MCNext ==
    \/ InCells /\ Next
    \/ InIterators /\ Iterators!Next
    \/ InGrouped /\ Grouped!Next
    \/ InShared /\ Shared!Next
    \/ InDefinition /\ Definition!Next

MCSpec == MCInit /\ [][MCNext]_allVars

-----------------------------------------------------------------------------
\* Types are right and an entry lists rows of the table once, whatever is shared.
\* While no two rows have equal but different strings and no string changes in
\* place, no key of an index is a destroyed string and every deleted or
\* replaced row is found under its key; and an iterator got from an index
\* stays at a row whose key is not below the one it was looked up with, while
\* rows are inserted and deleted around it.
IteratorsSound ==
    /\ TypeOK
    /\ part = "iterators" => SoundUnlessKeysShared /\ IteratorKeepsItsRow

\* The table of a builder is the grouping of the rows put into it, with COUNT,
\* SUM, MIN and MAX of every group; nothing undefined is done unless a row was
\* too short or the caller changed the table; and every string of the builder,
\* its table and its caller is counted exactly. (dynamic_table.cpp,
\* GroupIndex, Build, GetResult)
GroupsCounted ==
    /\ part = "grouping" =>
           /\ Grouped!ResultIsTheGrouping
           /\ Grouped!DefinedUnlessMisused
    /\ part = "shared" => Shared!TypeOK /\ Shared!StringsCounted

\* An index orders rows as its definition says, column by column and each
\* ascending or descending, however many parts the mask is cut into, if its
\* columns fit in a key; and exactly the definitions that are accepted and do
\* not fit, at most a part too long, make MakeKey write over size_ and behind
\* it, in indexes no lookup gets into. (dynamic_table_index_comparators.cpp,
\* TableIndex::MakeKey)
OrderIsTheDefinition ==
    part = "definition" =>
        /\ Definition!TypeOK
        /\ Definition!OrderIsTheDefinition
        /\ Definition!OverrunOnlyIfTooLong
=============================================================================
