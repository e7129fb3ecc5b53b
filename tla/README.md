# A TLA+ model of nkit

nkit is a C++ library: `Dynamic`, a reference counted variant type with lists,
dictionaries and tables; tables with indexes and grouping; converters between
XML, JSON and C++ variables; loggers. This directory models its stateful parts
in TLA+, checks them with TLC on small instances and proves the main results
with TLAPS. Source paths below are relative to the repository.

## Inventory

| Component | State | Operations | What is hard |
|---|---|---|---|
| Tables, `dynamic/dynamic_table.cpp`, `nkit/dynamic/impl_table.h`, `table_storage_impl.h` | columns, one array of cells, row count, set of subscribed indexes | AppendRow, InsertRow, DeleteRow, SetRow, SetCellValue, SetColumnName, Clear, Clone, Create/DeleteIndex, DeleteAllIndices | every operation on rows must be repeated, row by row number, in every index |
| Table indexes (`TableIndex`) | map from keys to vectors of row numbers, `refer_to_table_`, raw pointer to the table | notified of each row; lookups, iterators | incremental renumbering with `std::lower_bound`, which needs sorted vectors; an index outlives its table |
| Index comparators, `dynamic_table_index_comparators.cpp` | a table of functions by type mask | GetComparator, IndexCompare | keys are compared in parts of three |
| Grouping (`GroupIndex`, `Aggregator`, `GroupedTableBuilder`) | map from keys to buckets | Group, incremental building | defaults of MIN and MAX, types of the results |
| `Dynamic`, `dynamic/dynamic.cpp`, `nkit/dynamic/impl*.h` | reference counts of shared strings, lists, dictionaries and tables | assignment, Clone, Clear, container operations | aliasing (`v = v[0]`), cycles, NONE |
| `Logger`, `LoggerAccessor`, `nkit/logger.h` | the installed logger; per logger a stream and a mutex | a statement `accessor << item << ...` | a mutex held across the operators of an expression, by several threads, and a change of logger inside one |
| `RotateLogger` | file, rotation times, suffix counter | WriteLine, Rotate | lines with old times, reuse of names after a restart, failing file operations |
| rsyslog loggers | socket | Connect, WriteLine | partial and failing sends |
| XML to variables, `nkit/xml2var.h` | `AnyXml2VarBuilder`: stacks of builders, flags and texts, a cache of builders; `StructXml2VarBuilder`: stacks of path nodes and targets | Clear; start, text and end of an element; Feed | one object for many documents, objects used again while results refer to what they made; paths with wildcards, nested targets |
| Date and time values, `nkit/dynamic/impl_date_time.h` | one packed word | constructors, setters, addition, comparison | widths of fields, ends of months and of the calendar |
| `ref_count_ptr` | a counter per object | copy, assignment, reset | the order of reset and read in an assignment; chains of destructors |
| Variables to XML, `nkit/var2xml.h` | a stack of names while a text is written | Process | CDATA sections, names that are also keys of options |
| JSON, `dynamic_json.cpp`, `nkit/dynamic_json.h` | the reader's stack of plain pointers into values that grow; `errno` | callbacks of yajl; the writer | pointers into moved items, limits of integers, escapes |
| Paths, `dynamic_path.cpp` | the reader's state and place | construction from a text and parameters | states shared by names, indexes and parameters |
| Getters, `nkit/dynamic_getter.h` | a list of errors that a family of getters shares; bare pointers to parents | Get with and without default, Set, option classes | errors that nobody sees, getters that outlive their parent |
| Transcoding, `encoding/transcode.cpp` | code pages and their inverse | FromUtf8, ToUtf8, Transcode | forms of UTF-8, reading ahead, characters a page lacks |
| Tools | none of their own | file and string helpers | `move_file`, see RotateLogger |

Components call each other directly. A table and its indexes are an observer
pair: the table holds a set of counted pointers to its indexes and calls
`NotifyRowInsert`, `NotifyRowDelete` and `NotifyReferToTable`; the index reads
the table through a raw pointer. `LoggerAccessor` locks the logger, calls its
`WriteLine`, and unlocks it; `RotateLogger` is one of the implementations of
`WriteLine`. Only the loggers are meant to be used by several threads.

Correctness, per component: an index always lists exactly the rows of each
key, and never refers to a table that is gone; a log line is one statement's
own and no thread waits forever; rotation loses no line; the value built from a
document is what its tree means, and later documents do not change it; counts
are exact and nothing is used after it was freed; what is written as XML or
JSON, or converted to another encoding, reads back as it was; a getter that
could not get its value says so.

## Modules

| Module | Models |
|---|---|
| `Table` | `SharedTable` and the `TableIndex` objects subscribed to it |
| `IndexedTable` | the abstract promise: rows, and for each index a function of the rows |
| `TableRefinement` | the refinement mapping from `Table` to `IndexedTable` |
| `TableProofs` | theorems about them |
| `Logger`, `LoggerProofs` | `Logger` and `LoggerAccessor`, and theorems |
| `RotateLogger` | `RotateLogger` with the files it leaves |
| `AnyXml2Var` | `AnyXml2VarBuilder` with `DynamicBuilder` |
| `AnyXml2VarProofs`, `AnyXml2VarResultProofs` | theorems about its stacks and caches, and about what it returns |
| `TableCells`, `TableCellsProofs` | the cells of a table as references to counted strings, the keys of an index as bare pointers, iterators; theorems |
| `IndexDefinition` | from the definition of an index, over column names and their change, to the order of keys |
| `Grouping` | `GroupIndex`, aggregators, `GroupedTableBuilder`, `Group` |
| `DynamicHeap`, `DynamicHeapProofs` | the heap of `Dynamic` values, and theorems |
| `RefCountPtr`, `RefCountPtrProofs` | `detail::ref_count_ptr`, and theorems |
| `LoggerLifecycle` | the destruction of loggers in use, and operands that log |
| `RsyslogLogger` | `RSysLoggerBase` and its two sockets |
| `LogOutputProofs` | theorems about `RotateLogger`, `RsyslogLogger` and `LoggerLifecycle` |
| `StructXml2Var` | `StructXml2VarBuilder` with its mappings |
| `Var2Xml` | `Var2XmlConverter`, and a reader of its text |
| `JsonReader`, `JsonWriter` | `DynamicFromJson` behind yajl; `DynamicToJson` |
| `DateTime` | `Impl<DATE_TIME>` |
| `DynamicPath`, `DynamicGetter` | the reader of paths; getters and option classes |
| `Transcoder` | conversion between UTF-8 and code pages |
| `MC*` | the instances TLC checks |

### Table

`rows` is the array of `StorageImpl` cut into rows, `width` is
`columns_.size()` and the grow factor, `subscribed` is `table_index_set_`,
`map[i]` is `index_map_` of index `i` and `refer[i]` its `refer_to_table_`.
Each public operation of a table is one action; calls are sequential, the
library has no locking here. An action contains the notification of every
index: `PushBack` is `NotifyRowInsert` without renumbering, `RowInserted` with
it, `EraseRow` and `RowDeleted` are the two forms of `NotifyRowDelete`.

Arguments are also wrong ones: row and column numbers past the end, argument
vectors that are empty, too long or of a wrong type. A call that fails an
assertion, or reads an element that is not there, sets `fault`, after which the
table takes no step. `std::lower_bound` on a vector that is not partitioned may
return any position a binary search could end at (`LowerBound`); on a
partitioned one that is the single right position. The code goes on with what
it returned, and so does the model: row numbers are shifted from there on, wrap
around at `SizeMax`, and a later call may not find its row. Two history
variables record how it came to that: `reset[i]`, SetRow or SetCellValue
re-inserted a row in index `i` since it was built, and `misled`, the indexes in
which `std::lower_bound` has searched a vector that was not partitioned. With
three rows of one key, SetRow of the first with the same key and DeleteRow(1)
twice fail the assertion of `dynamic_table.cpp:1040`; what the properties say
is that an index has to be misled for that, and SetRow or SetCellValue needed.

`IndexedTable` promises the same to a client who sees only rows and lookups: an
index that a Set method has reordered is at risk, it still serves, and may be
lost when a row is added or deleted.

Keys are compared for equality only; the order of keys belongs to the
comparators. `Comparable` is the set of types for which the comparator table
has entries; an index on another type is refused. The key of a STRING column is
a pointer and not a value, and `IndexAssumption` leaves such columns out of the
indexes of `Table`: they are in `TableCells`, where the assertion of line 1036
does fail (finding `row_found_under_its_key`).

### Logger

A statement is a sequence of steps of its thread: construct the accessor
(`Begin`), put a value or choose a logger (`PutValue`, `Switch`), wait for the
mutex (`Lock`), put (`Put`), and at the end `WriteLine`, `ClearStream`,
`Unlock`, the three statements of `EndLine`. `Initialize` may happen between
any two steps. `said[t]` is a history variable with what thread `t` has put in
its line. The client keeps a pointer to each logger, as the tests of the
repository do, so that none is destroyed in use.

### RotateLogger

`WriteLine` is one step, since it runs under the mutex. Its `now` was read when
the statement began: the model lets it be up to `MaxDelay` older than the
clock. `Create` starts the times at midnight and the counter at `(size_t)-1`;
`tellp()` of a file opened to append is 0 until the first write, so the size
test does not see what an earlier process wrote until one line is written.
`Moved` and `Aborted` are the outcomes of `move_file` and of opening the new
file: rename, copy and delete, a copy cut short because `copy_file` ignores
`fwrite`, and the failures that end in `abort_with_core`. A line has size one.

With an interval, one write advances the rotation by one interval only: a
logger with `ROTATE_INTERVAL_1H` started at 15:00 rotates at each of its first
fifteen lines, and the names of those archives are 00:00, 01:00 and so on.
`NamedNoLater` therefore bounds an archive's name from above only.

### AnyXml2Var

The parser delivers the events of a document as actions `ParseStart`,
`ParseText` and `ParseEnd`; each contains the whole handler. What is shared by
reference has an identity: `dicts` are the dictionaries, `builders` the
`VarBuilder` objects with the dictionary and the Options object each refers to,
and `text` is `StringStack` with a heap of its strings. `FeedLast` and
`FeedFails` are the last `Feed` of a document, which resets the parser and not
the builder; after a document that was parsed the caller takes `var()`, and
`results` remembers it together with its value at that time.

The caller may call `Clear`, or `Clear(options, error)`, between any two events
and may leave it out between documents. `mode` tells the proper use (Clear
between documents and only there) from the others. A handler that would use an
empty `std::stack`, or an Options object that is gone, sets `undefined`, after
which nothing more is said. `replaced` records the one case of proper use that
is not safe: `Clear(options, error)` after a document deletes the Options
object to which the builders in the cache keep a reference
(`xml2var.h:255`, `:1611`), and they are used again.

`Meaning` is the reference for the result. It is defined on the tree of
elements alone: a leaf without attributes below the root is its text; any other
element is a dictionary of its children by name, its attributes first under
`attrkey`, and its text under `textkey`, which replaces a child of that name.

### TableCells, IndexDefinition, Grouping

`Table` has values in its cells and as keys. `TableCells` is the same table
seen from below: a cell refers to a counted string that the caller may hold,
change in place and release, and an index entry is keyed by a pointer to the
string of the row that made it, without a reference (`make_key_item`). What
`TableProofs` says of the assertions in `NotifyRowDelete` is about values as
keys; `TableCells` shows what the pointers do to it: the entry of two rows
whose keys are equal but different strings is read through a string that is
gone once the first row goes (finding `row_found_under_its_key`), and
`SoundUnlessKeysShared` says that there is no other cause.

In `IndexDefinition` a key is compared in parts of `PartSize` columns (three in
the code), each by a function found under the types of the part.
`OrderIsTheDefinition` compares this with the lexicographic order the
definition asks for, on the keys that MakeKey makes of rows. There is room for
one part more among the comparators than in a key, so a definition that does
not fit is accepted; MakeKey then writes over `size_`, which is right behind
the array, and beyond (`PutItem`, with and without reading `size_` again).
`OverrunOnlyIfTooLong` says that only such definitions do this, by at most a
part, that their keys are then never whole, and that every lookup is refused.
`Grouping` keeps the map of `GroupIndex` and the strings
its keys point to, which only rows of the grouped table keep alive;
`ResultIsTheGrouping` compares the buckets with COUNT, SUM, MIN and MAX of the
rows that were put.

### DynamicHeap, RefCountPtr

A place is an item of a container, or a variable. A client names any place it
reaches (`v[0]["k"]`), one operation at a time; `bad` tells why the behaviour
became undefined. Counts, items and the objects freed by a chain of destructors
are computed in the step of the operation, in the order of the code where it
matters (assignment gives up the old value before it reads the new one).

`Impl<DICT>::Update` is the one operation of several steps: a step per key of
the map it iterates over, and `frames` are the calls under way. `apart` is a
history variable: what the changed dict leads to is a tree (`IsTree`), and the
argument has no part of it. The proof of `UpdateDefined` found that less is not
enough. With `t = {1: x}`, `x = {1: y}`, `y = {1: z}`, `z = {1: Undef}` and
`f = {1: y}`, the argument `f` is no part of `t`, and yet `t.Update(f)` calls
`x.Update(y)`, then `y.Update(z)`, whose assignment `y[1] = z[1]` deletes `z`
while it is iterated over. It takes five dicts, two more than TLC has.

Clone needs a free address for every object of the copy. It copies along the
paths from its argument, and recurses without end if the value contains itself
(`bad = "endless"`), as Update does. A list times a negative number is left
out: the code reserves a huge vector, which throws, and nothing has changed.

`RefCountPtr` has the levels of that chain as steps of their own.

### LoggerLifecycle, RsyslogLogger

In `Logger` the client keeps every logger. In `LoggerLifecycle` it may drop
them: the derived class goes first, then `~Logger` waits for the mutex,
releases it and destroys it, while other threads may hold a bare pointer.
`lost` records that the last pointer went while a statement had the logger,
which is the one cause of a `fault`. `RsyslogLogger` has the send loop as it
is: the result -1 of a failed send is added to `sent`, and the running total is
taken from what is left; bytes of a line are numbers, so that the properties
tell which of them arrive.

### StructXml2Var, Var2Xml, JsonReader, JsonWriter

`StructXml2Var` is driven by parser events as `AnyXml2Var` is; `RefValue` is
the reference, defined on the document's tree and the mapping alone. In
`Var2Xml` and `JsonWriter` a text is a sequence of symbols; it is read back by
an independent reader of the grammar and compared with the data, up to what the
format cannot tell apart (`Normal`). In `JsonReader` a pointer into the value
is its path; growing a list or assigning to a place frees the pointers into it,
and `NoStalePointerUsed` says that none of those is followed. A number that
does not fit into `numeric_buffer_` fails the assertion of ParseNumber and ends
the program (`OnLongNumber`).

`Var2Xml` writes in UTF-8 or in a code page that lacks one symbol. A text
outside of CDATA is cut at the first such symbol, since nobody looks at the
result of FromUtf8; of a part of a CDATA section, which is given as a pointer
and a length, the code converts the first character only, so that `ReadsBack`
says nothing of CDATA in a code page, and `SectionsSound` that the sections
still begin and end properly. The error paths of `Var2XmlOptions::Create` after
a Get are never taken: every Get there has a default, and one with a default
leaves no error. The one that is taken is an unknown encoding (`Created`).

Two preconditions are taken from the code. `PathsEndAtAttributes` of
`StructXml2Var`: no path goes on behind an attribute, which `Path::operator /`
asserts. `WritableTables` of `JsonWriter`: a table with rows has columns, since
the writer computes the last column as the width less one.

### DateTime, DynamicPath, DynamicGetter, Transcoder

The sizes of the fields of a date are parameters, since the word of 62 bits is
beyond TLC's integers; the C library's calendar is external and has no clock
changes. A turn of the loop of `DynamicPath` and a character of `Transcoder`
are one step each; a text is then converted back. `DynamicGetter` has a family
of getters with parents and the shared list of errors, and a class of options
with a required and a defaulted member. A Get of a number, a boolean or a
Dynamic (`GetScalar`) fails only if there is nothing at the path. With `Reuse`
a client may assign to a getter that others came from, or to the one it calls,
which becomes its own parent; `st.reused` records it, and what is said of
errors is said up to there.

## Runs

Small components that do not touch each other share a run: `MCLogOutput`,
`MCTableStrings`, `MCDynamicValues` and `MCTexts` have a part for each, and the
variable `part`, chosen at the start, says which of them a behaviour is about.
The variables of the others do not change: they keep the values of their `Init`
where the component's module is extended, and are `Off` where it is an
INSTANCE. Nothing is composed there, and what is checked is what a run of each
part alone would check. Where a module is extended (the four of `MCLogOutput`,
whose `Init`, `Next` and so on have names of their own for that, `TableCells`
and `DynamicHeap`), the properties are the module's, which the theorems state too;
otherwise a property is the conjunction of the named properties of the parts'
modules. The parts of a property are listed below in parentheses; the type
invariant is among them.

| Run | Instance | Shows |
|---|---|---|
| `table` | columns INTEGER and STRING, one index on the first, two integers and one string, at most 4 rows, argument vectors up to 3 | TypeOK, IndexExact, NotifyAssertsFailOnlyIfMisled, DisorderOnlyFromSet, ReferSound and that `Table` implements `IndexedTable` |
| `logger` | two threads, the console and another logger, statements of up to 3 items | TypeOK, LinesWhole, WaitsEmptyHanded, StatementsEnd |
| `log_output` | *RotateLogger*: interval 2 or none, files of 1, 2 or any number of lines, days of 4 seconds, 4 lines, 2 processes. *RsyslogLogger*: lines of up to 8 bytes, an int of 8 bits, both sockets. *LoggerLifecycle*: three threads, three loggers, without and with operands that log. *RefCountPtr*: two variables, three objects | ArchivesKeepLines (LinesInOrder, NamedNoLater), OverwritesOnlyAfterRestart; ServerGetsTheLine (SendsOnlyTheLine, PrefixWithoutFailure, FailureGivesUpTheSocket); FaultOnlyIfLost, CircleOnlyFromOperands; PointersCounted (CountExact, NoDangling, OnlyRingsStay, UndefinedOnlyFromOwnPart, AssignmentAssigns); CallsEnd, liveness of the last three |
| `any_xml` | *Document*: elements `a` and `_`, attributes or none, a letter and a blank, two sets of options whose keys are also names of elements; the first document of a builder (constraint `FirstDocument`), of up to 4 elements and 2 characters. *Blanks*: the same with up to 2 elements and 4 characters. *Reuse*: one element name, one character, 4 dictionaries, 2 calls of Clear, 2 Options objects | TypeOK, ResultIsTheDocument, ResultsStay, NothingShared, UndefinedOnlyAfterMisuse, StacksInStep |
| `struct_xml` | *Shapes*: lists, objects and masks in each other, documents of up to 5 elements, two documents. *Keys*: attributes, defaults, booleans, refused mappings, documents of up to 3 elements. *Several*: the same with two mappings and documents of up to 2 elements | ResultIsTheDocument, DestroyedOnlyAfterFailure |
| `table_strings` | *TableCells*: two strings that change and two rows; two strings, three rows, an index and an iterator. *Grouping*: up to 4 rows and three keys; 3 rows, two strings and a caller who changes the result. *IndexDefinition*: definitions of up to 7 columns in two parts of two | CellsCounted (CellsAlive, OnlyShortSetRowLeaks), IteratorsSound (SoundUnlessKeysShared, IteratorKeepsItsRow), GroupsCounted (ResultIsTheGrouping, DefinedUnlessMisused, StringsCounted), OrderIsTheDefinition (with OverrunOnlyIfTooLong) |
| `dynamic_values` | *DynamicHeap*: four addresses, of which three are in use after a step (`MaxLive`), and a variable besides `D_NONE`; dicts of 3 items together, and lists and dicts in each other with 2. *DateTime*: 3 operations from dates at the ends of months and of the calendar | CountsExact (RefCountsExact, OnlyCyclesLeak), SelfUseDefined (AssignDefined, UpdateDefined), CloneSharesNothing (CloneIsApart, CloneEnds), DatesStayReal (RealUnlessOutOfRange, OrderIsChronological, AdditionMovesTheClock, SetsOneField) |
| `texts` | *JsonReader*: documents of up to 9 callbacks; numbers around the limits of 7-bit integers. *JsonWriter*: strings of up to 4 characters, containers two deep. *Var2Xml*: data two dicts deep under all layouts; every text of up to 5 symbols, in UTF-8 and in a code page, with and without CDATA. *Transcoder*: bytes at the limits of UTF-8, two code pages with shared and missing codes. *DynamicPath*: texts of up to 5 symbols, two parameters. *DynamicGetter*: one getter, which may be assigned to, and all kinds of values; three getters from one another | JsonIsTheDocument (ResultIsTheDocument, NoStalePointerUsed, StackFollowsTheParser, NumbersExactUnlessKnown), JsonReadsBack, XmlReadsBack (WellNested, ReadsBack, SectionsSound, PriorityFirst), EncodingsReturn (ReadsWithinText, BytesReturn, PagesReturn, TextsReturn), PathsAreRead (NothingDropped, ParametersFitTheirPlace, BracketsMatch, NoNameRightAfterIndex), GettersTellFailures (FailureIsSeen, DefaultIsAllOrNothing, ErrorsAreTrue, ErrorsAreShared, AlwaysARoot), Ends |
| `set_methods_update_indices`, `storage_asserts` | as `table` | violated: see Findings |
| `row_found_under_its_key` | as `table_strings` | violated: see Findings |
| `none_never_changes` | as `dynamic_values` | violated: see Findings |

Names that end in "UnlessKnown", "Unless..." or "Only..." state a property
together with the exact cases in which the code does not have it; each of these
cases is written out in the definition.

Bounds. Renumbering goes wrong first with two rows under one key and one
before or behind them, so four rows and two keys reach each case of it: the
shortest run to a misused `lower_bound`, and from there to an assertion that
fails, has three rows. States of a table that differ only in the map of an
index that is detached are one (`VIEW LiveState`): no action reads that map
before CreateIndex makes a new one. Three items are needed
for "value, other logger, value". Four lines and two processes are enough for
a size rotation, a time rotation and another size rotation, and for a
restart to meet archives of the same and of the day before. `SizeMax` and
`CounterMax` are small stand-ins for the largest `size_t`; both wrap. Four
elements give a child, a repeated child and a grandchild, with text on both
sides of one; four characters put blanks on both sides of a letter, before and
after a child. Four dictionaries and two Clears are three documents or parts of
them, so that a builder goes through the cache twice. Three objects of two or
three items make chains, rings and sharing, and with a fourth address a value of
two levels is cloned while it is alive; that this is too few for some properties
of Update is said above, and the theorems have no such bound. Definitions
of five and six columns are longer than a key of two parts of two and are
accepted; those of seven are refused. Integers of seven bits have limits of
different numbers of digits, as those of 64 bits do. Field sizes of
`DateTime` leave real years and months and shorten the day. Five symbols
hold a whole mark of a CDATA section with something before and behind it, and
in a path a name, an index and a parameter. Three getters are a parent, a child
and a child of that. Six bytes are the longest form of UTF-8.

`CHECK_DEADLOCK FALSE`: a table or an XML builder that was used wrongly takes no
further step, threads, processes and parsers stop when the named bounds are
reached, and a conversion stops when it is done.

Fairness. `FairSpec` of `Logger` gives weak fairness to each thread that is
inside a statement. A statement is a finite expression and a thread that can
run is scheduled. Weak fairness suffices for `Lock` here because the number of
statements is bounded; no fairness is assumed for beginning a statement.
The fairness of `LoggerLifecycle` (`ContinueCall(t)`) is the same, for a thread
inside a statement or a destructor; that destruction ends is checked without
operands that log, since those can make threads wait in a circle.
`RsyslogLogger` (`Step`), `RefCountPtr` (`Continue`), `DynamicPath` and
`Transcoder` (`Next`) have one thread that runs its function: weak fairness of
its steps says that it goes on. Sending needs no more: after a send that failed
the loop goes on over a closed socket only until the length, which grows by the
running total each time, leaves the range of int (modelled as a wrap).

## Findings

Each is a run in which TLC violates what a document, a comment or an assertion
of the repository says:

* `set_methods_update_indices`. `dynamic.h:793` says that the set methods
  "update all existing indices". `SetRow` and `SetCellValue` put the row number
  at the end of its key's vector (`dynamic_table.cpp:730`, `:808`); after that
  the vector is not sorted, and `DeleteRow` or `InsertRow` renumbers the wrong
  part of it; a `DeleteRow` after that may fail the assertion of line 1040.
  `DisorderOnlyFromSet` and `NotifyAssertsFailOnlyIfMisled` show that there is
  no other cause.
* `storage_asserts`. `SetCellValue` (`dynamic_table.cpp:778`) joins its two
  range tests by `&&`; and after `Clear` a table has no columns, still accepts
  rows, and fails the storage's assertion when one is deleted or inserted.
* `row_found_under_its_key`. The assertion at `dynamic_table.cpp:1036` fails
  after a row with an equal key in another string went first.
* `none_never_changes`. `Swap` and `Clear` of a missing item change the global
  `D_NONE`, which README.md says "can not be changed".

Met while modelling, and without a run of their own. The models behave as the
code does; where a property would otherwise be violated, the case is an
exception written out in its definition:

* `SetColumnName` renames only to a name that exists (`dynamic_table.cpp:535`),
  against its comment "this name should not exists".
* The vector of a list shifts items by assignment, and an assignment to a NONE
  is ignored (`dynamic.cpp:248`): `PopFront` of a list that begins with NONE
  loses another item (`impl_list.h:308`).
* A mapping with two pairs of one key is accepted (`xml2var.h:664`, "key must
  not exists"), and both write it.
* Years up to 65535 are accepted (`impl_date_time.h:380`); README.md says 9999.
* `ParseNumber` does not clear `errno` (`dynamic_json.cpp:212`): after a number
  out of range, large unsigned integers are read as doubles.
* A backslash before a quote is lost when a string is written as JSON
  (`dynamic_json.h:109`).
* When a getter is assigned to, getters that came from it put errors into a
  list they do not look at (`dynamic_getter.h:639`).
* `Update` of a dict that shares parts with its argument may delete the map it
  iterates over (`impl_dict.h:216`), also when neither is a part of the other.
* `FromUtf8` of a pointer and a size has no loop (`transcode.cpp:206`): a CDATA
  section in an encoding other than UTF-8 keeps one character of each part.

## Proofs

TLAPS proves for all values of the constants, under the named assumptions of
the modules (each weak: bounds are natural numbers, column types are defined
for every column, a default of each type has that type, variables are finitely
many). Those of `DynamicHeap`, `TableCells`, `RefCountPtr`, `LoggerLifecycle`, `RotateLogger` and `RsyslogLogger` are
operators (`HeapAssumption` and so on), which the theorems have as hypotheses
and the `MC` modules assume of every instance, so that TLC evaluates them. Four
of their conjuncts say more than a type: there are no fewer levels of Update
than objects (`MaxDepth`, the stack of the process); fewer lines are written
than `size_t` counts; a line is shorter than the largest int; and the clock is
past its first day.

* `TableProofs`: TypeOK, IndexExact, NotifyAssertsFailOnlyIfMisled,
  DisorderOnlyFromSet and ReferSound are invariants, for indexes on columns of
  any type but STRING. Their conjunction, with the bound on the height, is
  inductive (`IInv`); none is inductive alone. IndexExact needs that rows have
  all columns (TypeOK) and, for the renumbering to be right, that a call on an
  unsorted vector makes the index `misled`; an index that does not find a row
  was therefore misled before (`NotFoundLemma`), and by DisorderOnlyFromSet a
  Set method had reordered it. DisorderOnlyFromSet needs IndexExact, because a
  sorted vector without duplicates is what makes `lower_bound` unique. Nothing
  but types is said of an index once it is misled. The lemmas are about
  the vectors: what erasing, appending, shifting up and down and sorting do to
  the set of row numbers and to their order. And `Table` implements
  `IndexedTable`: each action is a change, a build, a drop, a break or a
  stutter, by the invariant after the step.
* `TableCellsProofs`: CellsCounted. The invariant (`Settled`) is that a string
  counts no fewer references than the variables and the two columns have, and no
  more until a SetRow was short. Each operation is a change of one variable or one
  row, for which a lemma says how many references of each string there are
  afterwards (`RefsHeld`, `RefsAppend`, `RefsInsert`, `RefsRemove`, `RefsSet`),
  and the operation must have counted that (`Follow`). Clear goes through the
  rows one by one; that the recursive function `Released` is then the counts
  without the references of the rows is shown by its least exception.
* `LoggerProofs`: TypeOK, LinesWhole and WaitsEmptyHanded, for any sets of
  threads and loggers. The inductive invariant adds that a mutex is owned by
  exactly the thread that is between BeginLine and EndLine on it (`OwnerHolds`)
  and that the stream of a logger is what its owner has said (`StreamIsSaid`).
* `LogOutputProofs`, LoggerLifecycle: FaultOnlyIfLost and CircleOnlyFromOperands.
  The invariant (`LifecycleIInv`) adds that who owns a mutex is in a statement on that logger or in
  its destructor (`OwnerHolds`), that what a shared pointer leads to is alive
  (`PointedAlive`), that a thread in a destructor is in no statement
  (`DestroyersFree`), and that statements are in living loggers until one is
  lost (`UsedAlive`). A circle needs a thread that waits and holds, which has
  two statements on its stack.
* `LogOutputProofs`, RotateLogger: ArchivesKeepLines and the action property
  OverwritesOnlyAfterRestart. The invariant (`RotateIInv`) adds that the name the file will
  get is later than every name this process gave (`OwnNamesBefore`), which
  needs that the counter does not wrap (`CounterBelowLines`), and not later than
  its lines (`FileNoEarlier`), which needs that a line that rotates is not
  before the new time.
* `LogOutputProofs`, RsyslogLogger: ServerGetsTheLine. `LoopInv` relates the two variables
  of the send loop. Unless the first send failed, the length is too short and
  never too long, so that `sent + len` stays in the buffer; after a failed first
  send `len` grows by what `sent` has fallen, and its overflow ends the loop.
* `AnyXml2VarProofs`: TypeOK, NothingShared, UndefinedOnlyAfterMisuse and
  StacksInStep, for any names, options and bounds. The inductive invariant adds
  that dictionaries hold values, that the three stacks have one height
  (`Heights`, also after misuse), that builders have the current options unless
  `replaced` (`OwnOptions`), that `top_` is the top of `stack_`
  (`StringStack`), and what the builder looks like while it is "ready"
  (`ParserInv`). UndefinedOnlyAfterMisuse is StacksInStep and OwnOptions of the
  state before.
* `AnyXml2VarResultProofs`: ResultsStay and ResultIsTheDocument, for documents of
  any size and depth. `Values`, `ChildrenAmong` and `Meaning` are recursive
  functions; that they are what their equations say is proved first, since TLA+
  does not give it for nothing: a function that satisfies the equation for some
  arguments is extended by one more, and the least number for which there is
  none leads to a contradiction (`Smallest`). What needs no induction then:
  a dictionary refers to later ones only (`Forward`), so its value depends on
  those alone; an element comes before its children.
  For ResultsStay the invariant (`StayInv`) has that each builder has a
  dictionary of its own, that those of the open elements rise on the stack, and
  that no dictionary refers to one that may still be written to (`NoneCites` of
  `Active`). A step writes to active dictionaries only (`KeepsDone`); what was
  returned is not active and leads to nothing that is, and stays.
  For ResultIsTheDocument the invariant (`ResultInv`) follows the parse of a
  document that began after Clear. The open elements are a path from the root,
  each the last child of its name so far (`PathInv`); dictionaries are made in
  the order of the elements, so that the element `e` has the one `e - 1` after
  the root's (`PlaceInv`); the strings and flags on the other stacks are those
  of the open elements (`TextsInv`, `SimpleInv`); and a dictionary has, under
  each key, the attributes and then the children that have ended, with the text
  once its element has ended (`DictsInv`). Each event keeps this
  (`StartRootDocument`, `StartInnerDocument`, `TextDocument`, `EndDocument`).
  When nothing is open any more, the value of each dictionary is the meaning of
  its element, from the last element back to the root (`ValueIsMeaning`). That a
  `textkey` may be the name of a child or the `attrkey` is part of all this.
* `RefCountPtrProofs`: PointersCounted, at every level of a chain of
  destructors. The invariant adds that what is alive has a count (`Held`) and
  what is so while the left side of an assignment is reset (`AssignUnderWay`):
  both sides stay, unless the left side alone leads to the right one. That only
  rings are left over follows from the counts: of the objects that no variable
  reaches, one that reaches the most is reached by what holds it.
* `DynamicHeapProofs`: CountsExact, SelfUseDefined and the action property
  CloneSharesNothing. The invariant is that every count is the number of places
  that refer to the object, that free addresses hold nothing and vectors have
  room, at every step of Update too (`IInv`). An operation changes one container
  and says which references it takes and gives up; it is enough that the two
  are what it changes in that container (`Balanced`, one lemma per kind of
  change: write, append, shift, erase, cut, repeat, entry), because what
  `Settle` then deletes had references only from what is deleted
  (`SettleKeeps`). Clone changes many containers: the paths from the value are a
  tree (`PathsAreATree`), each new object but the first is referred to once,
  from the copy one step nearer, and they refer to nothing else. There are
  finitely many paths unless one meets an object twice (`LongPathsRepeat`), and
  then that object contains itself (`ClonesEnd`). For
  UpdateDefined the invariant has two sets of objects (`Apart`): P, what is left
  of the tree below the keys not come to yet, and R, what the argument leads
  to. Each call writes to a dict outside of both and reads one of R; open items
  lead to P only and each object of P is held by one of them; so an assignment
  deletes within P, no two calls write to one dict, and there are no more calls
  than objects. AssignDefined: what is deleted is not reached by the variables
  (`ReachedStays`).

Only model-checked, and why:

* The liveness properties, which need fairness and ENABLED, and that the
  violated properties are violated.
* `StructXml2Var`, `JsonReader`, `JsonWriter` and `Var2Xml`: they compute with
  recursive operators, which the prover does not take.
* `DateTime`: the fields and the order of dates are products and quotients of
  days, hours and seconds, nonlinear arithmetic the SMT solver does not decide.
* `IndexDefinition`, `DynamicPath`, `DynamicGetter` and `Transcoder`: what they
  compute follows from induction over the text or over the columns, which the
  prover has no usable rule for.
* IteratorsSound and the results of `Grouping` have no such obstacle. Their
  invariants would have to say, beside what TLC checks, how each operation
  changes an ordered map of vectors, as `TableProofs` does for unordered ones.

## Not modelled, and plan

The plan is carried out but for two proofs that remain possible: IteratorsSound
of `TableCells`, and the groups of `Grouping` with its references, which could
start from the lemmas of `TableCellsProofs`.

Not modelled, as they keep no state or are out of TLC's reach: arithmetic,
comparison and formatting of scalars, the conversions of texts to numbers and
dates (C library), the tables and names of code pages, headers of log lines,
the checkers and the writing back of option classes, printing and comparing
tables, `SharedTable::Clone` (`dynamic_table.cpp:553-589`: it makes a second
table without indexes and copies or shares its strings, and touches nothing of
the first), the templates that fill the table of comparators, the test framework,
tests and benchmarks. `DeleteRow` of a set of rows is not implemented
(`assert(false)`). Third-party code under `3rd/` is not part of the model; the
copy of SQLite there, with its shell and headers, has about 156 000 of the
repository's 178 000 lines of code and is used by nothing but a benchmark.
