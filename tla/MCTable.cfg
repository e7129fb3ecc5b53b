SPECIFICATION Spec
CONSTANTS
    i0 = i0
    i1 = i1
    s0 = s0
    byInt = byInt
    Width = 2
    Type <- MCType
    ColumnType <- MCColumnType
    Dynamic <- MCDynamic
    TypeOf <- MCTypeOf
    Default <- MCDefault
    Comparable <- MCType
    Index = {byInt}
    IndexColumns <- MCIndexColumns
    MaxRows = 4
    MaxArgs = 3
    SizeMax = 5
INVARIANT TypeOK
INVARIANT IndexExact
INVARIANT NotifyAssertsFailOnlyIfMisled
INVARIANT DisorderOnlyFromSet
INVARIANT ReferSound
PROPERTY ImplementsIndexedTable
VIEW LiveState
CHECK_DEADLOCK FALSE
