SPECIFICATION MCSpec
CONSTANTS
    Str = {u1, u2}
    Strings = {s1, s2, s3}
    Value = {0, 1}
    Var = {"x"}
    None = "None"
    MaxRows = 2
    MaxShort = 1
    MayChange = TRUE
    IterRows = 3
SYMMETRY StrSymmetry
INVARIANT RowFoundUnderItsKey
CHECK_DEADLOCK FALSE
