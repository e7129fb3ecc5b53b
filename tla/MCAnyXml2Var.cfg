SPECIFICATION MCSpec
CONSTANTS
    Name = {"a", "_"}
    Attrs = {"x"}
    NoAttrs = "none"
    Char = {"c", " "}
    Space = " "
    OptionSet <- MCOptions
    NoText = ""
    Dollar = "$"
    Underscore = "_"
    MaxDicts = 4
    MaxClears = 2
    MaxText = 4
    MaxOptions = 2
CONSTRAINT FirstDocument
INVARIANT TypeOK
INVARIANT ResultIsTheDocument
INVARIANT ResultsStay
INVARIANT NothingShared
INVARIANT UndefinedOnlyAfterMisuse
INVARIANT StacksInStep
CHECK_DEADLOCK FALSE
