SPECIFICATION MCSpec
CONSTANTS
    o1 = o1
    o2 = o2
    o3 = o3
    o4 = o4
    Var = {"x"}
    Obj = {o1, o2, o3, o4}
    Kind = {"list", "dict"}
    Key = {1, 2}
    Root = "Root"
    D_NONE = "D_NONE"
    Undef = "Undef"
    None = "None"
    MaxItems = 3
    MaxDepth = 4
SYMMETRY Symmetry
INVARIANT CountsExact
INVARIANT SelfUseDefined
PROPERTY CloneSharesNothing
INVARIANT DatesStayReal
CHECK_DEADLOCK FALSE
