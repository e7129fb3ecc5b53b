SPECIFICATION MCSpec
INVARIANT ResultIsTheDocument
INVARIANT DestroyedOnlyAfterFailure
CHECK_DEADLOCK FALSE
