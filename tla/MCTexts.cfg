SPECIFICATION MCSpec
INVARIANT JsonIsTheDocument
INVARIANT JsonReadsBack
INVARIANT XmlReadsBack
INVARIANT EncodingsReturn
INVARIANT PathsAreRead
INVARIANT GettersTellFailures
PROPERTY Ends
CHECK_DEADLOCK FALSE
