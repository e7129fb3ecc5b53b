-------------------------- MODULE MCStructXml2Var ---------------------------
(***************************************************************************)
(* StructXml2VarBuilder.  Mappings of objects, lists and masks over two    *)
(* documents; and attributes as values and as keys, defaults, booleans and *)
(* mappings with errors over one, one mapping or two at a time.            *)
(***************************************************************************)
EXTENDS Integers, Sequences, TLC

VARIABLES part, options, store, roots, path, first, mappings, failed,
          undefined, doc, open, phase, docs

structXml2VarVars == <<options, store, roots, path, first, mappings, failed,
                       undefined, doc, open, phase, docs>>
allVars == <<part, structXml2VarVars>>

Star == "*"
Empty == ""

String == [type |-> "scalar", of |-> "string", default |-> <<>>]
StringOr(text) == [type |-> "scalar", of |-> "string", default |-> <<text>>]
BooleanOr(text) == [type |-> "scalar", of |-> "boolean", default |-> <<text>>]
ListOf(p, sub) == [type |-> "list", path |-> p, attr |-> Empty, sub |-> sub]
ListOfAttr(p, a, sub) == [type |-> "list", path |-> p, attr |-> a, sub |-> sub]
Object(pairs) == [type |-> "dict", pairs |-> pairs]
Pair(p, sub) == [path |-> p, attr |-> Empty, key |-> Empty, isAttr |-> FALSE, sub |-> sub]
As(pair, key) == [pair EXCEPT !.key = key]
AsAttr(pair, a) == [pair EXCEPT !.key = a, !.isAttr = TRUE]
AttrPair(p, a, sub) == [Pair(p, sub) EXCEPT !.attr = a]

NoAttrs == [x \in {} |-> x]

\* Objects in a list with a scalar, a list and an object; lists in lists; masks
MCShapes == {
    ListOf(<<"a">>, Object(<<Pair(<<"a">>, StringOr(<<"x">>)), As(Pair(<<>>, ListOf(<<"b">>, String)), "k")>>)),
    ListOf(<<"a">>, ListOf(<<"b">>, String)),
    Object(<<Pair(<<"a">>, Object(<<Pair(<<"a">>, String), Pair(<<"b">>, StringOr(<<>>))>>)),
             As(Pair(<<>>, ListOf(<<"b">>, String)), "k")>>),
    Object(<<Pair(<<Star>>, Object(<<As(Pair(<<>>, String), "k"), As(Pair(<<>>, ListOf(<<Star>>, String)), "n")>>))>>),
    ListOf(<<Star, "b">>, StringOr(<<"x">>))}
MCOptions == {[trim |-> TRUE, attrkey |-> Empty, true |-> {}, false |-> {}]}
MCNoAttrSets == {NoAttrs}

\* Attributes as values and as keys, defaults, booleans, and mappings with errors
MCKeys == {
    Object(<<AsAttr(Pair(<<"a">>, String), "n")>>),
    Object(<<AttrPair(<<"a">>, "n", StringOr(<<"x">>)), As(Pair(<<"a">>, BooleanOr(<<"x">>)), "t")>>),
    ListOfAttr(<<Star>>, "n", String),
    Object(<<Pair(<<"a">>, String), AsAttr(Pair(<<"b">>, String), "")>>),
    [type |-> "scalar", of |-> "text", default |-> <<>>]}
MCKeyOptions == {[trim |-> FALSE, attrkey |-> "$", true |-> {<<" ">>}, false |-> {<<"x">>}],
                 [trim |-> TRUE, attrkey |-> "", true |-> {}, false |-> {}]}
MCTruthy == {<<"x">>}
MCAttrSets == {NoAttrs, "n" :> "x", "n" :> ""}

\* The parts, one of which a behaviour is about.
Shapes == INSTANCE StructXml2Var WITH
    Name <- {"a", "b"}, Star <- Star, Char <- {"x", " "}, Space <- " ",
    Empty <- Empty, AttrSets <- MCNoAttrSets, Truthy <- {},
    OptionSet <- MCOptions, Mappings <- MCShapes, MaxMappings <- 1,
    MaxElements <- 5, MaxText <- 1, MaxDocs <- 2
Keys == INSTANCE StructXml2Var WITH
    Name <- {"a", "b"}, Star <- Star, Char <- {"x", " "}, Space <- " ",
    Empty <- Empty, AttrSets <- MCAttrSets, Truthy <- MCTruthy,
    OptionSet <- MCKeyOptions, Mappings <- MCKeys, MaxMappings <- 1,
    MaxElements <- 3, MaxText <- 1, MaxDocs <- 1
Several == INSTANCE StructXml2Var WITH
    Name <- {"a", "b"}, Star <- Star, Char <- {"x", " "}, Space <- " ",
    Empty <- Empty, AttrSets <- MCAttrSets, Truthy <- MCTruthy,
    OptionSet <- MCKeyOptions, Mappings <- MCKeys, MaxMappings <- 2,
    MaxElements <- 2, MaxText <- 1, MaxDocs <- 1

ASSUME ShapesAssumption == Shapes!StructXml2VarAssumption
ASSUME KeysAssumption == Keys!StructXml2VarAssumption
ASSUME SeveralAssumption == Several!StructXml2VarAssumption

MCInit ==
    \/ part = "shapes" /\ Shapes!Init
    \/ part = "keys" /\ Keys!Init
    \/ part = "several" /\ Several!Init

\* A step of one part.
InShapes == part = "shapes" /\ UNCHANGED part
InKeys == part = "keys" /\ UNCHANGED part
InSeveral == part = "several" /\ UNCHANGED part

MCNext ==
    \/ InShapes /\ Shapes!Next
    \/ InKeys /\ Keys!Next
    \/ InSeveral /\ Several!Next

MCSpec == MCInit /\ [][MCNext]_allVars

-----------------------------------------------------------------------------
\* The value of a mapping is what the mapping says of the document: when the
\* first document has ended (OnEndElement of its root element), for a
\* dictionary; at any time, in any document after it and after an error, for a
\* list, whose elements then are found as if the root element of a later
\* document were inside the element the builder had come to.
ResultIsTheDocument ==
    /\ part = "shapes" => Shapes!TypeOK /\ Shapes!ResultIsTheDocument
    /\ part = "keys" => Keys!TypeOK /\ Keys!ResultIsTheDocument
    /\ part = "several" => Several!TypeOK /\ Several!ResultIsTheDocument

\* A destroyed target is written to only if an AddMapping failed: every item
\* that is reached from the path tree or the masks has a parent that an item
\* owns.
DestroyedOnlyAfterFailure ==
    /\ part = "keys" => Keys!DestroyedOnlyAfterFailure
    /\ part = "several" => Several!DestroyedOnlyAfterFailure

=============================================================================
