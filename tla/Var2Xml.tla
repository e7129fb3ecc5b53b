------------------------------ MODULE Var2Xml ------------------------------
(***************************************************************************)
(* Var2XmlConverter (var2xml.h): a Dynamic written as XML, with priority   *)
(* keys first, attributes and text under their own keys, CDATA sections    *)
(* for chosen elements and line breaks between elements.  The text is then *)
(* taken apart by a reader of XML, who puts children into lists by name.   *)
(*                                                                         *)
(* A text is a sequence of symbols.  The two parts of "<![CDATA[" are      *)
(* symbols, as are "]" and ">", so that texts can hold the marks a section *)
(* begins and ends with; a line break and an indent are one space each.    *)
(* The document is in UTF-8 or in a code page, which has all symbols but   *)
(* one; names of elements and attributes are in it.                        *)
(***************************************************************************)
EXTENDS Naturals, Sequences, SequencesExt, FiniteSets

CONSTANTS
    Datas,      \* the values that are converted
    OptionSet   \* the options: see Options

Names == {"a", "b", "root"}
Encodings == {"UTF-8", "page", "unknown"}

\* What the client gives: cdata, plus and minus are ".cdata", ".+cdata" and
\* ".-cdata".  An option of a wrong type is read as one that is not there.
Options == [root : BOOLEAN, dec : BOOLEAN, pretty : BOOLEAN,
            priority : Seq({"a", "b", "$", "_"}), encoding : Encodings,
            cdata : SUBSET Names, plus : SUBSET Names, minus : SUBSET Names]

\* What an instance gives for the constants.
OptionsAssumption == \A o \in OptionSet : o \in Options

VARIABLES
    data, options,
    w,      \* the converter: out, path_, current_indent_,
            \* first_end_after_begin_, begin_
    back,   \* what the text reads as
    pc

vars == <<data, options, w, back, pc>>

\* item_name_, attr_key_ and text_key_
ItemName == "item"
AttrKey == "$"
TextKey == "_"

Str(s) == [type |-> "STRING", str |-> s]
List(s) == [type |-> "LIST", list |-> s]
Dict(f) == [type |-> "DICT", dict |-> f]
IsList(x) == x.type = "LIST"
IsDict(x) == x.type = "DICT"
Has(x, key) == IsDict(x) /\ key \in DOMAIN x.dict

C(s) == [i \in DOMAIN s |-> <<"c", s[i]>>]
Open(name, attrs) == <<"open", name, attrs>>
Close(name) == <<"close", name>>
CdataBegin == <<"<![", "CDATA[">>
CdataEnd == <<"]", "]", ">">>

\* Var2XmlOptions::Create: the first of the three sets that is not empty.  Every
\* Get has a default, so that no error is left; an encoding may be unknown.
Created == options.encoding # "unknown"
Exclude == options.cdata = {} /\ options.plus = {} /\ options.minus # {}
CdataNames == IF options.cdata # {} THEN options.cdata
              ELSE IF options.plus # {} THEN options.plus ELSE options.minus

Out(x, tokens) == [x EXCEPT !.out = @ \o tokens]
Newline == IF options.pretty THEN C(<<" ">>) ELSE <<>>
Indent(n) == IF options.pretty THEN C([i \in 1..n |-> " "]) ELSE <<>>

-----------------------------------------------------------------------------
\* Text.

\* SpetialCharCallback
Special == {"<![", ">"}
Entity(c) == IF c \in Special THEN "&" \o c ELSE c

\* The symbol that the code page does not have.
Missing == "q"

\* What the symbols of several characters begin with.
FirstCharacter(c) == CASE c = "<![" -> "<" [] c = "CDATA[" -> "C" [] OTHER -> c

\* Transcoder::FromUtf8 of a string: it stops at a symbol it cannot convert, and
\* nobody looks at the result.
Before(s) ==
    LET i == SelectInSeq(s, LAMBDA c : c = Missing)
    IN  IF i = 0 THEN s ELSE SubSeq(s, 1, i - 1)
Transcoded(s) == IF options.encoding = "UTF-8" THEN s ELSE Before(s)

\* AppendTranscoded(text, len): FromUtf8 of a pointer converts one symbol.
TranscodedPart(s) ==
    IF options.encoding = "UTF-8" THEN s
    ELSE IF s = <<>> \/ Before(s) = <<>> THEN <<>> ELSE <<FirstCharacter(s[1])>>

\* PutText of a string: the special characters are replaced on the way.
EscapedText(s) ==
    LET t == Transcoded(s) IN C([i \in DOMAIN t |-> Entity(t[i])])

\* The loop of PutCdata: a mark inside the text is split over two sections.  The
\* symbols since the last mark are the part that is put out next.
RECURSIVE CdataContent(_, _)
CdataContent(part, s) ==
    IF s = <<>> THEN TranscodedPart(part)
    ELSE IF IsPrefix(CdataBegin, s)
    THEN TranscodedPart(part) \o <<"<![">> \o CdataEnd \o CdataBegin \o <<"CDATA[">>
           \o CdataContent(<<>>, SubSeq(s, 3, Len(s)))
    ELSE IF IsPrefix(CdataEnd, s)
    THEN TranscodedPart(part) \o <<"]", "]">> \o CdataEnd \o CdataBegin \o <<">">>
           \o CdataContent(<<>>, SubSeq(s, 4, Len(s)))
    ELSE CdataContent(Append(part, s[1]), Tail(s))

PutCdata(s) == C(CdataBegin \o CdataContent(<<>>, s) \o CdataEnd)

InCdata(x) ==
    /\ CdataNames # {}
    /\ LET found == x.path # <<>> /\ Last(x.path) \in CdataNames
       IN  found # Exclude

\* PutText with a new line before it.
PutText(x, s, newline) ==
    IF s = <<>> THEN x
    ELSE LET y == IF newline THEN Out(x, Newline \o Indent(x.indent)) ELSE x
         IN  Out(y, IF InCdata(x) THEN PutCdata(s) ELSE EscapedText(s))

-----------------------------------------------------------------------------
\* Elements.

BeginElement(x, name, value) ==
    LET before == IF ~x.begin THEN Newline
                  ELSE IF options.dec /\ options.root
                  THEN <<<<"dec">>>> \o Newline ELSE <<>>
        attrs == IF Has(value, AttrKey) /\ IsDict(value.dict[AttrKey])
                 THEN [k \in DOMAIN value.dict[AttrKey].dict |->
                         EscapedText(value.dict[AttrKey].dict[k].str)]
                 ELSE <<>>
    IN  [Out(x, before \o Indent(x.indent) \o <<Open(name, attrs)>>) EXCEPT
            !.path = Append(@, name), !.indent = @ + 1,
            !.first = TRUE, !.begin = FALSE]

\* Mutant: a line break before every end tag.
EndElementAlwaysBreaks(x) ==
    [Out(x, Newline \o Indent(x.indent - 1) \o <<Close(Last(x.path))>>) EXCEPT
        !.path = Front(@), !.indent = @ - 1, !.first = FALSE]

EndElement(x) ==
    LET break == IF x.first THEN <<>> ELSE Newline \o Indent(x.indent - 1)
    IN  [Out(x, break \o <<Close(Last(x.path))>>) EXCEPT
            !.path = Front(@), !.indent = @ - 1, !.first = FALSE]

\* The keys Convert takes as elements, in its order: the ones of the priority
\* list that are there, then the others.
KeysInOrder(d) ==
    SelectSeq(options.priority,
              LAMBDA k : k \in DOMAIN d.dict \ {AttrKey, TextKey})
      \o SetToSeq((DOMAIN d.dict \ {AttrKey, TextKey}) \ ToSet(options.priority))

RECURSIVE Convert(_, _, _)
Convert(x, item, d) ==
    IF IsDict(d)
    THEN LET keys == KeysInOrder(d)
             one(y, k) ==
                LET v == d.dict[k]
                IN  IF IsList(v) THEN Convert(y, k, v)
                    ELSE EndElement(Convert(BeginElement(y, k, v), k, v))
             y == FoldLeft(one, x, keys)
             newline == keys # <<>>
         IN  IF ~Has(d, TextKey) THEN y
             ELSE [PutText(y, d.dict[TextKey].str, newline)
                     EXCEPT !.first = ~newline]
    ELSE IF IsList(d)
    THEN LET name == IF item # "" THEN item ELSE ItemName
             one(y, v) == EndElement(Convert(BeginElement(y, name, v), "", v))
         IN  FoldLeft(one, x, d.list)
    ELSE PutText(x, d.str, FALSE)

-----------------------------------------------------------------------------
\* Reading.  An element is [name, attrs, body]: its body is a sequence of
\* elements and characters.

\* The text of a body: entities and sections are resolved.  Inside tells
\* whether a section is open.
RECURSIVE Resolved(_, _)
Resolved(s, inside) ==
    IF s = <<>> THEN <<>>
    ELSE IF inside
    THEN IF IsPrefix(CdataEnd, s) THEN Resolved(SubSeq(s, 4, Len(s)), FALSE)
         ELSE <<s[1]>> \o Resolved(Tail(s), TRUE)
    ELSE IF IsPrefix(CdataBegin, s)
    THEN Resolved(SubSeq(s, 3, Len(s)), TRUE)
    ELSE IF s[1] \in Special THEN <<"WRONG">>
    ELSE <<CHOOSE c \in {"x", " ", "CDATA[", "]", Missing} \cup Special :
              Entity(c) = s[1]>> \o Resolved(Tail(s), FALSE)

\* The tree of a text, from token i: the items up to an end tag, and the place
\* after it.
RECURSIVE Body(_, _, _)
Body(t, i, items) ==
    IF i > Len(t) \/ t[i][1] = "close" THEN <<items, i>>
    ELSE IF t[i][1] # "open" THEN Body(t, i + 1, Append(items, t[i]))
    ELSE LET inner == Body(t, i + 1, <<>>)
         IN  Body(t, inner[2] + 1,
                  Append(items, <<"element", t[i][2], t[i][3], inner[1]>>))

Trimmed(s) ==
    LET solid == {i \in DOMAIN s : s[i] # " "}
    IN  IF solid = {} THEN <<>>
        ELSE SubSeq(s, CHOOSE i \in solid : \A j \in solid : i <= j,
                       CHOOSE i \in solid : \A j \in solid : j <= i)

\* The value of an element: its children in lists under their names.  Blanks
\* around the text are layout only where there are children.
RECURSIVE ValueOf(_, _, _)
ValueOf(attrs, items, isRoot) ==
    LET kids == SelectSeq(items, LAMBDA t : t[1] = "element")
        chars == SelectSeq(items, LAMBDA t : t[1] = "c")
        raw == Resolved([i \in DOMAIN chars |-> chars[i][2]], FALSE)
        text == IF kids = <<>> THEN raw ELSE Trimmed(raw)
        names == {kids[i][2] : i \in DOMAIN kids}
        under(n) == LET same == SelectSeq(kids, LAMBDA t : t[2] = n)
                    IN  List([i \in DOMAIN same |->
                                ValueOf(same[i][3], same[i][4], FALSE)])
        own == (IF attrs # <<>> THEN {AttrKey} ELSE {})
                 \cup (IF text # <<>> THEN {TextKey} ELSE {})
    IN  IF kids = <<>> /\ attrs = <<>> /\ ~isRoot THEN Str(text)
        ELSE Dict([k \in names \cup own |->
                IF k = AttrKey
                THEN Dict([a \in DOMAIN attrs |->
                        Str(Resolved([i \in DOMAIN attrs[a] |-> attrs[a][i][2]],
                                     FALSE))])
                ELSE IF k = TextKey THEN Str(text) ELSE under(k)])

\* The value of a text with one root element.
ReadXml(t) ==
    LET items == SelectSeq(Body(t, 1, <<>>)[1], LAMBDA x : x[1] = "element")
    IN  IF Len(items) # 1 THEN Str(<<"WRONG">>)
        ELSE ValueOf(items[1][3], items[1][4], TRUE)

-----------------------------------------------------------------------------
Init ==
    /\ data \in Datas /\ options \in OptionSet
    /\ w = [out |-> <<>>, path |-> <<>>, indent |-> 0, first |-> FALSE,
            begin |-> TRUE]
    /\ back = Str(<<>>)
    /\ pc = "convert"

\* Process
Process ==
    /\ pc = "convert"
    /\ LET able == Created /\ (IsDict(data) \/ IsList(data))
       IN  /\ w' = IF ~able THEN w
                   ELSE IF options.root
                   THEN EndElement(Convert(BeginElement(w, "root", data), ItemName, data))
                   ELSE Convert(w, ItemName, data)
           /\ pc' = IF able THEN "read" ELSE "error"
    /\ UNCHANGED <<data, options, back>>

ReadBack ==
    /\ pc = "read"
    /\ back' = ReadXml(w.out)
    /\ pc' = "done"
    /\ UNCHANGED <<data, options, w>>

Next == Process \/ ReadBack

Spec == Init /\ [][Next]_vars

-----------------------------------------------------------------------------
\* What a value means as a document: scalars and dicts are lists of one, an
\* empty list is nothing, items of a list of their own are called ItemName.
RECURSIVE Normal(_, _)
Normal(x, isRoot) ==
    IF IsList(x)
    THEN IF x.list = <<>> THEN IF isRoot THEN Dict(<<>>) ELSE Str(<<>>)
         ELSE Dict([k \in {ItemName} |->
                List([i \in DOMAIN x.list |-> Normal(x.list[i], FALSE)])])
    ELSE IF ~IsDict(x) THEN x
    ELSE LET items(k) == IF IsList(x.dict[k]) THEN x.dict[k].list
                         ELSE <<x.dict[k]>>
             kids == {k \in DOMAIN x.dict \ {AttrKey, TextKey} : items(k) # <<>>}
             text == IF Has(x, TextKey) THEN x.dict[TextKey].str ELSE <<>>
             own == (IF Has(x, AttrKey) /\ IsDict(x.dict[AttrKey])
                          /\ x.dict[AttrKey].dict # <<>>
                     THEN {AttrKey} ELSE {})
                      \cup (IF text # <<>> THEN {TextKey} ELSE {})
         IN  IF kids = {} /\ AttrKey \notin own /\ ~isRoot THEN Str(text)
             ELSE Dict([k \in kids \cup own |->
                    IF k \in own THEN x.dict[k]
                    ELSE List([i \in DOMAIN items(k) |->
                                Normal(items(k)[i], FALSE)])])

RECURSIVE HasEmptyList(_)
HasEmptyList(x) ==
    IF IsList(x)
    THEN x.list = <<>> \/ \E i \in DOMAIN x.list : HasEmptyList(x.list[i])
    ELSE IsDict(x) /\ \E k \in DOMAIN x.dict : HasEmptyList(x.dict[k])

\* Type invariant.
TypeOK ==
    /\ w.indent \in Nat /\ w.indent = Len(w.path)
    /\ pc \in {"convert", "read", "done", "error"}

\* Every element that is begun is ended, with its own name and inside the one
\* it began in, for any shape of data and with or without a root.
WellNested ==
    pc # "convert" =>
        /\ w.path = <<>>
        /\ LET tags == SelectSeq(w.out, LAMBDA t : t[1] \in {"open", "close"})
               Step(s, t) == IF t[1] = "open" THEN Append(s, t[2])
                             ELSE IF s # <<>> /\ Last(s) = t[2] THEN Front(s)
                             ELSE Append(s, "WRONG")
           IN  FoldLeft(Step, <<>>, tags) = <<>>

\* The data with each text up to the symbol that the encoding does not have.
RECURSIVE Kept(_)
Kept(x) ==
    IF IsList(x) THEN List([i \in DOMAIN x.list |-> Kept(x.list[i])])
    ELSE IF IsDict(x) THEN Dict([k \in DOMAIN x.dict |-> Kept(x.dict[k])])
    ELSE Str(IF options.encoding = "UTF-8" \/ ~Contains(x.str, Missing) THEN x.str
             ELSE SubSeq(x.str, 1, SelectInSeq(x.str, LAMBDA c : c = Missing) - 1))

\* The document reads back as the data it was made of: nothing is lost or
\* doubled by the order of keys, no text is changed by escapes, by sections or
\* by the line breaks, which appear only where there are child elements.  A key
\* that is twice in the priority list is written twice, and a text beside an
\* empty list gets a line break.  In an encoding other than UTF-8 a text ends at
\* the first symbol that the encoding does not have, and nothing is said of texts
\* in CDATA sections: the code keeps one character of each part of them.
ReadsBack ==
    (pc = "done" /\ options.root
       /\ (options.encoding = "UTF-8" \/ CdataNames = {})
       /\ Cardinality(ToSet(options.priority)) = Len(options.priority)
       /\ (options.pretty => ~HasEmptyList(data)))
        => back = Normal(Kept(data), TRUE)

\* Every section that is begun is ended and no mark is left outside one, in every
\* encoding: what a text is cut to never joins with what is put around it.
SectionsSound ==
    pc = "done" =>
        LET chars == SelectSeq(w.out, LAMBDA t : t[1] = "c")
        IN  ~Contains(Resolved([i \in DOMAIN chars |-> chars[i][2]], FALSE), "WRONG")

\* Among the children of the root, the priority keys come first and in the order
\* of the list.
PriorityFirst ==
    (pc = "done" /\ options.root /\ IsDict(data)) =>
        LET root == SelectSeq(Body(w.out, 1, <<>>)[1],
                              LAMBDA t : t[1] = "element")[1]
            kids == SelectSeq(root[4], LAMBDA t : t[1] = "element")
            rank(n) == IF Contains(options.priority, n)
                       THEN SelectInSeq(options.priority, LAMBDA p : p = n)
                       ELSE Len(options.priority) + 1
        IN  Cardinality(ToSet(options.priority)) = Len(options.priority) =>
              \A i, j \in DOMAIN kids :
                  i < j => rank(kids[i][2]) <= rank(kids[j][2])

=============================================================================
