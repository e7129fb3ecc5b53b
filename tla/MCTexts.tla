------------------------------ MODULE MCTexts -------------------------------
(***************************************************************************)
(* Values as texts: JSON read and written, XML written, texts transcoded,  *)
(* and paths and the getters that read values by them.                     *)
(***************************************************************************)
EXTENDS Integers, Sequences, SequencesExt, TLC

VARIABLES part, result, cc, cv, container_type_, stack_, errno, fault, last,
          yajl, expect, doc, status, v, out, back, pc, data, options, w,
          xmlBack, xmlPc, mode, source, src, at, bytes, seen, turn, path,
          params, place, state, items, param, answer, st, lastGet

jsonReaderVars == <<result, cc, cv, container_type_, stack_, errno, fault,
                    last, yajl, expect, doc, status>>
jsonWriterVars == <<v, out, back, pc>>
var2XmlVars == <<data, options, w, xmlBack, xmlPc>>
transcoderVars == <<mode, source, src, at, bytes, seen, turn>>
dynamicPathVars == <<path, params, place, state, items, param, answer>>
dynamicGetterVars == <<st, lastGet>>
allVars == <<part, jsonReaderVars, jsonWriterVars, var2XmlVars,
             transcoderVars, dynamicPathVars, dynamicGetterVars>>

Str(s) == [type |-> "STRING", str |-> s]
List(s) == [type |-> "LIST", list |-> s]
Dict(f) == [type |-> "DICT", dict |-> f]

-----------------------------------------------------------------------------
(* Texts of numbers.  Integers of seven bits have the boundaries 63, 64 and *)
(* 127: like those of 64 bits, the first two have one digit less than the   *)
(* third.                                                                   *)

Number(neg, text) == [neg |-> neg, text |-> text]
Dot == 0 - 1
Exp == 10

\* Integers around the boundaries and longer than all of them, 1e5, 64e9, 1.5,
\* 63.5 and 1.5e9, and one that is too long for the buffer.
AllNumerals ==
    {Number(neg, text) :
        neg \in BOOLEAN,
        text \in {<<0>>, <<9>>, <<6, 2>>, <<6, 3>>, <<6, 4>>, <<6, 5>>, <<9, 9>>,
                  <<1, 2, 6>>, <<1, 2, 7>>, <<1, 2, 8>>, <<9, 9, 9>>,
                  <<1, 0, 0, 0>>, <<1, Exp, 5>>, <<6, 4, Exp, 9>>, <<1, Dot, 5>>,
                  <<6, 3, Dot, 5>>, <<1, Dot, 5, Exp, 9>>}}
      \cup {Number(FALSE, <<1, 0, 0, 0, 0, 0, 0>>)}

-----------------------------------------------------------------------------
(* Values written as JSON: every string of up to four characters, and       *)
(* containers of up to three items, two deep.                               *)

Atom(a) == [type |-> "ATOM", atom |-> a]
Undef == [type |-> "UNDEF"]
Table(names, rows) == [type |-> "TABLE", names |-> names, rows |-> rows]
Char == {"\\", "\"", "/", "NL", "CTL", "0", "n", "u", "x"}

AllStrings == {List(<<Str(s)>>) : s \in BoundedSeq(Char, 4)}

Leaves == {Undef, Atom("true"), Atom("7"), Str(<<"x", "\"">>), Str(<<>>)}

Names == {<<"x">>, <<"u", "/">>}

Flat ==
    {List(s) : s \in BoundedSeq(Leaves, 2)}
      \cup UNION {{Dict(f) : f \in [K -> Leaves]} : K \in SUBSET Names}
      \cup {Table(<<<<"x">>, <<"u">>>>, rows) :
              rows \in BoundedSeq({<<a, b>> : a, b \in {Atom("7"), Str(<<"/">>)}}, 2)}

Nested ==
    Flat
      \cup {List(<<a, b>>) : a \in Flat, b \in {Atom("7")} \cup Flat}
      \cup {List(<<a, b, a>>) : a \in {Undef} \cup Leaves, b \in Flat}
      \cup {Dict(f) : f \in [Names -> Flat]}
      \cup {Dict(<<"n">> :> a) : a \in Flat}
      \cup {Dict(<<"\"">> :> a) : a \in Leaves}

-----------------------------------------------------------------------------
(* Values written as XML: two dicts deep with every set of keys under all   *)
(* options, and all texts of up to five symbols with and without CDATA.     *)

X == Str(<<"x">>)
Texts == {X, Str(<<"x", " ", "x">>)}

Attributes == {Dict([k \in {"p"} |-> Str(<<"x", ">">>)]), Dict(<<>>), X}

Leaf == {X, Str(<<>>)}

\* Dicts over some of the keys $, _ and b.
Inner ==
    UNION {{Dict(f) : f \in {g \in [K -> Attributes \cup Texts \cup {List(<<X, X>>), List(<<>>)}] :
                /\ "$" \in K => g["$"] \in Attributes
                /\ "_" \in K => g["_"] \in {Str(<<>>), X}
                /\ "b" \in K => g["b"] \in {X, List(<<X, X>>), List(<<>>)}}} :
           K \in SUBSET {"$", "_", "b"}}

Values == Leaf \cup Inner \cup {List(<<d, X>>) : d \in Leaf \cup {List(<<X>>)}}
            \cup {List(<<d, d>>) : d \in Inner}

Datas2 ==
    UNION {{Dict(f) : f \in {g \in [K -> Values \cup Texts] :
                /\ "_" \in K => g["_"] \in Texts
                /\ "b" \in K => g["b"] \in Leaf}} :
           K \in SUBSET {"a", "b", "_"}}
      \cup {List(<<>>), List(<<X, List(<<X>>)>>), X}

Opt(root, pretty, priority, cdata, plus, minus, encoding) ==
    [root |-> root, dec |-> pretty, pretty |-> pretty, priority |-> priority,
     cdata |-> cdata, plus |-> plus, minus |-> minus, encoding |-> encoding]

LayoutOptions ==
    {Opt(root, pretty, priority, {}, plus, {}, "UTF-8") :
        root, pretty \in BOOLEAN,
        priority \in {<<>>, <<"b">>, <<"b", "_", "a">>, <<"b", "b">>},
        plus \in {{}, {"a"}}}

Symbols == {"x", " ", "<![", "CDATA[", "]", ">"}

TextDatas ==
    {Dict([k \in {"a", "_"} |-> IF k = "a" THEN List(<<Str(s)>>) ELSE X]) :
        s \in BoundedSeq(Symbols, 5) \cup BoundedSeq(Symbols \cup {"q"}, 3)}

TextOptions ==
    {Opt(TRUE, FALSE, <<>>, c, {}, m, e) :
        c \in {{}, {"a"}}, m \in {{}, {"root"}}, e \in {"UTF-8", "page"}}
      \cup {Opt(TRUE, FALSE, <<>>, {}, {}, {}, "unknown")}

-----------------------------------------------------------------------------
(* A code page with codes at the limits of one, two and three bytes, one    *)
(* code twice and one that is no character, and another that has some of    *)
(* its codes; texts of up to three of the bytes at the limits of UTF-8,     *)
(* longer ones that begin with a byte of four or more, and every text of    *)
(* up to three bytes of the page.                                           *)

Page ==
    (0 :> 0) @@ (65 :> 65) @@ (127 :> 127) @@ (128 :> 128) @@ (129 :> 2047)
      @@ (130 :> 2048) @@ (131 :> 12287) @@ (132 :> 12287) @@ (133 :> 65533)
      @@ (134 :> 65534)

OtherPage ==
    (0 :> 0) @@ (65 :> 65) @@ (66 :> 65) @@ (127 :> 2047) @@ (128 :> 127)
      @@ (200 :> 12287)

\* 2047 is DF BF, 2048 is E0 A0 80, 12287 is E2 BF BF, 65533 is EF BF BD.
Bytes == {0, 65, 127, 128, 160, 191, 192, 194, 223, 224, 226, 240, 252, 254}

Utf8 ==
    BoundedSeq(Bytes, 3)
      \cup {<<first>> \o rest : first \in {240, 252, 254},
                                rest \in BoundedSeq({65, 128, 191}, 5)}
      \cup {<<65, 223, 191, 65>>, <<226, 191, 191, 127>>, <<65, 224, 160, 128>>}

PageTexts == BoundedSeq(DOMAIN Page, 3)

-----------------------------------------------------------------------------
(* Values that getters read: strings, zeros, lists and dicts of objects     *)
(* that can and cannot be made, and keys with a delimiter in them.          *)

Zero == [type |-> "INTEGER"]
V == Str("v")
Full == Dict([k \in {"s", "d"} |-> Str(k)])
Half == Dict([k \in {"s"} |-> V])
Bad == Dict([k \in {"d"} |-> V])
Under(x) == Dict([k \in {"k"} |-> x])

AllDatas ==
    {V, Full, Under(Zero), Under(V), Under(Under(Half)),
     Under(List(<<Half, Full>>)), Under(List(<<Half, Bad>>)), Under(List(<<>>)),
     Dict([k \in {"k", "k.j"} |-> IF k = "k" THEN Half ELSE Full]),
     Under(Dict([k \in {"k", "j"} |-> IF k = "k" THEN Full ELSE Bad])),
     Under(Dict([k \in {"k.j", "k"} |-> IF k = "k.j" THEN Half ELSE Full]))}

AllKinds == {"string", "scalar", "list", "map", "object", "objects", "object map"}
-----------------------------------------------------------------------------

\* The parts, one of which a behaviour is about.
Containers == INSTANCE JsonReader WITH
    Keys <- {"a", "b"}, Scalars <- {"x"}, Numerals <- {Number(FALSE, <<7>>)},
    IntBits <- 7, NUMERIC_BUFFER_SIZE <- 7, MaxDepth <- 3, MaxEvents <- 9
Numbers == INSTANCE JsonReader WITH
    Keys <- {"a"}, Scalars <- {}, Numerals <- AllNumerals, IntBits <- 7,
    NUMERIC_BUFFER_SIZE <- 7, MaxDepth <- 1, MaxEvents <- 4
Json == INSTANCE JsonWriter WITH
    Values <- AllStrings \cup Nested
Layout == INSTANCE Var2Xml WITH
    Datas <- Datas2, OptionSet <- LayoutOptions, back <- xmlBack, pc <- xmlPc
Cdata == INSTANCE Var2Xml WITH
    Datas <- TextDatas, OptionSet <- TextOptions, back <- xmlBack, pc <- xmlPc
Transcode == INSTANCE Transcoder WITH
    Codepage <- Page, Other <- OtherPage, Utf8Texts <- Utf8,
    ByteTexts <- PageTexts, out <- bytes, pc <- turn
Path == INSTANCE DynamicPath WITH
    Paths <- BoundedSeq({".", "[", "]", "%", "x", "1"}, 5),
    ParamLists <- BoundedSeq({"KEY", "INDEX"}, 2), IndexModulus <- 64,
    result <- answer, c <- place
One == INSTANCE DynamicGetter WITH
    Vars <- {"g1"}, Datas <- AllDatas, Texts <- {"k", "k.j", "s", "["},
    Outputs <- AllKinds, Delimiters <- {".", "/"}, MaxErrors <- 3,
    Reuse <- TRUE, last <- lastGet
Family == INSTANCE DynamicGetter WITH
    Vars <- {"g1", "g2", "g3"}, Datas <- {Under(Under(List(<<Half, Bad>>)))},
    Texts <- {"k", "s"}, Outputs <- {"string", "objects"},
    Delimiters <- {"."}, MaxErrors <- 3, Reuse <- FALSE, last <- lastGet

ASSUME ContainersAssumption == Containers!IntBitsAssumption
ASSUME NumbersAssumption == Numbers!IntBitsAssumption
ASSUME JsonAssumption == Json!WritableTables
ASSUME LayoutAssumption == Layout!OptionsAssumption
ASSUME CdataAssumption == Cdata!OptionsAssumption
ASSUME TranscodeAssumption == Transcode!TranscoderAssumption
ASSUME PathAssumption == Path!PathAssumption
ASSUME OneAssumption == One!GetterAssumption
ASSUME FamilyAssumption == Family!GetterAssumption

\* The variables of a component the behaviour is not about.
Off == "off"
NoJsonReader ==
    /\ result = Off /\ cc = Off /\ cv = Off /\ container_type_ = Off
    /\ stack_ = Off /\ errno = Off /\ fault = Off /\ last = Off /\ yajl = Off
    /\ expect = Off /\ doc = Off /\ status = Off
NoJsonWriter == v = Off /\ out = Off /\ back = Off /\ pc = Off
NoVar2Xml ==
    /\ data = Off /\ options = Off /\ w = Off /\ xmlBack = Off /\ xmlPc = Off
NoTranscoder ==
    /\ mode = Off /\ source = Off /\ src = Off /\ at = Off /\ bytes = Off
    /\ seen = Off /\ turn = Off
NoDynamicPath ==
    /\ path = Off /\ params = Off /\ place = Off /\ state = Off /\ items = Off
    /\ param = Off /\ answer = Off
NoDynamicGetter == st = Off /\ lastGet = Off

MCInit ==
    \/ part = "containers" /\ Containers!Init /\ NoJsonWriter /\ NoVar2Xml
       /\ NoTranscoder /\ NoDynamicPath /\ NoDynamicGetter
    \/ part = "numbers" /\ Numbers!Init /\ NoJsonWriter /\ NoVar2Xml
       /\ NoTranscoder /\ NoDynamicPath /\ NoDynamicGetter
    \/ part = "json" /\ Json!Init /\ NoJsonReader /\ NoVar2Xml /\ NoTranscoder
       /\ NoDynamicPath /\ NoDynamicGetter
    \/ part = "layout" /\ Layout!Init /\ NoJsonReader /\ NoJsonWriter
       /\ NoTranscoder /\ NoDynamicPath /\ NoDynamicGetter
    \/ part = "cdata" /\ Cdata!Init /\ NoJsonReader /\ NoJsonWriter
       /\ NoTranscoder /\ NoDynamicPath /\ NoDynamicGetter
    \/ part = "transcode" /\ Transcode!Init /\ NoJsonReader /\ NoJsonWriter
       /\ NoVar2Xml /\ NoDynamicPath /\ NoDynamicGetter
    \/ part = "path" /\ Path!Init /\ NoJsonReader /\ NoJsonWriter /\ NoVar2Xml
       /\ NoTranscoder /\ NoDynamicGetter
    \/ part = "one" /\ One!Init /\ NoJsonReader /\ NoJsonWriter /\ NoVar2Xml
       /\ NoTranscoder /\ NoDynamicPath
    \/ part = "family" /\ Family!Init /\ NoJsonReader /\ NoJsonWriter
       /\ NoVar2Xml /\ NoTranscoder /\ NoDynamicPath

\* A step of one part.
InContainers ==
    /\ part = "containers"
    /\ UNCHANGED <<part, jsonWriterVars, var2XmlVars, transcoderVars,
                   dynamicPathVars, dynamicGetterVars>>
InNumbers ==
    /\ part = "numbers"
    /\ UNCHANGED <<part, jsonWriterVars, var2XmlVars, transcoderVars,
                   dynamicPathVars, dynamicGetterVars>>
InJson ==
    /\ part = "json"
    /\ UNCHANGED <<part, jsonReaderVars, var2XmlVars, transcoderVars,
                   dynamicPathVars, dynamicGetterVars>>
InLayout ==
    /\ part = "layout"
    /\ UNCHANGED <<part, jsonReaderVars, jsonWriterVars, transcoderVars,
                   dynamicPathVars, dynamicGetterVars>>
InCdata ==
    /\ part = "cdata"
    /\ UNCHANGED <<part, jsonReaderVars, jsonWriterVars, transcoderVars,
                   dynamicPathVars, dynamicGetterVars>>
InTranscode ==
    /\ part = "transcode"
    /\ UNCHANGED <<part, jsonReaderVars, jsonWriterVars, var2XmlVars,
                   dynamicPathVars, dynamicGetterVars>>
InPath ==
    /\ part = "path"
    /\ UNCHANGED <<part, jsonReaderVars, jsonWriterVars, var2XmlVars,
                   transcoderVars, dynamicGetterVars>>
InOne ==
    /\ part = "one"
    /\ UNCHANGED <<part, jsonReaderVars, jsonWriterVars, var2XmlVars,
                   transcoderVars, dynamicPathVars>>
InFamily ==
    /\ part = "family"
    /\ UNCHANGED <<part, jsonReaderVars, jsonWriterVars, var2XmlVars,
                   transcoderVars, dynamicPathVars>>

MCNext ==
    \/ InContainers /\ Containers!Next
    \/ InNumbers /\ Numbers!Next
    \/ InJson /\ Json!Next
    \/ InLayout /\ Layout!Next
    \/ InCdata /\ Cdata!Next
    \/ InTranscode /\ Transcode!Next
    \/ InPath /\ Path!Next
    \/ InOne /\ One!Next
    \/ InFamily /\ Family!Next

\* A conversion and the reader of a path go on.
MCSpec ==
    /\ MCInit /\ [][MCNext]_allVars
    /\ WF_allVars(InTranscode /\ Transcode!Next)
    /\ WF_allVars(InPath /\ Path!Next)

-----------------------------------------------------------------------------
\* The value the callbacks build is the value of the events of the document,
\* no pointer to a value that was moved or assigned over is followed, and the
\* stack of containers is the one of the parser; numbers come out exact but
\* for three cases that are named. (dynamic_json.cpp, the callbacks and
\* ParseNumber)
JsonIsTheDocument ==
    /\ part = "containers" =>
           /\ Containers!ResultIsTheDocument
           /\ Containers!NoStalePointerUsed
           /\ Containers!StackFollowsTheParser
    /\ part = "numbers" => Numbers!TypeOK /\ Numbers!NumbersExactUnlessKnown

\* What is written of a value reads back as the value, a table as the list of
\* its rows, but for strings and keys that the escapes do not serve.
\* (dynamic_json.h)
JsonReadsBack == part = "json" => Json!ReadsBackUnlessKnown

\* What is written of a value is a document in which every element that is
\* begun is ended, and it reads back as the value, with every layout, order of
\* keys and CDATA section in UTF-8; in another encoding texts end at the first
\* symbol it does not have, and of CDATA sections only the marks are right; keys
\* with a priority come first, in its order.
\* (var2xml.h)
XmlReadsBack ==
    /\ part = "layout" =>
           /\ Layout!TypeOK
           /\ Layout!WellNested
           /\ Layout!ReadsBack
           /\ Layout!PriorityFirst
    /\ part = "cdata" => Cdata!WellNested /\ Cdata!ReadsBack /\ Cdata!SectionsSound

\* A conversion to UTF-8, from it, or between code pages, and back, gives the
\* same codes, or the same text but for long forms of UTF-8; and nothing
\* beyond the byte that ends a string is looked at. (transcode.cpp)
EncodingsReturn ==
    part = "transcode" =>
        /\ Transcode!TypeOK
        /\ Transcode!ReadsWithinText
        /\ Transcode!BytesReturn
        /\ Transcode!PagesReturn
        /\ Transcode!TextsReturn

\* A path that is accepted has the items its text says, in order, but for a %
\* after a bracket or another %; a parameter stands where its kind may; a
\* closing bracket ends an index or a parameter; and after an index and one
\* delimiter only a parameter is accepted. (dynamic_path.cpp)
PathsAreRead ==
    part = "path" =>
        /\ Path!TypeOK
        /\ Path!NothingDropped
        /\ Path!ParametersFitTheirPlace
        /\ Path!BracketsMatch
        /\ Path!NoNameRightAfterIndex

\* A Get that does not find its value leaves an error that its getter sees,
\* and what an error says is missing is missing; with a default the output is
\* all of the value or all of the default; and getters that came from one
\* another share their errors and lead to a first one, as long as no getter is
\* assigned to that others came from, or a part of itself. (dynamic_getter.h)
GettersTellFailures ==
    /\ part = "one" =>
           /\ One!FailureIsSeen
           /\ One!DefaultIsAllOrNothing
           /\ One!ErrorsAreTrue
           /\ One!AlwaysARoot
    /\ part = "family" =>
           /\ Family!TypeOK
           /\ Family!FailureIsSeen
           /\ Family!ErrorsAreTrue
           /\ Family!ErrorsAreShared
           /\ Family!AlwaysARoot

\* Every text is converted to an end, although the length of a symbol may be
\* 0, and every path is read to an end.
Ends ==
    /\ <>(part # "transcode" \/ Transcode!Ended)
    /\ <>(part # "path" \/ Path!Ended)

=============================================================================
