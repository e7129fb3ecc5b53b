----------------------------- MODULE JsonWriter -----------------------------
(***************************************************************************)
(* DynamicToJson: a value written as a text, item by item (dynamic_json.h),*)
(* and the text read back by the grammar of JSON.  A text is a sequence of *)
(* characters inside strings and keys, and of whole tokens elsewhere.      *)
(***************************************************************************)
EXTENDS Integers, Sequences, SequencesExt, FiniteSets

CONSTANT Values     \* the values that are written

\* Characters of strings: backslash, quote, slash, one that has a short escape
\* (\b \f \n \r \t), another control character, a hexadecimal digit, a letter
\* of a short escape, the letter u, and any other.
Char == {"\\", "\"", "/", "NL", "CTL", "0", "n", "u", "x"}

VARIABLES
    v,      \* the value
    out,    \* its text
    back,   \* the value the text reads as
    pc

vars == <<v, out, back, pc>>

Undef == [type |-> "UNDEF"]
Atom(a) == [type |-> "ATOM", atom |-> a]
Str(s) == [type |-> "STRING", str |-> s]
List(items) == [type |-> "LIST", list |-> items]
Dict(f) == [type |-> "DICT", dict |-> f]
Table(names, rows) == [type |-> "TABLE", names |-> names, rows |-> rows]

-----------------------------------------------------------------------------
\* Writing.

\* Mutant: a quote before a backslash is taken with it.
RECURSIVE EscapedQuoteFirst(_)
EscapedQuoteFirst(s) ==
    IF s = <<>> THEN <<>>
    ELSE IF Len(s) > 1 /\ s[1] = "\"" /\ s[2] = "\\"
    THEN <<"\\", "\"">> \o EscapedQuoteFirst(Tail(Tail(s)))
    ELSE (CASE s[1] \in {"\\", "\"", "/"} -> <<"\\", s[1]>>
            [] s[1] = "NL" -> <<"\\", "n">>
            [] s[1] = "CTL" -> <<"\\", "u", "0", "0", "0">>
            [] OTHER -> <<s[1]>>) \o EscapedQuoteFirst(Tail(s))

\* write_string_or_mongodb_oid, from the first character on: the one before
\* a quote is taken with it when it is a backslash, and the last digit of the
\* code of a control character is cut off.
RECURSIVE Escaped(_)
Escaped(s) ==
    IF s = <<>> THEN <<>>
    ELSE IF Len(s) > 1 /\ s[1] = "\\" /\ s[2] = "\""
    THEN <<"\\", "\"">> \o Escaped(Tail(Tail(s)))
    ELSE (CASE s[1] \in {"\\", "\"", "/"} -> <<"\\", s[1]>>
            [] s[1] = "NL" -> <<"\\", "n">>
            [] s[1] = "CTL" -> <<"\\", "u", "0", "0", "0">>
            [] OTHER -> <<s[1]>>) \o Escaped(Tail(s))

\* A comma after each item but the last.
Separated(texts) ==
    FlattenSeq([i \in DOMAIN texts |->
        IF i < Len(texts) THEN Append(texts[i], ",") ELSE texts[i]])

\* write_dict_item, whose key is written as it is.
DictItem(key, text) == <<"\"">> \o key \o <<"\"", ":">> \o text

\* The tables the writer is given: one with rows has columns, for the writer
\* takes width - 1, a size_t, for the last column of a row.
WritableTables ==
    \A x \in Values :
        x.type = "TABLE" /\ x.rows # <<>> => x.names # <<>>

\* write_table_row and its cells as texts.
TableRow(names, texts) ==
    <<"{">> \o Separated([c \in DOMAIN names |-> DictItem(names[c], texts[c])])
      \o <<"}">>

WrittenTable(names, rowtexts) ==
    <<"[">> \o Separated([r \in DOMAIN rowtexts |->
                            TableRow(names, rowtexts[r])]) \o <<"]">>

WrittenString(s) == <<"\"">> \o Escaped(s) \o <<"\"">>

RECURSIVE Written(_)
Written(x) ==
    CASE x.type = "UNDEF" -> <<"null">>
      [] x.type = "ATOM" -> <<x.atom>>
      [] x.type = "STRING" -> WrittenString(x.str)
      [] x.type = "LIST" ->
            <<"[">> \o Separated([i \in DOMAIN x.list |-> Written(x.list[i])])
              \o <<"]">>
      [] x.type = "DICT" ->
            LET keys == SetToSeq(DOMAIN x.dict)
            IN  <<"{">> \o Separated([i \in DOMAIN keys |->
                              DictItem(keys[i], Written(x.dict[keys[i]]))])
                  \o <<"}">>
      [] x.type = "TABLE" ->
            WrittenTable(x.names, [r \in DOMAIN x.rows |->
                [c \in DOMAIN x.rows[r] |-> Written(x.rows[r][c])]])

-----------------------------------------------------------------------------
\* Reading, by the grammar: <<value, rest of the text>>, or Wrong.

Wrong == <<>>

\* The characters of a string after its opening quote.
RECURSIVE ReadChars(_, _)
ReadChars(t, read) ==
    IF t = <<>> THEN Wrong
    ELSE IF t[1] = "\"" THEN <<read, Tail(t)>>
    ELSE IF t[1] = "\\"
    THEN IF Len(t) > 1 /\ t[2] \in {"\\", "\"", "/"}
         THEN ReadChars(Tail(Tail(t)), Append(read, t[2]))
         ELSE IF Len(t) > 1 /\ t[2] = "n"
         THEN ReadChars(Tail(Tail(t)), Append(read, "NL"))
         ELSE IF Len(t) > 5 /\ t[2] = "u" /\ \A i \in 3..6 : t[i] = "0"
         THEN ReadChars(SubSeq(t, 7, Len(t)), Append(read, "NUL"))
         ELSE Wrong
    ELSE IF t[1] \in Char \ {"NL", "CTL"}
    THEN ReadChars(Tail(t), Append(read, t[1]))
    ELSE Wrong

\* A value; items of a list or a dict, after the bracket or a comma.
RECURSIVE Read(_)
RECURSIVE ReadItems(_, _)
RECURSIVE ReadPairs(_, _)
Read(t) ==
    IF t = <<>> THEN Wrong
    ELSE CASE t[1] = "null" -> <<Undef, Tail(t)>>
           [] t[1] \in {"true", "7"} -> <<Atom(t[1]), Tail(t)>>
           [] t[1] = "\"" ->
                LET s == ReadChars(Tail(t), <<>>)
                IN  IF s = Wrong THEN Wrong ELSE <<Str(s[1]), s[2]>>
           [] t[1] = "[" ->
                IF Len(t) > 1 /\ t[2] = "]"
                THEN <<List(<<>>), Tail(Tail(t))>>
                ELSE ReadItems(Tail(t), <<>>)
           [] t[1] = "{" ->
                IF Len(t) > 1 /\ t[2] = "}"
                THEN <<Dict(<<>>), Tail(Tail(t))>>
                ELSE ReadPairs(Tail(t), <<>>)
           [] OTHER -> Wrong
ReadItems(t, read) ==
    LET item == Read(t)
    IN  IF item = Wrong \/ (item # Wrong /\ item[2] = <<>>) THEN Wrong
        ELSE LET all == Append(read, item[1])
             IN  CASE item[2][1] = "]" -> <<List(all), Tail(item[2])>>
                   [] item[2][1] = "," -> ReadItems(Tail(item[2]), all)
                   [] OTHER -> Wrong
ReadPairs(t, read) ==
    LET key == IF t # <<>> /\ t[1] = "\"" THEN ReadChars(Tail(t), <<>>)
               ELSE Wrong
        item == IF key # Wrong /\ key[2] # <<>> /\ key[2][1] = ":"
                THEN Read(Tail(key[2])) ELSE Wrong
    IN  IF item = Wrong \/ (item # Wrong /\ item[2] = <<>>) THEN Wrong
        ELSE LET all == [k \in DOMAIN read \cup {key[1]} |->
                            IF k = key[1] THEN item[1] ELSE read[k]]
             IN  CASE item[2][1] = "}" -> <<Dict(all), Tail(item[2])>>
                   [] item[2][1] = "," -> ReadPairs(Tail(item[2]), all)
                   [] OTHER -> Wrong

\* A text that is one value.
ReadAll(t) ==
    LET r == Read(t)
    IN  IF r = Wrong \/ (r # Wrong /\ r[2] # <<>>) THEN Undef ELSE r[1]

-----------------------------------------------------------------------------
Init == v \in Values /\ out = <<>> /\ back = Undef /\ pc = "write"

Write ==
    /\ pc = "write"
    /\ out' = Written(v)
    /\ pc' = "read"
    /\ UNCHANGED <<v, back>>

ReadBack ==
    /\ pc = "read"
    /\ back' = ReadAll(out)
    /\ pc' = "done"
    /\ UNCHANGED <<v, out>>

Next == Write \/ ReadBack

Spec == Init /\ [][Next]_vars

-----------------------------------------------------------------------------
\* A table is read as a list of its rows.
RECURSIVE Normal(_)
Normal(x) ==
    CASE x.type = "LIST" -> List([i \in DOMAIN x.list |-> Normal(x.list[i])])
      [] x.type = "DICT" -> Dict([k \in DOMAIN x.dict |-> Normal(x.dict[k])])
      [] x.type = "TABLE" ->
            List([r \in DOMAIN x.rows |->
                Dict([k \in ToSet(x.names) |->
                    Normal(x.rows[r][SelectInSeq(x.names,
                                                 LAMBDA n : n = k)])])])
      [] OTHER -> x

RECURSIVE StringsOf(_)
StringsOf(x) ==
    CASE x.type = "STRING" -> {x.str}
      [] x.type = "LIST" -> UNION {StringsOf(x.list[i]) : i \in DOMAIN x.list}
      [] x.type = "DICT" -> UNION {StringsOf(x.dict[k]) : k \in DOMAIN x.dict}
      [] x.type = "TABLE" ->
            UNION {StringsOf(x.rows[r][c]) :
                      <<r, c>> \in (DOMAIN x.rows) \X (DOMAIN x.names)}
      [] OTHER -> {}

RECURSIVE KeysOf(_)
KeysOf(x) ==
    CASE x.type = "LIST" -> UNION {KeysOf(x.list[i]) : i \in DOMAIN x.list}
      [] x.type = "DICT" ->
            DOMAIN x.dict \cup UNION {KeysOf(x.dict[k]) : k \in DOMAIN x.dict}
      [] x.type = "TABLE" ->
            ToSet(x.names) \cup
              UNION {KeysOf(x.rows[r][c]) :
                        <<r, c>> \in (DOMAIN x.rows) \X (DOMAIN x.names)}
      [] OTHER -> {}

\* A text with a backslash before a quote, or with a control character.
Mangled(s) ==
    \/ Contains(s, "CTL")
    \/ \E i \in 1..(Len(s) - 1) : s[i] = "\\" /\ s[i + 1] = "\""

\* What DynamicToJson writes reads back as the value it was given: containers
\* nest and are separated correctly at every size, tables row by row, and all
\* characters are escaped, except in three cases: keys and column names are
\* written without escapes, a backslash before a quote is dropped, and the
\* escape of a control character lacks its last digit.
ReadsBackUnlessKnown ==
    (/\ pc = "done"
     /\ \A s \in StringsOf(v) : ~Mangled(s)
     /\ \A k \in KeysOf(v) : ToSet(k) \cap {"\\", "\"", "NL", "CTL"} = {})
        => back = Normal(v)
=============================================================================
