---------------------------- MODULE DynamicPath ----------------------------
(***************************************************************************)
(* DynamicPath (dynamic_path.h, dynamic_path.cpp): a path is text such as  *)
(* ".aa[%][30].%" with up to five parameters for its % signs, read by a    *)
(* loop over states into keys and indexes.  A step is a turn of the loop.  *)
(*                                                                         *)
(* A text is a sequence of symbols: the delimiter ".", the brackets, "%",  *)
(* a letter and digits.  A parameter is its kind; parameters given by      *)
(* pointer are of the same kinds as the ones given by value.               *)
(***************************************************************************)
EXTENDS Integers, Sequences, SequencesExt

CONSTANTS
    Paths,          \* the texts that are read
    ParamLists,     \* the parameters that are given
    IndexModulus    \* 2^w of size_t

\* What an instance gives for the constants.
PathAssumption ==
    /\ ParamLists \subseteq Seq({"KEY", "INDEX"})
    /\ IndexModulus \in Nat \ {0}

VARIABLES
    path, params,
    c,          \* the next symbol
    state,
    items,      \* path_items_: <<"name", s>>, <<"index", n>> or
                \* <<"param", i>> for the i-th parameter
    param,      \* the next parameter
    result      \* "reading", "ok" or "error"

vars == <<path, params, c, state, items, param, result>>

Digits == {"0", "1"}
Value(d) == IF d = "1" THEN 1 ELSE 0
KeyChars == {".", "[", "]"}
AtEnd(n) == n > Len(path)

Init ==
    /\ path \in Paths /\ params \in ParamLists
    /\ c = 1 /\ state = "START" /\ items = <<>> /\ param = 1
    /\ result = "reading"

InvalidPath ==
    /\ result' = "error"
    /\ UNCHANGED <<path, params, c, state, items, param>>

\* Set, and MakePath up to its loop.
Start ==
    /\ state = "START" /\ result = "reading"
    /\ \/ /\ path \in {<<>>, <<".">>}
          /\ result' = "ok"
          /\ UNCHANGED <<path, params, c, state, items, param>>
       \/ /\ path = <<"[">>
          /\ InvalidPath
       \/ /\ path \notin {<<>>, <<".">>, <<"[">>}
          /\ c' = IF path[1] \in {".", "["} THEN 2 ELSE 1
          /\ state' = IF path[1] = "[" THEN "BRACKET_OPEN" ELSE "DOT"
          /\ UNCHANGED <<path, params, items, param, result>>

\* Mutant: a bracket may end anywhere.
UpdateStateClosesAll(s, at) ==
    CASE at = "." -> IF s = "BRACKET_CLOSE" THEN "DOT_AFTER_BRACKET_CLOSE" ELSE "DOT"
      [] at = "[" -> IF s = "DOT_AFTER_BRACKET_CLOSE" THEN "REFUSED" ELSE "BRACKET_OPEN"
      [] at = "]" -> "BRACKET_CLOSE"
      [] at = "%" -> "PARAM"
      [] OTHER -> "REFUSED"

\* The state after the symbol at, or "REFUSED" where UpdateState returns false.
UpdateState(s, at) ==
    CASE at = "." -> IF s = "BRACKET_CLOSE" THEN "DOT_AFTER_BRACKET_CLOSE" ELSE "DOT"
      [] at = "[" -> IF s = "DOT_AFTER_BRACKET_CLOSE" THEN "REFUSED" ELSE "BRACKET_OPEN"
      [] at = "]" -> IF s \in {"BRACKET_OPEN", "PARAM"} THEN "BRACKET_CLOSE" ELSE "REFUSED"
      [] at = "%" -> "PARAM"
      [] OTHER -> "REFUSED"

Turn(s) == result = "reading" /\ state = s /\ ~AtEnd(c)

Refused == UpdateState(state, path[c]) = "REFUSED"

Move ==
    /\ state' = UpdateState(state, path[c])
    /\ c' = c + 1
    /\ UNCHANGED <<path, params, items, param, result>>

\* UpdateState to PARAM, and AddPathItem.
AddPathItem(kind) ==
    LET fits == IF param > Len(params) THEN FALSE ELSE params[param] = kind IN
    \/ /\ fits
       /\ items' = Append(items, <<"param", param>>)
       /\ param' = param + 1
       /\ state' = "PARAM" /\ c' = c + 1
       /\ UNCHANGED <<path, params, result>>
    \/ ~fits /\ InvalidPath

DotAfterBracketClose ==
    /\ Turn("DOT_AFTER_BRACKET_CLOSE")
    /\ \/ Refused /\ InvalidPath
       \/ path[c] = "%" /\ AddPathItem("KEY")
       \/ ~Refused /\ path[c] # "%" /\ Move

\* The end of the run of symbols at c that are in a set.
RunEnd(S) ==
    LET ends == {i \in c..(Len(path) + 1) : AtEnd(i) \/ path[i] \notin S}
    IN  CHOOSE i \in ends : \A j \in ends : i <= j

NameChars == {"x", "%"} \cup Digits

\* FetchName, and the symbol after the name.
FetchName ==
    LET end == RunEnd(NameChars)
        name == SubSeq(path, c, end - 1)
    IN  /\ items' = Append(items, <<"name", name>>)
        /\ IF AtEnd(end)
           THEN c' = end /\ UNCHANGED <<state, result>>
           ELSE IF UpdateState(state, path[end]) = "REFUSED"
           THEN c' = end /\ result' = "error" /\ UNCHANGED state
           ELSE /\ c' = end + 1
                /\ state' = UpdateState(state, path[end])
                /\ UNCHANGED result
        /\ UNCHANGED <<path, params, param>>

Dot ==
    /\ Turn("DOT")
    /\ \/ path[c] = "%" /\ AddPathItem("KEY")
       \/ path[c] \in KeyChars /\ InvalidPath
       \/ path[c] \in NameChars \ {"%"} /\ FetchName

Index(digits) ==
    FoldLeft(LAMBDA n, d : (n * 10 + Value(d)) % IndexModulus, 0, digits)

ReadIndex ==
    LET end == RunEnd(Digits)
    IN  IF AtEnd(end) \/ path[end] # "]" THEN InvalidPath
        ELSE /\ items' = Append(items, <<"index", Index(SubSeq(path, c, end - 1))>>)
             /\ c' = end + 1
             /\ state' = "BRACKET_CLOSE"
             /\ UNCHANGED <<path, params, param, result>>

BracketOpen ==
    /\ Turn("BRACKET_OPEN")
    /\ \/ path[c] = "%" /\ AddPathItem("INDEX")
       \/ path[c] \in KeyChars /\ InvalidPath
       \/ Refused /\ ReadIndex

BracketCloseOrParam ==
    /\ Turn("BRACKET_CLOSE") \/ Turn("PARAM")
    /\ \/ Refused /\ InvalidPath
       \/ ~Refused /\ Move

\* The end of the loop.  The test after it asks for c # end, which is never so.
Finish ==
    /\ result = "reading" /\ state # "START" /\ AtEnd(c)
    /\ result' = "ok"
    /\ UNCHANGED <<path, params, c, state, items, param>>

Next ==
    \/ Start \/ DotAfterBracketClose \/ Dot \/ BracketOpen
    \/ BracketCloseOrParam \/ Finish

Spec == Init /\ [][Next]_vars /\ WF_vars(Next)

-----------------------------------------------------------------------------
\* Type invariant.
TypeOK ==
    /\ c \in 1..(Len(path) + 1)
    /\ param \in 1..(Len(params) + 1)
    /\ state \in {"START", "DOT", "DOT_AFTER_BRACKET_CLOSE", "BRACKET_OPEN",
                  "BRACKET_CLOSE", "PARAM"}
    /\ \A i \in DOMAIN items : items[i][1] = "param" => items[i][2] \in DOMAIN params
    /\ result \in {"reading", "ok", "error"}

Has(s, t) == \E i \in 0..(Len(s) - Len(t)) : SubSeq(s, i + 1, i + Len(t)) = t

Decimal[n \in 0..(IndexModulus - 1)] ==
    IF n < 10 THEN <<n>> ELSE Append(Decimal[n \div 10], n % 10)

\* A path that is accepted has an item for everything written in it: the names,
\* the digits and the % signs of the text are those of the items, in order.  A %
\* that follows a bracket or another % has no item; an index too large for its
\* type wraps; zeros before a number are lost.
NothingDropped ==
    LET Written == SelectSeq(path, LAMBDA s : s \notin KeyChars)
        Text(item) == CASE item[1] = "name" -> item[2]
                        [] item[1] = "param" -> <<"%">>
                        [] OTHER -> [i \in DOMAIN Decimal[item[2]] |->
                                       IF Decimal[item[2]][i] = 1 THEN "1" ELSE "0"]
    IN  (/\ result = "ok"
         /\ ~Has(path, <<"%", "%">>) /\ ~Has(path, <<"]", "%">>)
         /\ \A d, e \in Digits : ~Has(path, <<"[", "0", d>>) /\ ~Has(path, <<"[", "1", d, e>>))
          => FlattenSeq([i \in DOMAIN items |-> Text(items[i])]) = Written

\* Parameters are taken in order, a key's only after a delimiter and an index's
\* only in brackets, so that Get never uses the wrong half of an item.
ParametersFitTheirPlace ==
    LET signs == {i \in DOMAIN path :
                    /\ i < c /\ path[i] = "%"
                    /\ i = 1 \/ path[i - 1] \in {".", "["}}
        Nth(n) == CHOOSE i \in signs : Len(SelectSeq([j \in 1..i |-> j],
                                              LAMBDA j : j \in signs)) = n
        taken == SelectSeq(items, LAMBDA item : item[1] = "param")
        InName(i) == \E j \in 1..(i - 1) :
                        /\ path[j] \in NameChars \ {"%"}
                        /\ \A k \in j..i : path[k] \in NameChars
    IN  /\ \A n \in DOMAIN taken : taken[n][2] = n
        /\ Len(taken) = param - 1
        /\ (\A i \in DOMAIN path : ~InName(i)) =>
              \A n \in DOMAIN taken :
                  params[n] = (IF Nth(n) > 1 /\ path[Nth(n) - 1] = "["
                               THEN "INDEX" ELSE "KEY")

\* A closing bracket ends an index or a parameter: none is accepted elsewhere.
BracketsMatch ==
    result = "ok" =>
        \A i \in DOMAIN path : path[i] = "]" =>
            \E j \in 1..(i - 1) :
                /\ path[j] \in {"[", "%"}
                /\ \A k \in (j + 1)..(i - 1) : path[k] \in Digits

\* After an index and one delimiter only a parameter is accepted, as the tests of
\* "[10].name" and ".[10].[30].name" have it, wherever in a path that is.
NoNameRightAfterIndex ==
    result = "ok" =>
        \A i \in DOMAIN path : i + 2 <= Len(path) =>
            ~(path[i] = "]" /\ path[i + 1] = "." /\ path[i + 2] \in {"x", "0", "1", "["})

Ended == result # "reading"

=============================================================================
