----------------------------- MODULE JsonReader -----------------------------
(***************************************************************************)
(* DynamicFromJson: the callbacks of DynamicConstructor build a value in   *)
(* place, with plain pointers into the containers that are still open      *)
(* (dynamic_json.cpp).  The yajl parser is external: it calls them in the  *)
(* order of the grammar and may fail anywhere.                             *)
(*                                                                         *)
(* A pointer to a Dynamic is its path from the result.  Growing a list     *)
(* moves its items and assigning to a place frees what was there: pointers *)
(* into either are freed, and using one is a fault.                        *)
(***************************************************************************)
EXTENDS Integers, Sequences, SequencesExt, FiniteSets

CONSTANTS
    Keys,       \* the keys of objects
    Scalars,    \* null, booleans, strings: any values but numbers
    Numerals,   \* the texts of numbers: [neg, text], see Digit
    IntBits,    \* 64 in the code
    NUMERIC_BUFFER_SIZE,    \* 1024 in the code
    MaxDepth,   \* how deep yajl lets containers nest
    MaxEvents   \* how many callbacks a document has

\* What an instance gives for the constants.
IntBitsAssumption == IntBits \in Nat \ {0, 1} /\ NUMERIC_BUFFER_SIZE \in Nat

VARIABLES
    result,          \* the value under construction
    cc,              \* current_container_
    cv,              \* current_value_
    container_type_,
    stack_,
    errno,           \* TRUE for ERANGE
    fault,           \* a freed or null pointer was used
    last,            \* the last number: its text, its value, errno before
    yajl,            \* the containers yajl has open
    expect,          \* what its grammar allows next
    doc,             \* the callbacks so far
    status           \* "parsing", or how yajl ended; "aborted" by an assert

vars == <<result, cc, cv, container_type_, stack_, errno, fault, last, yajl,
          expect, doc, status>>

-----------------------------------------------------------------------------
\* Values, and pointers to them.

Undef == [type |-> "UNDEF"]
Scalar(s) == [type |-> "SCALAR", scalar |-> s]
EmptyDict == [type |-> "DICT", dict |-> <<>>]
EmptyList == [type |-> "LIST", list |-> <<>>]

Null == <<<<"null">>>>

\* A pointer into what Dynamic::operator = or a growing list gave up.
Freed == <<<<"freed">>>>
Usable(p) == p # Null /\ p # Freed

RECURSIVE At(_, _)
At(t, p) ==
    IF p = <<>> THEN t
    ELSE At(IF p[1][1] = "key" THEN t.dict[p[1][2]] ELSE t.list[p[1][2]],
            Tail(p))

\* The value t with what is at p replaced by x; a new key is added.
RECURSIVE Replaced(_, _, _)
Replaced(t, p, x) ==
    IF p = <<>> THEN x
    ELSE LET s == p[1][2]
         IN  IF p[1][1] = "key"
             THEN LET old == IF s \in DOMAIN t.dict THEN t.dict[s] ELSE Undef
                  IN  [t EXCEPT !.dict =
                         [k \in DOMAIN t.dict \cup {s} |->
                            IF k = s THEN Replaced(old, Tail(p), x)
                            ELSE t.dict[k]]]
             ELSE [t EXCEPT !.list[s] = Replaced(@, Tail(p), x)]

\* A pointer after the places below p have gone.
Kept(q, p) == IF Usable(q) /\ IsStrictPrefix(p, q) THEN Freed ELSE q

\* The place that PushBack gives a new item of the list at p.
NewBack(p) == Append(p, <<"item", Len(At(result, p).list) + 1>>)

-----------------------------------------------------------------------------
\* Numbers.  A text is a sequence of digits 0 to 9, Dot and Exp, which strcmp
\* orders as they are ordered here.

Dot == 0 - 1
Exp == 10
Digit == 0..9

IntMax == 2^(IntBits - 1) - 1
IntMin == 2^(IntBits - 1)
UIntMax == 2^IntBits - 1

\* The decimal digits of a number.
RECURSIVE DigitsOf(_)
DigitsOf(n) == IF n < 10 THEN <<n>> ELSE Append(DigitsOf(n \div 10), n % 10)

\* The number strtoll and strtoull read: up to the first that is no digit.
LeadingDigits(t) ==
    SelectInSubSeq(t, 1, Len(t), LAMBDA c : c \notin Digit)

Leading(t) ==
    LET stop == LeadingDigits(t)
        digits == IF stop = 0 THEN t ELSE SubSeq(t, 1, stop - 1)
    IN  FoldLeft(LAMBDA n, d : 10 * n + d, 0, digits)

\* strcmp(s, t) <= 0 for texts of one length
NotAfter(s, t) ==
    \/ s = t
    \/ \E i \in 1..Len(s) : s[i] < t[i] /\ \A j \in 1..(i - 1) : s[j] = t[j]

Signed(neg, n) == IF neg THEN 0 - n ELSE n

\* strtod, which sets errno when the number is too large for a double: here,
\* when its exponent is 9.
Float(num) == [type |-> "FLOAT", of |-> num]
TooLarge(num) ==
    \E i \in 1..(Len(num.text) - 1) : num.text[i] = Exp /\ num.text[i + 1] = 9

\* INT_64_BOUNDERY
Boundary(num) == DigitsOf(IF num.neg THEN IntMin ELSE IntMax)

FitsInt(num) ==
    \/ Len(num.text) < Len(Boundary(num))
    \/ /\ Len(num.text) = Len(Boundary(num))
       /\ NotAfter(num.text, Boundary(num))

\* The value, and errno after it.
ParseNumber(num, range) ==
    LET n == Leading(num.text)
        erange == range \/ n > UIntMax
    IN  IF Contains(num.text, Dot)
              \/ Len(num.text) > Len(DigitsOf(UIntMax))
        THEN <<Float(num), range \/ TooLarge(num)>>
        ELSE IF FitsInt(num)
        THEN <<[type |-> "INTEGER", int |-> Signed(num.neg, n)], range>>
        ELSE IF erange \/ LeadingDigits(num.text) # 0
        THEN <<Float(num), erange \/ TooLarge(num)>>
        ELSE <<[type |-> "UNSIGNED", int |-> Signed(num.neg, n) % 2^IntBits],
               erange>>

-----------------------------------------------------------------------------
\* yajl

Init ==
    /\ result = Undef
    /\ cc = <<>> /\ cv = Null /\ container_type_ = "UNDEFINED"
    /\ stack_ = <<>>
    /\ errno = FALSE /\ fault = FALSE /\ last = <<>>
    /\ yajl = <<>> /\ expect = "value" /\ doc = <<>> /\ status = "parsing"

\* What may follow once a value is complete.
AfterValue(open) ==
    IF open = <<>> THEN "nothing"
    ELSE IF Last(open) = "MAP" THEN "key" ELSE "value"

Calls(event) ==
    /\ status = "parsing"
    /\ Len(doc) < MaxEvents
    /\ doc' = Append(doc, event)

\* The text is wrong or ends too soon, or a callback returned false: the
\* result is given up.
Fails ==
    /\ status' = "error"
    /\ result' = Undef
    /\ UNCHANGED <<cc, cv, container_type_, stack_, errno, fault, last, yajl,
                   expect>>

SyntaxError == status = "parsing" /\ Fails /\ UNCHANGED doc

\* The text ends; trailing text is an error of its own.
Complete ==
    /\ status = "parsing" /\ expect = "nothing"
    /\ status' = "ok"
    /\ UNCHANGED <<result, cc, cv, container_type_, stack_, errno, fault,
                   last, yajl, expect, doc>>

-----------------------------------------------------------------------------
\* The callbacks.

\* The pointer a callback stores a value through: *current_value_ is assigned
\* in a map, current_container_ pushed to in an array, and *current_container_
\* assigned when there is none.
Target == IF container_type_ = "MAP" THEN cv ELSE cc

Store(x) ==
    LET p == Target
    IN  /\ fault' = (fault \/ ~Usable(p))
        /\ result' =
              IF ~Usable(p) THEN result
              ELSE IF container_type_ = "ARRAY"
              THEN Replaced(result, p,
                            [At(result, p) EXCEPT !.list = Append(@, x)])
              ELSE Replaced(result, p, x)

\* OnNull, OnBoolean, OnString and OnNumber: a value outside any container
\* is refused.
OnScalar(x) ==
    /\ expect = "value"
    /\ container_type_ # "UNDEFINED"
    /\ Store(x)
    /\ stack_' = [i \in DOMAIN stack_ |-> Kept(stack_[i], Target)]
    /\ cv' = Kept(cv, Target)
    /\ cc' = Kept(cc, Target)
    /\ expect' = AfterValue(yajl)
    /\ UNCHANGED <<container_type_, yajl, status>>

\* Whether numeric_buffer_ has room for a number and the byte 0.
HasRoom(num) == Len(num.text) + (IF num.neg THEN 1 ELSE 0) < NUMERIC_BUFFER_SIZE

OnNumber(num) ==
    LET read == ParseNumber(num, errno)
    IN  /\ HasRoom(num)
        /\ Calls(<<"number", num>>)
        /\ OnScalar(read[1])
        /\ errno' = read[2]
        /\ last' = <<num, read[1], errno>>

\* The assert of ParseNumber fails.
OnLongNumber(num) ==
    /\ expect = "value" /\ container_type_ # "UNDEFINED" /\ ~HasRoom(num)
    /\ Calls(<<"number", num>>)
    /\ status' = "aborted"
    /\ UNCHANGED <<result, cc, cv, container_type_, stack_, errno, fault, last,
                   yajl, expect>>

OnOther(s) ==
    /\ Calls(<<"scalar", s>>)
    /\ OnScalar(Scalar(s))
    /\ UNCHANGED <<errno, last>>

Refused(s) ==
    /\ expect = "value"
    /\ container_type_ = "UNDEFINED"
    /\ Calls(<<"scalar", s>>)
    /\ Fails

\* Mutant: the address of the last item is taken before PushBack.
EntersBefore ==
    IF container_type_ = "ARRAY" /\ Usable(cc) THEN Freed ELSE Target

\* The new value of current_container_.
Enters ==
    IF container_type_ = "ARRAY" /\ Usable(cc) THEN NewBack(cc) ELSE Target

\* OnStartMap and OnStartArray.
OnStart(type) ==
    /\ expect = "value" /\ Len(yajl) < MaxDepth
    /\ Calls(<<"start", type>>)
    /\ Store(IF type = "MAP" THEN EmptyDict ELSE EmptyList)
    /\ stack_' = Append([i \in DOMAIN stack_ |-> Kept(stack_[i], Target)],
                        Enters)
    /\ cc' = Enters
    /\ cv' = Kept(cv, Target)
    /\ container_type_' = type
    /\ yajl' = Append(yajl, type)
    /\ expect' = IF type = "MAP" THEN "key" ELSE "value"
    /\ UNCHANGED <<errno, last, status>>

OnMapKey(k) ==
    /\ expect = "key"
    /\ Calls(<<"key", k>>)
    /\ fault' = (fault \/ ~Usable(cc))
    /\ cv' = IF Usable(cc) THEN Append(cc, <<"key", k>>) ELSE Null
    /\ result' = IF Usable(cc) /\ k \notin DOMAIN At(result, cc).dict
                 THEN Replaced(result, Append(cc, <<"key", k>>), Undef)
                 ELSE result
    /\ expect' = "value"
    /\ UNCHANGED <<cc, container_type_, stack_, errno, last, yajl, status>>

\* OnEndMap and OnEndArray.
OnEnd(type) ==
    /\ yajl # <<>> /\ Last(yajl) = type
    /\ expect = AfterValue(yajl)
    /\ Calls(<<"end", type>>)
    /\ stack_' = Front(stack_)
    /\ cc' = IF stack_' = <<>> THEN Null ELSE Last(stack_')
    /\ fault' = (fault \/ cc' = Freed)
    /\ container_type_' =
          IF ~Usable(cc') THEN container_type_
          ELSE IF At(result, cc').type = "DICT" THEN "MAP" ELSE "ARRAY"
    /\ yajl' = Front(yajl)
    /\ expect' = AfterValue(yajl')
    /\ UNCHANGED <<result, cv, errno, last, status>>

Next ==
    \/ SyntaxError
    \/ Complete
    \/ \E s \in Scalars : OnOther(s) \/ Refused(s)
    \/ \E num \in Numerals : OnNumber(num) \/ OnLongNumber(num)
    \/ \E type \in {"MAP", "ARRAY"} : OnStart(type) \/ OnEnd(type)
    \/ \E k \in Keys : OnMapKey(k)

Spec == Init /\ [][Next]_vars

-----------------------------------------------------------------------------
\* What a numeral means: an integer where one of the types has room for it.
NumberMeans(num) ==
    LET n == Signed(num.neg, Leading(num.text))
    IN  IF LeadingDigits(num.text) # 0 \/ n < 0 - IntMin \/ n > UIntMax
        THEN Float(num)
        ELSE [type |-> IF n > IntMax THEN "UNSIGNED" ELSE "INTEGER", int |-> n]

\* What a document means.  Meaning(i) is the value that starts at callback i
\* and the place after it; the items of a container are read from the left,
\* and the last value of a key counts.
RECURSIVE Meaning(_, _)
RECURSIVE Items(_, _, _)
Meaning(d, i) ==
    IF d[i][1] = "scalar" THEN <<Scalar(d[i][2]), i + 1>>
    ELSE IF d[i][1] = "number" THEN <<NumberMeans(d[i][2]), i + 1>>
    ELSE Items(d, i + 1, IF d[i][2] = "MAP" THEN EmptyDict ELSE EmptyList)
Items(d, i, made) ==
    IF d[i][1] = "end" THEN <<made, i + 1>>
    ELSE IF d[i][1] = "key"
    THEN LET item == Meaning(d, i + 1)
         IN  Items(d, item[2],
                   Replaced(made, <<<<"key", d[i][2]>>>>, item[1]))
    ELSE LET item == Meaning(d, i)
         IN  Items(d, item[2], [made EXCEPT !.list = Append(@, item[1])])

\* Type invariant: a number that was read is in the range of its type, and a
\* container that is open has a type.
TypeOK ==
    /\ container_type_ \in {"UNDEFINED", "MAP", "ARRAY"}
    /\ yajl # <<>> => container_type_ # "UNDEFINED"
    /\ status \in {"parsing", "ok", "error", "aborted"}
    /\ last # <<>> =>
          \/ last[2].type = "FLOAT"
          \/ last[2].type = "INTEGER" /\ last[2].int \in (0 - IntMin)..IntMax
          \/ last[2].type = "UNSIGNED" /\ last[2].int \in 0..UIntMax

\* The value DynamicFromJson returns is the document: every container in its
\* place, items in order, the last value of each key, however containers were
\* nested and left.
ResultIsTheDocument ==
    status = "ok" => result = Meaning(doc, 1)[1]

\* No callback follows a pointer into a list that has grown or a value that has
\* been assigned over, nor the null pointer that is left after the outermost
\* container.
NoStalePointerUsed == ~fault

\* The stack of pointers follows the parser: one open container of the same
\* type for each of yajl's, the current one on top.
StackFollowsTheParser ==
    status = "parsing" =>
        /\ Len(stack_) = Len(yajl)
        /\ \A i \in DOMAIN stack_ :
              /\ Usable(stack_[i])
              /\ At(result, stack_[i]).type
                    = IF yajl[i] = "MAP" THEN "DICT" ELSE "LIST"
        /\ yajl # <<>> => cc = Last(stack_) /\ container_type_ = Last(yajl)

\* A number that fits the buffer has the value its text says, in the integer type that holds it or
\* as a double, unless it has an exponent and no point, is negative and below
\* the smallest integer, or comes after errno was set: ParseNumber counts the
\* exponent as digits, reads what is below with strtoull, which negates, and
\* never clears errno.
NumbersExactUnlessKnown ==
    last # <<>> =>
        LET num == last[1]
        IN  \/ last[2] = NumberMeans(num)
            \/ Contains(num.text, Exp) /\ ~Contains(num.text, Dot)
            \/ num.neg /\ Leading(num.text) > IntMin
            \/ last[3] /\ ~num.neg /\ Leading(num.text) > IntMax
                  /\ last[2] = Float(num)
=============================================================================
