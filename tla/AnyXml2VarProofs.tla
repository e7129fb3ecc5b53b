-------------------------- MODULE AnyXml2VarProofs --------------------------
(***************************************************************************)
(* The safety of AnyXml2Var for all documents, options and bounds.         *)
(***************************************************************************)
EXTENDS AnyXml2Var, SequenceTheorems, WellFoundedInduction, TLAPS

\* Dictionaries.
Dict == UNION {[K -> Val] : K \in SUBSET Keys}

-----------------------------------------------------------------------------
(***************************************************************************)
(* Sequences.                                                              *)
(***************************************************************************)

\* The last element and the others of a stack that is not empty.
LEMMA FrontLast ==
  ASSUME NEW S, NEW s \in Seq(S), s # <<>>
  PROVE  /\ Front(s) \in Seq(S)
         /\ Len(s) \in Nat \ {0}
         /\ Len(Front(s)) = Len(s) - 1
         /\ \A i \in 1..(Len(s) - 1) : Front(s)[i] = s[i]
         /\ Last(s) \in S
         /\ Last(s) = s[Len(s)]
<1>1. Len(s) \in Nat \ {0}
  BY EmptySeq
<1>2. PICK n \in Nat : n = Len(s) - 1
  BY <1>1
<1>3. /\ SubSeq(s, 1, n) \in Seq(S) /\ Len(SubSeq(s, 1, n)) = n
      /\ \A i \in 1..n : SubSeq(s, 1, n)[i] = s[i]
  BY <1>1, <1>2
<1> QED
  BY <1>1, <1>2, <1>3 DEF Front, Last

\* The same by domains.
LEMMA FrontDomain ==
  ASSUME NEW S, NEW s \in Seq(S), s # <<>>
  PROVE  /\ DOMAIN s = 1..Len(s) /\ Len(s) \in DOMAIN s
         /\ DOMAIN Front(s) = 1..(Len(s) - 1) /\ DOMAIN Front(s) \subseteq DOMAIN s
         /\ \A i \in DOMAIN Front(s) : Front(s)[i] = s[i]
<1>1. /\ Front(s) \in Seq(S) /\ Len(s) \in Nat \ {0} /\ Len(Front(s)) = Len(s) - 1
      /\ \A i \in 1..(Len(s) - 1) : Front(s)[i] = s[i]
  BY FrontLast
<1>2. DOMAIN Front(s) = 1..Len(Front(s)) /\ DOMAIN s = 1..Len(s)
  BY <1>1, LenProperties
<1> QED
  BY <1>1, <1>2

\* An element of a stack that grew is the new one or an old one.
LEMMA AppendElement ==
  ASSUME NEW S, NEW s \in Seq(S), NEW e \in S,
         NEW i \in DOMAIN Append(s, e)
  PROVE  Append(s, e)[i] = e \/ (i \in DOMAIN s /\ Append(s, e)[i] = s[i])
<1>1. /\ Append(s, e) \in Seq(S) /\ Len(s) \in Nat
      /\ Len(Append(s, e)) = Len(s) + 1
      /\ \A k \in 1..Len(s) : Append(s, e)[k] = s[k]
      /\ Append(s, e)[Len(s) + 1] = e
  BY AppendProperties
<1>2. DOMAIN Append(s, e) = 1..(Len(s) + 1) /\ DOMAIN s = 1..Len(s)
  BY <1>1, LenProperties
<1>3. i = Len(s) + 1 \/ i \in 1..Len(s)
  BY <1>1, <1>2
<1> QED
  BY <1>1, <1>2, <1>3, Zenon

\* The elements of a stack.
LEMMA StackElements ==
  ASSUME NEW S, NEW s \in Seq(S)
  PROVE  \A i \in DOMAIN s : s[i] \in S
BY ElementOfSeq, LenProperties

\* What else Append does.
LEMMA AppendStack ==
  ASSUME NEW S, NEW s \in Seq(S), NEW e \in S
  PROVE  /\ Append(s, e) \in Seq(S) /\ Append(s, e) # <<>>
         /\ Len(s) \in Nat /\ Len(Append(s, e)) = Len(s) + 1
         /\ Last(Append(s, e)) = e
BY AppendProperties DEF Last

\* An injective stack loses one element, which is no longer in it.
LEMMA FrontInjective ==
  ASSUME NEW S, NEW s \in Seq(S), s # <<>>, IsInjective(s)
  PROVE  /\ IsInjective(Front(s))
         /\ \A i \in DOMAIN Front(s) : Front(s)[i] # Last(s)
<1>1. DOMAIN s = 1..Len(s) /\ DOMAIN Front(s) = 1..(Len(s) - 1)
  BY FrontLast
<1> QED
  BY <1>1, FrontLast DEF IsInjective

\* An injective stack gets an element that is not in it.
LEMMA AppendInjective1 ==
  ASSUME NEW S, NEW s \in Seq(S), NEW e \in S, IsInjective(s),
         \A i \in DOMAIN s : s[i] # e
  PROVE  IsInjective(Append(s, e))
BY AppendProperties, LenProperties DEF IsInjective

\* Two stacks together repeat nothing iff each repeats nothing and they are
\* disjoint.
LEMMA ConcatInjective ==
  ASSUME NEW S, NEW s \in Seq(S), NEW t \in Seq(S)
  PROVE  IsInjective(s \o t) <=>
           /\ IsInjective(s) /\ IsInjective(t)
           /\ \A i \in DOMAIN s, j \in DOMAIN t : s[i] # t[j]
<1> DEFINE c == s \o t
           m == Len(s)
           n == Len(t)
<1>1. /\ m \in Nat /\ n \in Nat /\ DOMAIN s = 1..m /\ DOMAIN t = 1..n
      /\ DOMAIN c = 1..(m + n)
      /\ \A i \in 1..m : c[i] = s[i]
      /\ \A i \in 1..n : c[m + i] = t[i]
  BY ConcatProperties, LenProperties
<1>2. ASSUME IsInjective(c)
      PROVE  /\ IsInjective(s) /\ IsInjective(t)
             /\ \A i \in DOMAIN s, j \in DOMAIN t : s[i] # t[j]
  <2>1. IsInjective(s)
    BY <1>1, <1>2 DEF IsInjective
  <2>2. IsInjective(t)
    <3> SUFFICES ASSUME NEW i \in 1..n, NEW j \in 1..n, t[i] = t[j] PROVE i = j
      BY <1>1 DEF IsInjective
    <3>1. m + i \in DOMAIN c /\ m + j \in DOMAIN c /\ c[m + i] = c[m + j]
      BY <1>1
    <3>2. m + i = m + j
      BY <3>1, <1>2 DEF IsInjective
    <3> QED
      BY <3>2, <1>1
  <2>3. ASSUME NEW i \in DOMAIN s, NEW j \in DOMAIN t, s[i] = t[j] PROVE FALSE
    <3>1. i \in DOMAIN c /\ m + j \in DOMAIN c /\ c[i] = c[m + j] /\ i # m + j
      BY <1>1, <2>3
    <3> QED
      BY <3>1, <1>2 DEF IsInjective
  <2> QED
    BY <2>1, <2>2, <2>3
<1>3. ASSUME IsInjective(s), IsInjective(t),
             \A i \in DOMAIN s, j \in DOMAIN t : s[i] # t[j]
      PROVE  IsInjective(c)
  <2> SUFFICES ASSUME NEW i \in DOMAIN c, NEW j \in DOMAIN c, c[i] = c[j] PROVE i = j
    BY DEF IsInjective
  <2>1. \A k \in DOMAIN c : k > m => k - m \in 1..n /\ c[k] = t[k - m]
    <3> SUFFICES ASSUME NEW k \in DOMAIN c, k > m
                 PROVE  k - m \in 1..n /\ c[k] = t[k - m]
      OBVIOUS
    <3>1. k - m \in 1..n /\ m + (k - m) = k
      BY <1>1
    <3> QED
      BY <3>1, <1>1
  <2>2. CASE i <= m /\ j <= m
    BY <2>2, <1>1, <1>3 DEF IsInjective
  <2>3. CASE i > m /\ j > m
    <3>1. t[i - m] = t[j - m] /\ i - m \in DOMAIN t /\ j - m \in DOMAIN t
      BY <2>1, <2>3, <1>1
    <3>2. i - m = j - m
      BY <3>1, <1>3 DEF IsInjective
    <3> QED
      BY <3>2, <1>1
  <2>4. CASE i <= m /\ j > m
    BY <2>1, <2>4, <1>1, <1>3
  <2>5. CASE i > m /\ j <= m
    BY <2>1, <2>5, <1>1, <1>3
  <2> QED
    BY <2>2, <2>3, <2>4, <2>5, <1>1
<1> QED
  BY <1>2, <1>3

-----------------------------------------------------------------------------
(***************************************************************************)
(* The operators on strings and dictionaries.                              *)
(***************************************************************************)

\* A set of numbers that is not empty has a smallest one.
LEMMA Smallest ==
  ASSUME NEW T \in SUBSET Nat, T # {}
  PROVE  \E x \in T : \A y \in T : x <= y
<1>1. PICK x \in T : \A y \in T : ~(<<y, x>> \in OpToRel(<, Nat))
  BY NatLessThanWellFounded, WFMin
<1>2. \A y \in T : y < x => <<y, x>> \in OpToRel(<, Nat)
  BY DEF OpToRel
<1>3. \A y \in T : ~(y < x)
  BY <1>1, <1>2, Zenon
<1> QED
  BY <1>3

\* trim leaves a part of the string.
LEMMA TrimType ==
  ASSUME NEW s \in Seq(Char)
  PROVE  Trim(s) \in Seq(Char)
<1> DEFINE ink == {i \in DOMAIN s : s[i] # Space}
<1>1. CASE ink = {}
  BY <1>1 DEF Trim
<1>2. CASE ink # {}
  <2>1. Len(s) \in Nat /\ DOMAIN s = 1..Len(s) /\ ink \subseteq 1..Len(s) /\ ink \subseteq Nat
    OBVIOUS
  <2>2. \E x \in ink : \A y \in ink : x <= y
    BY <1>2, <2>1, Smallest
  <2>3. Min(ink) \in ink
    BY <2>2 DEF Min
  <2>4. \E x \in ink : \A y \in ink : x >= y
    <3> DEFINE co == {n \in Nat : \E x \in ink : n = Len(s) - x}
    <3>1. co \in SUBSET Nat /\ co # {}
      BY <1>2, <2>1
    <3>2. PICK n \in co : \A k \in co : n <= k
      BY <3>1, Smallest
    <3>3. PICK x \in ink : n = Len(s) - x
      OBVIOUS
    <3>4. \A y \in ink : n <= Len(s) - y
      BY <2>1, <3>2
    <3> QED
      BY <3>3, <3>4, <2>1
  <2>5. Max(ink) \in ink
    BY <2>4 DEF Max
  <2>6. Min(ink) \in 1..Len(s) /\ Max(ink) \in 1..Len(s)
    BY <2>1, <2>3, <2>5
  <2>7. SubSeq(s, Min(ink), Max(ink)) \in Seq(Char)
    <3> DEFINE a == Min(ink)
               b == Max(ink)
    <3>1. a \in 1..Len(s) /\ b \in 1..Len(s)
      BY <2>6
    <3> HIDE DEF a, b
    <3>2. a \in Int /\ b \in Int /\ \A i \in a..b : s[i] \in Char
      BY <2>1, <3>1
    <3> QED
      BY <3>2, SubSeqProperties DEF a, b
  <2> QED
    BY <1>2, <2>7 DEF Trim
<1> QED
  BY <1>1, <1>2

\* Setting a key keeps a dictionary a dictionary.
LEMMA SetDictKeyValueType ==
  ASSUME NEW d \in Dict, NEW key \in Keys, NEW v \in Val
  PROVE  SetDictKeyValue(d, key, v) \in Dict
<1>1. PICK K \in SUBSET Keys : d \in [K -> Val]
  BY DEF Dict
<1>2. SetDictKeyValue(d, key, v) \in [K \cup {key} -> Val]
  BY <1>1 DEF SetDictKeyValue
<1>3. K \cup {key} \in SUBSET Keys
  OBVIOUS
<1> QED
  BY <1>2, <1>3 DEF Dict

\* So does appending to the list of a key.
LEMMA AppendToDictKeyListType ==
  ASSUME NEW d \in Dict, NEW key \in Keys, NEW v \in Item, NEW explicit \in BOOLEAN
  PROVE  AppendToDictKeyList(d, key, v, explicit) \in Dict
<1>1. PICK K \in SUBSET Keys : d \in [K -> Val]
  BY DEF Dict
<1>2. v \in Val /\ List(<<v>>) \in Val
  BY DEF Val, List
<1>3. \A w \in Val : AsList(w) \in Seq(Item)
  <2> SUFFICES ASSUME NEW w \in Val PROVE AsList(w) \in Seq(Item)
    OBVIOUS
  <2>1. CASE w \in Item
    <3>1. ~IsList(w)
      BY <2>1 DEF Item, IsList
    <3> QED
      BY <2>1, <3>1 DEF AsList
  <2>2. CASE w \in [list : Seq(Item)]
    BY <2>2 DEF AsList, IsList
  <2> QED
    BY <2>1, <2>2 DEF Val
<1>4. ASSUME key \in K PROVE List(Append(AsList(d[key]), v)) \in Val
  <2>1. d[key] \in Val
    BY <1>1, <1>4
  <2>2. Append(AsList(d[key]), v) \in Seq(Item)
    BY <2>1, <1>3, AppendProperties
  <2> QED
    BY <2>2 DEF Val, List
<1>5. DOMAIN d = K
  BY <1>1
<1> DEFINE new == IF key \in DOMAIN d THEN List(Append(AsList(d[key]), v))
                  ELSE IF explicit THEN List(<<v>>) ELSE v
<1>6. new \in Val
  BY <1>2, <1>4, <1>5
<1>7. SetDictKeyValue(d, key, new) \in Dict
  <2> HIDE DEF new
  <2> QED BY <1>6, SetDictKeyValueType
<1> QED
  BY <1>7 DEF AppendToDictKeyList

-----------------------------------------------------------------------------
(***************************************************************************)
(* StringStack.                                                            *)
(***************************************************************************)

\* Every reference is to a string that exists, no string is referred to twice,
\* and top_ is the top of stack_.
StringStack(t) ==
    /\ t \in [heap : Seq(Seq(Char)), top : DOMAIN t.heap,
              stack : Seq(DOMAIN t.heap), cache : Seq(DOMAIN t.heap)]
    /\ IsInjective(t.stack) /\ IsInjective(t.cache)
    /\ \A i \in DOMAIN t.stack, j \in DOMAIN t.cache : t.stack[i] # t.cache[j]
    /\ t.stack # <<>> => t.top = Last(t.stack)

\* The fields of such an object.
LEMMA StringStackFields ==
  ASSUME NEW t, StringStack(t)
  PROVE  /\ t.heap \in Seq(Seq(Char)) /\ t.top \in DOMAIN t.heap
         /\ t.stack \in Seq(DOMAIN t.heap) /\ t.cache \in Seq(DOMAIN t.heap)
BY DEF StringStack

\* An object made of such fields.
LEMMA StringStackIntro ==
  ASSUME NEW h \in Seq(Seq(Char)), NEW x \in DOMAIN h,
         NEW s \in Seq(DOMAIN h), NEW c \in Seq(DOMAIN h),
         IsInjective(s), IsInjective(c),
         \A i \in DOMAIN s, j \in DOMAIN c : s[i] # c[j],
         s # <<>> => x = Last(s)
  PROVE  StringStack(Strings(h, x, s, c))
BY DEF StringStack, Strings

\* PushEmptyString.
LEMMA PushLemma ==
  ASSUME NEW t, StringStack(t)
  PROVE  /\ StringStack(PushEmptyString(t))
         /\ Len(PushEmptyString(t).stack) = Len(t.stack) + 1
<1> DEFINE H == t.heap
           Id == DOMAIN t.heap
<1>0. /\ H \in Seq(Seq(Char)) /\ t.top \in Id
      /\ t.stack \in Seq(Id) /\ t.cache \in Seq(Id)
  BY StringStackFields
<1>i. /\ IsInjective(t.stack) /\ IsInjective(t.cache)
      /\ \A i \in DOMAIN t.stack, j \in DOMAIN t.cache : t.stack[i] # t.cache[j]
  BY DEF StringStack
<1>1. CASE t.cache = <<>>
  <2> DEFINE h == Append(H, <<>>)
             n == Len(H) + 1
             s == Append(t.stack, n)
  <2>1. h \in Seq(Seq(Char)) /\ DOMAIN h = 1..n /\ Id = 1..Len(H) /\ Len(H) \in Nat
    BY <1>0
  <2>2. Id \subseteq DOMAIN h /\ n \in DOMAIN h /\ n \notin Id
    BY <2>1
  <2>3. t.stack \in Seq(DOMAIN h) /\ t.cache \in Seq(DOMAIN h)
    BY <1>0, <2>2, SeqMonotonic
  <2>4. PushEmptyString(t) = Strings(h, n, s, t.cache)
    BY <1>1 DEF PushEmptyString
  <2> HIDE DEF h, n
  <2>5. \A i \in DOMAIN t.stack : t.stack[i] # n
    BY <1>0, <2>2
  <2>6. /\ s \in Seq(DOMAIN h) /\ Len(s) = Len(t.stack) + 1 /\ s # <<>>
        /\ s[Len(s)] = n
    BY <2>2, <2>3, AppendProperties
  <2>7. IsInjective(s)
    BY <2>2, <2>3, <2>5, <1>i, AppendInjective1
  <2>8. DOMAIN t.cache = {}
    BY <1>1
  <2>9. n = Last(s)
    BY <2>6 DEF Last
  <2> HIDE DEF s
  <2>10. StringStack(Strings(h, n, s, t.cache))
    BY <2>1, <2>2, <2>3, <2>6, <2>7, <2>8, <2>9, <1>i, StringStackIntro
  <2> QED
    BY <2>4, <2>6, <2>10 DEF Strings
<1>2. CASE t.cache # <<>>
  <2> DEFINE x == Last(t.cache)
             h == [H EXCEPT ![x] = <<>>]
             s == Append(t.stack, x)
             c == Front(t.cache)
  <2>1. /\ x \in Id /\ c \in Seq(Id) /\ DOMAIN t.cache = 1..Len(t.cache)
        /\ Len(t.cache) \in DOMAIN t.cache /\ x = t.cache[Len(t.cache)]
        /\ DOMAIN c = 1..(Len(t.cache) - 1) /\ \A j \in DOMAIN c : c[j] = t.cache[j]
        /\ DOMAIN c \subseteq DOMAIN t.cache
    <3>1. t.cache \in Seq(Id) /\ t.cache # <<>>
      BY <1>0, <1>2
    <3> HIDE DEF Id
    <3>2. x \in Id /\ c \in Seq(Id) /\ x = t.cache[Len(t.cache)]
      BY <3>1, FrontLast
    <3>3. /\ DOMAIN t.cache = 1..Len(t.cache) /\ Len(t.cache) \in DOMAIN t.cache
          /\ DOMAIN c = 1..(Len(t.cache) - 1) /\ DOMAIN c \subseteq DOMAIN t.cache
          /\ \A j \in DOMAIN c : c[j] = t.cache[j]
      BY <3>1, FrontDomain
    <3> QED
      BY <3>2, <3>3
  <2>2. PushEmptyString(t) = Strings(h, x, s, c)
    BY <1>2 DEF PushEmptyString
  <2>3. h \in Seq(Seq(Char)) /\ DOMAIN h = Id
    <3>1. H \in Seq(Seq(Char)) /\ x \in DOMAIN H /\ <<>> \in Seq(Char)
      BY <1>0, <2>1
    <3>2. x \in 1..Len(H)
      BY <3>1, LenProperties
    <3> HIDE DEF H, x
    <3>3. h \in Seq(Seq(Char))
      BY <3>1, <3>2, ExceptSeq
    <3>4. DOMAIN h = DOMAIN H
      OBVIOUS
    <3> QED
      BY <3>3, <3>4 DEF H
  <2>4. IsInjective(c) /\ \A j \in DOMAIN c : c[j] # x
    BY <1>0, <1>2, <1>i, FrontInjective
  <2>5. \A i \in DOMAIN t.stack : t.stack[i] # x
    BY <1>i, <2>1
  <2> HIDE DEF x, h, c
  <2>6. /\ s \in Seq(Id) /\ Len(s) = Len(t.stack) + 1 /\ s # <<>> /\ Last(s) = x
        /\ \A i \in DOMAIN s : s[i] = x \/ (i \in DOMAIN t.stack /\ s[i] = t.stack[i])
    <3>1. t.stack \in Seq(Id) /\ x \in Id
      BY <1>0, <2>1
    <3> HIDE DEF Id
    <3>2. s \in Seq(Id) /\ Len(s) = Len(t.stack) + 1 /\ s # <<>> /\ Last(s) = x
      BY <3>1, AppendStack
    <3>3. \A i \in DOMAIN s : s[i] = x \/ (i \in DOMAIN t.stack /\ s[i] = t.stack[i])
      BY <3>1, AppendElement
    <3> QED
      BY <3>2, <3>3
  <2>7. IsInjective(s)
    BY <1>0, <1>i, <2>1, <2>5, AppendInjective1
  <2>8. \A i \in DOMAIN s, j \in DOMAIN c : s[i] # c[j]
    BY <1>i, <2>1, <2>4, <2>6
  <2> HIDE DEF s
  <2>9. StringStack(Strings(h, x, s, c))
    BY <2>1, <2>3, <2>4, <2>6, <2>7, <2>8, StringStackIntro
  <2> QED
    BY <2>2, <2>6, <2>9 DEF Strings
<1> QED
  BY <1>1, <1>2

\* Pop.
LEMMA PopLemma ==
  ASSUME NEW t, StringStack(t), t.stack # <<>>
  PROVE  /\ StringStack(Pop(t))
         /\ Len(Pop(t).stack) = Len(t.stack) - 1
<1> DEFINE Id == DOMAIN t.heap
           r == Front(t.stack)
           x == IF r = <<>> THEN t.top ELSE Last(r)
           c == Append(t.cache, t.top)
<1>0. /\ t.heap \in Seq(Seq(Char)) /\ t.top \in Id
      /\ t.stack \in Seq(Id) /\ t.cache \in Seq(Id)
  BY StringStackFields
<1>i. /\ IsInjective(t.stack) /\ IsInjective(t.cache) /\ t.top = Last(t.stack)
      /\ \A i \in DOMAIN t.stack, j \in DOMAIN t.cache : t.stack[i] # t.cache[j]
  BY DEF StringStack
<1>1. Pop(t) = Strings(t.heap, x, r, c)
  BY DEF Pop
<1>2. /\ r \in Seq(Id) /\ Len(r) = Len(t.stack) - 1
      /\ DOMAIN r \subseteq DOMAIN t.stack /\ \A i \in DOMAIN r : r[i] = t.stack[i]
      /\ Len(t.stack) \in DOMAIN t.stack /\ t.top = t.stack[Len(t.stack)]
  <2>1. t.stack \in Seq(Id) /\ t.stack # <<>>
    BY <1>0
  <2> HIDE DEF Id
  <2>2. r \in Seq(Id) /\ Len(r) = Len(t.stack) - 1 /\ Last(t.stack) = t.stack[Len(t.stack)]
    BY <2>1, FrontLast
  <2>3. /\ DOMAIN r \subseteq DOMAIN t.stack /\ \A i \in DOMAIN r : r[i] = t.stack[i]
        /\ Len(t.stack) \in DOMAIN t.stack
    BY <2>1, FrontDomain
  <2> QED
    BY <1>i, <2>2, <2>3
<1>3. IsInjective(r) /\ \A i \in DOMAIN r : r[i] # t.top
  BY <1>0, <1>i, FrontInjective
<1>4. x \in Id /\ (r # <<>> => x = Last(r))
  BY <1>0, <1>2, FrontLast
<1>5. /\ c \in Seq(Id)
      /\ \A j \in DOMAIN c : c[j] = t.top \/ (j \in DOMAIN t.cache /\ c[j] = t.cache[j])
  <2>1. t.cache \in Seq(Id) /\ t.top \in Id
    BY <1>0
  <2> HIDE DEF Id
  <2>2. c \in Seq(Id)
    BY <2>1, AppendStack
  <2>3. \A j \in DOMAIN c : c[j] = t.top \/ (j \in DOMAIN t.cache /\ c[j] = t.cache[j])
    BY <2>1, AppendElement
  <2> QED
    BY <2>2, <2>3
<1>6. \A j \in DOMAIN t.cache : t.cache[j] # t.top
  BY <1>i, <1>2
<1>7. IsInjective(c)
  BY <1>0, <1>i, <1>6, AppendInjective1
<1> HIDE DEF r, x, c
<1>8. \A i \in DOMAIN r, j \in DOMAIN c : r[i] # c[j]
  BY <1>i, <1>2, <1>3, <1>5
<1>9. StringStack(Strings(t.heap, x, r, c))
  BY <1>0, <1>2, <1>3, <1>4, <1>5, <1>7, <1>8, StringStackIntro
<1> QED
  BY <1>1, <1>2, <1>9 DEF Strings

\* Changing the top string changes no reference.
LEMMA TopStringLemma ==
  ASSUME NEW t, StringStack(t), NEW s \in Seq(Char)
  PROVE  /\ StringStack(SetTopString(t, s))
         /\ SetTopString(t, s).stack = t.stack
<1>0. /\ t.heap \in Seq(Seq(Char)) /\ t.top \in DOMAIN t.heap
      /\ t.stack \in Seq(DOMAIN t.heap) /\ t.cache \in Seq(DOMAIN t.heap)
  BY StringStackFields
<1>i. /\ IsInjective(t.stack) /\ IsInjective(t.cache)
      /\ t.stack # <<>> => t.top = Last(t.stack)
      /\ \A i \in DOMAIN t.stack, j \in DOMAIN t.cache : t.stack[i] # t.cache[j]
  BY DEF StringStack
<1> DEFINE h == [t.heap EXCEPT ![t.top] = s]
<1>1. h \in Seq(Seq(Char)) /\ DOMAIN h = DOMAIN t.heap
  BY <1>0
<1> HIDE DEF h
<1>2. StringStack(Strings(h, t.top, t.stack, t.cache))
  BY <1>0, <1>1, <1>i, StringStackIntro
<1> QED
  BY <1>2 DEF SetTopString, Strings, h

\* Reset.
LEMMA ResetLemma ==
  ASSUME NEW t, StringStack(t)
  PROVE  StringStack(Reset(t)) /\ Reset(t).stack = <<>>
<1>0. /\ t.heap \in Seq(Seq(Char)) /\ t.top \in DOMAIN t.heap
  BY StringStackFields
<1>1. IsInjective(<<>>) /\ DOMAIN <<>> = {}
  BY DEF IsInjective
<1>2. <<>> \in Seq(DOMAIN t.heap)
  OBVIOUS
<1>3. StringStack(Strings(t.heap, t.top, <<>>, <<>>))
  BY <1>0, <1>1, <1>2, StringStackIntro
<1> QED
  BY <1>3 DEF Reset, Strings

-----------------------------------------------------------------------------
(***************************************************************************)
(* The inductive invariant.                                                *)
(***************************************************************************)

\* A builder in use, or that may be used again, has the current options unless
\* they were replaced while builders were in the cache.
OwnOptions ==
    ~replaced =>
        /\ builders[root].options = current
        /\ \A i \in DOMAIN stack : builders[stack[i]].options = current
        /\ \A i \in DOMAIN cache : builders[cache[i]].options = current

\* No VarBuilder is twice on the stack or in the cache.
BuildersApart ==
    /\ IsInjective(stack) /\ IsInjective(cache)
    /\ \A i \in DOMAIN stack, j \in DOMAIN cache : stack[i] # cache[j]

\* The three stacks have one height.
Heights == Len(simple) = Len(stack) /\ Len(text.stack) = Len(stack)

\* What concerns the builder alone.
BuilderInv ==
    /\ dicts \in Seq(Dict)
    /\ TypeBuilder
    /\ StringStack(text)
    /\ BuildersApart
    /\ Heights
    /\ OwnOptions

\* What relates it to the parser.
ParserInv ==
    /\ TypeParser
    /\ phase = "in" <=> open # <<>>
    /\ mode = "ready" =>
          /\ phase = "before" /\ first
          /\ Len(stack) = 1 /\ stack[1] = root /\ ~simple[1]
    /\ mode = "used" => phase # "before"

\* The inductive invariant.
IInv ==
    /\ BuilderInv
    /\ ParserInv
    /\ StacksInStep
    /\ UndefinedOnlyAfterMisuse

-----------------------------------------------------------------------------
(***************************************************************************)
(* The steps of the builder.                                               *)
(***************************************************************************)

\* The object new_var_builder returns is neither on the stack nor left in the
\* cache; the other objects keep their options.
LEMMA NewBuilderLemma ==
  ASSUME BuilderInv, NEW opts \in Nat, opts >= current
  PROVE  /\ BuildersAfterNew(opts) \in Seq([object : 1..(Len(dicts) + 1), options : 1..opts])
         /\ DOMAIN builders \subseteq DOMAIN BuildersAfterNew(opts)
         /\ NewBuilder \in DOMAIN BuildersAfterNew(opts)
         /\ CacheAfterNew \in Seq(DOMAIN builders)
         /\ IsInjective(CacheAfterNew)
         /\ \A j \in DOMAIN CacheAfterNew :
               CacheAfterNew[j] # NewBuilder /\ j \in DOMAIN cache /\ CacheAfterNew[j] = cache[j]
         /\ \A i \in DOMAIN stack : stack[i] # NewBuilder
         /\ \A b \in DOMAIN builders : BuildersAfterNew(opts)[b].options = builders[b].options
         /\ cache = <<>> => BuildersAfterNew(opts)[NewBuilder].options = opts
         /\ cache # <<>> => Len(cache) \in DOMAIN cache /\ NewBuilder = cache[Len(cache)]
<1> DEFINE n == Len(builders) + 1
           R == [object : 1..(Len(dicts) + 1), options : 1..opts]
           B == BuildersAfterNew(opts)
<1>0. /\ dicts \in Seq(Dict) /\ Len(dicts) \in Nat /\ DOMAIN dicts = 1..Len(dicts)
      /\ builders \in Seq([object : DOMAIN dicts, options : 1..current])
      /\ stack \in Seq(DOMAIN builders) /\ cache \in Seq(DOMAIN builders)
      /\ current \in Nat
  BY AnyXml2VarAssumption DEF BuilderInv, TypeBuilder
<1>1. Len(builders) \in Nat /\ DOMAIN builders = 1..Len(builders)
  BY <1>0
<1>2. builders \in Seq(R)
  <2>1. [object : DOMAIN dicts, options : 1..current] \subseteq R
    BY <1>0
  <2> HIDE DEF R
  <2> QED
    BY <1>0, <2>1, SeqMonotonic
<1>3. IsInjective(stack) /\ IsInjective(cache)
      /\ \A i \in DOMAIN stack, j \in DOMAIN cache : stack[i] # cache[j]
  BY DEF BuilderInv, BuildersApart
<1>4. CASE cache = <<>>
  <2> DEFINE r == [object |-> NewDict, options |-> opts]
  <2>1. r \in R
    <3>1. opts \in 1..opts
      BY <1>0, AnyXml2VarAssumption DEF BuilderInv, TypeBuilder
    <3> QED
      BY <1>0, <3>1 DEF NewDict
  <2>2. B = Append(builders, r) /\ NewBuilder = n /\ CacheAfterNew = cache
    BY <1>4 DEF BuildersAfterNew, NewBuilder, CacheAfterNew
  <2>r. r.options = opts
    OBVIOUS
  <2> HIDE DEF R, r, B
  <2>3. /\ B \in Seq(R) /\ DOMAIN B = 1..n /\ B[n] = r
        /\ \A b \in DOMAIN builders : B[b] = builders[b]
    BY <1>1, <1>2, <2>1, <2>2, AppendProperties, LenProperties
  <2>4. n \notin DOMAIN builders /\ n \in 1..n /\ DOMAIN builders \subseteq 1..n
    BY <1>1
  <2>5. \A i \in DOMAIN stack : stack[i] # n
    BY <1>0, <2>4
  <2>6. DOMAIN cache = {}
    BY <1>4
  <2> QED
    BY <1>0, <1>3, <1>4, <2>2, <2>r, <2>3, <2>4, <2>5, <2>6 DEF B, R
<1>5. CASE cache # <<>>
  <2> DEFINE x == Last(cache)
  <2>1. NewBuilder = x /\ CacheAfterNew = Front(cache)
        /\ B = [builders EXCEPT ![x].object = NewDict]
    BY <1>5 DEF BuildersAfterNew, NewBuilder, CacheAfterNew
  <2>2. /\ x \in DOMAIN builders /\ x = cache[Len(cache)] /\ Front(cache) \in Seq(DOMAIN builders)
        /\ Len(cache) \in DOMAIN cache
        /\ DOMAIN Front(cache) \subseteq DOMAIN cache
        /\ \A j \in DOMAIN Front(cache) : Front(cache)[j] = cache[j]
    <3>1. cache \in Seq(DOMAIN builders) /\ cache # <<>>
      BY <1>0, <1>5
    <3>2. x \in DOMAIN builders /\ x = cache[Len(cache)] /\ Front(cache) \in Seq(DOMAIN builders)
      BY <3>1, FrontLast
    <3>3. /\ Len(cache) \in DOMAIN cache
          /\ DOMAIN Front(cache) \subseteq DOMAIN cache
          /\ \A j \in DOMAIN Front(cache) : Front(cache)[j] = cache[j]
      BY <3>1, FrontDomain
    <3> QED
      BY <3>2, <3>3
  <2>3. IsInjective(Front(cache)) /\ \A j \in DOMAIN Front(cache) : Front(cache)[j] # x
    BY <1>0, <1>3, <1>5, FrontInjective
  <2> HIDE DEF x
  <2>4. NewDict \in 1..(Len(dicts) + 1)
    BY <1>0 DEF NewDict
  <2>5. /\ B \in Seq(R) /\ DOMAIN B = DOMAIN builders
        /\ \A b \in DOMAIN builders : B[b].options = builders[b].options
    <3> DEFINE e == [builders[x] EXCEPT !.object = NewDict]
    <3>1. e \in R /\ e.options = builders[x].options
      <4>1. builders[x] \in R
        <5> HIDE DEF R
        <5> QED
          BY <1>1, <1>2, <2>2, ElementOfSeq
      <4> QED
        BY <4>1, <2>4
    <3>2. B = [builders EXCEPT ![x] = e]
      BY <2>1
    <3> HIDE DEF e, R, B
    <3> QED
      BY <3>1, <3>2, <1>2, <2>2, ExceptSeq, LenProperties
  <2>6. \A i \in DOMAIN stack : stack[i] # x
    BY <1>3, <2>2
  <2> QED
    BY <1>5, <2>1, <2>2, <2>3, <2>5, <2>6 DEF B, R
<1> QED
  BY <1>4, <1>5

\* A dictionary more.
LEMMA DictsGrow ==
  ASSUME dicts \in Seq(Dict), NEW d \in Dict
  PROVE  /\ Append(dicts, d) \in Seq(Dict)
         /\ DOMAIN Append(dicts, d) = 1..(Len(dicts) + 1)
BY AppendProperties, LenProperties

\* In a sequence of dictionaries each one is a dictionary.
LEMMA DictsType ==
  ASSUME NEW ds \in Seq(Dict), NEW d \in DOMAIN ds
  PROVE  DOMAIN ds[d] \subseteq Keys /\ ds[d] \in [DOMAIN ds[d] -> Val]
<1>1. ds[d] \in Dict
  OBVIOUS
<1>2. PICK K \in SUBSET Keys : ds[d] \in [K -> Val]
  BY <1>1 DEF Dict
<1> QED
  BY <1>2

\* The empty dictionary.
LEMMA EmptyDictType == EmptyDict \in Dict
<1>1. EmptyDict \in [{} -> Val]
  BY DEF EmptyDict
<1>2. {} \in SUBSET Keys
  OBVIOUS
<1> QED
  BY <1>1, <1>2 DEF Dict

\* Both forms of Clear.
LEMMA ClearStep ==
  ASSUME BuilderInv, NEW opts \in 1..MaxOptions, opts >= current, ClearWith(opts),
         current' = opts, options' \in Options, undefined' = undefined,
         \/ opts = current /\ replaced' = replaced
         \/ replaced' = (replaced \/ cache # <<>>)
  PROVE  /\ BuilderInv'
         /\ first' /\ Len(stack') = 1 /\ stack'[1] = root' /\ ~simple'[1]
<1>0. /\ opts \in Nat /\ dicts \in Seq(Dict) /\ StringStack(text)
      /\ {undefined, replaced} \subseteq BOOLEAN
      /\ cache \in Seq(DOMAIN builders)
  BY AnyXml2VarAssumption DEF BuilderInv, TypeBuilder
<1>1. dicts' \in Seq(Dict) /\ DOMAIN dicts' = 1..(Len(dicts) + 1)
  BY <1>0, DictsGrow, EmptyDictType DEF ClearWith
<1>2. StringStack(text') /\ Len(text'.stack) = 1
  <2>1. StringStack(Reset(text)) /\ Reset(text).stack = <<>>
    BY <1>0, ResetLemma
  <2>2. StringStack(PushEmptyString(Reset(text)))
        /\ Len(PushEmptyString(Reset(text)).stack) = Len(Reset(text).stack) + 1
    BY <2>1, PushLemma
  <2>3. Len(Reset(text).stack) + 1 = 1
    BY <2>1
  <2> QED
    BY <2>2, <2>3 DEF ClearWith
<1> DEFINE B == BuildersAfterNew(opts)
           C == CacheAfterNew
           x == NewBuilder
<1>3. builders' = B /\ cache' = C /\ root' = x /\ stack' = <<x>> /\ first' = TRUE
      /\ simple' = <<FALSE>> /\ rootName' = NoText
  BY DEF ClearWith
<1>4. /\ B \in Seq([object : 1..(Len(dicts) + 1), options : 1..opts])
      /\ DOMAIN builders \subseteq DOMAIN B /\ x \in DOMAIN B
      /\ C \in Seq(DOMAIN builders) /\ IsInjective(C)
      /\ \A j \in DOMAIN C : C[j] # x /\ j \in DOMAIN cache /\ C[j] = cache[j]
      /\ \A b \in DOMAIN builders : B[b].options = builders[b].options
      /\ cache = <<>> => B[x].options = opts
      /\ cache # <<>> => Len(cache) \in DOMAIN cache /\ x = cache[Len(cache)]
  BY <1>0, NewBuilderLemma
<1> HIDE DEF B, C, x
<1>5. C \in Seq(DOMAIN B)
  BY <1>4, SeqMonotonic
<1>6. TypeBuilder'
  <2>1. \A d \in DOMAIN dicts' :
           DOMAIN dicts'[d] \subseteq Keys /\ dicts'[d] \in [DOMAIN dicts'[d] -> Val]
    BY <1>1, DictsType
  <2>2. stack' \in Seq(DOMAIN B) /\ simple' \in Seq(BOOLEAN)
    BY <1>3, <1>4
  <2>3. {first', undefined', replaced'} \subseteq BOOLEAN
    BY <1>0, <1>3
  <2> QED
    BY <1>1, <1>3, <1>4, <1>5, <2>1, <2>2, <2>3 DEF TypeBuilder
<1>7. BuildersApart'
  <2>1. DOMAIN <<x>> = {1} /\ <<x>>[1] = x
    OBVIOUS
  <2>2. IsInjective(<<x>>)
    BY <2>1 DEF IsInjective
  <2> QED
    BY <1>3, <1>4, <2>1, <2>2 DEF BuildersApart
<1>8. Heights'
  BY <1>2, <1>3 DEF Heights
<1>9. OwnOptions'
  <2> SUFFICES ASSUME ~replaced' PROVE
        /\ B[x].options = opts
        /\ \A i \in DOMAIN C : B[C[i]].options = opts
    BY <1>3 DEF OwnOptions
  <2>1. ~replaced /\ \A i \in DOMAIN cache :
           cache[i] \in DOMAIN builders /\ builders[cache[i]].options = current
    BY <1>0 DEF BuilderInv, OwnOptions
  <2>2. CASE cache = <<>>
    <3>1. DOMAIN cache = {}
      BY <2>2
    <3> QED
      BY <2>2, <3>1, <1>4
  <2>3. CASE cache # <<>>
    <3>1. opts = current
      BY <2>3
    <3> QED
      BY <2>1, <2>3, <3>1, <1>4
  <2> QED
    BY <2>2, <2>3
<1> QED
  BY <1>1, <1>2, <1>3, <1>6, <1>7, <1>8, <1>9 DEF BuilderInv

\* A dictionary is replaced by one with another key.
LEMMA DictsChange ==
  ASSUME NEW ds \in Seq(Dict), NEW o \in DOMAIN ds, NEW d \in Dict
  PROVE  [ds EXCEPT ![o] = d] \in Seq(Dict) /\ DOMAIN [ds EXCEPT ![o] = d] = DOMAIN ds
BY ExceptSeq, LenProperties

\* The dictionary of a builder exists.
LEMMA ObjectExists ==
  ASSUME BuilderInv, NEW b \in DOMAIN builders
  PROVE  builders[b].object \in DOMAIN dicts
<1> DEFINE R == [object : DOMAIN dicts, options : 1..current]
<1>1. builders \in Seq(R)
  BY DEF BuilderInv, TypeBuilder
<1>2. builders[b] \in R
  <2> HIDE DEF R
  <2> QED
    BY <1>1, ElementOfSeq, LenProperties
<1> QED
  BY <1>2

\* SetAttrKey keeps a dictionary a dictionary.
LEMMA SetAttrKeyType ==
  ASSUME BuilderInv, NEW d \in Dict, NEW attrs \in Attrs \cup {NoAttrs}
  PROVE  SetAttrKey(d, attrs) \in Dict
<1>1. CASE attrs = NoAttrs
  BY <1>1 DEF SetAttrKey
<1>2. CASE attrs # NoAttrs
  <2>1. AttrDict(attrs) \in Val
    BY <1>2 DEF AttrDict, Val, Item
  <2>2. options.attrkey \in Keys
    BY DEF BuilderInv, TypeBuilder, Options
  <2>3. SetDictKeyValue(d, options.attrkey, AttrDict(attrs)) \in Dict
    BY <2>1, <2>2, SetDictKeyValueType
  <2> QED
    BY <1>2, <2>3 DEF SetAttrKey
<1> QED
  BY <1>1, <1>2

\* The members that a step with other dictionaries in the same places leaves.
LEMMA SameBuilders ==
  ASSUME BuilderInv, dicts' \in Seq(Dict), DOMAIN dicts' = DOMAIN dicts,
         UNCHANGED <<options, current, replaced, builders, root>>,
         stack' \in Seq(DOMAIN builders), cache' \in Seq(DOMAIN builders),
         simple' \in Seq(BOOLEAN), rootName' \in Name \cup {NoText},
         {first', undefined'} \subseteq BOOLEAN
  PROVE  TypeBuilder'
<1>1. \A d \in DOMAIN dicts' :
         DOMAIN dicts'[d] \subseteq Keys /\ dicts'[d] \in [DOMAIN dicts'[d] -> Val]
  BY DictsType
<1>2. replaced' \in BOOLEAN
  BY DEF BuilderInv, TypeBuilder
<1> QED
  BY <1>1, <1>2 DEF BuilderInv, TypeBuilder

\* The start of the root element.
LEMMA StartRootStep ==
  ASSUME BuilderInv, NEW el \in Name, NEW attrs \in Attrs \cup {NoAttrs},
         StartRoot(el, attrs), UNCHANGED <<options, current, replaced>>
  PROVE  /\ BuilderInv'
         /\ \/ undefined' /\ replaced
            \/ undefined' = undefined /\ ~first' /\ UNCHANGED <<stack, root, simple, text>>
<1>0. /\ dicts \in Seq(Dict) /\ builders \in Seq([object : DOMAIN dicts, options : 1..current])
      /\ root \in DOMAIN builders /\ stack \in Seq(DOMAIN builders)
      /\ cache \in Seq(DOMAIN builders) /\ simple \in Seq(BOOLEAN)
      /\ {first, undefined} \subseteq BOOLEAN
  BY DEF BuilderInv, TypeBuilder
<1>1. CASE attrs # NoAttrs /\ Dangling(root, current)
  <2>1. undefined' = TRUE /\ UNCHANGED built
    BY <1>1 DEF StartRoot, Undefined
  <2>2. replaced
    BY <1>1 DEF BuilderInv, OwnOptions, Dangling
  <2>3. BuilderInv'
    BY <1>0, <2>1 DEF built, BuilderInv, TypeBuilder, BuildersApart, Heights, OwnOptions
  <2> QED
    BY <2>1, <2>2, <2>3
<1>2. CASE ~(attrs # NoAttrs /\ Dangling(root, current))
  <2> DEFINE o == builders[root].object
  <2>1. /\ rootName' = el /\ first' = FALSE
        /\ dicts' = [dicts EXCEPT ![o] = SetAttrKey(dicts[o], attrs)]
        /\ UNCHANGED <<builders, stack, cache, root, simple, text, undefined>>
    BY <1>2 DEF StartRoot
  <2>2. o \in DOMAIN dicts
    BY <1>0, ObjectExists
  <2> HIDE DEF o
  <2>3. SetAttrKey(dicts[o], attrs) \in Dict
    BY <1>0, <2>2, SetAttrKeyType
  <2>4. dicts' \in Seq(Dict) /\ DOMAIN dicts' = DOMAIN dicts
    BY <1>0, <2>1, <2>2, <2>3, DictsChange
  <2>5. TypeBuilder'
    BY <1>0, <2>1, <2>4, SameBuilders
  <2>6. StringStack(text') /\ BuildersApart' /\ Heights' /\ OwnOptions'
    BY <2>1 DEF BuilderInv, BuildersApart, Heights, OwnOptions
  <2> QED
    BY <2>1, <2>4, <2>5, <2>6 DEF BuilderInv
<1> QED
  BY <1>1, <1>2

\* The start of another element.
LEMMA StartInnerStep ==
  ASSUME BuilderInv, NEW attrs \in Attrs \cup {NoAttrs},
         StartInner(attrs), UNCHANGED <<options, current, replaced>>
  PROVE  /\ BuilderInv'
         /\ \/ undefined' /\ (simple = <<>> \/ replaced)
            \/ /\ undefined' = undefined /\ ~first' /\ root' = root
               /\ simple # <<>>
               /\ Len(stack') = Len(stack) + 1 /\ stack'[1] = stack[1]
               /\ simple'[1] => simple[1]
<1>0. /\ dicts \in Seq(Dict) /\ builders \in Seq([object : DOMAIN dicts, options : 1..current])
      /\ root \in DOMAIN builders /\ stack \in Seq(DOMAIN builders)
      /\ cache \in Seq(DOMAIN builders) /\ simple \in Seq(BOOLEAN)
      /\ {first, undefined, replaced} \subseteq BOOLEAN /\ current \in 1..MaxOptions /\ current \in Nat
      /\ StringStack(text) /\ Len(simple) = Len(stack) /\ Len(text.stack) = Len(stack)
  BY AnyXml2VarAssumption DEF BuilderInv, TypeBuilder, Heights
<1> DEFINE bad == \/ simple = <<>>
                  \/ attrs # NoAttrs /\ cache # <<>> /\ Dangling(Last(cache), current)
<1>1. CASE bad
  <2>1. undefined' = TRUE /\ UNCHANGED built
    BY <1>1 DEF StartInner, Undefined
  <2>2. simple = <<>> \/ replaced
    <3> SUFFICES ASSUME cache # <<>>, Dangling(Last(cache), current) PROVE replaced
      BY <1>1
    <3>1. Len(cache) \in DOMAIN cache /\ Last(cache) = cache[Len(cache)]
      BY <1>0, FrontLast, FrontDomain
    <3> QED
      BY <3>1 DEF BuilderInv, OwnOptions, Dangling
  <2>3. BuilderInv'
    BY <1>0, <2>1 DEF built, BuilderInv, TypeBuilder, BuildersApart, Heights, OwnOptions
  <2> QED
    BY <2>1, <2>2, <2>3
<1>2. CASE ~bad
  <2> DEFINE B == BuildersAfterNew(current)
             C == CacheAfterNew
             x == NewBuilder
             d == SetAttrKey(EmptyDict, attrs)
             f == [simple EXCEPT ![Len(simple)] = FALSE]
             g == attrs = NoAttrs
  <2>1. /\ builders' = B /\ dicts' = Append(dicts, d) /\ cache' = C
        /\ stack' = Append(stack, x) /\ simple' = Append(f, g)
        /\ text' = PushEmptyString(text)
        /\ UNCHANGED <<root, first, rootName, undefined>> /\ ~first /\ simple # <<>>
    BY <1>2 DEF StartInner
  <2>2. /\ B \in Seq([object : 1..(Len(dicts) + 1), options : 1..current])
        /\ DOMAIN builders \subseteq DOMAIN B /\ x \in DOMAIN B
        /\ C \in Seq(DOMAIN builders) /\ IsInjective(C)
        /\ \A j \in DOMAIN C : C[j] # x /\ j \in DOMAIN cache /\ C[j] = cache[j]
        /\ \A i \in DOMAIN stack : stack[i] # x
        /\ \A b \in DOMAIN builders : B[b].options = builders[b].options
        /\ cache = <<>> => B[x].options = current
        /\ cache # <<>> => Len(cache) \in DOMAIN cache /\ x = cache[Len(cache)]
    <3>1. current >= current
      BY <1>0
    <3> QED
      BY <1>0, <3>1, NewBuilderLemma
  <2>3. d \in Dict
    BY SetAttrKeyType, EmptyDictType
  <2> HIDE DEF B, C, x, d
  <2>4. dicts' \in Seq(Dict) /\ DOMAIN dicts' = 1..(Len(dicts) + 1)
    BY <1>0, <2>1, <2>3, DictsGrow
  <2>5. stack \in Seq(DOMAIN B) /\ C \in Seq(DOMAIN B)
    BY <1>0, <2>2, SeqMonotonic
  <2>6. /\ stack' \in Seq(DOMAIN B) /\ Len(stack') = Len(stack) + 1
        /\ \A i \in DOMAIN stack' : stack'[i] = x \/ (i \in DOMAIN stack /\ stack'[i] = stack[i])
    <3> DEFINE Id == DOMAIN B
               s == Append(stack, x)
    <3>1. stack \in Seq(Id) /\ x \in Id
      BY <2>2, <2>5
    <3> HIDE DEF Id
    <3>2. s \in Seq(Id) /\ Len(s) = Len(stack) + 1
      BY <3>1, AppendStack
    <3>3. \A i \in DOMAIN s : s[i] = x \/ (i \in DOMAIN stack /\ s[i] = stack[i])
      BY <3>1, AppendElement
    <3> QED
      BY <2>1, <3>2, <3>3 DEF Id
  <2>7. stack'[1] = stack[1]
    <3>1. Len(stack) \in Nat \ {0} /\ 1 \in 1..Len(stack)
      BY <1>0, <2>1, EmptySeq
    <3> QED
      BY <3>1, <2>1, <2>2, <2>5, AppendProperties
  <2>8. IsInjective(stack')
    <3>1. IsInjective(stack)
      BY DEF BuilderInv, BuildersApart
    <3> QED
      BY <3>1, <2>1, <2>2, <2>5, AppendInjective1
  <2>9. /\ simple' \in Seq(BOOLEAN) /\ Len(simple') = Len(simple) + 1
        /\ simple'[1] => simple[1]
    <3>1. Len(simple) \in Nat \ {0} /\ 1 \in 1..Len(simple) /\ Len(simple) \in 1..Len(simple)
      BY <1>0, <2>1, EmptySeq
    <3>2. /\ f \in Seq(BOOLEAN) /\ Len(f) = Len(simple)
          /\ f[1] => simple[1]
      <4> DEFINE n == Len(simple)
                 no == FALSE
                 h == [simple EXCEPT ![n] = no]
      <4>1. n \in 1..Len(simple) /\ 1 \in 1..Len(simple) /\ no \in BOOLEAN
        BY <3>1
      <4>2. f = h
        OBVIOUS
      <4> HIDE DEF n, no, f
      <4>3. /\ h \in Seq(BOOLEAN) /\ Len(h) = Len(simple)
            /\ \A i \in 1..Len(simple) : h[i] = IF i = n THEN no ELSE simple[i]
        BY <1>0, <4>1, ExceptSeq
      <4>n. ~no
        BY DEF no
      <4> HIDE DEF h
      <4>4. CASE n = 1
        BY <4>1, <4>2, <4>3, <4>4, <4>n, Zenon
      <4>5. CASE n # 1
        BY <4>1, <4>2, <4>3, <4>5, Zenon
      <4> QED
        BY <4>2, <4>3, <4>4, <4>5, Zenon
    <3>3. g \in BOOLEAN
      OBVIOUS
    <3> HIDE DEF f, g
    <3>4. /\ simple' \in Seq(BOOLEAN) /\ Len(simple') = Len(f) + 1 /\ simple'[1] = f[1]
      <4> DEFINE Bool == BOOLEAN
      <4>b. f \in Seq(Bool) /\ g \in Bool
        BY <3>2, <3>3
      <4> HIDE DEF Bool
      <4>a. /\ Append(f, g) \in Seq(Bool) /\ Len(Append(f, g)) = Len(f) + 1
            /\ \A i \in 1..Len(f) : Append(f, g)[i] = f[i]
        BY <4>b, AppendProperties
      <4>1. /\ Append(f, g) \in Seq(BOOLEAN) /\ Len(Append(f, g)) = Len(f) + 1
            /\ \A i \in 1..Len(f) : Append(f, g)[i] = f[i]
        BY <4>a DEF Bool
      <4> QED
        BY <2>1, <3>1, <3>2, <4>1, Zenon
    <3> QED
      BY <3>2, <3>4, Zenon
  <2>10. StringStack(text') /\ Len(text'.stack) = Len(text.stack) + 1
    BY <1>0, <2>1, PushLemma
  <2>11. TypeBuilder'
    <3>1. \A e \in DOMAIN dicts' :
             DOMAIN dicts'[e] \subseteq Keys /\ dicts'[e] \in [DOMAIN dicts'[e] -> Val]
      BY <2>4, DictsType
    <3>2. rootName' \in Name \cup {NoText} /\ options' \in Options
      BY <2>1 DEF BuilderInv, TypeBuilder
    <3>3. {first', undefined', replaced'} \subseteq BOOLEAN /\ current' \in 1..MaxOptions
      BY <1>0, <2>1
    <3>4. builders' \in Seq([object : DOMAIN dicts', options : 1..current'])
      BY <2>1, <2>2, <2>4
    <3>5. root' \in DOMAIN builders' /\ stack' \in Seq(DOMAIN builders')
          /\ cache' \in Seq(DOMAIN builders')
      BY <1>0, <2>1, <2>2, <2>5, <2>6
    <3> QED
      BY <2>9, <3>1, <3>2, <3>3, <3>4, <3>5 DEF TypeBuilder
  <2>12. BuildersApart'
    <3>1. \A i \in DOMAIN stack, j \in DOMAIN cache : stack[i] # cache[j]
      BY DEF BuilderInv, BuildersApart
    <3>2. \A i \in DOMAIN stack', j \in DOMAIN C : stack'[i] # C[j]
      BY <2>2, <2>6, <3>1
    <3> QED
      BY <2>1, <2>2, <2>8, <3>2 DEF BuildersApart
  <2>13. Heights'
    BY <1>0, <2>6, <2>9, <2>10 DEF Heights
  <2>14. OwnOptions'
    <3> SUFFICES ASSUME ~replaced PROVE
          /\ B[root].options = current
          /\ \A i \in DOMAIN stack' : B[stack'[i]].options = current
          /\ \A i \in DOMAIN C : B[C[i]].options = current
      BY <2>1 DEF OwnOptions
    <3>1. /\ builders[root].options = current
          /\ \A i \in DOMAIN stack : stack[i] \in DOMAIN builders /\ builders[stack[i]].options = current
          /\ \A i \in DOMAIN cache : cache[i] \in DOMAIN builders /\ builders[cache[i]].options = current
      <4>1. /\ \A i \in DOMAIN stack : stack[i] \in DOMAIN builders
            /\ \A i \in DOMAIN cache : cache[i] \in DOMAIN builders
        BY <1>0, StackElements
      <4>2. /\ builders[root].options = current
            /\ \A i \in DOMAIN stack : builders[stack[i]].options = current
            /\ \A i \in DOMAIN cache : builders[cache[i]].options = current
        BY Zenon DEF BuilderInv, OwnOptions
      <4> QED
        BY <4>1, <4>2, Zenon
    <3>2. B[x].options = current
      <4>1. CASE cache = <<>>
        BY <4>1, <2>2, Zenon
      <4>2. CASE cache # <<>>
        BY <4>2, <2>2, <3>1, Zenon
      <4> QED
        BY <4>1, <4>2, Zenon
    <3>3. B[root].options = current
      BY <1>0, <2>2, <3>1, Zenon
    <3>4. ASSUME NEW i \in DOMAIN stack' PROVE B[stack'[i]].options = current
      <4>1. CASE stack'[i] = x
        BY <4>1, <3>2, Zenon
      <4>2. CASE i \in DOMAIN stack /\ stack'[i] = stack[i]
        BY <4>2, <2>2, <3>1, Zenon
      <4> QED
        BY <2>6, <4>1, <4>2, Zenon
    <3>5. ASSUME NEW i \in DOMAIN C PROVE B[C[i]].options = current
      BY <2>2, <3>1, Zenon
    <3> QED
      BY <3>3, <3>4, <3>5, Zenon
  <2> QED
    BY <2>1, <2>4, <2>6, <2>7, <2>9, <2>10, <2>11, <2>12, <2>13, <2>14 DEF BuilderInv
<1> QED
  BY <1>1, <1>2

\* The text of an element that ends.
LEMMA EndTextLemma ==
  ASSUME BuilderInv
  PROVE  /\ StringStack(EndText) /\ EndText.stack = text.stack
         /\ TopString(EndText) \in Seq(Char)
<1>1. StringStack(text)
  BY DEF BuilderInv
<1>2. StringStack(EndText) /\ EndText.stack = text.stack
  <2>1. CASE options.trim
    <3>1. text.heap[text.top] \in Seq(Char)
      BY <1>1, StringStackFields
    <3>2. Trim(text.heap[text.top]) \in Seq(Char)
      BY <3>1, TrimType
    <3> QED
      BY <1>1, <2>1, <3>2, TopStringLemma DEF EndText, TrimTopString
  <2>2. CASE ~options.trim
    BY <1>1, <2>2 DEF EndText
  <2> QED
    BY <2>1, <2>2
<1> DEFINE t == EndText
<1> HIDE DEF t
<1>3. StringStack(t)
  BY <1>2 DEF t
<1>4. t.heap[t.top] \in Seq(Char)
  BY <1>3, StringStackFields
<1> QED
  BY <1>2, <1>4 DEF t, TopString

\* The end of an element once its value is where it belongs: the builder goes
\* from the stack to the cache, the flag and the string go.
LEMMA PopStep ==
  ASSUME BuilderInv, stack # <<>>,
         dicts' \in Seq(Dict), DOMAIN dicts' = DOMAIN dicts,
         stack' = Front(stack), cache' = Append(cache, Last(stack)),
         simple' = Front(simple), text' = Pop(EndText),
         UNCHANGED <<builders, root, first, rootName, undefined, options, current, replaced>>
  PROVE  /\ BuilderInv'
         /\ Len(stack') = Len(stack) - 1
         /\ Len(stack) > 1 => stack'[1] = stack[1] /\ simple'[1] = simple[1]
<1>0. /\ stack \in Seq(DOMAIN builders) /\ cache \in Seq(DOMAIN builders)
      /\ simple \in Seq(BOOLEAN) /\ {first, undefined, replaced} \subseteq BOOLEAN
      /\ rootName \in Name \cup {NoText}
      /\ Len(simple) = Len(stack) /\ Len(text.stack) = Len(stack)
  BY DEF BuilderInv, TypeBuilder, Heights
<1>i. /\ IsInjective(stack) /\ IsInjective(cache)
      /\ \A i \in DOMAIN stack, j \in DOMAIN cache : stack[i] # cache[j]
  BY DEF BuilderInv, BuildersApart
<1>1. Len(stack) \in Nat \ {0} /\ simple # <<>> /\ text.stack # <<>>
  BY <1>0, EmptySeq
<1> DEFINE r == Front(stack)
           x == Last(stack)
           c == Append(cache, x)
           g == Front(simple)
           Id == DOMAIN builders
<1>2. /\ r \in Seq(Id) /\ x \in Id /\ x = stack[Len(stack)] /\ Len(stack) \in DOMAIN stack
      /\ Len(r) = Len(stack) - 1
      /\ DOMAIN r \subseteq DOMAIN stack /\ \A i \in DOMAIN r : r[i] = stack[i]
  BY <1>0, FrontLast, FrontDomain
<1>3. IsInjective(r) /\ \A i \in DOMAIN r : r[i] # x
  BY <1>0, <1>i, FrontInjective
<1>4. /\ g \in Seq(BOOLEAN) /\ Len(g) = Len(simple) - 1
      /\ \A i \in 1..(Len(simple) - 1) : g[i] = simple[i]
  BY <1>0, <1>1, FrontLast
<1>5. (r[1] = stack[1] /\ g[1] = simple[1]) \/ ~(Len(stack) > 1)
  <2> SUFFICES ASSUME Len(stack) > 1 PROVE r[1] = stack[1] /\ g[1] = simple[1]
    OBVIOUS
  <2>1. 1 \in 1..(Len(stack) - 1)
    BY <1>1
  <2>2. r[1] = stack[1]
    BY <1>0, <2>1, FrontLast
  <2> QED
    BY <1>0, <1>4, <2>1, <2>2
<1> HIDE DEF r, g
<1>6. /\ c \in Seq(Id)
      /\ \A j \in DOMAIN c : c[j] = x \/ (j \in DOMAIN cache /\ c[j] = cache[j])
  <2>1. cache \in Seq(Id) /\ x \in Id
    BY <1>0, <1>2
  <2> HIDE DEF Id, x
  <2>2. c \in Seq(Id)
    BY <2>1, AppendStack
  <2>3. \A j \in DOMAIN c : c[j] = x \/ (j \in DOMAIN cache /\ c[j] = cache[j])
    BY <2>1, AppendElement
  <2> QED
    BY <2>2, <2>3
<1>7. \A j \in DOMAIN cache : cache[j] # x
  BY <1>i, <1>2
<1>8. IsInjective(c)
  <2>1. cache \in Seq(Id) /\ x \in Id
    BY <1>0, <1>2
  <2> HIDE DEF Id, x
  <2> QED
    BY <1>i, <1>7, <2>1, AppendInjective1
<1>9. \A i \in DOMAIN r, j \in DOMAIN c : r[i] # c[j]
  BY <1>i, <1>2, <1>3, <1>6, ZenonT(30)
<1>10. StringStack(text') /\ Len(text'.stack) = Len(text.stack) - 1
  <2>1. StringStack(EndText) /\ EndText.stack = text.stack
    BY EndTextLemma
  <2> DEFINE t == EndText
  <2> HIDE DEF t
  <2>2. StringStack(t) /\ t.stack = text.stack /\ text' = Pop(t)
    BY <2>1 DEF t
  <2> QED
    BY <1>1, <2>2, PopLemma
<1>11. stack' = r /\ cache' = c /\ simple' = g
  BY DEF r, g
<1> HIDE DEF c
<1>12. TypeBuilder'
  BY <1>0, <1>2, <1>4, <1>6, <1>11, SameBuilders
<1>13. BuildersApart'
  BY <1>3, <1>8, <1>9, <1>11 DEF BuildersApart
<1>14. Heights'
  BY <1>0, <1>2, <1>4, <1>10, <1>11 DEF Heights
<1>15. OwnOptions'
  <2> SUFFICES ASSUME ~replaced PROVE
        /\ builders[root].options = current
        /\ \A i \in DOMAIN r : builders[r[i]].options = current
        /\ \A i \in DOMAIN c : builders[c[i]].options = current
    BY <1>11 DEF OwnOptions
  <2>1. /\ builders[root].options = current
        /\ \A i \in DOMAIN stack : builders[stack[i]].options = current
        /\ \A i \in DOMAIN cache : builders[cache[i]].options = current
    BY Zenon DEF BuilderInv, OwnOptions
  <2>2. \A i \in DOMAIN r : builders[r[i]].options = current
    BY <1>2, <2>1, Zenon
  <2>3. builders[x].options = current
    BY <1>2, <2>1, Zenon
  <2>4. \A i \in DOMAIN c : builders[c[i]].options = current
    BY <1>6, <2>1, <2>3, Zenon
  <2> QED
    BY <2>1, <2>2, <2>4, Zenon
<1>16. BuilderInv'
  BY <1>10, <1>12, <1>13, <1>14, <1>15 DEF BuilderInv
<1> QED
  BY <1>2, <1>5, <1>11, <1>16

\* Nothing of the builder changes where undefined behaviour starts.
LEMMA UndefinedStep ==
  ASSUME BuilderInv, Undefined, UNCHANGED <<options, current, replaced>>
  PROVE  BuilderInv' /\ undefined'
<1>1. undefined' = TRUE /\ UNCHANGED built
  BY DEF Undefined
<1>2. {first, replaced} \subseteq BOOLEAN
  BY DEF BuilderInv, TypeBuilder
<1> QED
  BY <1>1, <1>2 DEF built, BuilderInv, TypeBuilder, BuildersApart, Heights, OwnOptions

\* The builders an element that ends uses.
LEMMA TopBuilders ==
  ASSUME BuilderInv, stack # <<>>
  PROVE  /\ Last(stack) \in DOMAIN builders
         /\ Len(stack) > 1 =>
              /\ Last(Front(stack)) \in DOMAIN builders
              /\ Last(Front(stack)) = stack[Len(stack) - 1]
              /\ Len(stack) - 1 \in DOMAIN stack
<1>0. stack \in Seq(DOMAIN builders)
  BY DEF BuilderInv, TypeBuilder
<1> DEFINE Id == DOMAIN builders
           r == Front(stack)
<1>1. stack \in Seq(Id)
  BY <1>0
<1> HIDE DEF Id
<1>2. /\ r \in Seq(Id) /\ Len(stack) \in Nat \ {0} /\ Len(r) = Len(stack) - 1
      /\ \A i \in 1..(Len(stack) - 1) : r[i] = stack[i]
      /\ Last(stack) \in Id /\ DOMAIN stack = 1..Len(stack)
  BY <1>1, FrontLast, FrontDomain
<1> HIDE DEF r
<1>3. ASSUME Len(stack) > 1
      PROVE  /\ Last(r) \in Id /\ Last(r) = stack[Len(stack) - 1]
             /\ Len(stack) - 1 \in DOMAIN stack
  <2>1. r # <<>> /\ Len(r) \in 1..(Len(stack) - 1)
    BY <1>2, <1>3
  <2>2. Last(r) \in Id /\ Last(r) = r[Len(r)]
    BY <1>2, <2>1, FrontLast
  <2>3. Last(r) = stack[Len(r)]
    BY <1>2, <2>1, <2>2
  <2> QED
    BY <1>2, <1>3, <2>2, <2>3
<1> QED
  BY <1>2, <1>3 DEF Id, r

\* A builder below the top of the stack can read its options unless they were
\* replaced.
LEMMA NotReadable ==
  ASSUME BuilderInv, NEW el, Len(stack) > 1, stack # <<>>, ~Readable(Last(Front(stack)), el)
  PROVE  replaced
<1>1. Last(Front(stack)) = stack[Len(stack) - 1] /\ Len(stack) - 1 \in DOMAIN stack
  BY TopBuilders
<1> QED
  BY <1>1 DEF Readable, Dangling, BuilderInv, OwnOptions

\* A value is added to the dictionary of a builder.
LEMMA AddStep ==
  ASSUME BuilderInv, NEW ds \in Seq(Dict), DOMAIN ds = DOMAIN dicts,
         NEW b \in DOMAIN builders, NEW el \in Name, NEW v \in Item
  PROVE  LET new == [ds EXCEPT ![builders[b].object] =
                       AppendToDictKeyList(@, el, v, options.explicit_array)]
         IN  new \in Seq(Dict) /\ DOMAIN new = DOMAIN dicts
<1> DEFINE o == builders[b].object
           d == AppendToDictKeyList(ds[o], el, v, options.explicit_array)
<1>1. o \in DOMAIN ds
  BY ObjectExists
<1> HIDE DEF o
<1>2. ds[o] \in Dict
  BY <1>1, StackElements
<1>3. el \in Keys /\ options.explicit_array \in BOOLEAN
  BY AnyXml2VarAssumption DEF Keys, BuilderInv, TypeBuilder, Options
<1>4. d \in Dict
  BY <1>2, <1>3, AppendToDictKeyListType
<1> HIDE DEF d
<1>5. [ds EXCEPT ![o] = d] \in Seq(Dict) /\ DOMAIN [ds EXCEPT ![o] = d] = DOMAIN ds
  BY <1>1, <1>4, DictsChange
<1> QED
  BY <1>5 DEF o, d

\* The text is added to the dictionary of a builder.
LEMMA TextStep ==
  ASSUME BuilderInv, NEW b \in DOMAIN builders
  PROVE  DictsWithText(b) \in Seq(Dict) /\ DOMAIN DictsWithText(b) = DOMAIN dicts
<1>0. dicts \in Seq(Dict)
  BY DEF BuilderInv
<1>1. CASE TopString(EndText) = <<>>
  BY <1>0, <1>1 DEF DictsWithText
<1>2. CASE TopString(EndText) # <<>>
  <2> DEFINE o == builders[b].object
             v == Str(TopString(EndText))
             d == SetDictKeyValue(dicts[o], options.textkey, v)
  <2>1. o \in DOMAIN dicts
    BY ObjectExists
  <2>2. v \in Val
    BY EndTextLemma DEF Str, Val, Item
  <2>3. DictsWithText(b) = [dicts EXCEPT ![o] = d]
    BY <1>2 DEF DictsWithText
  <2> HIDE DEF o, v
  <2>4. dicts[o] \in Dict
    BY <1>0, <2>1, StackElements
  <2>5. options.textkey \in Keys
    BY DEF BuilderInv, TypeBuilder, Options
  <2>6. d \in Dict
    BY <2>2, <2>4, <2>5, SetDictKeyValueType
  <2> HIDE DEF d
  <2> QED
    BY <1>0, <2>1, <2>3, <2>6, DictsChange
<1> QED
  BY <1>1, <1>2

\* The end of an element.
LEMMA EndStep ==
  ASSUME BuilderInv, NEW el \in Name, OnEndElement(el),
         UNCHANGED <<options, current, replaced>>
  PROVE  /\ BuilderInv'
         /\ \/ undefined' /\ (simple = <<>> \/ replaced \/ (Len(stack) = 1 /\ simple[1]))
            \/ /\ undefined' = undefined /\ UNCHANGED <<root, first>>
               /\ Len(stack') = Len(stack) - 1
               /\ Len(stack) > 1 => stack'[1] = stack[1] /\ simple'[1] = simple[1]
<1>0. /\ dicts \in Seq(Dict) /\ stack \in Seq(DOMAIN builders) /\ simple \in Seq(BOOLEAN)
      /\ Len(simple) = Len(stack) /\ Len(stack) \in Nat
  BY DEF BuilderInv, TypeBuilder, Heights
<1>s. simple # <<>> => stack # <<>> /\ Len(stack) > 0
  BY <1>0, EmptySeq
<1> DEFINE up == Last(Front(stack))
           last == Last(stack)
<1>1. CASE EndSimple(el)
  <2>0. simple # <<>> /\ Last(simple)
    BY <1>1 DEF EndSimple
  <2>1. CASE Len(stack) < 2 \/ ~Readable(up, el)
    <3>1. Undefined
      BY <1>1, <2>1 DEF EndSimple
    <3>2. CASE Len(stack) < 2
      <4>1. Len(stack) = 1 /\ Len(simple) = 1
        BY <1>0, <1>s, <2>0, <3>2
      <4>2. simple[1]
        BY <2>0, <4>1 DEF Last
      <4> QED
        BY <3>1, <4>1, <4>2, UndefinedStep
    <3>3. CASE ~(Len(stack) < 2)
      <4>1. replaced
        BY <1>0, <1>s, <2>0, <2>1, <3>3, NotReadable
      <4> QED
        BY <3>1, <4>1, UndefinedStep
    <3> QED
      BY <3>2, <3>3
  <2>2. CASE ~(Len(stack) < 2 \/ ~Readable(up, el))
    <3> DEFINE v == Str(TopString(EndText))
    <3>1. /\ dicts' = [dicts EXCEPT ![builders[up].object] =
                         AppendToDictKeyList(@, el, v, options.explicit_array)]
          /\ stack' = Front(stack) /\ cache' = Append(cache, Last(stack))
          /\ simple' = Front(simple) /\ text' = Pop(EndText)
          /\ UNCHANGED <<builders, root, first, rootName, undefined>>
      BY <1>1, <2>2 DEF EndSimple
    <3>2. v \in Item
      BY EndTextLemma DEF Str, Item
    <3>3. stack # <<>> /\ up \in DOMAIN builders
      BY <1>0, <1>s, <2>0, <2>2, TopBuilders
    <3> HIDE DEF up, v
    <3>4. dicts' \in Seq(Dict) /\ DOMAIN dicts' = DOMAIN dicts
      BY <1>0, <3>1, <3>2, <3>3, AddStep
    <3>5. /\ BuilderInv' /\ Len(stack') = Len(stack) - 1
          /\ Len(stack) > 1 => stack'[1] = stack[1] /\ simple'[1] = simple[1]
      BY <3>1, <3>3, <3>4, PopStep
    <3> QED
      BY <3>1, <3>5
  <2> QED
    BY <2>1, <2>2
<1>2. CASE EndOther(el)
  <2>0. simple # <<>> /\ stack # <<>> /\ Len(stack) > 0
    BY <1>2, <1>s DEF EndOther
  <2>1. CASE Len(stack) > 1 /\ ~Readable(up, el)
    <3>1. Undefined
      BY <1>2, <2>1 DEF EndOther
    <3>2. replaced
      BY <2>0, <2>1, NotReadable
    <3> QED
      BY <3>1, <3>2, UndefinedStep
  <2>2. CASE ~(Len(stack) > 1 /\ ~Readable(up, el))
    <3> DEFINE ds == DictsWithText(last)
               v == Ref(builders[last].object)
    <3>1. /\ dicts' = IF Len(stack) = 1 THEN ds
                      ELSE [ds EXCEPT ![builders[up].object] =
                              AppendToDictKeyList(@, el, v, options.explicit_array)]
          /\ stack' = Front(stack) /\ cache' = Append(cache, last)
          /\ simple' = Front(simple) /\ text' = Pop(EndText)
          /\ UNCHANGED <<builders, root, first, rootName, undefined>>
      BY <1>2, <2>0, <2>2 DEF EndOther
    <3>2. last \in DOMAIN builders
      BY <2>0, TopBuilders
    <3>3. v \in Item
      <4>1. builders[last].object \in DOMAIN dicts /\ DOMAIN dicts = 1..Len(dicts)
        BY <1>0, <3>2, ObjectExists, LenProperties
      <4>2. builders[last].object \in Nat
        BY <1>0, <4>1
      <4> QED
        BY <4>2 DEF Ref, Item
    <3>4. ds \in Seq(Dict) /\ DOMAIN ds = DOMAIN dicts
      BY <3>2, TextStep
    <3>5. Len(stack) > 1 => up \in DOMAIN builders
      BY <2>0, TopBuilders
    <3> HIDE DEF up, v, ds
    <3>6. dicts' \in Seq(Dict) /\ DOMAIN dicts' = DOMAIN dicts
      <4>1. CASE Len(stack) = 1
        BY <3>1, <3>4, <4>1
      <4>2. CASE Len(stack) # 1
        <5>1. up \in DOMAIN builders
          BY <1>0, <2>0, <3>5, <4>2
        <5> QED
          BY <3>1, <3>3, <3>4, <4>2, <5>1, AddStep
      <4> QED
        BY <4>1, <4>2
    <3>7. /\ BuilderInv' /\ Len(stack') = Len(stack) - 1
          /\ Len(stack) > 1 => stack'[1] = stack[1] /\ simple'[1] = simple[1]
      BY <2>0, <3>1, <3>6, PopStep
    <3> QED
      BY <3>1, <3>7
  <2> QED
    BY <2>1, <2>2
<1>3. CASE EndUnderflow
  BY <1>3, UndefinedStep DEF EndUnderflow
<1> QED
  BY <1>1, <1>2, <1>3 DEF OnEndElement

\* A piece of text.
LEMMA TextEventStep ==
  ASSUME BuilderInv, NEW c \in Char, OnText(c), UNCHANGED <<options, current, replaced>>
  PROVE  /\ BuilderInv'
         /\ UNCHANGED <<undefined, stack, root, first, simple>>
         /\ Len(text'.stack) = Len(text.stack)
<1>0. StringStack(text)
  BY DEF BuilderInv
<1>1. /\ text' = AppendToTopString(text, c)
      /\ UNCHANGED <<builders, dicts, stack, cache, root, first, rootName, simple, undefined>>
  BY DEF OnText
<1> DEFINE s == Append(text.heap[text.top], c)
<1>2. s \in Seq(Char)
  BY <1>0, StringStackFields, AppendProperties
<1> HIDE DEF s
<1>3. StringStack(SetTopString(text, s)) /\ SetTopString(text, s).stack = text.stack
  BY <1>0, <1>2, TopStringLemma
<1>4. StringStack(text') /\ text'.stack = text.stack
  BY <1>1, <1>3 DEF AppendToTopString, s
<1>5. BuilderInv'
  BY <1>1, <1>4 DEF BuilderInv, TypeBuilder, BuildersApart, Heights, OwnOptions
<1> QED
  BY <1>1, <1>4, <1>5

-----------------------------------------------------------------------------
(***************************************************************************)
(* The steps of the system.                                                *)
(***************************************************************************)

\* Options with the defaults filled in.
LEMMA FilledType ==
  ASSUME NEW o \in OptionSet
  PROVE  Filled(o) \in Options
<1>1. o \in [trim : BOOLEAN, explicit_array : BOOLEAN,
             attrkey : Keys \cup {NoText}, textkey : Keys \cup {NoText}]
  BY AnyXml2VarAssumption
<1>2. Dollar \in Keys /\ Underscore \in Keys
  BY AnyXml2VarAssumption DEF Keys
<1> QED
  BY <1>1, <1>2 DEF Filled, Options

\* The builder as the constructor leaves it.
LEMMA InitInv == Init => IInv
<1> SUFFICES ASSUME Init PROVE IInv
  OBVIOUS
<1>1. dicts = <<EmptyDict>> /\ dicts \in Seq(Dict) /\ DOMAIN dicts = {1}
  BY EmptyDictType DEF Init
<1>2. /\ builders = <<[object |-> 1, options |-> 1]>> /\ DOMAIN builders = {1}
      /\ stack = <<1>> /\ DOMAIN stack = {1} /\ cache = <<>> /\ DOMAIN cache = {}
      /\ builders[1].options = 1 /\ stack[1] = 1 /\ root = 1 /\ current = 1
  BY DEF Init
<1>3. TypeBuilder
  <2>1. options \in Options
    BY FilledType DEF Init
  <2>2. current \in 1..MaxOptions
    BY <1>2, AnyXml2VarAssumption
  <2>3. builders \in Seq([object : DOMAIN dicts, options : 1..current])
    <3>1. [object |-> 1, options |-> 1] \in [object : DOMAIN dicts, options : 1..current]
      BY <1>1, <1>2
    <3> QED
      BY <1>2, <3>1
  <2>4. stack \in Seq(DOMAIN builders) /\ cache \in Seq(DOMAIN builders)
        /\ root \in DOMAIN builders
    BY <1>2
  <2>5. simple \in Seq(BOOLEAN) /\ rootName \in Name \cup {NoText}
        /\ {first, undefined, replaced} \subseteq BOOLEAN
    <3>1. simple = <<FALSE>> /\ first = TRUE /\ undefined = FALSE /\ replaced = FALSE
      BY Zenon DEF Init
    <3>2. <<FALSE>> \in Seq(BOOLEAN)
      OBVIOUS
    <3>3. rootName = NoText
      BY DEF Init
    <3> QED
      BY <3>1, <3>2, <3>3, Zenon
  <2>6. \A d \in DOMAIN dicts :
           DOMAIN dicts[d] \subseteq Keys /\ dicts[d] \in [DOMAIN dicts[d] -> Val]
    BY <1>1, DictsType
  <2> QED
    BY <2>1, <2>2, <2>3, <2>4, <2>5, <2>6 DEF TypeBuilder
<1>4. StringStack(text) /\ Len(text.stack) = 1
  <2> DEFINE h == <<<<>>>>
             s == <<1>>
             c == <<>>
  <2>1. h \in Seq(Seq(Char)) /\ 1 \in DOMAIN h /\ s \in Seq(DOMAIN h) /\ c \in Seq(DOMAIN h)
    OBVIOUS
  <2>2. IsInjective(s) /\ IsInjective(c) /\ DOMAIN c = {}
    BY DEF IsInjective
  <2>3. Last(s) = 1 /\ Len(s) = 1
    BY DEF Last
  <2>4. text = Strings(h, 1, s, c)
    BY DEF Init, Strings
  <2> HIDE DEF h, s, c
  <2>5. StringStack(Strings(h, 1, s, c))
    BY <2>1, <2>2, <2>3, StringStackIntro
  <2> QED
    BY <2>3, <2>4, <2>5 DEF Strings
<1>5. BuildersApart
  BY <1>2 DEF BuildersApart, IsInjective
<1>6. Heights
  BY <1>2, <1>4 DEF Heights, Init
<1>7. OwnOptions
  BY <1>2 DEF OwnOptions
<1>8. ParserInv
  BY <1>2, AnyXml2VarAssumption DEF ParserInv, TypeParser, Init
<1>9. StacksInStep /\ UndefinedOnlyAfterMisuse
  BY DEF StacksInStep, UndefinedOnlyAfterMisuse, Init
<1> QED
  BY <1>1, <1>3, <1>4, <1>5, <1>6, <1>7, <1>8, <1>9 DEF IInv, BuilderInv

\* Clear and Clear(options, error), at any time.
LEMMA ClearInv ==
  ASSUME IInv, Clear \/ \E o \in OptionSet : ClearOptions(o)
  PROVE  IInv'
<1>0. /\ BuilderInv /\ current \in 1..MaxOptions /\ options \in Options
      /\ MaxOptions \in Nat /\ MaxClears \in Nat
  BY AnyXml2VarAssumption DEF IInv, BuilderInv, TypeBuilder
<1>1. PICK opts \in 1..MaxOptions :
        /\ opts >= current /\ ClearWith(opts) /\ current' = opts /\ options' \in Options
        /\ undefined' = undefined /\ ~undefined /\ UNCHANGED parser
        /\ \/ opts = current /\ replaced' = replaced
           \/ replaced' = (replaced \/ cache # <<>>)
  <2>1. CASE Clear
    BY <1>0, <2>1 DEF Clear
  <2>2. CASE \E o \in OptionSet : ClearOptions(o)
    <3>1. PICK o \in OptionSet : ClearOptions(o)
      BY <2>2
    <3>2. Filled(o) \in Options
      BY FilledType
    <3>3. current + 1 \in 1..MaxOptions /\ current + 1 >= current
      BY <1>0, <3>1 DEF ClearOptions
    <3> QED
      BY <3>1, <3>2, <3>3 DEF ClearOptions
  <2> QED
    BY <2>1, <2>2
<1>2. /\ BuilderInv'
      /\ first' /\ Len(stack') = 1 /\ stack'[1] = root' /\ ~simple'[1]
  BY <1>0, <1>1, ClearStep
<1>3. clears' \in 0..MaxClears /\ mode' = IF phase = "before" THEN "ready" ELSE "stale"
  <2>1. clears \in 0..MaxClears /\ clears < MaxClears /\ clears' = clears + 1
    BY <1>1 DEF ClearWith, IInv, ParserInv, TypeParser
  <2> QED
    BY <1>0, <1>1, <2>1 DEF ClearWith
<1>4. ParserInv'
  BY <1>1, <1>2, <1>3 DEF parser, IInv, ParserInv, TypeParser
<1>5. StacksInStep' /\ UndefinedOnlyAfterMisuse'
  BY <1>1, <1>3 DEF StacksInStep, UndefinedOnlyAfterMisuse
<1> QED
  BY <1>2, <1>4, <1>5 DEF IInv

\* What the parser keeps of a document.
Elements == [el : Name, attrs : Attrs \cup {NoAttrs}, text : Seq(Char), parent : Nat]

\* The elements that have not ended are some of those that started.
LEMMA OpenElements ==
  ASSUME IInv, phase = "in"
  PROVE  /\ doc \in Seq(Elements) /\ open \in Seq(DOMAIN doc) /\ open # <<>>
         /\ Len(open) \in Nat \ {0}
         /\ Last(open) \in DOMAIN doc /\ doc[Last(open)] \in Elements
<1>1. doc \in Seq(Elements) /\ open \in Seq(DOMAIN doc) /\ open # <<>>
  BY DEF IInv, ParserInv, TypeParser, Elements
<1>2. Last(open) \in DOMAIN doc /\ Len(open) \in Nat \ {0}
  BY <1>1, FrontLast
<1>3. doc[Last(open)] \in Elements
  BY <1>1, <1>2, StackElements
<1> QED
  BY <1>1, <1>2, <1>3

\* OnText.
LEMMA ParseTextInv ==
  ASSUME IInv, NEW c \in Char, ParseText(c)
  PROVE  IInv'
<1>1. /\ ~undefined /\ phase = "in" /\ OnText(c)
      /\ doc' = [doc EXCEPT ![Last(open)].text = Append(@, c)]
      /\ UNCHANGED <<options, current, open, phase, mode, clears, replaced>>
  BY DEF ParseText
<1>2. /\ BuilderInv' /\ UNCHANGED <<undefined, stack, root, first, simple>>
      /\ Len(text'.stack) = Len(text.stack)
  BY <1>1, TextEventStep DEF IInv
<1>3. doc' \in Seq(Elements) /\ DOMAIN doc' = DOMAIN doc
  <2> DEFINE n == Last(open)
             e == [doc[n] EXCEPT !.text = Append(@, c)]
  <2>1. doc \in Seq(Elements) /\ n \in DOMAIN doc /\ doc[n] \in Elements
    BY <1>1, OpenElements
  <2>2. e \in Elements
    <3>1. Append(doc[n].text, c) \in Seq(Char)
      BY <2>1, AppendProperties DEF Elements
    <3> QED
      BY <2>1, <3>1 DEF Elements
  <2>3. doc' = [doc EXCEPT ![n] = e]
    BY <1>1
  <2> HIDE DEF n, e
  <2> QED
    BY <2>1, <2>2, <2>3, ExceptSeq, LenProperties
<1>4. ParserInv'
  BY <1>1, <1>2, <1>3 DEF IInv, ParserInv, TypeParser, Elements
<1>5. StacksInStep' /\ UndefinedOnlyAfterMisuse'
  BY <1>1, <1>2 DEF IInv, StacksInStep, UndefinedOnlyAfterMisuse
<1> QED
  BY <1>2, <1>4, <1>5 DEF IInv

\* OnStartElement.
LEMMA ParseStartInv ==
  ASSUME IInv, NEW el \in Name, NEW attrs \in Attrs \cup {NoAttrs}, ParseStart(el, attrs)
  PROVE  IInv'
<1>1. /\ ~undefined /\ phase \in {"before", "in"} /\ OnStartElement(el, attrs)
      /\ doc' = Append(doc, Element(el, attrs)) /\ open' = Append(open, Len(doc'))
      /\ phase' = "in"
      /\ mode' = IF phase = "before" THEN IF mode = "ready" THEN "used" ELSE "stale" ELSE mode
      /\ UNCHANGED <<options, current, clears, replaced>>
  BY DEF ParseStart
<1>2. /\ BuilderInv /\ ParserInv /\ Heights /\ simple \in Seq(BOOLEAN)
      /\ {first, undefined, replaced} \subseteq BOOLEAN
      /\ doc \in Seq(Elements) /\ open \in Seq(DOMAIN doc)
      /\ stack \in Seq(DOMAIN builders)
  BY DEF IInv, BuilderInv, TypeBuilder, ParserInv, TypeParser, Elements
<1>3. /\ doc' \in Seq(Elements) /\ open' \in Seq(DOMAIN doc') /\ open' # <<>>
      /\ Len(open) \in Nat /\ Len(open') = Len(open) + 1
  <2> DEFINE e == Element(el, attrs)
             D == DOMAIN Append(doc, e)
             n == Len(Append(doc, e))
  <2>1. e \in Elements
    <3>1. (IF open = <<>> THEN 0 ELSE Last(open)) \in Nat
      <4>1. CASE open = <<>>
        BY <4>1
      <4>2. CASE open # <<>>
        <5>1. Last(open) \in DOMAIN doc /\ DOMAIN doc = 1..Len(doc)
          BY <1>2, <4>2, FrontLast, LenProperties
        <5> QED
          BY <1>2, <4>2, <5>1
      <4> QED
        BY <4>1, <4>2
    <3>2. <<>> \in Seq(Char)
      OBVIOUS
    <3> QED
      BY <3>1, <3>2 DEF Element, Elements
  <2> HIDE DEF e
  <2>2. /\ Append(doc, e) \in Seq(Elements) /\ n = Len(doc) + 1 /\ Len(doc) \in Nat
        /\ D = 1..n /\ DOMAIN doc = 1..Len(doc)
    BY <1>2, <2>1, AppendProperties, LenProperties
  <2>3. n \in D /\ DOMAIN doc \subseteq D
    BY <2>2
  <2>4. doc' = Append(doc, e) /\ open' = Append(open, n) /\ DOMAIN doc' = D
    BY <1>1 DEF e
  <2> HIDE DEF n, D
  <2>5. open \in Seq(D)
    BY <1>2, <2>3, SeqMonotonic
  <2>6. /\ Append(open, n) \in Seq(D) /\ Append(open, n) # <<>>
        /\ Len(open) \in Nat /\ Len(Append(open, n)) = Len(open) + 1
    BY <2>3, <2>5, AppendStack
  <2> QED
    BY <2>2, <2>4, <2>6
<1>4. clears' \in 0..MaxClears /\ mode' \in {"used", "stale"}
  BY <1>1, <1>2 DEF ParserInv, TypeParser
<1>5. ParserInv'
  BY <1>1, <1>3, <1>4 DEF ParserInv, TypeParser, Elements
<1>6. CASE StartRoot(el, attrs)
  <2>1. /\ BuilderInv'
        /\ \/ undefined' /\ replaced
           \/ undefined' = undefined /\ ~first' /\ UNCHANGED <<stack, root, simple, text>>
    BY <1>1, <1>2, <1>6, StartRootStep
  <2>2. UndefinedOnlyAfterMisuse'
    BY <1>1, <2>1 DEF UndefinedOnlyAfterMisuse
  <2>3. ASSUME mode' = "used", ~undefined'
        PROVE  /\ Len(stack') = Len(open') /\ Len(simple') = Len(open')
               /\ Len(text'.stack) = Len(open')
               /\ stack'[1] = root' /\ ~simple'[1] /\ ~first'
    <3>1. first
      BY <1>6 DEF StartRoot
    <3>2. mode = "ready" /\ phase = "before"
      <4>1. CASE phase = "before"
        BY <1>1, <2>3, <4>1
      <4>2. CASE phase # "before"
        <5>1. mode = "used" /\ phase = "in"
          BY <1>1, <2>3, <4>2
        <5>2. ~first
          BY <1>1, <5>1 DEF IInv, StacksInStep
        <5> QED
          BY <3>1, <5>2
      <4> QED
        BY <4>1, <4>2
    <3>3. open = <<>> /\ Len(stack) = 1 /\ stack[1] = root /\ ~simple[1]
      BY <1>2, <3>2 DEF ParserInv
    <3>4. Len(open') = 1
      BY <1>3, <3>3
    <3> QED
      BY <1>2, <2>1, <2>3, <3>3, <3>4 DEF Heights
  <2>4. StacksInStep'
    BY <2>3 DEF StacksInStep
  <2> QED
    BY <1>5, <2>1, <2>2, <2>4 DEF IInv
<1>7. CASE StartInner(attrs)
  <2>1. /\ BuilderInv'
        /\ \/ undefined' /\ (simple = <<>> \/ replaced)
           \/ /\ undefined' = undefined /\ ~first' /\ root' = root
              /\ simple # <<>>
              /\ Len(stack') = Len(stack) + 1 /\ stack'[1] = stack[1]
              /\ simple'[1] => simple[1]
    BY <1>1, <1>2, <1>7, StartInnerStep
  <2>2. ASSUME mode' = "used" PROVE mode = "used" /\ phase = "in"
    <3>1. ~first
      BY <1>7 DEF StartInner
    <3>2. mode # "ready"
      BY <1>2, <3>1 DEF ParserInv
    <3> QED
      BY <1>1, <2>2, <3>2
  <2>3. ASSUME mode' = "used"
        PROVE  /\ Len(stack) = Len(open) /\ Len(simple) = Len(open) /\ Len(open) > 0
               /\ stack[1] = root /\ ~simple[1] /\ ~first
    <3>1. mode = "used" /\ phase = "in"
      BY <2>2, <2>3
    <3>2. Len(open) \in Nat \ {0}
      BY <3>1, OpenElements
    <3> QED
      BY <1>1, <3>1, <3>2 DEF IInv, StacksInStep
  <2>4. UndefinedOnlyAfterMisuse'
    <3> SUFFICES ASSUME undefined', mode' # "stale" PROVE replaced'
      BY DEF UndefinedOnlyAfterMisuse
    <3>1. mode' = "used"
      BY <1>4
    <3>2. simple # <<>>
      BY <2>3, <3>1
    <3> QED
      BY <1>1, <2>1, <3>2
  <2>5. StacksInStep'
    <3> SUFFICES ASSUME mode' = "used", ~undefined'
                 PROVE  /\ Len(stack') = Len(open') /\ Len(simple') = Len(open')
                        /\ Len(text'.stack) = Len(open')
                        /\ stack'[1] = root' /\ ~simple'[1] /\ ~first'
      BY DEF StacksInStep
    <3>1. Len(stack') = Len(open')
      BY <1>3, <2>1, <2>3
    <3>2. Len(simple') = Len(stack') /\ Len(text'.stack) = Len(stack')
      BY <2>1 DEF BuilderInv, Heights
    <3> QED
      BY <2>1, <2>3, <3>1, <3>2
  <2> QED
    BY <1>5, <2>1, <2>4, <2>5 DEF IInv
<1> QED
  BY <1>1, <1>6, <1>7 DEF OnStartElement

\* OnEndElement.
LEMMA ParseEndInv ==
  ASSUME IInv, ParseEnd
  PROVE  IInv'
<1> DEFINE el == doc[Last(open)].el
<1>1. /\ ~undefined /\ phase = "in" /\ OnEndElement(el) /\ open' = Front(open)
      /\ phase' = (IF Len(open) = 1 THEN "after" ELSE "in")
      /\ UNCHANGED <<options, current, doc, mode, clears, replaced>>
  BY DEF ParseEnd
<1>2. /\ doc \in Seq(Elements) /\ open \in Seq(DOMAIN doc) /\ open # <<>>
      /\ Len(open) \in Nat \ {0} /\ el \in Name
  BY <1>1, OpenElements DEF Elements
<1> HIDE DEF el
<1>3. /\ BuilderInv'
      /\ \/ undefined' /\ (simple = <<>> \/ replaced \/ (Len(stack) = 1 /\ simple[1]))
         \/ /\ undefined' = undefined /\ UNCHANGED <<root, first>>
            /\ Len(stack') = Len(stack) - 1
            /\ Len(stack) > 1 => stack'[1] = stack[1] /\ simple'[1] = simple[1]
  BY <1>1, <1>2, EndStep DEF IInv
<1>4. open' \in Seq(DOMAIN doc) /\ Len(open') = Len(open) - 1
  BY <1>1, <1>2, FrontLast
<1>5. phase' = "in" <=> open' # <<>>
  <2> DEFINE o == open'
  <2>o. o \in Seq(DOMAIN doc) /\ Len(o) = Len(open) - 1
    BY <1>4
  <2> HIDE DEF o
  <2>e. o = <<>> <=> Len(o) = 0
    BY <2>o, EmptySeq
  <2>1. open' = <<>> <=> Len(open) = 1
    BY <1>2, <2>o, <2>e DEF o
  <2>2. CASE Len(open) = 1
    BY <1>1, <2>1, <2>2
  <2>3. CASE Len(open) # 1
    BY <1>1, <2>1, <2>3
  <2> QED
    BY <2>2, <2>3
<1>6. ParserInv'
  BY <1>1, <1>4, <1>5 DEF IInv, ParserInv, TypeParser
<1>7. ASSUME mode = "used"
      PROVE  /\ Len(stack) = Len(open) /\ Len(simple) = Len(open)
             /\ stack[1] = root /\ ~simple[1] /\ ~first
  BY <1>1, <1>7 DEF IInv, StacksInStep
<1>8. UndefinedOnlyAfterMisuse'
  <2> SUFFICES ASSUME undefined', mode # "stale" PROVE replaced
    BY <1>1 DEF UndefinedOnlyAfterMisuse
  <2>1. mode = "used"
    BY <1>1 DEF IInv, ParserInv, TypeParser
  <2>2. simple # <<>>
    BY <1>2, <1>7, <2>1
  <2> QED
    BY <1>1, <1>3, <1>7, <2>1, <2>2
<1>9. StacksInStep'
  <2> SUFFICES ASSUME mode = "used", phase' = "in", ~undefined'
               PROVE  /\ Len(stack') = Len(open') /\ Len(simple') = Len(open')
                      /\ Len(text'.stack) = Len(open')
                      /\ stack'[1] = root' /\ ~simple'[1] /\ ~first'
    BY <1>1 DEF StacksInStep
  <2>1. Len(open) > 1
    <3>1. Len(open') # 0
      BY <1>4, <1>5, EmptySeq
    <3> QED
      BY <1>2, <1>4, <3>1
  <2>2. Len(stack') = Len(open')
    BY <1>3, <1>4, <1>7
  <2>3. Len(simple') = Len(stack') /\ Len(text'.stack) = Len(stack')
    BY <1>3 DEF BuilderInv, Heights
  <2> QED
    BY <1>3, <1>7, <2>1, <2>2, <2>3
<1> QED
  BY <1>3, <1>6, <1>8, <1>9 DEF IInv

\* Feed(..., last = true) leaves the builder alone.
LEMMA FeedInv ==
  ASSUME IInv, FeedLast \/ FeedFails
  PROVE  IInv'
<1>1. /\ ~undefined /\ phase' = "before" /\ open' = <<>> /\ doc' = <<>> /\ mode' = "stale"
      /\ UNCHANGED <<options, current, built, undefined, clears, replaced>>
  BY DEF FeedLast, FeedFails
<1>2. BuilderInv'
  BY <1>1 DEF built, IInv, BuilderInv, TypeBuilder, BuildersApart, Heights, OwnOptions
<1>3. ParserInv'
  <2>1. <<>> \in Seq(Elements) /\ <<>> \in Seq(DOMAIN doc')
    OBVIOUS
  <2> QED
    BY <1>1, <2>1 DEF IInv, ParserInv, TypeParser, Elements
<1>4. StacksInStep' /\ UndefinedOnlyAfterMisuse'
  BY <1>1 DEF StacksInStep, UndefinedOnlyAfterMisuse
<1> QED
  BY <1>2, <1>3, <1>4 DEF IInv

\* Every step preserves the invariant.
LEMMA NextInv == IInv /\ [Next]_vars => IInv'
<1> SUFFICES ASSUME IInv, [Next]_vars PROVE IInv'
  OBVIOUS
<1>1. CASE Clear \/ \E o \in OptionSet : ClearOptions(o)
  BY <1>1, ClearInv
<1>2. CASE \E el \in Name, attrs \in Attrs \cup {NoAttrs} : ParseStart(el, attrs)
  BY <1>2, ParseStartInv
<1>3. CASE ParseEnd
  BY <1>3, ParseEndInv
<1>4. CASE \E c \in Char : ParseText(c)
  BY <1>4, ParseTextInv
<1>5. CASE FeedLast \/ FeedFails
  BY <1>5, FeedInv
<1>6. CASE UNCHANGED vars
  BY <1>6 DEF vars, IInv, BuilderInv, TypeBuilder, BuildersApart, Heights, OwnOptions,
     ParserInv, TypeParser, StacksInStep, UndefinedOnlyAfterMisuse
<1> QED
  BY <1>1, <1>2, <1>3, <1>4, <1>5, <1>6 DEF Next

\* What the invariant says of the properties.
LEMMA InvImplies == IInv => TypeOK /\ NothingShared
<1> SUFFICES ASSUME IInv PROVE TypeOK /\ NothingShared
  OBVIOUS
<1>1. TypeText
  BY DEF IInv, BuilderInv, StringStack, TypeText
<1>2. TypeOK
  BY <1>1 DEF TypeOK, IInv, BuilderInv, ParserInv
<1>3. IsInjective(stack \o cache)
  <2>1. stack \in Seq(DOMAIN builders) /\ cache \in Seq(DOMAIN builders) /\ BuildersApart
    BY DEF IInv, BuilderInv, TypeBuilder
  <2> QED
    BY <2>1, ConcatInjective DEF BuildersApart
<1>4. IsInjective(text.stack \o text.cache)
  <2>1. StringStack(text)
    BY DEF IInv, BuilderInv
  <2>2. text.stack \in Seq(DOMAIN text.heap) /\ text.cache \in Seq(DOMAIN text.heap)
    BY <2>1, StringStackFields
  <2>3. /\ IsInjective(text.stack) /\ IsInjective(text.cache)
        /\ \A i \in DOMAIN text.stack, j \in DOMAIN text.cache : text.stack[i] # text.cache[j]
    BY <2>1 DEF StringStack
  <2> QED
    BY <2>2, <2>3, ConcatInjective
<1> QED
  BY <1>2, <1>3, <1>4 DEF NothingShared

-----------------------------------------------------------------------------
(***************************************************************************)
(* The theorems.                                                           *)
(***************************************************************************)

\* Every state of the builder, of StringStack and of the parser has its type:
\* every reference is to an object that exists.
THEOREM TypeCorrect == Spec => []TypeOK
BY InitInv, NextInv, InvImplies, PTL DEF Spec

\* No VarBuilder is used by two open elements or is both in use and in the cache
\* (new_var_builder, OnEndElement), and no string of StringStack is.
THEOREM Unshared == Spec => []NothingShared
BY InitInv, NextInv, InvImplies, PTL DEF Spec

\* The stacks of OnStartElement and OnEndElement are never used empty, and no
\* deleted Options object is read, unless the caller misuses Clear.
THEOREM DefinedWhenUsedWell == Spec => []UndefinedOnlyAfterMisuse
<1>1. IInv => UndefinedOnlyAfterMisuse
  BY DEF IInv
<1> QED
  BY <1>1, InitInv, NextInv, PTL DEF Spec

\* During a document started after Clear the three stacks have the height of the
\* open elements, and the root is at the bottom.
THEOREM InStep == Spec => []StacksInStep
<1>1. IInv => StacksInStep
  BY DEF IInv
<1> QED
  BY <1>1, InitInv, NextInv, PTL DEF Spec
=============================================================================
