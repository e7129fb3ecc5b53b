------------------------ MODULE AnyXml2VarResultProofs ------------------------
(***************************************************************************)
(* What the builder returns: the values of the dictionaries, and that they *)
(* stay, for all documents, options and bounds.                            *)
(***************************************************************************)
EXTENDS AnyXml2VarProofs

\* The value v refers to the dictionary r.
RefersTo(v, r) ==
    \/ ~IsList(v) /\ "ref" \in DOMAIN v /\ v.ref = r
    \/ IsList(v) /\ \E i \in DOMAIN v.list : "ref" \in DOMAIN v.list[i] /\ v.list[i].ref = r

\* The dictionary d refers to the dictionary r.
Cites(d, r) == \E k \in DOMAIN d : RefersTo(d[k], r)

\* Each of the dictionaries ds refers to later ones only.
Forward(ds) == \A d \in DOMAIN ds : \A r : Cites(ds[d], r) => r \in DOMAIN ds /\ r > d

-----------------------------------------------------------------------------
(***************************************************************************)
(* The values of dictionaries.                                             *)
(***************************************************************************)

\* The meaning of a dictionary depends on those it refers to alone.
LEMMA FollowedSame ==
  ASSUME NEW d, NEW f, NEW g, \A r : Cites(d, r) => f[r] = g[r]
  PROVE  Followed(f, d) = Followed(g, d)
<1> DEFINE new(h, k) == IF IsList(d[k]) THEN List([i \in DOMAIN d[k].list |-> Follow(h, d[k].list[i])])
                        ELSE Follow(h, d[k])
<1>1. ASSUME NEW k \in DOMAIN d PROVE new(f, k) = new(g, k)
  <2>1. CASE IsList(d[k])
    <3>1. ASSUME NEW i \in DOMAIN d[k].list
          PROVE  Follow(f, d[k].list[i]) = Follow(g, d[k].list[i])
      <4>1. CASE "ref" \in DOMAIN d[k].list[i]
        <5>1. RefersTo(d[k], d[k].list[i].ref)
          BY <2>1, <4>1 DEF RefersTo
        <5> QED
          BY <4>1, <5>1 DEF Follow, Cites
      <4> QED
        BY <4>1 DEF Follow
    <3>2. [i \in DOMAIN d[k].list |-> Follow(f, d[k].list[i])]
            = [i \in DOMAIN d[k].list |-> Follow(g, d[k].list[i])]
      BY <3>1
    <3> QED
      BY <2>1, <3>2
  <2>2. CASE ~IsList(d[k]) /\ "ref" \in DOMAIN d[k]
    <3>1. RefersTo(d[k], d[k].ref)
      BY <2>2 DEF RefersTo
    <3> QED
      BY <2>2, <3>1 DEF Follow, Cites
  <2>3. CASE ~IsList(d[k]) /\ "ref" \notin DOMAIN d[k]
    BY <2>3 DEF Follow
  <2> QED
    BY <2>1, <2>2, <2>3
<1>2. Followed(f, d) = [dict |-> [k \in DOMAIN d |-> new(f, k)]]
  BY DEF Followed
<1>3. Followed(g, d) = [dict |-> [k \in DOMAIN d |-> new(g, k)]]
  BY DEF Followed
<1> HIDE DEF new
<1>4. [k \in DOMAIN d |-> new(f, k)] = [k \in DOMAIN d |-> new(g, k)]
  BY <1>1
<1> QED
  BY <1>2, <1>3, <1>4

\* The dictionaries after the first n - k have values.
FixedFrom(ds, n, k, f) ==
    /\ f = [d \in DOMAIN ds |-> f[d]]
    /\ \A d \in DOMAIN ds : d > n - k => f[d] = Followed(f, ds[d])

\* One more of them has.
LEMMA OneMoreValue ==
  ASSUME NEW n \in Nat, NEW ds, DOMAIN ds = 1..n, Forward(ds),
         NEW k \in 0..(n - 1), NEW f, FixedFrom(ds, n, k, f)
  PROVE  \E g : FixedFrom(ds, n, k + 1, g)
<1>1. PICK e : e = n - k
  OBVIOUS
<1>2. e \in 1..n
  BY <1>1
<1>3. PICK w : w = Followed(f, ds[e])
  OBVIOUS
<1>4. PICK g : g = [d \in DOMAIN ds |-> IF d = e THEN w ELSE f[d]]
  OBVIOUS
<1>5. g = [d \in DOMAIN ds |-> g[d]] /\ g[e] = w /\ \A d \in DOMAIN ds : d # e => g[d] = f[d]
  BY <1>2, <1>4
<1>6. ASSUME NEW d \in DOMAIN ds, d >= e PROVE g[d] = Followed(g, ds[d])
  <2>1. \A r : Cites(ds[d], r) => f[r] = g[r]
    <3> SUFFICES ASSUME NEW r, Cites(ds[d], r) PROVE f[r] = g[r]
      OBVIOUS
    <3>1. r \in DOMAIN ds /\ r > d
      BY DEF Forward
    <3> QED
      BY <1>2, <1>5, <1>6, <3>1
  <2>2. Followed(f, ds[d]) = Followed(g, ds[d])
    BY <2>1, FollowedSame
  <2>3. g[d] = Followed(f, ds[d])
    <3>1. CASE d = e
      BY <3>1, <1>3, <1>5
    <3>2. CASE d # e
      BY <3>2, <1>1, <1>5, <1>6 DEF FixedFrom
    <3> QED
      BY <3>1, <3>2
  <2> QED
    BY <2>2, <2>3
<1>7. FixedFrom(ds, n, k + 1, g)
  BY <1>1, <1>5, <1>6 DEF FixedFrom
<1> QED
  BY <1>7

\* So all of them have, whatever their number is.
LEMMA ValuesExist ==
  ASSUME NEW n \in Nat, NEW ds, DOMAIN ds = 1..n, Forward(ds)
  PROVE  \E f : f = [d \in DOMAIN ds |-> Followed(f, ds[d])]
<1> DEFINE T == {k \in 0..n : ~ \E f : FixedFrom(ds, n, k, f)}
<1>1. T = {}
  <2> SUFFICES ASSUME T # {} PROVE FALSE
    OBVIOUS
  <2>1. T \in SUBSET Nat
    OBVIOUS
  <2>2. PICK k \in T : \A j \in T : k <= j
    BY <2>1, Smallest
  <2>3. k \in 0..n /\ ~ \E f : FixedFrom(ds, n, k, f)
    OBVIOUS
  <2>4. k # 0
    <3>1. FixedFrom(ds, n, 0, [d \in DOMAIN ds |-> 0])
      BY DEF FixedFrom
    <3> QED
      BY <3>1, <2>3
  <2>5. k - 1 \in 0..(n - 1) /\ k - 1 \notin T /\ (k - 1) + 1 = k
    BY <2>2, <2>3, <2>4
  <2>6. PICK f : FixedFrom(ds, n, k - 1, f)
    BY <2>5
  <2> HIDE DEF T
  <2>7. \E g : FixedFrom(ds, n, (k - 1) + 1, g)
    BY <2>5, <2>6, OneMoreValue
  <2> QED
    BY <2>3, <2>5, <2>7
<1>2. PICK f : FixedFrom(ds, n, n, f)
  <2>1. n \in 0..n
    OBVIOUS
  <2> QED
    BY <1>1, <2>1, Zenon
<1>3. f = [d \in DOMAIN ds |-> f[d]] /\ \A d \in DOMAIN ds : f[d] = Followed(f, ds[d])
  BY <1>2 DEF FixedFrom
<1> QED
  BY <1>3

\* The values of dictionaries that refer to later ones.
LEMMA ValuesAre ==
  ASSUME NEW n \in Nat, NEW ds, DOMAIN ds = 1..n, Forward(ds)
  PROVE  \A d \in DOMAIN ds : Values(ds)[d] = Followed(Values(ds), ds[d])
<1>1. \E f : f = [d \in DOMAIN ds |-> Followed(f, ds[d])]
  BY ValuesExist
<1>2. Values(ds) = CHOOSE f : f = [d \in DOMAIN ds |-> Followed(f, ds[d])]
  BY DEF Values
<1>3. Values(ds) = [d \in DOMAIN ds |-> Followed(Values(ds), ds[d])]
  BY <1>1, <1>2
<1> QED
  BY <1>3

\* The values of dictionaries that stay, with those they refer to, stay too.
LEMMA ValuesKept ==
  ASSUME NEW n \in Nat, NEW ds, DOMAIN ds = 1..n, Forward(ds),
         NEW m \in Nat, NEW es, DOMAIN es = 1..m, Forward(es),
         NEW D \in SUBSET (DOMAIN ds \cap DOMAIN es),
         \A d \in D : es[d] = ds[d] /\ \A r : Cites(ds[d], r) => r \in D
  PROVE  \A d \in D : Values(es)[d] = Values(ds)[d]
<1> DEFINE T == {k \in 0..n : \E d \in D : k = n - d /\ Values(es)[d] # Values(ds)[d]}
<1>1. T = {}
  <2> SUFFICES ASSUME T # {} PROVE FALSE
    OBVIOUS
  <2>1. T \in SUBSET Nat
    OBVIOUS
  <2>2. PICK k \in T : \A j \in T : k <= j
    BY <2>1, Smallest
  <2>3. PICK d \in D : k = n - d /\ Values(es)[d] # Values(ds)[d]
    OBVIOUS
  <2>4. \A r : Cites(ds[d], r) => Values(es)[r] = Values(ds)[r]
    <3> SUFFICES ASSUME NEW r, Cites(ds[d], r), Values(es)[r] # Values(ds)[r] PROVE FALSE
      OBVIOUS
    <3>1. r \in D /\ r \in 1..n /\ d \in 1..n /\ r > d
      BY DEF Forward
    <3>2. n - r \in T /\ n - r < k
      BY <2>3, <3>1
    <3>3. k <= n - r
      BY <2>2, <3>2, Zenon
    <3>4. k \in Int /\ n - r \in Int
      BY <2>3, <3>1
    <3> HIDE DEF T
    <3> QED
      BY <3>2, <3>3, <3>4
  <2>5. Followed(Values(es), ds[d]) = Followed(Values(ds), ds[d])
    BY <2>4, FollowedSame
  <2>6. Values(es)[d] = Followed(Values(es), es[d]) /\ Values(ds)[d] = Followed(Values(ds), ds[d])
    BY ValuesAre
  <2> QED
    BY <2>3, <2>5, <2>6
<1>2. \A d \in D : n - d \in 0..n
  OBVIOUS
<1> QED
  BY <1>1, <1>2

-----------------------------------------------------------------------------
(***************************************************************************)
(* What dictionaries refer to.                                             *)
(***************************************************************************)

\* No dictionary of ds refers to one of the set A, or to an earlier one.
NoneCites(ds, A) ==
    \A d \in DOMAIN ds : \A r : Cites(ds[d], r) => r \in DOMAIN ds /\ r > d /\ r \notin A

\* A text and attributes refer to nothing, a reference to its dictionary.
LEMMA ItemRefers ==
  ASSUME NEW r, NEW x
  PROVE  ~RefersTo(Str(x), r) /\ ~RefersTo(AttrDict(x), r) /\ (RefersTo(Ref(x), r) => r = x)
BY DEF RefersTo, Str, AttrDict, Ref, IsList

\* Setting a key.
LEMMA SetCites ==
  ASSUME NEW d, NEW key, NEW v, NEW r, Cites(SetDictKeyValue(d, key, v), r)
  PROVE  Cites(d, r) \/ RefersTo(v, r)
BY DEF Cites, SetDictKeyValue

\* Appending to the list of a key.
LEMMA AppendCites ==
  ASSUME NEW d \in Dict, NEW key, NEW v \in Item, NEW ex, NEW r,
         Cites(AppendToDictKeyList(d, key, v, ex), r)
  PROVE  Cites(d, r) \/ RefersTo(v, r)
<1> DEFINE new == IF key \in DOMAIN d THEN List(Append(AsList(d[key]), v))
                  ELSE IF ex THEN List(<<v>>) ELSE v
<1>1. Cites(d, r) \/ RefersTo(new, r)
  <2> HIDE DEF new
  <2>1. AppendToDictKeyList(d, key, v, ex) = SetDictKeyValue(d, key, new)
    BY DEF AppendToDictKeyList, new
  <2> QED
    BY <2>1, SetCites
<1>2. ~IsList(v)
  BY DEF Item, IsList
<1>3. ASSUME NEW s \in Seq(Item), RefersTo(List(Append(s, v)), r)
      PROVE  RefersTo(v, r) \/ \E i \in DOMAIN s : "ref" \in DOMAIN s[i] /\ s[i].ref = r
  <2>1. List(Append(s, v)).list = Append(s, v) /\ IsList(List(Append(s, v)))
    BY DEF List, IsList
  <2>2. PICK i \in DOMAIN Append(s, v) : "ref" \in DOMAIN Append(s, v)[i] /\ Append(s, v)[i].ref = r
    BY <1>3, <2>1 DEF RefersTo
  <2>3. Append(s, v)[i] = v \/ (i \in DOMAIN s /\ Append(s, v)[i] = s[i])
    BY AppendProperties, LenProperties
  <2> QED
    BY <2>2, <2>3, <1>2 DEF RefersTo
<1>4. CASE key \in DOMAIN d /\ RefersTo(new, r)
  <2>1. d[key] \in Val
    BY <1>4 DEF Dict
  <2>2. CASE IsList(d[key])
    <3>1. d[key].list \in Seq(Item) /\ AsList(d[key]) = d[key].list
      BY <2>1, <2>2 DEF Val, Item, IsList, AsList
    <3>2. RefersTo(v, r) \/ \E i \in DOMAIN d[key].list :
                                "ref" \in DOMAIN d[key].list[i] /\ d[key].list[i].ref = r
      BY <1>3, <1>4, <3>1
    <3> QED
      BY <1>4, <2>2, <3>2 DEF Cites, RefersTo
  <2>3. CASE ~IsList(d[key])
    <3>1. d[key] \in Item
      BY <2>1, <2>3 DEF Val, IsList
    <3>2. <<d[key]>> \in Seq(Item) /\ AsList(d[key]) = <<d[key]>>
      BY <2>3, <3>1 DEF AsList
    <3>3. RefersTo(v, r) \/ \E i \in DOMAIN <<d[key]>> :
                                "ref" \in DOMAIN <<d[key]>>[i] /\ <<d[key]>>[i].ref = r
      BY <1>3, <1>4, <3>2
    <3>4. \A i \in DOMAIN <<d[key]>> : <<d[key]>>[i] = d[key]
      OBVIOUS
    <3> QED
      BY <1>4, <2>3, <3>3, <3>4 DEF Cites, RefersTo
  <2> QED
    BY <2>2, <2>3
<1>5. CASE key \notin DOMAIN d /\ RefersTo(new, r)
  <2>1. CASE ex
    <3>1. List(<<v>>) = List(Append(<<>>, v)) /\ <<>> \in Seq(Item)
      OBVIOUS
    <3>2. RefersTo(List(Append(<<>>, v)), r)
      BY <1>5, <2>1, <3>1
    <3>3. RefersTo(v, r) \/ \E i \in DOMAIN <<>> : "ref" \in DOMAIN <<>>[i] /\ <<>>[i].ref = r
      BY <1>3, <3>1, <3>2
    <3> QED
      BY <3>3
  <2>2. CASE ~ex
    BY <1>5, <2>2
  <2> QED
    BY <2>1, <2>2
<1> QED
  BY <1>1, <1>4, <1>5

\* One dictionary changes: what is new in it refers to a later one outside B.
LEMMA ChangeCites ==
  ASSUME NEW ds, NEW A, NoneCites(ds, A), NEW o \in DOMAIN ds, NEW d, NEW B,
         \A x \in B : x \in A,
         \A r : Cites(d, r) => Cites(ds[o], r) \/ (r \in DOMAIN ds /\ r > o /\ r \notin B)
  PROVE  NoneCites([ds EXCEPT ![o] = d], B)
<1>1. ASSUME NEW e \in DOMAIN ds, NEW r, Cites([ds EXCEPT ![o] = d][e], r)
      PROVE  r \in DOMAIN ds /\ r > e /\ r \notin B
  <2>1. CASE e = o
    BY <1>1, <2>1 DEF NoneCites
  <2>2. CASE e # o
    BY <1>1, <2>2 DEF NoneCites
  <2> QED
    BY <2>1, <2>2
<1> QED
  BY <1>1 DEF NoneCites

\* A dictionary without references is added, and may be in B.
LEMMA GrowCites ==
  ASSUME NEW ds \in Seq(Dict), NEW A, NoneCites(ds, A), NEW d, \A r : ~Cites(d, r), NEW B,
         \A x \in B : x \in DOMAIN ds => x \in A
  PROVE  NoneCites(Append(ds, d), B)
<1>1. /\ DOMAIN Append(ds, d) = 1..(Len(ds) + 1) /\ Append(ds, d)[Len(ds) + 1] = d
      /\ DOMAIN ds = 1..Len(ds) /\ Len(ds) \in Nat
      /\ \A e \in 1..Len(ds) : Append(ds, d)[e] = ds[e]
  BY AppendProperties, LenProperties
<1>2. ASSUME NEW e \in 1..(Len(ds) + 1), NEW r, Cites(Append(ds, d)[e], r)
      PROVE  r \in 1..(Len(ds) + 1) /\ r > e /\ r \notin B
  <2>1. e \in DOMAIN ds /\ Append(ds, d)[e] = ds[e]
    BY <1>1, <1>2
  <2>2. r \in DOMAIN ds /\ r > e /\ r \notin A
    BY <1>2, <2>1 DEF NoneCites
  <2> QED
    BY <1>1, <2>2
<1> QED
  BY <1>1, <1>2 DEF NoneCites

-----------------------------------------------------------------------------
(***************************************************************************)
(* The dictionaries that may still be written to.                          *)
(***************************************************************************)

\* The dictionary of a builder.
Object(b) == builders[b].object

\* The dictionaries of the open elements, and of the root before it starts.
Active ==
    {o \in DOMAIN dicts : \/ \E i \in DOMAIN stack : Object(stack[i]) = o
                          \/ first /\ Object(root) = o}

\* Each builder has a dictionary of its own.
ObjectsApart == \A a, b \in DOMAIN builders : Object(a) = Object(b) => a = b

\* An inner element has a later dictionary.
Rising == \A i, j \in DOMAIN stack : i < j => Object(stack[i]) < Object(stack[j])

\* Before the root starts there is nothing else on the stack.
FirstAlone == first => Len(stack) <= 1 /\ (stack # <<>> => stack[1] = root)

\* What concerns the dictionaries of the builder.
ObjectInv ==
    /\ ObjectsApart
    /\ Rising
    /\ FirstAlone
    /\ NoneCites(dicts, Active)

\* What var() returned is not written to any more.
ResultsDone == \A i \in DOMAIN results : results[i].object \in DOMAIN dicts \ Active

\* After a document nothing is open.
Returned == (mode = "used" /\ phase = "after" /\ ~undefined) => stack = <<>> /\ ~first

\* A step that writes to no other dictionaries, and makes none of them active.
KeepsDone ==
    /\ DOMAIN dicts \subseteq DOMAIN dicts'
    /\ \A d \in DOMAIN dicts \ Active : dicts'[d] = dicts[d] /\ d \notin Active'

\* Such a step keeps what was returned.
LEMMA ResultsKept ==
  ASSUME BuilderInv, BuilderInv', ObjectInv, ObjectInv', KeepsDone, results' = results,
         ResultsDone, ResultsStay
  PROVE  ResultsDone' /\ ResultsStay'
<1>1. /\ dicts \in Seq(Dict) /\ dicts' \in Seq(Dict)
      /\ NoneCites(dicts, Active) /\ NoneCites(dicts', Active')
  BY DEF BuilderInv, ObjectInv
<1>2. /\ DOMAIN dicts = 1..Len(dicts) /\ Len(dicts) \in Nat
      /\ DOMAIN dicts' = 1..Len(dicts') /\ Len(dicts') \in Nat
  BY <1>1, LenProperties
<1>3. Forward(dicts) /\ Forward(dicts')
  BY <1>1 DEF Forward, NoneCites
<1>4. PICK D : D = DOMAIN dicts \ Active
  OBVIOUS
<1>5. /\ D \in SUBSET (DOMAIN dicts \cap DOMAIN dicts')
      /\ \A d \in D : dicts'[d] = dicts[d] /\ \A r : Cites(dicts[d], r) => r \in D
  BY <1>1, <1>4 DEF KeepsDone, NoneCites
<1>6. \A d \in D : Values(dicts')[d] = Values(dicts)[d]
  BY <1>2, <1>3, <1>5, ValuesKept
<1>7. \A i \in DOMAIN results : results[i].object \in D
  BY <1>4 DEF ResultsDone
<1>8. ResultsDone'
  BY <1>4, <1>7 DEF ResultsDone, KeepsDone
<1>9. ResultsStay'
  BY <1>6, <1>7 DEF ResultsStay
<1> QED
  BY <1>8, <1>9

\* new_var_builder and InitAsDict: the builder they return has the next
\* dictionary, the others keep theirs.
LEMMA NewObject ==
  ASSUME BuilderInv, NEW opts
  PROVE  /\ BuildersAfterNew(opts)[NewBuilder].object = Len(dicts) + 1
         /\ \A b \in DOMAIN BuildersAfterNew(opts) :
               b = NewBuilder \/ (b \in DOMAIN builders /\ BuildersAfterNew(opts)[b] = builders[b])
         /\ \A b \in DOMAIN builders : b # NewBuilder => BuildersAfterNew(opts)[b] = builders[b]
<1> DEFINE R == [object : DOMAIN dicts, options : 1..current]
<1>0. builders \in Seq(R) /\ cache \in Seq(DOMAIN builders)
  BY DEF BuilderInv, TypeBuilder
<1>1. CASE cache = <<>>
  <2>1. PICK r : r = [object |-> NewDict, options |-> opts]
    OBVIOUS
  <2>2. BuildersAfterNew(opts) = Append(builders, r) /\ NewBuilder = Len(builders) + 1
    BY <1>1, <2>1 DEF BuildersAfterNew, NewBuilder
  <2>3. r.object = Len(dicts) + 1
    BY <2>1 DEF NewDict
  <2> HIDE DEF R
  <2>4. PICK S : builders \in Seq(S) /\ r \in S
    <3>1. builders \in Seq(R \cup {r})
      BY <1>0, SeqMonotonic
    <3> QED
      BY <3>1
  <2>5. /\ DOMAIN Append(builders, r) = 1..(Len(builders) + 1)
        /\ Append(builders, r)[Len(builders) + 1] = r
        /\ DOMAIN builders = 1..Len(builders) /\ Len(builders) \in Nat
        /\ \A b \in 1..Len(builders) : Append(builders, r)[b] = builders[b]
    BY <2>4, AppendProperties, LenProperties
  <2> QED
    BY <2>2, <2>3, <2>5
<1>2. CASE cache # <<>>
  <2>1. PICK x : x = Last(cache)
    OBVIOUS
  <2>2. x \in DOMAIN builders
    BY <1>0, <1>2, <2>1, FrontLast
  <2>3. NewBuilder = x /\ BuildersAfterNew(opts) = [builders EXCEPT ![x].object = NewDict]
    BY <1>2, <2>1 DEF BuildersAfterNew, NewBuilder
  <2>4. builders[x] \in R
    <3>1. builders \in Seq(R)
      BY <1>0
    <3> HIDE DEF R
    <3> QED
      BY <3>1, <2>2
  <2>5. [builders[x] EXCEPT !.object = NewDict].object = Len(dicts) + 1
    BY <2>4 DEF NewDict
  <2> HIDE DEF R
  <2> QED
    BY <2>2, <2>3, <2>5
<1> QED
  BY <1>1, <1>2

\* Clear.
LEMMA ClearObjects ==
  ASSUME BuilderInv, ObjectInv, NEW opts \in Nat, opts >= current, ClearWith(opts)
  PROVE  ObjectInv' /\ KeepsDone
<1>1. /\ builders' = BuildersAfterNew(opts) /\ dicts' = Append(dicts, EmptyDict)
      /\ root' = NewBuilder /\ stack' = <<NewBuilder>> /\ first' = TRUE
  BY DEF ClearWith
<1>n. PICK n : n = NewBuilder
  OBVIOUS
<1>2. /\ dicts \in Seq(Dict) /\ DOMAIN dicts = 1..Len(dicts) /\ Len(dicts) \in Nat
      /\ \A b \in DOMAIN builders : Object(b) \in DOMAIN dicts
  BY ObjectExists, LenProperties DEF BuilderInv, Object
<1>3. /\ Object(n)' = Len(dicts) + 1
      /\ \A b \in DOMAIN builders' : b = n \/ (b \in DOMAIN builders /\ Object(b)' = Object(b))
  <2>1. builders'[n].object = Len(dicts) + 1
    BY <1>1, <1>n, NewObject
  <2>2. \A b \in DOMAIN builders' : b = n \/ (b \in DOMAIN builders /\ builders'[b] = builders[b])
    BY <1>1, <1>n, NewObject
  <2> QED
    BY <1>1, <2>1, <2>2 DEF Object
<1>4. ObjectsApart'
  BY <1>2, <1>3 DEF ObjectInv, ObjectsApart
<1>5. Rising' /\ FirstAlone'
  BY <1>1 DEF Rising, FirstAlone
<1>6. DOMAIN dicts' = 1..(Len(dicts) + 1) /\ \A d \in 1..Len(dicts) : dicts'[d] = dicts[d]
  BY <1>1, <1>2, EmptyDictType, AppendProperties, LenProperties
<1>7. \A x \in Active' : x = Len(dicts) + 1
  <2>1. root' = n /\ stack' = <<n>>
    BY <1>1, <1>n
  <2>2. \A i \in DOMAIN stack' : stack'[i] = n
    BY <2>1
  <2> QED
    BY <1>3, <2>1, <2>2 DEF Active
<1>8. \A r : ~Cites(EmptyDict, r)
  BY DEF Cites, EmptyDict
<1>9. NoneCites(dicts', Active')
  BY <1>1, <1>2, <1>7, <1>8, GrowCites DEF ObjectInv
<1>10. KeepsDone
  BY <1>2, <1>6, <1>7 DEF KeepsDone
<1> QED
  BY <1>4, <1>5, <1>9, <1>10 DEF ObjectInv

\* A step that leaves the dictionaries and who has them alone.
LEMMA SameObjects ==
  ASSUME ObjectInv, UNCHANGED <<builders, dicts, stack, root, first>>
  PROVE  ObjectInv' /\ KeepsDone
<1>1. Active' = Active
  BY DEF Active, Object
<1>2. ObjectsApart' /\ Rising' /\ FirstAlone'
  BY DEF ObjectInv, ObjectsApart, Rising, FirstAlone, Object
<1>3. NoneCites(dicts', Active')
  BY <1>1 DEF ObjectInv
<1> QED
  BY <1>1, <1>2, <1>3 DEF ObjectInv, KeepsDone

\* Attributes refer to nothing.
LEMMA AttrCites ==
  ASSUME NEW d, NEW attrs, NEW r, Cites(SetAttrKey(d, attrs), r)
  PROVE  Cites(d, r)
BY SetCites, ItemRefers DEF SetAttrKey

\* OnStartElement for the root.
LEMMA StartRootObjects ==
  ASSUME BuilderInv, ObjectInv, NEW el, NEW attrs, StartRoot(el, attrs)
  PROVE  ObjectInv' /\ KeepsDone
<1>1. CASE Undefined
  BY <1>1, SameObjects DEF Undefined, built
<1>2. CASE ~Undefined
  <2>1. PICK o : o = Object(root)
    OBVIOUS
  <2>2. PICK d : d = SetAttrKey(dicts[o], attrs)
    OBVIOUS
  <2>3. /\ dicts' = [dicts EXCEPT ![o] = d] /\ first /\ ~first'
        /\ UNCHANGED <<builders, stack, root>>
    BY <1>2, <2>1, <2>2 DEF StartRoot, Object
  <2>4. o \in DOMAIN dicts /\ DOMAIN dicts' = DOMAIN dicts
    BY <2>1, <2>3, ObjectExists DEF BuilderInv, TypeBuilder, Object
  <2>5. o \in Active /\ \A x \in Active' : x \in Active
    BY <2>1, <2>3, <2>4 DEF Active, Object
  <2>6. ObjectsApart' /\ Rising' /\ FirstAlone'
    BY <2>3 DEF ObjectInv, ObjectsApart, Rising, FirstAlone, Object
  <2>7. \A r : Cites(d, r) => Cites(dicts[o], r)
    BY <2>2, AttrCites
  <2>8. NoneCites(dicts', Active')
    BY <2>3, <2>4, <2>5, <2>7, ChangeCites DEF ObjectInv
  <2>9. KeepsDone
    BY <2>3, <2>4, <2>5 DEF KeepsDone
  <2> QED
    BY <2>6, <2>8, <2>9 DEF ObjectInv
<1> QED
  BY <1>1, <1>2

\* OnStartElement for another element.
LEMMA StartInnerObjects ==
  ASSUME BuilderInv, ObjectInv, NEW attrs \in Attrs \cup {NoAttrs}, StartInner(attrs)
  PROVE  ObjectInv' /\ KeepsDone
<1>1. CASE Undefined
  BY <1>1, SameObjects DEF Undefined, built
<1>2. CASE ~Undefined
  <2>n. PICK n : n = NewBuilder
    OBVIOUS
  <2>m. PICK m : m = Len(stack) + 1
    OBVIOUS
  <2>d. PICK d : d = SetAttrKey(EmptyDict, attrs)
    OBVIOUS
  <2>1. /\ builders' = BuildersAfterNew(current) /\ dicts' = Append(dicts, d)
        /\ stack' = Append(stack, n) /\ ~first /\ UNCHANGED <<root, first>>
    BY <1>2, <2>n, <2>d DEF StartInner
  <2>2. /\ dicts \in Seq(Dict) /\ DOMAIN dicts = 1..Len(dicts) /\ Len(dicts) \in Nat
        /\ \A b \in DOMAIN builders : Object(b) \in DOMAIN dicts
    BY ObjectExists, LenProperties DEF BuilderInv, Object
  <2>3. /\ Object(n)' = Len(dicts) + 1
        /\ \A b \in DOMAIN builders' : b = n \/ (b \in DOMAIN builders /\ Object(b)' = Object(b))
        /\ \A b \in DOMAIN builders : b # n => Object(b)' = Object(b)
    <3>1. builders'[n].object = Len(dicts) + 1
      BY <2>1, <2>n, NewObject
    <3>2. /\ \A b \in DOMAIN builders' : b = n \/ (b \in DOMAIN builders /\ builders'[b] = builders[b])
          /\ \A b \in DOMAIN builders : b # n => builders'[b] = builders[b]
      BY <2>1, <2>n, NewObject
    <3> QED
      BY <3>1, <3>2 DEF Object
  <2>4. stack \in Seq(DOMAIN builders) /\ \A i \in DOMAIN stack : stack[i] # n /\ stack[i] \in DOMAIN builders
    <3>1. stack \in Seq(DOMAIN builders) /\ current \in Nat
      BY DEF BuilderInv, TypeBuilder
    <3>2. current >= current
      BY <3>1
    <3>3. \A i \in DOMAIN stack : stack[i] # n
      BY <3>1, <3>2, <2>n, NewBuilderLemma
    <3> QED
      BY <3>1, <3>3, StackElements
  <2>5. /\ DOMAIN stack = 1..Len(stack) /\ Len(stack) \in Nat
        /\ DOMAIN stack' = 1..(Len(stack) + 1) /\ stack'[Len(stack) + 1] = n
        /\ \A i \in DOMAIN stack : stack'[i] = stack[i]
    <3>1. PICK S : stack \in Seq(S) /\ n \in S
      <4>1. stack \in Seq(DOMAIN builders \cup {n})
        BY <2>4, SeqMonotonic
      <4> QED
        BY <4>1
    <3> QED
      BY <3>1, <2>1, AppendProperties, LenProperties
  <2>6. ObjectsApart'
    BY <2>2, <2>3 DEF ObjectInv, ObjectsApart
  <2>7. \A i \in DOMAIN stack : Object(stack[i])' = Object(stack[i]) /\ Object(stack[i]) \in 1..Len(dicts)
    BY <2>2, <2>3, <2>4, <2>5 DEF Object
  <2>8. Object(stack[m])' = Len(dicts) + 1
    <3>1. stack'[m] = n
      BY <2>m, <2>5
    <3> QED
      BY <3>1, <2>3 DEF Object
  <2>9. Rising'
    <3> SUFFICES ASSUME NEW i \in DOMAIN stack', NEW j \in DOMAIN stack', i < j
                 PROVE  Object(stack[i])' < Object(stack[j])'
      BY DEF Rising
    <3>1. i \in DOMAIN stack /\ (j \in DOMAIN stack \/ j = m)
      BY <2>m, <2>5
    <3>2. CASE j \in DOMAIN stack
      BY <3>1, <3>2, <2>7 DEF ObjectInv, Rising
    <3>3. CASE j = m
      BY <3>1, <3>3, <2>2, <2>7, <2>8
    <3> QED
      BY <3>1, <3>2, <3>3
  <2>10. FirstAlone'
    BY <2>1 DEF FirstAlone
  <2>11. d \in Dict /\ \A r : ~Cites(d, r)
    <3>1. \A r : ~Cites(EmptyDict, r)
      BY DEF Cites, EmptyDict
    <3> QED
      BY <3>1, <2>d, AttrCites, EmptyDictType, SetAttrKeyType
  <2>12. DOMAIN dicts' = 1..(Len(dicts) + 1) /\ \A e \in 1..Len(dicts) : dicts'[e] = dicts[e]
    BY <2>1, <2>2, <2>11, AppendProperties, LenProperties
  <2>13. \A x \in Active' : x \in DOMAIN dicts => x \in Active
    <3> SUFFICES ASSUME NEW x \in Active', x \in DOMAIN dicts PROVE x \in Active
      OBVIOUS
    <3>1. PICK i \in DOMAIN stack' : Object(stack[i])' = x
      BY <2>1 DEF Active
    <3>2. i \in DOMAIN stack
      BY <3>1, <2>m, <2>2, <2>5, <2>8
    <3>3. Object(stack[i]) = x
      BY <3>1, <3>2, <2>7
    <3> QED
      BY <3>2, <3>3 DEF Active
  <2>14. NoneCites(dicts', Active')
    BY <2>1, <2>2, <2>11, <2>13, GrowCites DEF ObjectInv
  <2>15. KeepsDone
    BY <2>2, <2>12, <2>13 DEF KeepsDone
  <2> QED
    BY <2>6, <2>9, <2>10, <2>14, <2>15 DEF ObjectInv
<1> QED
  BY <1>1, <1>2

\* The top of the stack is taken off: the dictionary of that builder is not
\* written to any more.
LEMMA PopObjects ==
  ASSUME BuilderInv, ObjectInv, stack # <<>>, stack' = Front(stack),
         UNCHANGED <<builders, root, first>>, DOMAIN dicts' = DOMAIN dicts
  PROVE  /\ ObjectsApart' /\ Rising' /\ FirstAlone'
         /\ \A x \in Active' : x \in Active
         /\ ~first => Object(Last(stack)) \notin Active'
<1>1. stack \in Seq(DOMAIN builders)
  BY DEF BuilderInv, TypeBuilder
<1>2. /\ DOMAIN stack = 1..Len(stack) /\ Len(stack) \in Nat \ {0}
      /\ DOMAIN stack' = 1..(Len(stack) - 1) /\ Len(stack') = Len(stack) - 1
      /\ \A i \in DOMAIN stack' : i \in DOMAIN stack /\ stack'[i] = stack[i]
      /\ Last(stack) = stack[Len(stack)]
  BY <1>1, FrontLast, FrontDomain
<1>3. ObjectsApart'
  BY DEF ObjectInv, ObjectsApart, Object
<1>4. \A i \in DOMAIN stack' : Object(stack[i])' = Object(stack[i])
  BY <1>2 DEF Object
<1>5. Rising'
  BY <1>2, <1>4 DEF ObjectInv, Rising
<1>6. FirstAlone'
  <2> SUFFICES ASSUME first PROVE Len(stack') <= 1 /\ stack' = <<>>
    BY DEF FirstAlone
  <2>1. Len(stack) <= 1
    BY DEF ObjectInv, FirstAlone
  <2>2. Len(stack') = 0 /\ stack' \in Seq(DOMAIN builders)
    BY <1>1, <1>2, <2>1, FrontLast
  <2> QED
    BY <2>2
<1>7. \A x \in Active' : x \in Active
  BY <1>2, <1>4 DEF Active, Object
<1>8. ASSUME ~first, Object(Last(stack)) \in Active' PROVE FALSE
  <2>1. PICK i \in DOMAIN stack' : Object(stack[i])' = Object(Last(stack))
    BY <1>8 DEF Active
  <2>2. i \in DOMAIN stack /\ Len(stack) \in DOMAIN stack /\ i < Len(stack)
    BY <1>2
  <2>3. Object(stack[i]) < Object(stack[Len(stack)])
    BY <2>2 DEF ObjectInv, Rising
  <2>4. Object(stack[i]) = Object(stack[Len(stack)])
    BY <1>2, <1>4, <2>1
  <2>5. Object(stack[i]) \in Nat
    <3>1. stack[i] \in DOMAIN builders
      BY <1>1, <2>2, StackElements
    <3>2. builders[stack[i]].object \in DOMAIN dicts /\ dicts \in Seq(Dict)
      BY <3>1, ObjectExists DEF BuilderInv
    <3> QED
      BY <3>2, LenProperties DEF Object
  <2> QED
    BY <2>3, <2>4, <2>5
<1> QED
  BY <1>3, <1>5, <1>6, <1>7, <1>8

\* The text of an element refers to nothing.
LEMMA TextCites ==
  ASSUME BuilderInv, NEW A, NoneCites(dicts, A), NEW b \in DOMAIN builders,
         NEW B, \A x \in B : x \in A
  PROVE  /\ NoneCites(DictsWithText(b), B)
         /\ \A d \in DOMAIN dicts : d # Object(b) => DictsWithText(b)[d] = dicts[d]
<1>1. PICK o : o = Object(b)
  OBVIOUS
<1>2. o \in DOMAIN dicts
  BY <1>1, ObjectExists DEF Object
<1>3. CASE TopString(EndText) = <<>>
  BY <1>3 DEF DictsWithText, NoneCites
<1>4. CASE TopString(EndText) # <<>>
  <2>1. PICK d : d = SetDictKeyValue(dicts[o], options.textkey, Str(TopString(EndText)))
    OBVIOUS
  <2>2. DictsWithText(b) = [dicts EXCEPT ![o] = d]
    BY <1>1, <1>4, <2>1 DEF DictsWithText, Object
  <2>3. \A r : Cites(d, r) => Cites(dicts[o], r) \/ (r \in DOMAIN dicts /\ r > o /\ r \notin B)
    BY <2>1, SetCites, ItemRefers
  <2>4. NoneCites([dicts EXCEPT ![o] = d], B)
    BY <1>2, <2>3, ChangeCites
  <2> QED
    BY <1>1, <2>2, <2>4
<1> QED
  BY <1>3, <1>4

\* OnEndElement.
LEMMA EndObjects ==
  ASSUME BuilderInv, ObjectInv, NEW el \in Name, OnEndElement(el), DOMAIN dicts' = DOMAIN dicts
  PROVE  ObjectInv' /\ KeepsDone
<1>1. CASE Undefined
  BY <1>1, SameObjects DEF Undefined, built
<1>2. CASE ~Undefined
  <2>0. stack \in Seq(DOMAIN builders) /\ dicts \in Seq(Dict)
    BY DEF BuilderInv, TypeBuilder
  <2>1. stack # <<>> /\ stack' = Front(stack) /\ UNCHANGED <<builders, root, first>>
    BY <1>2, <2>0 DEF OnEndElement, EndSimple, EndOther, EndUnderflow
  <2>2. PICK last : last = Last(stack)
    OBVIOUS
  <2>3. PICK up : up = Last(Front(stack))
    OBVIOUS
  <2>4. PICK o : o = Object(last)
    OBVIOUS
  <2>5. PICK u : u = Object(up)
    OBVIOUS
  <2>6. Len(stack) \in Nat \ {0} /\ last = stack[Len(stack)] /\ Len(stack) \in DOMAIN stack
    BY <2>0, <2>1, <2>2, FrontLast, FrontDomain
  <2>7. last \in DOMAIN builders /\ o \in DOMAIN dicts /\ o \in Active
    <3>1. last \in DOMAIN builders
      BY <2>1, <2>2, TopBuilders
    <3>2. o \in DOMAIN dicts
      BY <3>1, <2>4, ObjectExists DEF Object
    <3> QED
      BY <3>1, <3>2, <2>4, <2>6 DEF Active
  <2>8. ASSUME Len(stack) > 1
        PROVE  ~first /\ up \in DOMAIN builders /\ u \in DOMAIN dicts /\ u \in Active /\ u < o
    <3>1. up \in DOMAIN builders /\ up = stack[Len(stack) - 1] /\ Len(stack) - 1 \in DOMAIN stack
      BY <2>1, <2>3, <2>8, TopBuilders
    <3>2. u \in DOMAIN dicts
      BY <3>1, <2>5, ObjectExists DEF Object
    <3>3. u \in Active
      BY <3>1, <3>2, <2>5 DEF Active
    <3>4. u < o
      BY <3>1, <2>4, <2>5, <2>6 DEF ObjectInv, Rising
    <3>5. ~first
      BY <2>6, <2>8 DEF ObjectInv, FirstAlone
    <3> QED
      BY <3>1, <3>2, <3>3, <3>4, <3>5
  <2>9. /\ ObjectsApart' /\ Rising' /\ FirstAlone' /\ \A x \in Active' : x \in Active
        /\ ~first => o \notin Active'
    BY <2>1, <2>2, <2>4, PopObjects
  <2>10. CASE EndSimple(el)
    <3>1. PICK v : v = Str(TopString(EndText))
      OBVIOUS
    <3>2. PICK d : d = AppendToDictKeyList(dicts[u], el, v, options.explicit_array)
      OBVIOUS
    <3>3. dicts' = [dicts EXCEPT ![u] = d] /\ Len(stack) > 1
      BY <1>2, <2>3, <2>5, <2>6, <2>10, <3>1, <3>2 DEF EndSimple, Object
    <3>4. v \in Item /\ dicts[u] \in Dict
      BY <2>0, <2>8, <3>1, <3>3, EndTextLemma DEF Item, Str
    <3>5. \A r : Cites(d, r) => Cites(dicts[u], r)
      BY <3>1, <3>2, <3>4, AppendCites, ItemRefers
    <3>6. NoneCites(dicts', Active')
      BY <2>8, <2>9, <3>3, <3>5, ChangeCites DEF ObjectInv
    <3>7. KeepsDone
      BY <2>8, <2>9, <3>3 DEF KeepsDone
    <3> QED
      BY <2>9, <3>6, <3>7 DEF ObjectInv
  <2>11. CASE EndOther(el)
    <3>0. PICK es : es = DictsWithText(last)
      OBVIOUS
    <3>1. /\ NoneCites(es, Active') /\ es \in Seq(Dict) /\ DOMAIN es = DOMAIN dicts
          /\ \A d \in DOMAIN dicts : d # o => es[d] = dicts[d]
      BY <2>4, <2>7, <2>9, <3>0, TextCites, TextStep DEF ObjectInv
    <3>2. CASE Len(stack) = 1
      <4>1. dicts' = es
        BY <1>2, <2>2, <2>11, <3>0, <3>2 DEF EndOther
      <4>2. NoneCites(dicts', Active') /\ KeepsDone
        BY <2>7, <2>9, <3>1, <4>1 DEF KeepsDone
      <4> QED
        BY <2>9, <4>2 DEF ObjectInv
    <3>3. CASE Len(stack) # 1
      <4>0. Len(stack) > 1
        <5>1. PICK n \in Nat : n = Len(stack) /\ n # 0
          BY <2>6
        <5>2. n # 1
          BY <3>3, <5>1
        <5>3. n > 1
          BY <5>1, <5>2
        <5> QED
          BY <5>1, <5>3
      <4>1. PICK d : d = AppendToDictKeyList(es[u], el, Ref(o), options.explicit_array)
        OBVIOUS
      <4>2. dicts' = [es EXCEPT ![u] = d]
        BY <1>2, <2>2, <2>3, <2>4, <2>5, <2>11, <3>0, <3>3, <4>1 DEF EndOther, Object
      <4>3. Ref(o) \in Item /\ es[u] \in Dict /\ u \in DOMAIN es
        BY <2>0, <2>7, <2>8, <3>1, <4>0, LenProperties DEF Item, Ref
      <4>4. \A r : Cites(d, r) => Cites(es[u], r) \/ r = o
        BY <4>1, <4>3, AppendCites, ItemRefers
      <4>5. o \in DOMAIN es /\ o > u /\ o \notin Active'
        BY <2>0, <2>7, <2>8, <2>9, <3>1, <4>0, LenProperties
      <4>s. PICK B : B = Active'
        OBVIOUS
      <4>t. \A r : Cites(d, r) => Cites(es[u], r) \/ (r \in DOMAIN es /\ r > u /\ r \notin B)
        BY <4>4, <4>5, <4>s
      <4>v. NoneCites(es, B)
        BY <3>1, <4>s
      <4>6. NoneCites(dicts', Active')
        BY <4>2, <4>3, <4>s, <4>t, <4>v, ChangeCites
      <4>7. KeepsDone
        BY <2>7, <2>8, <2>9, <3>1, <4>0, <4>2 DEF KeepsDone
      <4> QED
        BY <2>9, <4>6, <4>7 DEF ObjectInv
    <3> QED
      BY <3>2, <3>3
  <2> QED
    BY <1>2, <2>10, <2>11 DEF OnEndElement, EndUnderflow
<1> QED
  BY <1>1, <1>2

-----------------------------------------------------------------------------
(***************************************************************************)
(* What was returned stays.                                                *)
(***************************************************************************)

\* The inductive invariant for ResultsStay.
StayInv ==
    /\ IInv
    /\ ObjectInv
    /\ \E S : results \in Seq(S)
    /\ ResultsDone
    /\ ResultsStay
    /\ Returned

\* The constructor.
LEMMA StayInit == Init => StayInv
<1> SUFFICES ASSUME Init PROVE StayInv
  OBVIOUS
<1>1. IInv
  BY InitInv
<1>2. /\ builders = <<[object |-> 1, options |-> 1]>> /\ dicts = <<EmptyDict>> /\ stack = <<1>>
      /\ root = 1 /\ first = TRUE /\ results = <<>> /\ phase = "before"
  BY DEF Init
<1>3. ObjectsApart /\ Rising /\ FirstAlone
  BY <1>2 DEF ObjectsApart, Rising, FirstAlone, Object
<1>4. NoneCites(dicts, Active)
  <2>1. DOMAIN dicts = {1} /\ dicts[1] = EmptyDict
    BY <1>2
  <2>2. \A r : ~Cites(EmptyDict, r)
    BY DEF Cites, EmptyDict
  <2> QED
    BY <2>1, <2>2 DEF NoneCites
<1>5. DOMAIN results = {} /\ results \in Seq({})
  BY <1>2
<1>6. ResultsDone /\ ResultsStay /\ Returned
  BY <1>2, <1>5 DEF ResultsDone, ResultsStay, Returned
<1> QED
  BY <1>1, <1>3, <1>4, <1>5, <1>6 DEF StayInv, ObjectInv

\* FeedLast: what is returned then is not written to any more.
LEMMA FeedStays ==
  ASSUME StayInv, FeedLast
  PROVE  (\E S : results' \in Seq(S)) /\ ResultsDone' /\ ResultsStay'
<1>1. UNCHANGED <<dicts, builders, stack, root, first>> /\ Active' = Active /\ phase = "after" /\ ~undefined
  BY DEF FeedLast, built, Active, Object
<1>2. CASE mode # "used"
  <2>1. results' = results
    BY <1>2 DEF FeedLast
  <2> QED
    BY <1>1, <2>1 DEF StayInv, ResultsDone, ResultsStay
<1>3. CASE mode = "used"
  <2>1. PICK o : o = Object(root)
    OBVIOUS
  <2>2. PICK x : x = [object |-> o, value |-> Values(dicts)[o]]
    OBVIOUS
  <2>3. results' = Append(results, x)
    BY <1>3, <2>1, <2>2 DEF FeedLast, Object
  <2>4. x.object = o /\ x.value = Values(dicts)[o]
    BY <2>2
  <2>5. Active = {}
    BY <1>1, <1>3 DEF StayInv, Returned, Active
  <2>6. o \in DOMAIN dicts
    BY <2>1, ObjectExists DEF StayInv, IInv, BuilderInv, TypeBuilder, Object
  <2>7. PICK S : results \in Seq(S) /\ x \in S
    <3>1. PICK R : results \in Seq(R)
      BY DEF StayInv
    <3>2. results \in Seq(R \cup {x})
      BY <3>1, SeqMonotonic
    <3> QED
      BY <3>2
  <2>8. /\ results' \in Seq(S)
        /\ \A i \in DOMAIN results' : results'[i] = x \/ (i \in DOMAIN results /\ results'[i] = results[i])
    BY <2>3, <2>7, AppendProperties, LenProperties
  <2>9. ResultsDone'
    BY <1>1, <2>4, <2>5, <2>6, <2>8 DEF StayInv, ResultsDone
  <2>10. ResultsStay'
    BY <1>1, <2>4, <2>8 DEF StayInv, ResultsStay
  <2> QED
    BY <2>8, <2>9, <2>10
<1> QED
  BY <1>2, <1>3

\* A step writes to active dictionaries only.
LEMMA NextObjects ==
  ASSUME IInv, ObjectInv, [Next]_vars
  PROVE  ObjectInv' /\ KeepsDone
<1>0. BuilderInv /\ current \in Nat
  BY DEF IInv, BuilderInv, TypeBuilder
<1>1. CASE Clear \/ \E o \in OptionSet : ClearOptions(o)
  <2>1. PICK opts \in Nat : opts >= current /\ ClearWith(opts)
    BY <1>0, <1>1 DEF Clear, ClearOptions
  <2> QED
    BY <1>0, <2>1, ClearObjects
<1>2. CASE \E el \in Name, attrs \in Attrs \cup {NoAttrs} : ParseStart(el, attrs)
  <2>1. PICK el \in Name, attrs \in Attrs \cup {NoAttrs} : StartRoot(el, attrs) \/ StartInner(attrs)
    BY <1>2 DEF ParseStart, OnStartElement
  <2> QED
    BY <1>0, <2>1, StartRootObjects, StartInnerObjects
<1>3. CASE ParseEnd
  <2>1. PICK el : el = doc[Last(open)].el
    OBVIOUS
  <2>2. OnEndElement(el)
    BY <1>3, <2>1 DEF ParseEnd
  <2>3. el \in Name
    <3>1. phase = "in"
      BY <1>3 DEF ParseEnd
    <3>2. doc[Last(open)] \in Elements
      BY <3>1, OpenElements
    <3> QED
      BY <2>1, <3>2 DEF Elements
  <2>4. DOMAIN dicts' = DOMAIN dicts
    BY <2>2 DEF OnEndElement, EndSimple, EndOther, EndUnderflow, DictsWithText, Undefined, built
  <2> QED
    BY <1>0, <2>2, <2>3, <2>4, EndObjects
<1>4. CASE \E c \in Char : ParseText(c)
  BY <1>4, SameObjects DEF ParseText, OnText
<1>5. CASE FeedLast \/ FeedFails \/ UNCHANGED vars
  BY <1>5, SameObjects DEF FeedLast, FeedFails, built, vars
<1> QED
  BY <1>1, <1>2, <1>3, <1>4, <1>5 DEF Next

\* A document ends with nothing open.
LEMMA NextReturned ==
  ASSUME IInv, IInv', Returned, [Next]_vars
  PROVE  Returned'
<1>1. CASE Clear \/ \E o \in OptionSet : ClearOptions(o)
  <2>1. phase' = phase /\ mode' = IF phase = "before" THEN "ready" ELSE "stale"
    BY <1>1 DEF Clear, ClearOptions, ClearWith, parser
  <2> QED
    BY <2>1 DEF Returned
<1>2. CASE \E el \in Name, attrs \in Attrs \cup {NoAttrs} : ParseStart(el, attrs)
  BY <1>2 DEF ParseStart, Returned
<1>3. CASE ParseEnd
  <2> SUFFICES ASSUME mode' = "used", phase' = "after", ~undefined' PROVE stack' = <<>> /\ ~first'
    BY DEF Returned
  <2>1. PICK el : el = doc[Last(open)].el
    OBVIOUS
  <2>2. el \in Name
    <3>1. phase = "in"
      BY <1>3 DEF ParseEnd
    <3>2. doc[Last(open)] \in Elements
      BY <3>1, OpenElements
    <3> QED
      BY <2>1, <3>2 DEF Elements
  <2>3. OnEndElement(el) /\ mode = "used" /\ phase = "in" /\ ~undefined /\ Len(open) = 1
        /\ UNCHANGED <<options, current, replaced>>
    BY <1>3, <2>1 DEF ParseEnd
  <2>4. Len(stack) = 1 /\ ~first
    BY <2>3 DEF IInv, StacksInStep
  <2>5. Len(stack') = Len(stack) - 1 /\ first' = first
    BY <2>2, <2>3, EndStep DEF IInv
  <2>6. stack' \in Seq(DOMAIN builders')
    BY DEF IInv, BuilderInv, TypeBuilder
  <2>7. Len(stack') = 0
    BY <2>4, <2>5
  <2> QED
    BY <2>4, <2>5, <2>6, <2>7, EmptySeq
<1>4. CASE \E c \in Char : ParseText(c)
  BY <1>4 DEF ParseText, Returned
<1>5. CASE FeedLast \/ FeedFails
  BY <1>5 DEF FeedLast, FeedFails, Returned
<1>6. CASE UNCHANGED vars
  BY <1>6 DEF vars, Returned
<1> QED
  BY <1>1, <1>2, <1>3, <1>4, <1>5, <1>6 DEF Next

\* Every step.
LEMMA StayNext == StayInv /\ [Next]_vars => StayInv'
<1> SUFFICES ASSUME StayInv, [Next]_vars PROVE StayInv'
  OBVIOUS
<1>1. IInv /\ IInv' /\ BuilderInv /\ BuilderInv' /\ ObjectInv /\ Returned
  BY NextInv DEF StayInv, IInv
<1>2. ObjectInv' /\ KeepsDone
  BY <1>1, NextObjects
<1>3. Returned'
  BY <1>1, NextReturned
<1>4. CASE FeedLast
  BY <1>1, <1>2, <1>3, <1>4, FeedStays DEF StayInv
<1>5. CASE ~FeedLast
  <2>1. results' = results
    BY <1>5 DEF Next, vars, Clear, ClearOptions, ParseStart, ParseEnd, ParseText, FeedFails
  <2>2. ResultsDone /\ ResultsStay
    BY DEF StayInv
  <2>3. ResultsDone' /\ ResultsStay'
    BY <1>1, <1>2, <2>1, <2>2, ResultsKept
  <2>4. \E S : results' \in Seq(S)
    BY <2>1 DEF StayInv
  <2> QED
    BY <1>1, <1>2, <1>3, <2>3, <2>4 DEF StayInv
<1> QED
  BY <1>4, <1>5

\* A Dynamic that var() returned for a document parsed after Clear keeps its value,
\* whatever the builder, its cache of VarBuilder objects and its options are used
\* for later (new_var_builder, InitAsDict, OnEndElement).
THEOREM ReturnedStays == Spec => []ResultsStay
<1>1. StayInv => ResultsStay
  BY DEF StayInv
<1> QED
  BY <1>1, StayInit, StayNext, PTL DEF Spec

-----------------------------------------------------------------------------
(***************************************************************************)
(* The children of an element, and the meaning of a document.              *)
(***************************************************************************)

\* What ChildrenAmong says of the first c elements of a document.
AmongNext(dc, n, key, f, c) ==
    IF c = 0 THEN <<>>
    ELSE IF dc[c].parent = n /\ dc[c].el = key THEN Append(f[c - 1], c)
    ELSE f[c - 1]

\* f has the children among the first elements, up to m of them.
AmongTo(dc, n, key, m, f) ==
    /\ f = [c \in 0..Len(dc) |-> f[c]]
    /\ \A c \in 0..m : f[c] = AmongNext(dc, n, key, f, c)

\* The children among one element more.
LEMMA OneMoreAmong ==
  ASSUME NEW dc, Len(dc) \in Nat, NEW n, NEW key, NEW m \in 0..(Len(dc) - 1),
         NEW f, AmongTo(dc, n, key, m, f)
  PROVE  \E g : AmongTo(dc, n, key, m + 1, g)
<1>1. PICK L \in Nat : L = Len(dc)
  OBVIOUS
<1>2. PICK w : w = AmongNext(dc, n, key, f, m + 1)
  OBVIOUS
<1>3. PICK g : g = [c \in 0..L |-> IF c = m + 1 THEN w ELSE f[c]]
  OBVIOUS
<1>4. m + 1 \in 0..L /\ m \in 0..L /\ m + 1 # m
  BY <1>1
<1>5. g = [c \in 0..L |-> g[c]] /\ g[m + 1] = w /\ \A c \in 0..m : g[c] = f[c]
  BY <1>3, <1>4
<1>6. ASSUME NEW c \in 0..(m + 1) PROVE g[c] = AmongNext(dc, n, key, g, c)
  <2>1. c # 0 => c - 1 \in 0..m
    BY <1>4
  <2>2. AmongNext(dc, n, key, g, c) = AmongNext(dc, n, key, f, c)
    BY <2>1, <1>5 DEF AmongNext
  <2>3. CASE c = m + 1
    BY <2>2, <2>3, <1>2, <1>5
  <2>4. CASE c # m + 1
    <3>1. c \in 0..m
      BY <2>4, <1>4
    <3> QED
      BY <2>2, <3>1, <1>5 DEF AmongTo
  <2> QED
    BY <2>3, <2>4
<1>7. AmongTo(dc, n, key, m + 1, g)
  BY <1>1, <1>5, <1>6 DEF AmongTo
<1> QED
  BY <1>7

\* So there is such a function for a document of any length.
LEMMA AmongExists ==
  ASSUME NEW dc, Len(dc) \in Nat, NEW n, NEW key
  PROVE  \E f : AmongTo(dc, n, key, Len(dc), f)
<1>0. PICK L \in Nat : L = Len(dc)
  OBVIOUS
<1> DEFINE T == {m \in 0..L : ~ \E f : AmongTo(dc, n, key, m, f)}
<1>1. T = {}
  <2> SUFFICES ASSUME T # {} PROVE FALSE
    OBVIOUS
  <2>1. T \in SUBSET Nat
    OBVIOUS
  <2>2. PICK m \in T : \A j \in T : m <= j
    BY <2>1, Smallest
  <2>3. m \in 0..L /\ ~ \E f : AmongTo(dc, n, key, m, f)
    OBVIOUS
  <2>4. m # 0
    <3>1. PICK f : f = [c \in 0..L |-> <<>>]
      OBVIOUS
    <3>2. f = [c \in 0..L |-> f[c]] /\ f[0] = <<>>
      BY <3>1
    <3>3. AmongTo(dc, n, key, 0, f)
      BY <1>0, <3>2 DEF AmongTo, AmongNext
    <3> QED
      BY <3>3, <2>3
  <2>5. m - 1 \in 0..(L - 1) /\ m - 1 \in 0..L /\ (m - 1) + 1 = m
    BY <2>3, <2>4
  <2>6. m - 1 \notin T
    <3>1. m \in Int /\ ~(m <= m - 1)
      BY <2>3
    <3> QED
      BY <2>2, <3>1, Zenon
  <2>7. PICK f : AmongTo(dc, n, key, m - 1, f)
    BY <2>5, <2>6
  <2>8. \E g : AmongTo(dc, n, key, (m - 1) + 1, g)
    BY <1>0, <2>5, <2>7, OneMoreAmong
  <2> QED
    BY <2>3, <2>5, <2>8
<1>2. L \in 0..L
  OBVIOUS
<1> QED
  BY <1>0, <1>1, <1>2, Zenon

\* The children among the first c elements of a document.
LEMMA AmongAre ==
  ASSUME NEW dc, Len(dc) \in Nat, NEW n, NEW key, NEW c \in 0..Len(dc)
  PROVE  ChildrenAmong(dc, n, key)[c] = AmongNext(dc, n, key, ChildrenAmong(dc, n, key), c)
<1>1. PICK f : AmongTo(dc, n, key, Len(dc), f)
  BY AmongExists
<1> DEFINE rec(g) == [x \in 0..Len(dc) |-> IF x = 0 THEN <<>>
                         ELSE IF dc[x].parent = n /\ dc[x].el = key THEN Append(g[x - 1], x)
                         ELSE g[x - 1]]
<1>2. f = rec(f)
  BY <1>1 DEF AmongTo, AmongNext
<1>3. ChildrenAmong(dc, n, key) = CHOOSE g : g = rec(g)
  BY DEF ChildrenAmong
<1>4. ChildrenAmong(dc, n, key) = rec(ChildrenAmong(dc, n, key))
  <2> HIDE DEF rec
  <2> QED
    BY <1>2, <1>3, Zenon
<1> QED
  BY <1>4 DEF AmongNext

\* They depend on the names and the parents of those elements alone.
LEMMA AmongSame ==
  ASSUME NEW dc, Len(dc) \in Nat, NEW dd, Len(dd) \in Nat, NEW n, NEW key,
         NEW m \in Nat, m <= Len(dc), m <= Len(dd),
         \A c \in 1..m : dc[c].parent = dd[c].parent /\ dc[c].el = dd[c].el
  PROVE  ChildrenAmong(dc, n, key)[m] = ChildrenAmong(dd, n, key)[m]
<1>f. PICK f : f = ChildrenAmong(dc, n, key)
  OBVIOUS
<1>g. PICK g : g = ChildrenAmong(dd, n, key)
  OBVIOUS
<1>1. \A c \in 0..m : f[c] = AmongNext(dc, n, key, f, c) /\ g[c] = AmongNext(dd, n, key, g, c)
  <2> TAKE c \in 0..m
  <2>1. c \in 0..Len(dc) /\ c \in 0..Len(dd)
    OBVIOUS
  <2> QED
    BY <2>1, <1>f, <1>g, AmongAre
<1> DEFINE T == {c \in 0..m : f[c] # g[c]}
<1>2. T = {}
  <2> SUFFICES ASSUME T # {} PROVE FALSE
    OBVIOUS
  <2>1. T \in SUBSET Nat
    OBVIOUS
  <2>2. PICK c \in T : \A j \in T : c <= j
    BY <2>1, Smallest
  <2>3. c \in 0..m /\ f[c] # g[c]
    OBVIOUS
  <2>4. c # 0
    BY <1>1, <2>3 DEF AmongNext
  <2>5. c - 1 \in 0..m /\ c \in 1..m
    BY <2>3, <2>4
  <2>6. f[c - 1] = g[c - 1]
    <3>1. ~(c <= c - 1)
      BY <2>3
    <3>2. c - 1 \notin T
      BY <2>2, <3>1, Zenon
    <3> QED
      BY <2>5, <3>2
  <2> HIDE DEF T
  <2> QED
    BY <1>1, <2>3, <2>4, <2>5, <2>6 DEF AmongNext
<1>3. m \in 0..m
  OBVIOUS
<1> QED
  BY <1>f, <1>g, <1>2, <1>3, Zenon

\* They are children with that name.
LEMMA AmongType ==
  ASSUME NEW dc, Len(dc) \in Nat, NEW n, NEW key, NEW m \in 0..Len(dc)
  PROVE  /\ ChildrenAmong(dc, n, key)[m] \in Seq(1..Len(dc))
         /\ \A i \in DOMAIN ChildrenAmong(dc, n, key)[m] :
               LET c == ChildrenAmong(dc, n, key)[m][i] IN dc[c].parent = n /\ dc[c].el = key
<1>f. PICK f : f = ChildrenAmong(dc, n, key)
  OBVIOUS
<1>l. PICK L \in Nat : L = Len(dc)
  OBVIOUS
<1>1. \A c \in 0..L : f[c] = AmongNext(dc, n, key, f, c)
  BY <1>f, <1>l, AmongAre
<1> DEFINE K == {c \in 1..L : dc[c].parent = n /\ dc[c].el = key}
           T == {c \in 0..L : f[c] \notin Seq(K)}
<1>2. T = {}
  <2> SUFFICES ASSUME T # {} PROVE FALSE
    OBVIOUS
  <2>1. T \in SUBSET Nat
    OBVIOUS
  <2>2. PICK c \in T : \A j \in T : c <= j
    BY <2>1, Smallest
  <2>3. c \in 0..L /\ f[c] \notin Seq(K)
    OBVIOUS
  <2>4. c # 0
    <3> SUFFICES ASSUME c = 0 PROVE FALSE
      OBVIOUS
    <3>1. f[c] = <<>>
      BY <1>1, <2>3 DEF AmongNext
    <3> HIDE DEF K
    <3> QED
      BY <2>3, <3>1
  <2>5. c - 1 \in 0..L /\ c \in 1..L
    BY <2>3, <2>4
  <2>6. f[c - 1] \in Seq(K)
    <3>1. ~(c <= c - 1)
      BY <2>3
    <3>2. c - 1 \notin T
      BY <2>2, <3>1, Zenon
    <3> QED
      BY <2>5, <3>2
  <2>7. CASE dc[c].parent = n /\ dc[c].el = key
    <3>1. f[c] = Append(f[c - 1], c) /\ c \in K
      BY <1>1, <2>4, <2>5, <2>7 DEF AmongNext
    <3> HIDE DEF K
    <3>2. f[c] \in Seq(K)
      BY <2>6, <3>1, AppendProperties
    <3> QED
      BY <2>3, <3>2
  <2>8. CASE ~(dc[c].parent = n /\ dc[c].el = key)
    <3>1. f[c] = f[c - 1]
      BY <1>1, <2>4, <2>5, <2>8 DEF AmongNext
    <3> QED
      BY <2>3, <2>6, <3>1
  <2> QED
    BY <2>7, <2>8
<1>3. f[m] \in Seq(K)
  BY <1>l, <1>2
<1>4. K \subseteq 1..L
  OBVIOUS
<1>5. f[m] \in Seq(1..L)
  <2> HIDE DEF K
  <2> QED
    BY <1>3, <1>4, SeqMonotonic
<1>6. \A i \in DOMAIN f[m] : f[m][i] \in K
  <2> HIDE DEF K
  <2> QED
    BY <1>3, StackElements
<1> QED
  BY <1>f, <1>l, <1>5, <1>6

\* The children of an element of the document.
LEMMA ChildrenType ==
  ASSUME IInv, NEW n, NEW key
  PROVE  /\ Children(n, key) \in Seq(DOMAIN doc)
         /\ \A i \in DOMAIN Children(n, key) :
               LET c == Children(n, key)[i] IN c \in DOMAIN doc /\ doc[c].parent = n /\ doc[c].el = key
<1>1. doc \in Seq(Elements)
  BY DEF IInv, ParserInv, TypeParser, Elements
<1>2. DOMAIN doc = 1..Len(doc) /\ Len(doc) \in Nat /\ Len(doc) \in 0..Len(doc)
  BY <1>1, LenProperties
<1>3. /\ Children(n, key) \in Seq(1..Len(doc))
      /\ \A i \in DOMAIN Children(n, key) :
            LET c == Children(n, key)[i] IN doc[c].parent = n /\ doc[c].el = key
  BY <1>2, AmongType DEF Children
<1>4. \A i \in DOMAIN Children(n, key) : Children(n, key)[i] \in 1..Len(doc)
  BY <1>3, StackElements
<1> QED
  BY <1>2, <1>3, <1>4

\* The children once another element has started.
LEMMA ChildrenMore ==
  ASSUME doc \in Seq(Elements), NEW x \in Elements, doc' = Append(doc, x), NEW n, NEW key
  PROVE  Children(n, key)' = IF x.parent = n /\ x.el = key
                             THEN Append(Children(n, key), Len(doc) + 1) ELSE Children(n, key)
<1>1. PICK dc : dc = doc'
  OBVIOUS
<1>2. /\ Len(doc) \in Nat /\ Len(dc) = Len(doc) + 1 /\ dc[Len(doc) + 1] = x
      /\ \A c \in 1..Len(doc) : dc[c] = doc[c]
  BY <1>1, AppendProperties, LenProperties
<1>3. PICK L \in Nat : L = Len(doc) /\ Len(dc) = L + 1
  BY <1>2
<1>4. L + 1 \in 0..Len(dc) /\ L + 1 # 0 /\ (L + 1) - 1 = L
  BY <1>3
<1>5. ChildrenAmong(dc, n, key)[L + 1] = AmongNext(dc, n, key, ChildrenAmong(dc, n, key), L + 1)
  BY <1>2, <1>3, <1>4, AmongAre
<1>6. ChildrenAmong(dc, n, key)[L] = ChildrenAmong(doc, n, key)[L]
  <2>1. L <= Len(dc) /\ L <= Len(doc) /\ Len(dc) \in Nat /\ Len(doc) \in Nat
    BY <1>3
  <2>2. \A c \in 1..L : dc[c].parent = doc[c].parent /\ dc[c].el = doc[c].el
    BY <1>2, <1>3
  <2> QED
    BY <2>1, <2>2, AmongSame
<1>7. Children(n, key) = ChildrenAmong(doc, n, key)[L] /\ Children(n, key)' = ChildrenAmong(dc, n, key)[L + 1]
  BY <1>1, <1>3 DEF Children
<1>8. dc[L + 1] = x
  BY <1>2, <1>3
<1> QED
  BY <1>3, <1>4, <1>5, <1>6, <1>7, <1>8 DEF AmongNext

\* They do not depend on the texts.
LEMMA ChildrenSame ==
  ASSUME doc \in Seq(Elements), doc' \in Seq(Elements), Len(doc') = Len(doc),
         \A c \in DOMAIN doc : doc'[c].parent = doc[c].parent /\ doc'[c].el = doc[c].el,
         NEW n, NEW key
  PROVE  Children(n, key)' = Children(n, key)
<1>1. PICK dc : dc = doc'
  OBVIOUS
<1>2. PICK L \in Nat : L = Len(doc) /\ L = Len(dc)
  BY <1>1, LenProperties
<1>3. \A c \in 1..L : dc[c].parent = doc[c].parent /\ dc[c].el = doc[c].el
  BY <1>1, <1>2, LenProperties
<1>4. L <= Len(dc) /\ L <= Len(doc) /\ Len(dc) \in Nat /\ Len(doc) \in Nat
  BY <1>2
<1>5. ChildrenAmong(dc, n, key)[L] = ChildrenAmong(doc, n, key)[L]
  BY <1>3, <1>4, AmongSame
<1>6. Children(n, key) = ChildrenAmong(doc, n, key)[L] /\ Children(n, key)' = ChildrenAmong(dc, n, key)[L]
  BY <1>1, <1>2 DEF Children
<1> QED
  BY <1>5, <1>6

\* The parents of the elements of a document come before them.
TreeInv ==
    /\ doc # <<>> /\ doc[1].parent = 0
    /\ \A c \in DOMAIN doc : c # 1 => doc[c].parent \in 1..(c - 1)

\* The meaning of an element depends on those of its children alone.
LEMMA MeansSame ==
  ASSUME NEW n, NEW f, NEW g,
         \A key : \A i \in DOMAIN Children(n, key) : f[Children(n, key)[i]] = g[Children(n, key)[i]]
  PROVE  Means(f, n) = Means(g, n)
<1> DEFINE kids(h, key) == [i \in DOMAIN Children(n, key) |-> h[Children(n, key)[i]]]
           keys(h) == {k \in Keys : Worded(n, k) \/ Own(n, k) \o kids(h, k) # <<>>}
           has(h, key) == IF Worded(n, key) THEN Str(TextOf(n)) ELSE Meant(Own(n, key), kids(h, key))
<1>1. \A key : kids(f, key) = kids(g, key)
  OBVIOUS
<1>2. Means(f, n) = IF IsSimple(n) THEN Str(TextOf(n)) ELSE [dict |-> [key \in keys(f) |-> has(f, key)]]
  BY DEF Means
<1>3. Means(g, n) = IF IsSimple(n) THEN Str(TextOf(n)) ELSE [dict |-> [key \in keys(g) |-> has(g, key)]]
  BY DEF Means
<1> HIDE DEF kids
<1>4. keys(f) = keys(g)
  BY <1>1
<1>5. \A key : has(f, key) = has(g, key)
  BY <1>1
<1> HIDE DEF keys, has
<1>6. [key \in keys(f) |-> has(f, key)] = [key \in keys(g) |-> has(g, key)]
  BY <1>4, <1>5
<1> QED
  BY <1>2, <1>3, <1>6

\* The elements after the first Len(doc) - k have a meaning.
MeaningFrom(k, f) ==
    /\ f = [n \in DOMAIN doc |-> f[n]]
    /\ \A n \in DOMAIN doc : n > Len(doc) - k => f[n] = Means(f, n)

\* The children of an element come after it.
LEMMA ChildrenLater ==
  ASSUME IInv, TreeInv, NEW n \in DOMAIN doc, NEW key, NEW i \in DOMAIN Children(n, key)
  PROVE  Children(n, key)[i] \in DOMAIN doc /\ Children(n, key)[i] > n
<1>1. PICK c : c = Children(n, key)[i]
  OBVIOUS
<1>2. c \in DOMAIN doc /\ doc[c].parent = n
  BY <1>1, ChildrenType
<1>3. doc \in Seq(Elements)
  BY DEF IInv, ParserInv, TypeParser, Elements
<1>4. DOMAIN doc = 1..Len(doc) /\ Len(doc) \in Nat
  BY <1>3, LenProperties
<1>5. c # 1
  BY <1>2, <1>4 DEF TreeInv
<1> QED
  BY <1>1, <1>2, <1>4, <1>5 DEF TreeInv

\* One element more has a meaning.
LEMMA OneMoreMeaning ==
  ASSUME IInv, TreeInv, NEW k \in 0..(Len(doc) - 1), NEW f, MeaningFrom(k, f)
  PROVE  \E g : MeaningFrom(k + 1, g)
<1>0. doc \in Seq(Elements)
  BY DEF IInv, ParserInv, TypeParser, Elements
<1>1. PICK L \in Nat : L = Len(doc) /\ DOMAIN doc = 1..L
  BY <1>0, LenProperties
<1>2. PICK e : e = L - k
  OBVIOUS
<1>3. e \in 1..L /\ k \in Nat
  BY <1>1, <1>2
<1>4. PICK w : w = Means(f, e)
  OBVIOUS
<1>5. PICK g : g = [n \in DOMAIN doc |-> IF n = e THEN w ELSE f[n]]
  OBVIOUS
<1>6. g = [n \in DOMAIN doc |-> g[n]] /\ g[e] = w /\ \A n \in DOMAIN doc : n # e => g[n] = f[n]
  BY <1>1, <1>3, <1>5
<1>7. ASSUME NEW n \in DOMAIN doc, n >= e PROVE g[n] = Means(g, n)
  <2>1. \A key : \A i \in DOMAIN Children(n, key) : f[Children(n, key)[i]] = g[Children(n, key)[i]]
    <3> SUFFICES ASSUME NEW key, NEW i \in DOMAIN Children(n, key)
                 PROVE  f[Children(n, key)[i]] = g[Children(n, key)[i]]
      OBVIOUS
    <3>1. PICK c : c = Children(n, key)[i]
      OBVIOUS
    <3>2. c \in DOMAIN doc /\ c > n
      BY <3>1, ChildrenLater
    <3>3. c # e
      BY <1>1, <1>3, <1>7, <3>2
    <3> QED
      BY <1>6, <3>1, <3>2, <3>3
  <2>2. Means(f, n) = Means(g, n)
    BY <2>1, MeansSame
  <2>3. CASE n = e
    BY <2>2, <2>3, <1>4, <1>6
  <2>4. CASE n # e
    <3>1. n > Len(doc) - k
      BY <1>1, <1>2, <1>3, <1>7, <2>4
    <3> QED
      BY <2>2, <2>4, <3>1, <1>6 DEF MeaningFrom
  <2> QED
    BY <2>3, <2>4
<1>8. \A n \in DOMAIN doc : n > Len(doc) - (k + 1) => n >= e
  BY <1>1, <1>2, <1>3
<1>9. MeaningFrom(k + 1, g)
  BY <1>6, <1>7, <1>8 DEF MeaningFrom
<1> QED
  BY <1>9

\* The meaning of the elements of a document.
LEMMA MeaningIs ==
  ASSUME IInv, TreeInv
  PROVE  \A n \in DOMAIN doc : Meaning[n] = Means(Meaning, n)
<1>0. doc \in Seq(Elements)
  BY DEF IInv, ParserInv, TypeParser, Elements
<1>1. PICK L \in Nat : L = Len(doc) /\ DOMAIN doc = 1..L
  BY <1>0, LenProperties
<1> DEFINE T == {m \in 0..L : ~ \E f : MeaningFrom(m, f)}
<1>2. T = {}
  <2> SUFFICES ASSUME T # {} PROVE FALSE
    OBVIOUS
  <2>1. T \in SUBSET Nat
    OBVIOUS
  <2>2. PICK m \in T : \A j \in T : m <= j
    BY <2>1, Smallest
  <2>3. m \in 0..L /\ ~ \E f : MeaningFrom(m, f)
    OBVIOUS
  <2>4. m # 0
    <3>1. PICK f : f = [n \in DOMAIN doc |-> 0]
      OBVIOUS
    <3>2. f = [n \in DOMAIN doc |-> f[n]] /\ \A n \in DOMAIN doc : ~(n > Len(doc) - 0)
      BY <1>1, <3>1
    <3>3. MeaningFrom(0, f)
      BY <3>2 DEF MeaningFrom
    <3> QED
      BY <3>3, <2>3
  <2>5. m - 1 \in 0..(Len(doc) - 1) /\ m - 1 \in 0..L /\ (m - 1) + 1 = m
    BY <1>1, <2>3, <2>4
  <2>6. m - 1 \notin T
    <3>1. m \in Int /\ ~(m <= m - 1)
      BY <2>3
    <3> QED
      BY <2>2, <3>1, Zenon
  <2>7. PICK f : MeaningFrom(m - 1, f)
    BY <2>5, <2>6
  <2>8. \E g : MeaningFrom((m - 1) + 1, g)
    BY <2>5, <2>7, OneMoreMeaning
  <2> QED
    BY <2>3, <2>5, <2>8
<1>3. L \in 0..L
  OBVIOUS
<1>4. PICK f : MeaningFrom(L, f)
  BY <1>2, <1>3, Zenon
<1>5. \A n \in DOMAIN doc : n > Len(doc) - L
  BY <1>1
<1>6. f = [n \in DOMAIN doc |-> Means(f, n)]
  BY <1>4, <1>5 DEF MeaningFrom
<1>7. Meaning = CHOOSE g : g = [n \in DOMAIN doc |-> Means(g, n)]
  BY DEF Meaning
<1>8. Meaning = [n \in DOMAIN doc |-> Means(Meaning, n)]
  BY <1>6, <1>7, Zenon
<1> QED
  BY <1>8

-----------------------------------------------------------------------------
(***************************************************************************)
(* What the dictionaries hold while a document that was started after      *)
(* Clear is parsed.                                                        *)
(***************************************************************************)

\* The elements that have not ended, and those that have.
IsOpen(e) == \E i \in DOMAIN open : open[i] = e

\* The elements that have ended.
Closed == {c \in DOMAIN doc : ~IsOpen(c)}

\* The dictionary of an element: they are made in the order of the elements.
DictOf(e) == Object(root) + e - 1

\* The children with the name key that have ended: only the last can be open.
ClosedChildren(e, key) ==
    IF Children(e, key) # <<>> /\ IsOpen(Last(Children(e, key)))
    THEN Front(Children(e, key)) ELSE Children(e, key)

\* What an element that ended is in the dictionary of its parent.
ItemOf(c) == IF IsSimple(c) THEN Str(TextOf(c)) ELSE Ref(DictOf(c))

\* The same for a sequence of children.
Items(s) == [i \in DOMAIN s |-> ItemOf(s[i])]

\* What the dictionary d has under the key is own and then kids.
KeyHas(d, key, own, kids) ==
    /\ key \in DOMAIN d <=> own \o kids # <<>>
    /\ key \in DOMAIN d => d[key] = Meant(own, kids)

\* d is the dictionary of the element e, with its text if w.
IsDictOf(d, e, w) ==
    \A key \in Keys :
        IF w /\ Worded(e, key) THEN key \in DOMAIN d /\ d[key] = Str(TextOf(e))
        ELSE KeyHas(d, key, Own(e, key), Items(ClosedChildren(e, key)))

\* The open elements are the path from the root to the last of them.
PathInv ==
    /\ Len(open) = Len(stack)
    /\ open # <<>> => open[1] = 1
    /\ \A i \in 1..(Len(open) - 1) :
          /\ open[i] < open[i + 1] /\ doc[open[i + 1]].parent = open[i]
          /\ Children(open[i], doc[open[i + 1]].el) # <<>>
          /\ Last(Children(open[i], doc[open[i + 1]].el)) = open[i + 1]
    /\ \A i, j \in DOMAIN open : i < j => open[i] < open[j]

\* The children that count as ended have ended.
ChildrenInv == \A e \in DOMAIN doc : \A key \in Keys : ClosedChildren(e, key) \in Seq(Closed)

\* The builders on the stack have the dictionaries of the open elements.
PlaceInv ==
    /\ stack # <<>> => stack[1] = root
    /\ Len(dicts) = Object(root) + Len(doc) - 1
    /\ \A i \in DOMAIN stack : Object(stack[i]) = DictOf(open[i])

\* The strings and the flags on the other two stacks are those of the open elements.
TextsInv == \A i \in DOMAIN text.stack : text.heap[text.stack[i]] = doc[open[i]].text

\* The flag of an open element tells whether it is simple so far.
SimpleInv == \A i \in DOMAIN simple : simple[i] <=> IsSimple(open[i])

\* The dictionary of an open element has what has ended of it, the one of an
\* element that ended has all of it.
DictsInv ==
    /\ \A e \in DOMAIN doc : IsOpen(e) => IsDictOf(dicts[DictOf(e)], e, FALSE)
    /\ \A e \in Closed : ~IsSimple(e) => IsDictOf(dicts[DictOf(e)], e, TRUE)

\* What holds in and after a document that was started after Clear.
DocumentInv ==
    /\ TreeInv /\ PathInv /\ ChildrenInv /\ PlaceInv /\ TextsInv /\ SimpleInv /\ DictsInv
    /\ rootName = doc[1].el /\ ~first

\* The builder as Clear leaves it.
FreshInv ==
    /\ Len(dicts) = Object(root) /\ dicts[Object(root)] = EmptyDict
    /\ text.heap[text.top] = <<>>

\* The inductive invariant for ResultIsTheDocument.
ResultInv ==
    /\ IInv
    /\ phase = "before" => doc = <<>> /\ open = <<>>
    /\ mode = "ready" => FreshInv
    /\ (mode = "used" /\ ~undefined) => DocumentInv

-----------------------------------------------------------------------------
(***************************************************************************)
(* What a key has.                                                         *)
(***************************************************************************)

\* An item is not a list.
LEMMA ItemNoList ==
  ASSUME NEW v \in Item
  PROVE  ~IsList(v) /\ AsList(v) = <<v>>
BY DEF Item, IsList, AsList

\* A list is one.
LEMMA ListIsList ==
  ASSUME NEW s
  PROVE  IsList(List(s)) /\ List(s).list = s /\ AsList(List(s)) = s
BY DEF IsList, List, AsList

\* AppendToDictKeyList of one more child.
LEMMA AppendKeyHas ==
  ASSUME NEW d \in Dict, NEW key, NEW own \in Seq(Item), NEW kids \in Seq(Item), NEW v \in Item,
         KeyHas(d, key, own, kids)
  PROVE  KeyHas(AppendToDictKeyList(d, key, v, options.explicit_array), key, own, Append(kids, v))
<1>1. PICK s : s = own \o kids
  OBVIOUS
<1>2. s \in Seq(Item) /\ Len(s) \in Nat /\ Len(s) = Len(own) + Len(kids)
  BY <1>1, ConcatProperties, LenProperties
<1>3. own \o Append(kids, v) = Append(s, v)
  BY <1>1
<1>4. Append(s, v) # <<>> /\ Len(Append(s, v)) = Len(s) + 1
  BY <1>2, AppendStack
<1>5. PICK new : new = AppendToDictKeyList(d, key, v, options.explicit_array)
  OBVIOUS
<1>6. key \in DOMAIN new
  BY <1>5 DEF AppendToDictKeyList, SetDictKeyValue
<1>7. CASE s = <<>>
  <2>1. key \notin DOMAIN d /\ own = <<>>
    BY <1>1, <1>2, <1>7, EmptySeq DEF KeyHas
  <2>2. new[key] = IF options.explicit_array THEN List(<<v>>) ELSE v
    BY <1>5, <2>1 DEF AppendToDictKeyList, SetDictKeyValue
  <2>3. Append(s, v) = <<v>> /\ Len(<<v>>) = 1 /\ <<v>>[1] = v
    BY <1>7
  <2>4. Meant(own, Append(kids, v)) = IF options.explicit_array THEN List(<<v>>) ELSE v
    BY <1>3, <2>1, <2>3 DEF Meant
  <2> QED
    BY <1>3, <1>4, <1>5, <1>6, <2>2, <2>4 DEF KeyHas
<1>8. CASE s # <<>>
  <2>1. key \in DOMAIN d /\ d[key] = Meant(own, kids)
    BY <1>1, <1>8 DEF KeyHas
  <2>2. new[key] = List(Append(AsList(d[key]), v))
    BY <1>5, <2>1 DEF AppendToDictKeyList, SetDictKeyValue
  <2>3. AsList(d[key]) = s
    <3>1. CASE d[key] = List(s)
      BY <3>1, ListIsList
    <3>2. CASE Len(s) = 1 /\ d[key] = s[1]
      <4>1. s[1] \in Item
        BY <1>2, <3>2
      <4>2. s = <<s[1]>>
        <5>1. PICK x \in Item : x = s[1]
          BY <4>1
        <5>2. <<x>> \in Seq(Item) /\ Len(<<x>>) = 1 /\ <<x>>[1] = x
          OBVIOUS
        <5>3. \A i \in 1..Len(s) : s[i] = <<x>>[i]
          BY <3>2, <5>1, <5>2
        <5>4. s = <<x>>
          BY <1>2, <3>2, <5>2, <5>3, SeqEqual
        <5> QED
          BY <5>1, <5>4
      <4> QED
        BY <3>2, <4>1, <4>2, ItemNoList
    <3> QED
      BY <1>1, <2>1, <3>1, <3>2 DEF Meant
  <2>4. Len(Append(s, v)) # 1
    BY <1>2, <1>4, <1>8, EmptySeq
  <2>5. Meant(own, Append(kids, v)) = List(Append(s, v))
    BY <1>3, <2>4 DEF Meant
  <2> QED
    BY <1>3, <1>4, <1>5, <1>6, <2>2, <2>3, <2>5 DEF KeyHas
<1> QED
  BY <1>7, <1>8

\* The other keys keep what they have.
LEMMA OtherKeyHas ==
  ASSUME NEW d, NEW key, NEW v, NEW k, k # key, NEW own, NEW kids
  PROVE  KeyHas(SetDictKeyValue(d, key, v), k, own, kids) <=> KeyHas(d, k, own, kids)
<1>1. /\ k \in DOMAIN SetDictKeyValue(d, key, v) <=> k \in DOMAIN d
      /\ k \in DOMAIN d => SetDictKeyValue(d, key, v)[k] = d[k]
  BY DEF SetDictKeyValue
<1> QED
  BY <1>1 DEF KeyHas

-----------------------------------------------------------------------------
(***************************************************************************)
(* The strings on StringStack.                                             *)
(***************************************************************************)

\* PushEmptyString gives a string without text and leaves the others alone.
LEMMA PushTexts ==
  ASSUME NEW t, StringStack(t)
  PROVE  LET u == PushEmptyString(t)
         IN  /\ u.stack = Append(t.stack, u.top) /\ u.heap[u.top] = <<>>
             /\ \A i \in DOMAIN t.stack : u.heap[t.stack[i]] = t.heap[t.stack[i]]
<1>0. /\ t.heap \in Seq(Seq(Char)) /\ t.stack \in Seq(DOMAIN t.heap) /\ t.cache \in Seq(DOMAIN t.heap)
      /\ \A i \in DOMAIN t.stack, j \in DOMAIN t.cache : t.stack[i] # t.cache[j]
  BY StringStackFields DEF StringStack
<1>1. \A i \in DOMAIN t.stack : t.stack[i] \in DOMAIN t.heap
  BY <1>0, StackElements
<1>u. PICK u : u = PushEmptyString(t)
  OBVIOUS
<1>2. CASE t.cache = <<>>
  <2>1. PICK h : h = Append(t.heap, <<>>)
    OBVIOUS
  <2>2. PICK n : n = Len(t.heap) + 1
    OBVIOUS
  <2>3. u = Strings(h, n, Append(t.stack, n), t.cache)
    BY <1>2, <1>u, <2>1, <2>2 DEF PushEmptyString
  <2>4. u.heap = h /\ u.top = n /\ u.stack = Append(t.stack, n)
    BY <2>3 DEF Strings
  <2>5. <<>> \in Seq(Char)
    OBVIOUS
  <2>6. h[n] = <<>> /\ \A i \in DOMAIN t.heap : h[i] = t.heap[i]
    BY <1>0, <2>1, <2>2, <2>5, AppendProperties, LenProperties
  <2> QED
    BY <1>1, <1>u, <2>4, <2>6
<1>3. CASE t.cache # <<>>
  <2>1. PICK x : x = Last(t.cache)
    OBVIOUS
  <2>2. x \in DOMAIN t.heap /\ \E j \in DOMAIN t.cache : t.cache[j] = x
    BY <1>0, <1>3, <2>1, FrontLast, FrontDomain
  <2>3. PICK h : h = [t.heap EXCEPT ![x] = <<>>]
    OBVIOUS
  <2>4. u = Strings(h, x, Append(t.stack, x), Front(t.cache))
    BY <1>3, <1>u, <2>1, <2>3 DEF PushEmptyString
  <2>5. u.heap = h /\ u.top = x /\ u.stack = Append(t.stack, x)
    BY <2>4 DEF Strings
  <2>6. h[x] = <<>> /\ \A i \in DOMAIN t.heap : i # x => h[i] = t.heap[i]
    BY <2>2, <2>3
  <2>7. \A i \in DOMAIN t.stack : t.stack[i] # x
    BY <1>0, <2>2
  <2> QED
    BY <1>1, <1>u, <2>5, <2>6, <2>7
<1> QED
  BY <1>2, <1>3

\* A change of the top string is one of the last on the stack alone.
LEMMA TopTexts ==
  ASSUME NEW t, StringStack(t), t.stack # <<>>, NEW s
  PROVE  LET u == SetTopString(t, s)
         IN  /\ u.stack = t.stack /\ u.top = t.top /\ u.heap[t.top] = s
             /\ Len(t.stack) \in DOMAIN t.stack /\ t.stack[Len(t.stack)] = t.top
             /\ u.heap[t.stack[Len(t.stack)]] = s
             /\ \A i \in DOMAIN t.stack : i # Len(t.stack) => u.heap[t.stack[i]] = t.heap[t.stack[i]]
<1>0. /\ t.heap \in Seq(Seq(Char)) /\ t.stack \in Seq(DOMAIN t.heap) /\ t.top \in DOMAIN t.heap
      /\ IsInjective(t.stack) /\ t.top = Last(t.stack)
  BY StringStackFields DEF StringStack
<1>1. /\ \A i \in DOMAIN t.stack : t.stack[i] \in DOMAIN t.heap
      /\ Len(t.stack) \in DOMAIN t.stack /\ t.stack[Len(t.stack)] = t.top
  BY <1>0, StackElements, FrontLast, FrontDomain
<1>2. \A i \in DOMAIN t.stack : i # Len(t.stack) => t.stack[i] # t.top
  BY <1>0, <1>1 DEF IsInjective
<1>3. PICK h : h = [t.heap EXCEPT ![t.top] = s]
  OBVIOUS
<1>4. h[t.top] = s /\ \A i \in DOMAIN t.heap : i # t.top => h[i] = t.heap[i]
  BY <1>0, <1>3
<1>5. SetTopString(t, s).heap = h /\ SetTopString(t, s).stack = t.stack /\ SetTopString(t, s).top = t.top
  BY <1>3 DEF SetTopString, Strings
<1> QED
  BY <1>1, <1>2, <1>4, <1>5

\* The text of the element that ends.
LEMMA EndTextIs ==
  ASSUME BuilderInv, text.stack # <<>>
  PROVE  /\ TopString(EndText) = IF options.trim THEN Trim(text.heap[text.top]) ELSE text.heap[text.top]
         /\ Pop(EndText).stack = Front(text.stack)
         /\ \A i \in DOMAIN Front(text.stack) :
               Pop(EndText).heap[text.stack[i]] = text.heap[text.stack[i]]
<1>1. StringStack(text) /\ text.stack \in Seq(DOMAIN text.heap)
  BY StringStackFields DEF BuilderInv
<1>2. \A i \in DOMAIN Front(text.stack) : i \in DOMAIN text.stack /\ i # Len(text.stack)
  BY <1>1, FrontLast, FrontDomain
<1>3. Pop(EndText).stack = Front(EndText.stack) /\ Pop(EndText).heap = EndText.heap
  BY DEF Pop, Strings
<1>4. CASE ~options.trim
  BY <1>3, <1>2, <1>4 DEF EndText, TopString
<1>5. CASE options.trim
  <2>1. PICK s : s = Trim(text.heap[text.top])
    OBVIOUS
  <2>2. EndText = SetTopString(text, s)
    BY <1>5, <2>1 DEF EndText, TrimTopString
  <2>3. /\ EndText.stack = text.stack /\ EndText.heap[EndText.top] = s
        /\ \A i \in DOMAIN text.stack : i # Len(text.stack) => EndText.heap[text.stack[i]] = text.heap[text.stack[i]]
    BY <1>1, <2>2, TopTexts
  <2> QED
    BY <1>2, <1>3, <1>5, <2>1, <2>3 DEF TopString
<1> QED
  BY <1>4, <1>5

-----------------------------------------------------------------------------
(***************************************************************************)
(* Elements and what they are in the dictionaries.                         *)
(***************************************************************************)

\* The document and the open elements.
LEMMA DocTypes ==
  ASSUME IInv
  PROVE  /\ doc \in Seq(Elements) /\ Len(doc) \in Nat /\ DOMAIN doc = 1..Len(doc)
         /\ \A e \in DOMAIN doc : doc[e] \in Elements
         /\ open \in Seq(DOMAIN doc) /\ Len(open) \in Nat /\ DOMAIN open = 1..Len(open)
         /\ \A i \in DOMAIN open : open[i] \in DOMAIN doc
         /\ options \in Options
<1>1. doc \in Seq(Elements) /\ open \in Seq(DOMAIN doc) /\ options \in Options
  BY DEF IInv, BuilderInv, TypeBuilder, ParserInv, TypeParser, Elements
<1> QED
  BY <1>1, LenProperties, StackElements

\* The dictionary of the root.
LEMMA RootDict ==
  ASSUME BuilderInv
  PROVE  /\ root \in DOMAIN builders /\ Object(root) \in DOMAIN dicts
         /\ dicts \in Seq(Dict) /\ Len(dicts) \in Nat /\ DOMAIN dicts = 1..Len(dicts)
         /\ Object(root) \in Nat
<1>1. root \in DOMAIN builders /\ dicts \in Seq(Dict)
  BY DEF BuilderInv, TypeBuilder
<1>2. Object(root) \in DOMAIN dicts
  BY <1>1, ObjectExists DEF Object
<1> QED
  BY <1>1, <1>2, LenProperties

\* The text of an element.
LEMMA TextType ==
  ASSUME IInv, NEW e \in DOMAIN doc
  PROVE  TextOf(e) \in Seq(Char)
<1>1. doc[e].text \in Seq(Char)
  BY DocTypes DEF Elements
<1> QED
  BY <1>1, TrimType DEF TextOf

\* What an element is in the dictionary of its parent, and what it has itself.
LEMMA ItemTypes ==
  ASSUME IInv, NEW e \in DOMAIN doc
  PROVE  ItemOf(e) \in Item /\ \A key : Own(e, key) \in Seq(Item)
<1>1. Str(TextOf(e)) \in Item
  BY TextType DEF Str, Item
<1>2. DictOf(e) \in Nat
  BY DocTypes, RootDict DEF DictOf, IInv
<1>3. Ref(DictOf(e)) \in Item
  BY <1>2 DEF Ref, Item
<1>4. ItemOf(e) \in Item
  BY <1>1, <1>3 DEF ItemOf
<1>5. doc[e].attrs # NoAttrs => AttrDict(doc[e].attrs) \in Item
  BY DocTypes DEF Elements, AttrDict, Item
<1>6. \A key : Own(e, key) \in Seq(Item)
  BY <1>5 DEF Own
<1> QED
  BY <1>4, <1>6

\* What several elements are there.
LEMMA ItemsType ==
  ASSUME IInv, NEW s \in Seq(DOMAIN doc)
  PROVE  Items(s) \in Seq(Item) /\ Len(Items(s)) = Len(s) /\ DOMAIN Items(s) = DOMAIN s
<1>1. PICK n \in Nat : n = Len(s) /\ DOMAIN s = 1..n
  BY LenProperties
<1>2. \A i \in 1..n : ItemOf(s[i]) \in Item
  BY <1>1, StackElements, ItemTypes
<1>3. Items(s) = [i \in 1..n |-> ItemOf(s[i])]
  BY <1>1 DEF Items
<1>4. Items(s) \in [1..n -> Item]
  BY <1>2, <1>3
<1>5. Items(s) \in Seq(Item)
  BY <1>4, SeqDef
<1>6. DOMAIN Items(s) = 1..n /\ DOMAIN Items(s) = 1..Len(Items(s)) /\ Len(Items(s)) \in Nat
  BY <1>4, <1>5, LenProperties
<1> QED
  BY <1>1, <1>5, <1>6

\* One child more.
LEMMA ItemsAppend ==
  ASSUME IInv, NEW s \in Seq(DOMAIN doc), NEW c \in DOMAIN doc
  PROVE  Items(Append(s, c)) = Append(Items(s), ItemOf(c))
<1>1. PICK t : t = Append(s, c)
  OBVIOUS
<1>2. /\ t \in Seq(DOMAIN doc) /\ Len(t) = Len(s) + 1 /\ Len(s) \in Nat
      /\ \A i \in 1..Len(s) : t[i] = s[i]
      /\ t[Len(s) + 1] = c
  BY <1>1, AppendProperties, LenProperties
<1>3. /\ Items(t) \in Seq(Item) /\ Len(Items(t)) = Len(t) /\ DOMAIN Items(t) = DOMAIN t
      /\ Items(s) \in Seq(Item) /\ Len(Items(s)) = Len(s) /\ DOMAIN Items(s) = DOMAIN s
  BY <1>2, ItemsType
<1>4. PICK v \in Item : v = ItemOf(c)
  BY ItemTypes
<1>5. PICK u : u = Append(Items(s), v)
  OBVIOUS
<1>6. /\ u \in Seq(Item) /\ Len(u) = Len(s) + 1
      /\ \A i \in 1..Len(s) : u[i] = Items(s)[i]
      /\ u[Len(s) + 1] = v
  BY <1>3, <1>5, AppendProperties
<1>7. DOMAIN s = 1..Len(s) /\ DOMAIN t = 1..(Len(s) + 1)
  BY <1>2, LenProperties
<1>8. \A i \in 1..Len(t) : Items(t)[i] = u[i]
  <2> TAKE i \in 1..Len(t)
  <2>1. Items(t)[i] = ItemOf(t[i])
    BY <1>2, <1>7 DEF Items
  <2>2. CASE i = Len(s) + 1
    BY <2>1, <2>2, <1>2, <1>4, <1>6
  <2>3. CASE i \in 1..Len(s)
    <3>1. Items(s)[i] = ItemOf(s[i])
      BY <2>3, <1>7 DEF Items
    <3> QED
      BY <2>1, <2>3, <3>1, <1>2, <1>6
  <2> QED
    BY <2>2, <2>3, <1>2
<1>9. Items(t) = u
  BY <1>2, <1>3, <1>6, <1>8, SeqEqual
<1> QED
  BY <1>1, <1>4, <1>5, <1>9

\* An element that ended is the same to its parent.
LEMMA ItemKept ==
  ASSUME options' = options, Object(root)' = Object(root), NEW c,
         IsSimple(c)' <=> IsSimple(c), doc'[c].text = doc[c].text
  PROVE  ItemOf(c)' = ItemOf(c)
<1>1. TextOf(c)' = TextOf(c) /\ DictOf(c)' = DictOf(c)
  BY DEF TextOf, DictOf
<1> QED
  BY <1>1 DEF ItemOf

\* A dictionary is that of an element as long as its children that ended, and
\* where they count its attributes and its text, are the same.
LEMMA DictKept ==
  ASSUME options' = options, NEW e, NEW w \in BOOLEAN, NEW d, NEW S,
         doc'[e].attrs = doc[e].attrs, w => doc'[e].text = doc[e].text,
         \A key \in Keys : ClosedChildren(e, key)' = ClosedChildren(e, key)
                             /\ ClosedChildren(e, key) \in Seq(S),
         \A c \in S : ItemOf(c)' = ItemOf(c),
         IsDictOf(d, e, w)
  PROVE  IsDictOf(d, e, w)'
<1>1. ASSUME NEW key \in Keys
      PROVE  Items(ClosedChildren(e, key))' = Items(ClosedChildren(e, key))
  <2>1. PICK s : s = ClosedChildren(e, key) /\ s = ClosedChildren(e, key)' /\ s \in Seq(S)
    OBVIOUS
  <2>2. \A i \in DOMAIN s : ItemOf(s[i])' = ItemOf(s[i])
    <3> TAKE i \in DOMAIN s
    <3>1. s[i] \in S
      BY <2>1, StackElements
    <3> QED
      BY <3>1
  <2>3. Items(ClosedChildren(e, key)) = [i \in DOMAIN s |-> ItemOf(s[i])]
    BY <2>1 DEF Items
  <2>4. Items(ClosedChildren(e, key))' = [i \in DOMAIN s |-> ItemOf(s[i])']
    BY <2>1 DEF Items
  <2> QED
    BY <2>2, <2>3, <2>4
<1>2. \A key : Own(e, key)' = Own(e, key)
  BY DEF Own
<1>3. w => TextOf(e)' = TextOf(e)
  BY DEF TextOf
<1>4. \A key : w => (Worded(e, key)' <=> Worded(e, key))
  BY <1>3 DEF Worded
<1>5. ASSUME NEW own, NEW kids PROVE Meant(own, kids)' = Meant(own, kids)
  BY DEF Meant
<1>6. ASSUME NEW key \in Keys
      PROVE  IF w /\ Worded(e, key)' THEN key \in DOMAIN d /\ d[key] = Str(TextOf(e)')
             ELSE KeyHas(d, key, Own(e, key), Items(ClosedChildren(e, key)))'
  <2>1. IF w /\ Worded(e, key) THEN key \in DOMAIN d /\ d[key] = Str(TextOf(e))
        ELSE KeyHas(d, key, Own(e, key), Items(ClosedChildren(e, key)))
    BY DEF IsDictOf
  <2>2. PICK own : own = Own(e, key) /\ own = Own(e, key)'
    BY <1>2
  <2>3. PICK kids : kids = Items(ClosedChildren(e, key)) /\ kids = Items(ClosedChildren(e, key))'
    BY <1>1
  <2>4. KeyHas(d, key, Own(e, key), Items(ClosedChildren(e, key)))'
          <=> KeyHas(d, key, Own(e, key), Items(ClosedChildren(e, key)))
    BY <2>2, <2>3, <1>5 DEF KeyHas
  <2> QED
    BY <2>1, <2>4, <1>3, <1>4
<1> QED
  BY <1>6 DEF IsDictOf, Str

-----------------------------------------------------------------------------
(***************************************************************************)
(* OnStartElement.                                                         *)
(***************************************************************************)

\* An element that has just started, without children: its dictionary has its
\* attributes.
LEMMA StartDict ==
  ASSUME NEW e, doc'[e].attrs \in Attrs \cup {NoAttrs}, options' = options,
         \A key : Children(e, key)' = <<>>
  PROVE  IsDictOf(SetAttrKey(EmptyDict, doc[e].attrs), e, FALSE)'
<1>a. PICK a : a = doc'[e].attrs
  OBVIOUS
<1>d. PICK d : d = SetAttrKey(EmptyDict, a)
  OBVIOUS
<1>1. d = SetAttrKey(EmptyDict, doc[e].attrs)'
  BY <1>a, <1>d DEF SetAttrKey
<1>2. ASSUME NEW key \in Keys
      PROVE  KeyHas(d, key, Own(e, key), Items(ClosedChildren(e, key)))'
  <2>1. ClosedChildren(e, key)' = <<>>
    BY DEF ClosedChildren
  <2>2. Items(ClosedChildren(e, key))' = <<>>
    BY <2>1 DEF Items
  <2>3. PICK own : own = Own(e, key)'
    OBVIOUS
  <2>4. own = IF a # NoAttrs /\ key = options.attrkey THEN <<AttrDict(a)>> ELSE <<>>
    BY <1>a, <2>3 DEF Own
  <2>5. CASE a # NoAttrs /\ key = options.attrkey
    <3>1. own = <<AttrDict(a)>> /\ own \o <<>> = <<AttrDict(a)>> /\ Len(<<AttrDict(a)>>) = 1
          /\ <<AttrDict(a)>>[1] = AttrDict(a) /\ own # <<>>
      BY <2>4, <2>5
    <3>2. key \in DOMAIN d /\ d[key] = AttrDict(a)
      BY <1>d, <2>5 DEF SetAttrKey, SetDictKeyValue
    <3>3. Meant(own, <<>>)' = AttrDict(a)
      BY <3>1 DEF Meant
    <3> QED
      BY <2>2, <2>3, <3>1, <3>2, <3>3 DEF KeyHas
  <2>6. CASE ~(a # NoAttrs /\ key = options.attrkey)
    <3>1. own = <<>> /\ own \o <<>> = <<>>
      BY <2>4, <2>6
    <3>2. key \notin DOMAIN d
      BY <1>d, <2>6 DEF SetAttrKey, SetDictKeyValue, EmptyDict
    <3> QED
      BY <2>2, <2>3, <3>1, <3>2 DEF KeyHas
  <2> QED
    BY <2>5, <2>6
<1>3. IsDictOf(d, e, FALSE)'
  BY <1>2 DEF IsDictOf
<1> QED
  BY <1>1, <1>3

\* The document and the open elements once an inner element has started.
LEMMA StartPath ==
  ASSUME IInv, TreeInv, PathInv, ChildrenInv, phase = "in",
         NEW el \in Name, NEW attrs \in Attrs \cup {NoAttrs},
         doc' = Append(doc, Element(el, attrs)), open' = Append(open, Len(doc'))
  PROVE  LET n == Len(doc) + 1
             p == Last(open)
         IN  /\ Len(doc') = n /\ DOMAIN doc' = DOMAIN doc \cup {n} /\ n \notin DOMAIN doc
             /\ \A e \in DOMAIN doc : doc'[e] = doc[e]
             /\ doc'[n] = Element(el, attrs) /\ Element(el, attrs) \in Elements
             /\ Element(el, attrs).parent = p /\ p \in DOMAIN doc /\ p = open[Len(open)]
             /\ Len(open) \in Nat \ {0} /\ Len(open') = Len(open) + 1 /\ DOMAIN open' = 1..(Len(open) + 1)
             /\ open'[Len(open) + 1] = n /\ \A i \in DOMAIN open : open'[i] = open[i]
             /\ \A e : IsOpen(e)' <=> (IsOpen(e) \/ e = n)
             /\ Closed' = Closed
<1>0. /\ doc \in Seq(Elements) /\ Len(doc) \in Nat /\ DOMAIN doc = 1..Len(doc)
      /\ open \in Seq(DOMAIN doc) /\ Len(open) \in Nat /\ DOMAIN open = 1..Len(open)
      /\ \A i \in DOMAIN open : open[i] \in DOMAIN doc
  BY DocTypes
<1>1. /\ open # <<>> /\ Last(open) \in DOMAIN doc /\ Last(open) = open[Len(open)] /\ Len(open) \in Nat \ {0}
  BY <1>0, OpenElements, FrontLast
<1>2. PICK n : n = Len(doc) + 1
  OBVIOUS
<1>3. PICK x : x = Element(el, attrs)
  OBVIOUS
<1>4. x \in Elements /\ x.parent = Last(open) /\ x.el = el
  <2>1. Last(open) \in Nat
    BY <1>0, <1>1
  <2>2. x = [el |-> el, attrs |-> attrs, text |-> <<>>, parent |-> Last(open)]
    BY <1>1, <1>3 DEF Element
  <2> QED
    BY <2>1, <2>2 DEF Elements
<1>5. /\ doc' \in Seq(Elements) /\ Len(doc') = n /\ DOMAIN doc' = 1..n /\ doc'[n] = x
      /\ \A e \in DOMAIN doc : doc'[e] = doc[e]
  BY <1>0, <1>2, <1>3, <1>4, AppendProperties, LenProperties
<1>6. /\ DOMAIN open' = 1..(Len(open) + 1) /\ Len(open') = Len(open) + 1 /\ open'[Len(open) + 1] = n
      /\ \A i \in DOMAIN open : open'[i] = open[i]
  <2>1. open' = Append(open, n)
    BY <1>5
  <2>2. open \in Seq(Nat) /\ n \in Nat
    <3>1. DOMAIN doc \subseteq Nat
      BY <1>0
    <3> QED
      BY <1>0, <1>2, <3>1, SeqMonotonic
  <2> QED
    BY <1>0, <2>1, <2>2, AppendProperties, LenProperties
<1>7. n \notin DOMAIN doc /\ DOMAIN doc' = DOMAIN doc \cup {n}
  BY <1>0, <1>2, <1>5
<1>8. ASSUME NEW e PROVE IsOpen(e)' <=> (IsOpen(e) \/ e = n)
  <2>1. DOMAIN open' = DOMAIN open \cup {Len(open) + 1}
    BY <1>0, <1>6
  <2> QED
    BY <2>1, <1>6 DEF IsOpen
<1>9. Closed' = Closed
  BY <1>7, <1>8 DEF Closed
<1> QED
  BY <1>1, <1>2, <1>3, <1>4, <1>5, <1>6, <1>7, <1>8, <1>9

\* The others of a stack that grew are the old ones.
LEMMA FrontAppend ==
  ASSUME NEW S, NEW s \in Seq(S), NEW e \in S
  PROVE  Front(Append(s, e)) = s
<1>1. /\ Append(s, e) \in Seq(S) /\ Append(s, e) # <<>> /\ Len(s) \in Nat /\ Len(Append(s, e)) = Len(s) + 1
      /\ \A i \in 1..Len(s) : Append(s, e)[i] = s[i]
  BY AppendProperties, LenProperties
<1>2. PICK t : t = Append(s, e)
  OBVIOUS
<1>3. PICK f : f = Front(t)
  OBVIOUS
<1>4. f \in Seq(S) /\ Len(f) = Len(s) /\ \A i \in 1..Len(s) : f[i] = t[i]
  <2>1. f \in Seq(S) /\ Len(f) = Len(t) - 1 /\ \A i \in 1..(Len(t) - 1) : f[i] = t[i]
    BY <1>1, <1>2, <1>3, FrontLast
  <2>2. Len(t) - 1 = Len(s)
    BY <1>1, <1>2
  <2> QED
    BY <2>1, <2>2
<1>5. f = s
  BY <1>1, <1>2, <1>4, SeqEqual
<1> QED
  BY <1>2, <1>3, <1>5

\* A stack is its last element on the others.
LEMMA FrontAndLast ==
  ASSUME NEW S, NEW s \in Seq(S), s # <<>>
  PROVE  s = Append(Front(s), Last(s))
<1>1. PICK t \in Seq(S), e \in S : s = Append(t, e)
  BY SequenceEmptyOrAppend
<1> QED
  BY <1>1, FrontAppend, AppendStack

\* No element after the last open one is open.
LEMMA OpenUpTo ==
  ASSUME IInv, PathInv, open # <<>>, NEW c, IsOpen(c)
  PROVE  c <= Last(open)
<1>1. PICK i \in DOMAIN open : open[i] = c
  BY DEF IsOpen
<1>2. /\ DOMAIN open = 1..Len(open) /\ Len(open) \in DOMAIN open /\ Last(open) = open[Len(open)]
      /\ open[i] \in Nat /\ Len(open) \in Nat
  <2>1. /\ open \in Seq(DOMAIN doc) /\ DOMAIN open = 1..Len(open) /\ Len(open) \in Nat
        /\ open[i] \in DOMAIN doc /\ DOMAIN doc = 1..Len(doc)
    BY <1>1, DocTypes
  <2>2. Last(open) = open[Len(open)] /\ Len(open) \in DOMAIN open
    BY <2>1, FrontLast, FrontDomain
  <2> QED
    BY <2>1, <2>2
<1>3. CASE i = Len(open)
  BY <1>1, <1>2, <1>3
<1>4. CASE i # Len(open)
  <2>1. i < Len(open)
    BY <1>2, <1>4
  <2>2. open[i] < open[Len(open)]
    BY <1>2, <2>1 DEF PathInv
  <2>3. open[Len(open)] \in Nat
    BY <1>2, DocTypes
  <2> QED
    BY <1>1, <1>2, <2>2, <2>3
<1> QED
  BY <1>3, <1>4

\* What started before has the children that ended it had.
LEMMA StartChildren ==
  ASSUME IInv, TreeInv, PathInv, ChildrenInv, phase = "in",
         NEW el \in Name, NEW attrs \in Attrs \cup {NoAttrs},
         doc' = Append(doc, Element(el, attrs)), open' = Append(open, Len(doc')),
         NEW n, n = Len(doc) + 1, NEW p, p = Last(open), NEW key
  PROVE  /\ Children(n, key)' = <<>>
         /\ Children(p, el)' = Append(Children(p, el), n)
         /\ \A e \in DOMAIN doc : e # p \/ key # el => Children(e, key)' = Children(e, key)
         /\ \A e \in DOMAIN doc : ClosedChildren(e, key)' = ClosedChildren(e, key)
<1>n. n = Len(doc) + 1
  OBVIOUS
<1>p. p = Last(open)
  OBVIOUS
<1>x. PICK x : x = Element(el, attrs)
  OBVIOUS
<1>0. /\ doc \in Seq(Elements) /\ Len(doc) \in Nat /\ DOMAIN doc = 1..Len(doc) /\ open # <<>>
  BY DocTypes, OpenElements
<1>1. /\ x \in Elements /\ x.parent = p /\ p \in DOMAIN doc /\ n \notin DOMAIN doc
      /\ \A e : IsOpen(e)' <=> (IsOpen(e) \/ e = n)
  BY <1>n, <1>p, <1>x, StartPath
<1>2. x.el = el
  BY <1>x DEF Element
<1>3. \A e, k : Children(e, k)' = IF p = e /\ el = k THEN Append(Children(e, k), n) ELSE Children(e, k)
  BY <1>0, <1>1, <1>2, <1>n, <1>x, ChildrenMore
<1>4. Children(n, key)' = <<>>
  <2>1. Children(n, key)' = Children(n, key)
    BY <1>1, <1>3
  <2>2. Children(n, key) \in Seq(DOMAIN doc)
    BY ChildrenType
  <2>3. ASSUME Children(n, key) # <<>> PROVE FALSE
    <3>1. PICK c : c = Children(n, key)[Len(Children(n, key))]
      OBVIOUS
    <3>2. c \in DOMAIN doc /\ doc[c].parent = n
      BY <2>2, <2>3, <3>1, FrontDomain, ChildrenType
    <3>3. doc[c].parent = 0 \/ doc[c].parent \in 1..(c - 1)
      BY <3>2 DEF TreeInv
    <3> QED
      BY <3>2, <3>3, <1>0, <1>n
  <2> QED
    BY <2>1, <2>3
<1>5. ASSUME NEW e \in DOMAIN doc PROVE ClosedChildren(e, key)' = ClosedChildren(e, key)
  <2>1. PICK C : C = Children(e, key)
    OBVIOUS
  <2>2. C \in Seq(DOMAIN doc)
    BY <2>1, ChildrenType
  <2>3. C # <<>> => Last(C) \in DOMAIN doc /\ Last(C) > e
    <3> SUFFICES ASSUME C # <<>> PROVE Last(C) \in DOMAIN doc /\ Last(C) > e
      OBVIOUS
    <3>1. Last(C) = C[Len(C)] /\ Len(C) \in DOMAIN C
      BY <2>2, FrontLast, FrontDomain
    <3> QED
      BY <2>1, <3>1, ChildrenLater
  <2>4. CASE p = e /\ el = key
    <3>1. PICK D : D = Append(C, n)
      OBVIOUS
    <3>2. Children(e, key)' = D
      BY <1>3, <2>1, <2>4, <3>1
    <3>3. D # <<>> /\ Last(D) = n /\ Front(D) = C
      <4>1. DOMAIN doc \subseteq Nat /\ n \in Nat
        BY <1>0, <1>n
      <4>2. C \in Seq(Nat)
        BY <2>2, <4>1, SeqMonotonic
      <4> QED
        BY <3>1, <4>1, <4>2, AppendStack, FrontAppend
    <3>4. IsOpen(n)'
      BY <1>1
    <3>5. ClosedChildren(e, key)' = C
      BY <3>2, <3>3, <3>4 DEF ClosedChildren
    <3>6. ASSUME C # <<>>, IsOpen(Last(C)) PROVE FALSE
      <4>1. Last(C) <= p
        BY <3>6, <1>0, <1>p, OpenUpTo
      <4> QED
        BY <4>1, <2>3, <3>6, <2>4, <1>0
    <3>7. ClosedChildren(e, key) = C
      BY <2>1, <3>6 DEF ClosedChildren
    <3> QED
      BY <3>5, <3>7
  <2>5. CASE ~(p = e /\ el = key)
    <3>1. Children(e, key)' = C
      BY <1>3, <2>1, <2>5
    <3>2. C # <<>> => (IsOpen(Last(C))' <=> IsOpen(Last(C)))
      <4>1. PICK c : c = Last(C)
        OBVIOUS
      <4>2. C # <<>> => c # n
        BY <2>3, <4>1, <1>1
      <4>3. C # <<>> => (IsOpen(c)' <=> IsOpen(c))
        BY <4>2, <1>1
      <4> QED
        BY <4>1, <4>3 DEF IsOpen
    <3> QED
      BY <2>1, <3>1, <3>2 DEF ClosedChildren
  <2> QED
    BY <2>4, <2>5
<1> QED
  BY <1>1, <1>3, <1>4, <1>5, <1>n, <1>p

\* The tree with one element more: it makes its parent one that is not simple.
LEMMA StartTree ==
  ASSUME IInv, TreeInv, PathInv, ChildrenInv, phase = "in",
         NEW el \in Name, NEW attrs \in Attrs \cup {NoAttrs},
         doc' = Append(doc, Element(el, attrs)), open' = Append(open, Len(doc')),
         NEW n, n = Len(doc) + 1, NEW p, p = Last(open)
  PROVE  /\ TreeInv' /\ ChildrenInv'
         /\ \A c \in DOMAIN doc : c # p => (IsSimple(c)' <=> IsSimple(c))
         /\ ~IsSimple(p)' /\ (IsSimple(n)' <=> attrs = NoAttrs)
<1>x. PICK x : x = Element(el, attrs)
  OBVIOUS
<1>0. doc \in Seq(Elements) /\ Len(doc) \in Nat /\ DOMAIN doc = 1..Len(doc)
  BY DocTypes
<1>1. /\ x \in Elements /\ x.parent = p /\ p \in DOMAIN doc /\ n \notin DOMAIN doc
      /\ DOMAIN doc' = DOMAIN doc \cup {n} /\ doc'[n] = x /\ \A e \in DOMAIN doc : doc'[e] = doc[e]
      /\ Closed' = Closed
  BY <1>x, StartPath
<1>2. x.attrs = attrs
  BY <1>x DEF Element
<1>3. 1 \in DOMAIN doc /\ n # 1 /\ n \in Nat
  BY <1>0, EmptySeq DEF TreeInv
<1>4. \A c \in DOMAIN doc : doc[c].parent # n
  <2> TAKE c \in DOMAIN doc
  <2>1. doc[c].parent = 0 \/ doc[c].parent \in 1..(c - 1)
    BY DEF TreeInv
  <2> QED
    BY <2>1, <1>0
<1>5. TreeInv'
  <2>1. doc' # <<>>
    <3>1. DOMAIN doc' # {}
      BY <1>1
    <3>2. DOMAIN <<>> = {}
      OBVIOUS
    <3> QED
      BY <3>1, <3>2
  <2>2. doc'[1].parent = 0
    BY <1>1, <1>3 DEF TreeInv
  <2>3. ASSUME NEW c \in DOMAIN doc', c # 1 PROVE doc'[c].parent \in 1..(c - 1)
    <3>1. CASE c = n
      BY <3>1, <1>0, <1>1
    <3>2. CASE c \in DOMAIN doc
      BY <3>2, <2>3, <1>1 DEF TreeInv
    <3> QED
      BY <3>1, <3>2, <1>1
  <2> QED
    BY <2>1, <2>2, <2>3 DEF TreeInv
<1>6. ASSUME NEW c \in DOMAIN doc, c # p PROVE IsSimple(c)' <=> IsSimple(c)
  BY <1>1, <1>6 DEF IsSimple
<1>7. ~IsSimple(p)'
  BY <1>1 DEF IsSimple
<1>8. IsSimple(n)' <=> attrs = NoAttrs
  <2>1. \A c \in DOMAIN doc' : doc'[c].parent # n
    BY <1>1, <1>4
  <2> QED
    BY <1>1, <1>2, <1>3, <2>1 DEF IsSimple
<1>9. ChildrenInv'
  <2> SUFFICES ASSUME NEW e \in DOMAIN doc', NEW key \in Keys
               PROVE  ClosedChildren(e, key)' \in Seq(Closed')
    BY DEF ChildrenInv
  <2>1. CASE e = n
    <3>1. Children(e, key)' = <<>>
      BY <2>1, StartChildren
    <3>2. ClosedChildren(e, key)' = <<>>
      BY <3>1 DEF ClosedChildren
    <3> QED
      BY <3>2
  <2>2. CASE e \in DOMAIN doc
    <3>1. ClosedChildren(e, key)' = ClosedChildren(e, key)
      BY <2>2, StartChildren
    <3>2. ClosedChildren(e, key) \in Seq(Closed)
      BY <2>2 DEF ChildrenInv
    <3> QED
      BY <3>1, <3>2, <1>1
  <2> QED
    BY <2>1, <2>2, <1>1
<1> QED
  BY <1>5, <1>6, <1>7, <1>8, <1>9

\* The other elements have the children they had.
LEMMA StartOthers ==
  ASSUME IInv, TreeInv, PathInv, ChildrenInv, phase = "in",
         NEW el \in Name, NEW attrs \in Attrs \cup {NoAttrs},
         doc' = Append(doc, Element(el, attrs)), open' = Append(open, Len(doc')),
         NEW n, n = Len(doc) + 1, NEW p, p = Last(open), NEW key, NEW e \in DOMAIN doc, e # p
  PROVE  Children(e, key)' = Children(e, key)
<1>1. PICK x : x = Element(el, attrs)
  OBVIOUS
<1>2. doc \in Seq(Elements)
  BY DocTypes
<1>3. x \in Elements /\ x.parent = p
  BY <1>1, StartPath
<1>4. Children(e, key)' = IF x.parent = e /\ x.el = key
                         THEN Append(Children(e, key), Len(doc) + 1) ELSE Children(e, key)
  BY <1>1, <1>2, <1>3, ChildrenMore
<1> QED
  BY <1>3, <1>4

\* The path with one element more.
LEMMA StartPathInv ==
  ASSUME IInv, TreeInv, PathInv, ChildrenInv, phase = "in",
         NEW el \in Name, NEW attrs \in Attrs \cup {NoAttrs},
         doc' = Append(doc, Element(el, attrs)), open' = Append(open, Len(doc')),
         Len(stack') = Len(stack) + 1
  PROVE  PathInv'
<1>n. PICK n : n = Len(doc) + 1
  OBVIOUS
<1>p. PICK p : p = Last(open)
  OBVIOUS
<1>m. PICK m \in Nat \ {0} : m = Len(open)
  BY OpenElements
<1>0. /\ doc \in Seq(Elements) /\ Len(doc) \in Nat /\ DOMAIN doc = 1..Len(doc)
      /\ DOMAIN open = 1..m /\ open # <<>> /\ \A i \in 1..m : open[i] \in DOMAIN doc
  BY <1>m, DocTypes, OpenElements
<1>1. /\ n \notin DOMAIN doc /\ p \in DOMAIN doc /\ p = open[m] /\ DOMAIN doc' = DOMAIN doc \cup {n}
      /\ \A e \in DOMAIN doc : doc'[e] = doc[e]
      /\ doc'[n].parent = p /\ doc'[n].el = el
      /\ Len(open') = m + 1 /\ DOMAIN open' = 1..(m + 1)
      /\ open'[m + 1] = n /\ \A i \in 1..m : open'[i] = open[i]
  <2>1. Element(el, attrs).el = el
    BY DEF Element
  <2> QED
    BY <1>0, <1>n, <1>p, <1>m, <2>1, StartPath
<1>2. Len(open') = Len(stack') /\ open' # <<>> /\ open'[1] = 1
  <2>1. open'[1] = open[1] /\ open[1] = 1
    BY <1>0, <1>1 DEF PathInv
  <2>2. open' # <<>>
    <3>1. DOMAIN open' # {} /\ DOMAIN <<>> = {}
      BY <1>1
    <3> QED
      BY <3>1
  <2> QED
    BY <2>1, <2>2, <1>1, <1>m DEF PathInv
<1>3. ASSUME NEW i \in DOMAIN open', NEW j \in DOMAIN open', i < j PROVE open'[i] < open'[j]
  <2>1. i \in 1..m
    BY <1>1, <1>3
  <2>2. CASE j = m + 1
    BY <2>1, <2>2, <1>0, <1>1, <1>n
  <2>3. CASE j \in 1..m
    BY <2>1, <2>3, <1>0, <1>1, <1>3 DEF PathInv
  <2> QED
    BY <2>2, <2>3, <1>1
<1>4. ASSUME NEW i \in 1..m
      PROVE  LET e == open'[i]
                 c == open'[i + 1]
             IN  /\ e < c /\ doc'[c].parent = e
                 /\ Children(open[i], doc[open[i + 1]].el)' # <<>>
                 /\ Last(Children(open[i], doc[open[i + 1]].el)') = c
  <2>1. PICK e : e = open'[i] /\ e = open[i] /\ e \in DOMAIN doc
    BY <1>0, <1>1
  <2>2. PICK c : c = open'[i + 1]
    OBVIOUS
  <2>3. e < c
    <3>1. i \in DOMAIN open' /\ i + 1 \in DOMAIN open' /\ i < i + 1
      BY <1>1
    <3> QED
      BY <3>1, <2>1, <2>2, <1>3
  <2>4. PICK k : k = doc'[c].el
    OBVIOUS
  <2>5. Children(open[i], doc[open[i + 1]].el)' = Children(e, k)'
    BY <2>1, <2>2, <2>4
  <2>6. CASE i = m
    <3>1. c = n /\ e = p /\ k = el
      BY <2>1, <2>2, <2>4, <2>6, <1>1
    <3>2. Children(e, k)' = Append(Children(e, k), n)
      BY <3>1, <1>n, <1>p, StartChildren
    <3>3. Append(Children(e, k), n) # <<>> /\ Last(Append(Children(e, k), n)) = n
      <4>1. DOMAIN doc \subseteq Nat /\ n \in Nat
        BY <1>0, <1>n
      <4>2. Children(e, k) \in Seq(Nat)
        BY <4>1, ChildrenType, SeqMonotonic
      <4> QED
        BY <4>1, <4>2, AppendStack
    <3> QED
      BY <2>1, <2>2, <2>3, <2>5, <3>1, <3>2, <3>3, <1>1
  <2>7. CASE i # m
    <3>1. i \in 1..(m - 1) /\ i + 1 \in 1..m
      BY <2>7
    <3>2. c = open[i + 1] /\ c \in DOMAIN doc /\ k = doc[c].el /\ doc'[c] = doc[c]
      BY <2>2, <2>4, <3>1, <1>0, <1>1
    <3>3. doc[c].parent = e /\ Children(e, k) # <<>> /\ Last(Children(e, k)) = c
      BY <2>1, <3>1, <3>2, <1>m DEF PathInv
    <3>4. e # p
      <4>1. i \in DOMAIN open /\ m \in DOMAIN open /\ i < m
        BY <3>1, <1>0
      <4>2. e < p
        BY <4>1, <2>1, <1>1 DEF PathInv
      <4> QED
        BY <4>2, <2>1, <1>0, <1>1
    <3>5. Children(e, k)' = Children(e, k)
      BY <2>1, <3>4, <1>n, <1>p, StartOthers
    <3> QED
      BY <2>1, <2>2, <2>3, <2>5, <3>2, <3>3, <3>5
  <2> QED
    BY <2>6, <2>7
<1>5. Len(open') - 1 = m
  BY <1>1
<1> QED
  BY <1>2, <1>3, <1>4, <1>5 DEF PathInv

\* The builders on the stack keep their dictionaries, the new one has the next.
LEMMA StartInnerStack ==
  ASSUME BuilderInv, stack # <<>>, stack[1] = root, NEW attrs, StartInner(attrs), ~Undefined,
         NEW m, m = Len(stack)
  PROVE  /\ m \in Nat \ {0} /\ DOMAIN stack = 1..m /\ DOMAIN stack' = 1..(m + 1) /\ Len(stack') = m + 1
         /\ \A i \in 1..m : stack'[i] = stack[i] /\ Object(stack[i])' = Object(stack[i])
         /\ Object(stack[m + 1])' = Len(dicts) + 1
         /\ root' = root /\ Object(root)' = Object(root)
<1>n. PICK n : n = NewBuilder
  OBVIOUS
<1>1. builders' = BuildersAfterNew(current) /\ stack' = Append(stack, n) /\ root' = root
  BY <1>n DEF StartInner
<1>2. /\ builders'[n].object = Len(dicts) + 1
      /\ \A b \in DOMAIN builders : b # n => builders'[b] = builders[b]
  BY <1>1, <1>n, NewObject
<1>3. stack \in Seq(DOMAIN builders) /\ current \in Nat
  BY DEF BuilderInv, TypeBuilder
<1>4. \A i \in DOMAIN stack : stack[i] # n /\ stack[i] \in DOMAIN builders
  <2>1. current >= current
    BY <1>3
  <2>2. \A i \in DOMAIN stack : stack[i] # n
    BY <1>3, <1>n, <2>1, NewBuilderLemma
  <2> QED
    BY <1>3, <2>2, StackElements
<1>5. PICK S : stack \in Seq(S) /\ n \in S
  <2>1. stack \in Seq(DOMAIN builders \cup {n})
    BY <1>3, SeqMonotonic
  <2> QED
    BY <2>1
<1>6. /\ DOMAIN stack = 1..m /\ m \in Nat \ {0} /\ DOMAIN stack' = 1..(m + 1) /\ Len(stack') = m + 1
      /\ stack'[m + 1] = n /\ \A i \in 1..m : stack'[i] = stack[i]
  BY <1>1, <1>5, AppendProperties, LenProperties, EmptySeq
<1>7. \A i \in 1..m : Object(stack[i])' = Object(stack[i])
  BY <1>2, <1>4, <1>6 DEF Object
<1>8. Object(stack[m + 1])' = Len(dicts) + 1
  <2>1. PICK k : k = m + 1
    OBVIOUS
  <2>2. Object(stack[k])' = Len(dicts) + 1
    BY <1>2, <1>6, <2>1 DEF Object
  <2> QED
    BY <2>1, <2>2
<1>9. Object(root)' = Object(root)
  <2>1. root # n /\ root \in DOMAIN builders
    BY <1>4, <1>6
  <2> QED
    BY <2>1, <1>1, <1>2 DEF Object
<1> QED
  BY <1>1, <1>6, <1>7, <1>8, <1>9

\* OnStartElement of an inner element: where the dictionaries, the texts and
\* the flags are.
LEMMA StartInnerPlaces ==
  ASSUME IInv, DocumentInv, phase = "in", mode = "used", ~undefined,
         NEW el \in Name, NEW attrs \in Attrs \cup {NoAttrs}, StartInner(attrs), ~Undefined,
         doc' = Append(doc, Element(el, attrs)), open' = Append(open, Len(doc'))
  PROVE  PlaceInv' /\ TextsInv' /\ SimpleInv' /\ PathInv'
<1>n. PICK n : n = Len(doc) + 1
  OBVIOUS
<1>p. PICK p : p = Last(open)
  OBVIOUS
<1>m. PICK m \in Nat \ {0} : m = Len(open)
  BY OpenElements
<1>0. /\ TreeInv /\ PathInv /\ ChildrenInv /\ PlaceInv /\ TextsInv /\ SimpleInv
  BY DEF DocumentInv
<1>1. /\ Len(doc) \in Nat /\ Len(doc') = n /\ n \notin DOMAIN doc /\ p \in DOMAIN doc /\ p = open[m]
      /\ \A e \in DOMAIN doc : doc'[e] = doc[e]
      /\ doc'[n] = Element(el, attrs) /\ Element(el, attrs).text = <<>>
      /\ Len(open') = m + 1 /\ DOMAIN open' = 1..(m + 1) /\ DOMAIN open = 1..m
      /\ open'[m + 1] = n /\ \A i \in 1..m : open'[i] = open[i] /\ open[i] \in DOMAIN doc
  <2>1. Element(el, attrs).text = <<>>
    BY DEF Element
  <2>2. Len(doc) \in Nat /\ DOMAIN open = 1..m /\ \A i \in 1..m : open[i] \in DOMAIN doc
    BY <1>m, DocTypes
  <2> QED
    BY <1>0, <1>n, <1>p, <1>m, <2>1, <2>2, StartPath
<1>2. /\ BuilderInv /\ stack # <<>> /\ stack[1] = root /\ m = Len(stack) /\ m = Len(simple) /\ m = Len(text.stack)
      /\ stack \in Seq(DOMAIN builders) /\ simple \in Seq(BOOLEAN) /\ StringStack(text)
  <2>1. /\ BuilderInv /\ m = Len(stack) /\ Len(simple) = Len(stack) /\ Len(text.stack) = Len(stack)
        /\ stack \in Seq(DOMAIN builders) /\ simple \in Seq(BOOLEAN) /\ StringStack(text)
    BY <1>0, <1>m DEF IInv, BuilderInv, TypeBuilder, Heights, PathInv
  <2>2. stack # <<>>
    BY <2>1, EmptySeq
  <2> QED
    BY <1>0, <2>1, <2>2 DEF PlaceInv
<1>3. /\ DOMAIN stack = 1..m /\ DOMAIN stack' = 1..(m + 1) /\ Len(stack') = m + 1
      /\ \A i \in 1..m : stack'[i] = stack[i] /\ Object(stack[i])' = Object(stack[i])
      /\ Object(stack[m + 1])' = Len(dicts) + 1
      /\ root' = root /\ Object(root)' = Object(root)
  BY <1>2, StartInnerStack
<1>4. /\ dicts' = Append(dicts, SetAttrKey(EmptyDict, attrs)) /\ text' = PushEmptyString(text)
      /\ simple' = Append([simple EXCEPT ![Len(simple)] = FALSE], attrs = NoAttrs)
  BY DEF StartInner
<1>5. PathInv'
  BY <1>0, <1>2, <1>3, StartPathInv
<1>6. \A e : DictOf(e)' = DictOf(e)
  BY <1>3 DEF DictOf
<1>7. PlaceInv'
  <2>1. stack'[1] = root'
    BY <1>2, <1>3
  <2>2. Len(dicts') = Len(dicts) + 1 /\ Len(dicts) \in Nat /\ Object(root) \in Nat
    <3>1. SetAttrKey(EmptyDict, attrs) \in Dict
      BY <1>2, EmptyDictType, SetAttrKeyType
    <3>2. dicts \in Seq(Dict) /\ Len(dicts) \in Nat /\ Object(root) \in Nat
      BY <1>2, RootDict
    <3> QED
      BY <1>4, <3>1, <3>2, AppendProperties
  <2>3. Len(dicts') = Object(root)' + Len(doc') - 1
    BY <2>2, <1>0, <1>1, <1>3, <1>n DEF PlaceInv
  <2>4. ASSUME NEW i \in DOMAIN stack' PROVE Object(stack[i])' = DictOf(open[i])'
    <3>1. CASE i = m + 1
      <4>1. DictOf(open[i])' = DictOf(n)'
        BY <3>1, <1>1
      <4>2. DictOf(n)' = Object(root) + n - 1
        BY <1>3 DEF DictOf
      <4>3. Object(stack[i])' = Len(dicts) + 1
        BY <3>1, <1>3
      <4>4. Len(dicts) + 1 = Object(root) + n - 1
        BY <2>2, <1>0, <1>1, <1>n DEF PlaceInv
      <4> QED
        BY <4>1, <4>2, <4>3, <4>4
    <3>2. CASE i \in 1..m
      <4>1. Object(stack[i]) = DictOf(open[i])
        BY <3>2, <1>0, <1>3 DEF PlaceInv
      <4>2. DictOf(open[i])' = DictOf(open[i])
        BY <3>2, <1>1, <1>3 DEF DictOf
      <4> QED
        BY <3>2, <4>1, <4>2, <1>3
    <3>3. i \in 1..(m + 1)
      BY <1>3
    <3>4. i = m + 1 \/ i \in 1..m
      BY <3>3
    <3> QED
      BY <3>1, <3>2, <3>4
  <2> QED
    BY <2>1, <2>3, <2>4 DEF PlaceInv
<1>8. TextsInv'
  <2>0. text.stack \in Seq(DOMAIN text.heap) /\ StringStack(text')
    BY <1>2, <1>4, StringStackFields, PushLemma
  <2>1. /\ text'.stack = Append(text.stack, text'.top) /\ text'.heap[text'.top] = <<>>
        /\ \A i \in DOMAIN text.stack : text'.heap[text.stack[i]] = text.heap[text.stack[i]]
    BY <1>2, <1>4, PushTexts
  <2>2. PICK x : x = text'.top
    OBVIOUS
  <2>3. PICK S : text.stack \in Seq(S) /\ x \in S
    <3>1. text.stack \in Seq(DOMAIN text.heap \cup {x})
      BY <2>0, SeqMonotonic
    <3> QED
      BY <3>1
  <2>4. /\ DOMAIN text.stack = 1..m /\ DOMAIN text'.stack = 1..(m + 1) /\ text'.stack[m + 1] = x
        /\ \A i \in 1..m : text'.stack[i] = text.stack[i]
    BY <1>2, <2>1, <2>2, <2>3, AppendProperties, LenProperties
  <2>5. ASSUME NEW i \in DOMAIN text'.stack PROVE text'.heap[text'.stack[i]] = doc'[open'[i]].text
    <3>1. CASE i = m + 1
      BY <3>1, <2>1, <2>2, <2>4, <1>1
    <3>2. CASE i \in 1..m
      <4>1. text'.heap[text'.stack[i]] = text.heap[text.stack[i]]
        BY <3>2, <2>1, <2>4
      <4>2. text.heap[text.stack[i]] = doc[open[i]].text
        BY <3>2, <2>4, <1>0 DEF TextsInv
      <4>3. doc'[open'[i]] = doc[open[i]]
        BY <3>2, <1>1
      <4> QED
        BY <4>1, <4>2, <4>3
    <3>3. i \in 1..(m + 1)
      BY <2>4
    <3>4. i = m + 1 \/ i \in 1..m
      BY <3>3
    <3> QED
      BY <3>1, <3>2, <3>4
  <2> QED
    BY <2>5 DEF TextsInv
<1>9. SimpleInv'
  <2>1. PICK s : s = [simple EXCEPT ![m] = FALSE]
    OBVIOUS
  <2>2. s \in Seq(BOOLEAN) /\ Len(s) = m /\ s[m] = FALSE /\ \A i \in 1..m : i # m => s[i] = simple[i]
    <3>1. FALSE \in BOOLEAN /\ m \in 1..Len(simple) /\ simple \in Seq(BOOLEAN)
      BY <1>2
    <3>2. s \in Seq(BOOLEAN) /\ Len(s) = Len(simple)
      BY <2>1, <3>1, ExceptSeq
    <3>3. DOMAIN simple = 1..Len(simple)
      BY <3>1, LenProperties
    <3>4. m \in DOMAIN simple
      BY <3>1, <3>3
    <3>5. s[m] = FALSE
      BY <2>1, <3>4, Zenon
    <3>6. \A i \in DOMAIN simple : i # m => s[i] = simple[i]
      BY <2>1, Zenon
    <3> QED
      BY <1>2, <3>2, <3>3, <3>5, <3>6, Zenon
  <2>3. PICK q \in BOOLEAN : q = (attrs = NoAttrs)
    OBVIOUS
  <2>4. simple' = Append(s, q)
    BY <1>2, <1>4, <2>1, <2>3
  <2>5. DOMAIN simple' = 1..(m + 1) /\ simple'[m + 1] = q /\ \A i \in 1..m : simple'[i] = s[i]
    BY <2>2, <2>4, AppendProperties, LenProperties
  <2>6. /\ \A c \in DOMAIN doc : c # p => (IsSimple(c)' <=> IsSimple(c))
        /\ ~IsSimple(p)' /\ (IsSimple(n)' <=> attrs = NoAttrs)
    BY <1>0, <1>n, <1>p, StartTree
  <2>7. ASSUME NEW i \in DOMAIN simple' PROVE simple'[i] <=> IsSimple(open[i])'
    <3>c. PICK c : c = open'[i]
      OBVIOUS
    <3>1. IsSimple(open[i])' <=> IsSimple(c)'
      BY <3>c
    <3>2. CASE i = m + 1
      <4>1. c = n
        BY <3>2, <3>c, <1>1
      <4> QED
        BY <3>1, <3>2, <4>1, <2>3, <2>5, <2>6
    <3>3. CASE i = m
      <4>1. c = p /\ i \in 1..m
        BY <3>3, <3>c, <1>1
      <4> QED
        BY <3>1, <3>3, <4>1, <2>2, <2>5, <2>6
    <3>4. CASE i \in 1..(m - 1)
      <4>1. i \in 1..m /\ i # m /\ i < m /\ m \in 1..m
        BY <3>4
      <4>2. c = open[i] /\ c \in DOMAIN doc
        BY <3>c, <4>1, <1>1
      <4>3. c # p
        <5>1. c < p
          BY <4>1, <4>2, <1>0, <1>1 DEF PathInv
        <5>2. c \in Nat
          BY <4>2, DocTypes
        <5>3. \A a \in Nat : ~(a < a)
          OBVIOUS
        <5> QED
          BY <5>1, <5>2, <5>3
      <4>4. simple[i] <=> IsSimple(c)
        <5>1. i \in DOMAIN simple
          BY <4>1, <1>2, LenProperties
        <5> QED
          BY <5>1, <4>2, <1>0 DEF SimpleInv
      <4> QED
        BY <3>1, <4>1, <4>2, <4>3, <4>4, <2>2, <2>5, <2>6
    <3>5. i \in 1..(m + 1)
      BY <2>5
    <3>6. i = m + 1 \/ i = m \/ i \in 1..(m - 1)
      BY <3>5
    <3> QED
      BY <3>2, <3>3, <3>4, <3>6
  <2> QED
    BY <2>7 DEF SimpleInv
<1> QED
  BY <1>5, <1>7, <1>8, <1>9

\* The dictionary of an element exists, and is the one of no other element.
LEMMA DictRange ==
  ASSUME IInv, PlaceInv
  PROVE  /\ \A e \in DOMAIN doc : DictOf(e) \in DOMAIN dicts /\ DictOf(e) \in Nat
         /\ \A e, c \in DOMAIN doc : DictOf(e) = DictOf(c) => e = c
<1>1. /\ DOMAIN doc = 1..Len(doc) /\ Len(doc) \in Nat
      /\ Object(root) \in DOMAIN dicts /\ Len(dicts) \in Nat /\ DOMAIN dicts = 1..Len(dicts)
  BY DocTypes, RootDict DEF IInv
<1>2. Len(dicts) = Object(root) + Len(doc) - 1
  BY DEF PlaceInv
<1>3. PICK o \in Nat \ {0} : o = Object(root)
  BY <1>1
<1>4. PICK L \in Nat : L = Len(doc)
  BY <1>1
<1>5. DOMAIN doc = 1..L /\ DOMAIN dicts = 1..(o + L - 1)
  BY <1>1, <1>2, <1>3, <1>4
<1>6. \A e : DictOf(e) = o + e - 1
  BY <1>3 DEF DictOf
<1> QED
  BY <1>5, <1>6

\* OnStartElement of an inner element.
LEMMA StartInnerDocument ==
  ASSUME IInv, DocumentInv, phase = "in", mode = "used", ~undefined,
         NEW el \in Name, NEW attrs \in Attrs \cup {NoAttrs}, StartInner(attrs), ~Undefined,
         doc' = Append(doc, Element(el, attrs)), open' = Append(open, Len(doc')), options' = options
  PROVE  DocumentInv'
<1>n. PICK n : n = Len(doc) + 1
  OBVIOUS
<1>p. PICK p : p = Last(open)
  OBVIOUS
<1>0. TreeInv /\ PathInv /\ ChildrenInv /\ PlaceInv /\ DictsInv /\ rootName = doc[1].el
  BY DEF DocumentInv
<1>1. PlaceInv' /\ TextsInv' /\ SimpleInv' /\ PathInv'
  BY StartInnerPlaces
<1>2. /\ TreeInv' /\ ChildrenInv' /\ ~IsSimple(p)'
      /\ \A c \in DOMAIN doc : c # p => (IsSimple(c)' <=> IsSimple(c))
  BY <1>0, <1>n, <1>p, StartTree
<1>3. /\ DOMAIN doc' = DOMAIN doc \cup {n} /\ n \notin DOMAIN doc
      /\ \A e \in DOMAIN doc : doc'[e] = doc[e]
      /\ doc'[n].attrs = attrs /\ p \in DOMAIN doc
      /\ \A e : IsOpen(e)' <=> (IsOpen(e) \/ e = n)
      /\ Closed' = Closed
  <2>1. Element(el, attrs).attrs = attrs
    BY DEF Element
  <2> QED
    BY <1>0, <1>n, <1>p, <2>1, StartPath
<1>4. \A key : /\ Children(n, key)' = <<>>
               /\ \A e \in DOMAIN doc : ClosedChildren(e, key)' = ClosedChildren(e, key)
  BY <1>0, <1>n, <1>p, StartChildren
<1>5. UNCHANGED <<root, first, rootName>> /\ ~first /\ dicts' = Append(dicts, SetAttrKey(EmptyDict, attrs))
  BY DEF StartInner
<1>6. /\ Object(root)' = Object(root) /\ \A e : DictOf(e)' = DictOf(e)
  <2>1. BuilderInv /\ Len(stack) = Len(open) /\ Len(open) \in Nat \ {0} /\ stack \in Seq(DOMAIN builders)
    BY <1>0, OpenElements DEF IInv, BuilderInv, TypeBuilder, PathInv
  <2>2. stack # <<>>
    BY <2>1, EmptySeq
  <2>3. Object(root)' = Object(root)
    BY <1>0, <2>1, <2>2, StartInnerStack DEF PlaceInv
  <2> QED
    BY <2>3 DEF DictOf
<1>7. /\ DOMAIN dicts = 1..Len(dicts) /\ Len(dicts) \in Nat /\ Object(root) \in Nat
      /\ dicts'[Len(dicts) + 1] = SetAttrKey(EmptyDict, attrs)
      /\ \A d \in DOMAIN dicts : dicts'[d] = dicts[d]
  <2>1. /\ dicts \in Seq(Dict) /\ DOMAIN dicts = 1..Len(dicts) /\ Len(dicts) \in Nat
        /\ SetAttrKey(EmptyDict, attrs) \in Dict /\ Object(root) \in Nat
    BY RootDict, EmptyDictType, SetAttrKeyType DEF IInv
  <2> QED
    BY <1>5, <2>1, AppendProperties
<1>8. \A e \in DOMAIN doc : DictOf(e) \in DOMAIN dicts /\ dicts'[DictOf(e)] = dicts[DictOf(e)]
  BY <1>0, <1>7, DictRange
<1>9. DictOf(n) = Len(dicts) + 1
  BY <1>0, <1>7, <1>n, DocTypes DEF DictOf, PlaceInv
<1>10. PICK S : S = Closed
  OBVIOUS
<1>11. \A c \in S : ItemOf(c)' = ItemOf(c)
  <2> TAKE c \in S
  <2>1. c \in DOMAIN doc /\ c # p
    <3>1. c \in DOMAIN doc /\ ~IsOpen(c)
      BY <1>10 DEF Closed
    <3>2. IsOpen(p)
      <4>1. open \in Seq(DOMAIN doc) /\ open # <<>>
        BY OpenElements
      <4>2. p = open[Len(open)] /\ Len(open) \in DOMAIN open
        BY <1>p, <4>1, FrontLast, FrontDomain
      <4> QED
        BY <4>2 DEF IsOpen
    <3> QED
      BY <3>1, <3>2
  <2> QED
    BY <2>1, <1>2, <1>3, <1>6, ItemKept
<1>12. ASSUME NEW e \in DOMAIN doc, NEW w \in BOOLEAN, IsDictOf(dicts[DictOf(e)], e, w)
       PROVE  IsDictOf(dicts[DictOf(e)], e, w)'
  <2>1. PICK d : d = dicts[DictOf(e)] /\ d = dicts'[DictOf(e)] /\ d = dicts[DictOf(e)]'
    BY <1>6, <1>8
  <2>2. IsDictOf(d, e, w)
    BY <1>12, <2>1
  <2>3. \A key \in Keys : ClosedChildren(e, key)' = ClosedChildren(e, key) /\ ClosedChildren(e, key) \in Seq(S)
    BY <1>0, <1>4, <1>10 DEF ChildrenInv
  <2>4. IsDictOf(d, e, w)'
    BY <1>3, <1>11, <2>2, <2>3, DictKept
  <2> QED
    BY <2>1, <2>4
<1>13. IsDictOf(dicts[DictOf(n)], n, FALSE)'
  <2>1. IsDictOf(SetAttrKey(EmptyDict, doc[n].attrs), n, FALSE)'
    BY <1>3, <1>4, StartDict
  <2>2. SetAttrKey(EmptyDict, doc[n].attrs)' = dicts[DictOf(n)]'
    BY <1>3, <1>6, <1>7, <1>9 DEF SetAttrKey
  <2> QED
    BY <2>1, <2>2
<1>14. DictsInv'
  <2>1. ASSUME NEW e \in DOMAIN doc', IsOpen(e)' PROVE IsDictOf(dicts[DictOf(e)], e, FALSE)'
    <3>1. CASE e = n
      BY <3>1, <1>13
    <3>2. CASE e # n
      <4>1. e \in DOMAIN doc /\ IsOpen(e)
        BY <3>2, <2>1, <1>3
      <4>2. IsDictOf(dicts[DictOf(e)], e, FALSE)
        BY <4>1, <1>0 DEF DictsInv
      <4> QED
        BY <4>1, <4>2, <1>12
    <3> QED
      BY <3>1, <3>2
  <2>2. ASSUME NEW e \in Closed', ~IsSimple(e)' PROVE IsDictOf(dicts[DictOf(e)], e, TRUE)'
    <3>1. e \in Closed /\ e \in DOMAIN doc /\ e # p
      <4>1. e \in Closed
        BY <1>3
      <4>2. e \in DOMAIN doc /\ ~IsOpen(e)
        BY <4>1 DEF Closed
      <4>3. open \in Seq(DOMAIN doc) /\ open # <<>>
        BY OpenElements
      <4>4. p = open[Len(open)] /\ Len(open) \in DOMAIN open
        BY <1>p, <4>3, FrontLast, FrontDomain
      <4> QED
        BY <4>1, <4>2, <4>4 DEF IsOpen
    <3>2. ~IsSimple(e)
      BY <2>2, <3>1, <1>2
    <3>3. IsDictOf(dicts[DictOf(e)], e, TRUE)
      BY <3>1, <3>2, <1>0 DEF DictsInv
    <3> QED
      BY <3>1, <3>3, <1>12
  <2> QED
    BY <2>1, <2>2 DEF DictsInv
<1>15. rootName' = doc'[1].el /\ ~first'
  <2>1. 1 \in DOMAIN doc
    BY <1>0, DocTypes, EmptySeq DEF TreeInv
  <2> QED
    BY <2>1, <1>0, <1>3, <1>5
<1> QED
  BY <1>1, <1>2, <1>14, <1>15 DEF DocumentInv

\* OnStartElement of the root, after Clear.
LEMMA StartRootDocument ==
  ASSUME IInv, mode = "ready", ~undefined, doc = <<>>, open = <<>>, FreshInv,
         NEW el \in Name, NEW attrs \in Attrs \cup {NoAttrs}, StartRoot(el, attrs), ~Undefined,
         doc' = Append(doc, Element(el, attrs)), open' = Append(open, Len(doc')), options' = options
  PROVE  DocumentInv'
<1>x. PICK x : x = Element(el, attrs)
  OBVIOUS
<1>1. x \in Elements /\ x.parent = 0 /\ x.el = el /\ x.attrs = attrs /\ x.text = <<>>
  <2>1. x = [el |-> el, attrs |-> attrs, text |-> <<>>, parent |-> 0]
    BY <1>x DEF Element
  <2> QED
    BY <2>1 DEF Elements
<1>2. doc' = <<x>> /\ DOMAIN doc' = {1} /\ doc'[1] = x /\ Len(doc') = 1
  BY <1>x
<1>3. open' = <<1>> /\ DOMAIN open' = {1} /\ open'[1] = 1 /\ Len(open') = 1
  BY <1>2
<1>4. ASSUME NEW key PROVE Children(1, key)' = <<>>
  <2>1. doc \in Seq(Elements)
    BY DocTypes
  <2>2. Children(1, key)' = Children(1, key)
    BY <1>1, <1>x, <2>1, ChildrenMore
  <2>3. Children(1, key) \in Seq(DOMAIN doc) /\ DOMAIN doc = {}
    BY ChildrenType
  <2>4. Children(1, key) = <<>>
    <3>1. ASSUME Children(1, key) # <<>> PROVE FALSE
      <4>1. Last(Children(1, key)) \in DOMAIN doc
        BY <2>3, <3>1, FrontLast
      <4> QED
        BY <4>1, <2>3
    <3> QED
      BY <3>1
  <2> QED
    BY <2>2, <2>4
<1>5. \A key : ClosedChildren(1, key)' = <<>>
  BY <1>4 DEF ClosedChildren
<1>6. /\ rootName' = el /\ first' = FALSE /\ UNCHANGED <<builders, stack, root, simple, text>>
      /\ dicts' = [dicts EXCEPT ![Object(root)] = SetAttrKey(@, attrs)]
  BY DEF StartRoot, Object
<1>7. /\ BuilderInv /\ Len(stack) = 1 /\ stack[1] = root /\ ~simple[1]
      /\ Len(simple) = 1 /\ Len(text.stack) = 1 /\ stack \in Seq(DOMAIN builders) /\ simple \in Seq(BOOLEAN)
      /\ StringStack(text)
  BY DEF IInv, ParserInv, BuilderInv, TypeBuilder, Heights
<1>8. DOMAIN stack = {1} /\ DOMAIN simple = {1}
  BY <1>7, LenProperties
<1>9. Object(root) \in DOMAIN dicts /\ Object(root) \in Nat
  BY <1>7, RootDict
<1>10. Object(root)' = Object(root) /\ DictOf(1)' = Object(root)
  BY <1>6, <1>9 DEF Object, DictOf
<1>11. TreeInv'
  BY <1>1, <1>2 DEF TreeInv
<1>12. PathInv'
  BY <1>3, <1>6, <1>7 DEF PathInv
<1>13. ChildrenInv'
  <2> SUFFICES ASSUME NEW e \in DOMAIN doc', NEW key \in Keys PROVE ClosedChildren(e, key)' \in Seq(Closed')
    BY DEF ChildrenInv
  <2>1. ClosedChildren(e, key)' = <<>>
    BY <1>2, <1>5
  <2> QED
    BY <2>1
<1>14. PlaceInv'
  <2>1. Len(dicts') = Len(dicts)
    <3>1. dicts \in Seq(Dict) /\ SetAttrKey(dicts[Object(root)], attrs) \in Dict /\ Object(root) \in 1..Len(dicts)
      BY <1>7, <1>9, RootDict, SetAttrKeyType
    <3> QED
      BY <3>1, <1>6, ExceptSeq
  <2>2. Len(dicts') = Object(root)' + Len(doc') - 1
    BY <2>1, <1>2, <1>9, <1>10 DEF FreshInv
  <2>3. ASSUME NEW i \in DOMAIN stack' PROVE Object(stack[i])' = DictOf(open[i])'
    <3>1. i = 1
      BY <1>6, <1>8
    <3>2. Object(stack[i])' = Object(root)'
      BY <3>1, <1>6, <1>7
    <3>3. DictOf(open[i])' = DictOf(1)'
      BY <3>1, <1>3
    <3> QED
      BY <3>2, <3>3, <1>10
  <2> QED
    BY <2>2, <2>3, <1>6, <1>7 DEF PlaceInv
<1>15. TextsInv'
  <2>1. text.stack \in Seq(DOMAIN text.heap) /\ (text.stack # <<>> => text.top = Last(text.stack))
    BY <1>7, StringStackFields DEF StringStack
  <2>2. text.stack # <<>> /\ DOMAIN text.stack = {1} /\ text.stack[1] = text.top
    <3>1. PICK ts : ts = text.stack
      OBVIOUS
    <3>2. PICK S : ts \in Seq(S)
      BY <2>1, <3>1
    <3>3. Len(ts) = 1 /\ (ts # <<>> => text.top = Last(ts))
      BY <1>7, <2>1, <3>1
    <3>4. ts # <<>> /\ DOMAIN ts = {1}
      BY <3>2, <3>3, LenProperties
    <3>5. ts[1] = text.top
      BY <3>2, <3>3, <3>4, FrontLast
    <3> QED
      BY <3>1, <3>4, <3>5
  <2> QED
    BY <2>2, <1>1, <1>2, <1>3, <1>6 DEF TextsInv, FreshInv
<1>16. SimpleInv'
  <2>1. ~IsSimple(1)'
    BY DEF IsSimple
  <2>2. ASSUME NEW i \in DOMAIN simple' PROVE ~simple'[i] /\ ~IsSimple(open[i])'
    <3>1. i = 1
      BY <1>6, <1>8
    <3> QED
      BY <3>1, <2>1, <1>3, <1>6, <1>7
  <2> QED
    BY <2>2 DEF SimpleInv
<1>17. DictsInv'
  <2>1. IsDictOf(SetAttrKey(EmptyDict, doc[1].attrs), 1, FALSE)'
    BY <1>1, <1>2, <1>4, StartDict
  <2>2. dicts[DictOf(1)]' = SetAttrKey(EmptyDict, doc[1].attrs)'
    <3>1. SetAttrKey(EmptyDict, doc[1].attrs)' = SetAttrKey(EmptyDict, attrs)
      BY <1>1, <1>2 DEF SetAttrKey
    <3>2. dicts[DictOf(1)]' = SetAttrKey(EmptyDict, attrs)
      BY <1>6, <1>9, <1>10 DEF FreshInv
    <3> QED
      BY <3>1, <3>2
  <2>3. IsDictOf(dicts[DictOf(1)], 1, FALSE)'
    BY <2>1, <2>2
  <2>4. IsOpen(1)'
    BY <1>3 DEF IsOpen
  <2>5. Closed' = {}
    BY <2>4, <1>2 DEF Closed
  <2> QED
    BY <2>3, <2>5, <1>2 DEF DictsInv
<1>18. rootName' = doc'[1].el /\ ~first'
  BY <1>1, <1>2, <1>6
<1> QED
  BY <1>11, <1>12, <1>13, <1>14, <1>15, <1>16, <1>17, <1>18 DEF DocumentInv

-----------------------------------------------------------------------------
(***************************************************************************)
(* OnText.                                                                 *)
(***************************************************************************)

\* A piece of text goes to the last open element.
LEMMA TextDocument ==
  ASSUME IInv, DocumentInv, NEW c \in Char, ParseText(c)
  PROVE  DocumentInv'
<1>p. PICK p : p = Last(open)
  OBVIOUS
<1>m. PICK m \in Nat \ {0} : m = Len(open)
  BY OpenElements DEF ParseText
<1>0. TreeInv /\ PathInv /\ ChildrenInv /\ PlaceInv /\ TextsInv /\ SimpleInv /\ DictsInv
  BY DEF DocumentInv
<1>1. /\ text' = AppendToTopString(text, c)
      /\ UNCHANGED <<builders, dicts, stack, root, first, rootName, simple, options, open>>
      /\ doc' = [doc EXCEPT ![p].text = Append(@, c)]
  BY <1>p DEF ParseText, OnText
<1>2. /\ doc \in Seq(Elements) /\ DOMAIN doc = 1..Len(doc) /\ Len(doc) \in Nat
      /\ DOMAIN open = 1..m /\ \A i \in 1..m : open[i] \in DOMAIN doc
      /\ p \in DOMAIN doc /\ p = open[m] /\ open \in Seq(DOMAIN doc) /\ open # <<>>
  BY <1>m, <1>p, DocTypes, OpenElements, FrontLast DEF ParseText
<1>3. doc' \in Seq(Elements) /\ DOMAIN doc' = DOMAIN doc /\ Len(doc') = Len(doc)
  <2>1. doc' \in Seq(Elements)
    BY ParseTextInv DEF IInv, ParserInv, TypeParser, Elements
  <2>2. DOMAIN doc' = DOMAIN doc
    BY <1>1
  <2>3. PICK a \in Nat, b \in Nat : a = Len(doc) /\ b = Len(doc') /\ 1..a = 1..b
    BY <2>1, <2>2, <1>2, LenProperties
  <2>4. a = b
    <3>1. ~(a < b) /\ ~(b < a)
      <4>1. a < b => b \in 1..b /\ b \notin 1..a
        OBVIOUS
      <4>2. b < a => a \in 1..a /\ a \notin 1..b
        OBVIOUS
      <4> QED
        BY <4>1, <4>2, <2>3
    <3> QED
      BY <3>1
  <2> QED
    BY <2>1, <2>2, <2>3, <2>4
<1>4. /\ \A e \in DOMAIN doc : /\ doc'[e].parent = doc[e].parent /\ doc'[e].el = doc[e].el
                               /\ doc'[e].attrs = doc[e].attrs
                               /\ e # p => doc'[e].text = doc[e].text
      /\ doc'[p].text = Append(doc[p].text, c)
  <2>1. doc[p] \in Elements
    BY <1>2, DocTypes
  <2>2. PICK x : x = [doc[p] EXCEPT !.text = Append(doc[p].text, c)]
    OBVIOUS
  <2>3. x.parent = doc[p].parent /\ x.el = doc[p].el /\ x.attrs = doc[p].attrs /\ x.text = Append(doc[p].text, c)
    BY <2>1, <2>2 DEF Elements
  <2>4. doc' = [doc EXCEPT ![p] = x]
    BY <1>1, <2>2
  <2>5. doc'[p] = x /\ \A e \in DOMAIN doc : e # p => doc'[e] = doc[e]
    BY <1>2, <2>4
  <2> QED
    BY <2>3, <2>5
<1>5. /\ \A e, key : Children(e, key)' = Children(e, key)
      /\ \A e : IsOpen(e)' <=> IsOpen(e)
  BY <1>1, <1>2, <1>3, <1>4, ChildrenSame DEF IsOpen
<1>6. \A e, key : ClosedChildren(e, key)' = ClosedChildren(e, key)
  <2> TAKE e, key
  <2>1. PICK C : C = Children(e, key) /\ C = Children(e, key)'
    BY <1>5
  <2>2. IsOpen(Last(C))' <=> IsOpen(Last(C))
    BY <1>5
  <2> QED
    BY <2>1, <2>2 DEF ClosedChildren
<1>7. Closed' = Closed /\ Object(root)' = Object(root) /\ \A e : DictOf(e)' = DictOf(e)
  BY <1>1, <1>3, <1>5 DEF Closed, Object, DictOf
<1>8. \A e \in DOMAIN doc : IsSimple(e)' <=> IsSimple(e)
  BY <1>3, <1>4 DEF IsSimple
<1>9. IsOpen(p) /\ \A e \in Closed : e # p /\ e \in DOMAIN doc
  <2>1. m \in DOMAIN open
    BY <1>2
  <2> QED
    BY <2>1, <1>2 DEF IsOpen, Closed
<1>10. PICK S : S = Closed
  OBVIOUS
<1>11. \A e \in S : ItemOf(e)' = ItemOf(e)
  BY <1>1, <1>4, <1>7, <1>8, <1>9, <1>10, ItemKept
<1>12. TreeInv' /\ ChildrenInv'
  <2>1. 1 \in DOMAIN doc
    BY <1>0, <1>2, EmptySeq DEF TreeInv
  <2>2. doc' # <<>>
    <3>1. DOMAIN doc' # {} /\ DOMAIN <<>> = {}
      BY <1>3, <2>1
    <3> QED
      BY <3>1
  <2>3. TreeInv'
    BY <1>0, <1>3, <1>4, <2>1, <2>2 DEF TreeInv
  <2>4. ChildrenInv'
    BY <1>0, <1>3, <1>6, <1>7 DEF ChildrenInv
  <2> QED
    BY <2>3, <2>4
<1>13. PathInv'
  <2>1. ASSUME NEW i \in 1..(m - 1)
        PROVE  /\ open[i] < open[i + 1] /\ doc'[open[i + 1]].parent = open[i]
               /\ Children(open[i], doc[open[i + 1]].el)' = Children(open[i], doc[open[i + 1]].el)
    <3>1. i \in 1..m /\ i + 1 \in 1..m /\ i < i + 1
      OBVIOUS
    <3>2. PICK e : e = open[i] /\ e = open'[i]
      BY <1>1
    <3>3. PICK k : k = doc[open[i + 1]].el /\ k = doc'[open'[i + 1]].el
      BY <3>1, <1>1, <1>2, <1>4
    <3>4. Children(e, k)' = Children(e, k)
      BY <1>5
    <3>5. open[i] < open[i + 1] /\ doc[open[i + 1]].parent = open[i]
      BY <1>0, <1>m DEF PathInv
    <3>6. doc'[open[i + 1]].parent = open[i]
      BY <3>1, <3>5, <1>2, <1>4
    <3> QED
      BY <3>2, <3>3, <3>4, <3>5, <3>6
  <2> QED
    BY <2>1, <1>0, <1>1, <1>m DEF PathInv
<1>14. PlaceInv'
  BY <1>0, <1>1, <1>3 DEF PlaceInv, Object, DictOf
<1>15. SimpleInv'
  <2> SUFFICES ASSUME NEW i \in DOMAIN simple' PROVE simple'[i] <=> IsSimple(open[i])'
    BY DEF SimpleInv
  <2>1. PICK e : e = open[i] /\ e = open'[i]
    BY <1>1
  <2>2. e \in DOMAIN doc
    <3>1. simple \in Seq(BOOLEAN) /\ Len(simple) = m
      BY <1>0, <1>m DEF IInv, BuilderInv, TypeBuilder, Heights, PathInv
    <3>2. i \in 1..m
      BY <3>1, <1>1, LenProperties
    <3> QED
      BY <2>1, <3>2, <1>2
  <2>3. simple[i] <=> IsSimple(e)
    BY <2>1, <1>0, <1>1 DEF SimpleInv
  <2> QED
    BY <2>1, <2>2, <2>3, <1>1, <1>8
<1>16. TextsInv'
  <2>0. /\ StringStack(text) /\ text.stack \in Seq(DOMAIN text.heap) /\ Len(text.stack) = m
    BY <1>0, <1>m, StringStackFields DEF IInv, BuilderInv, Heights, PathInv
  <2>1. text.stack # <<>> /\ DOMAIN text.stack = 1..m
    BY <2>0, LenProperties
  <2>2. PICK s : s = Append(text.heap[text.top], c)
    OBVIOUS
  <2>3. text' = SetTopString(text, s)
    BY <1>1, <2>2 DEF AppendToTopString
  <2>4. /\ text'.stack = text.stack /\ text.stack[m] = text.top /\ text'.heap[text.stack[m]] = s
        /\ \A i \in 1..m : i # m => text'.heap[text.stack[i]] = text.heap[text.stack[i]]
    BY <2>0, <2>1, <2>3, TopTexts
  <2>5. \A i \in 1..m : text.heap[text.stack[i]] = doc[open[i]].text
    BY <2>1, <1>0 DEF TextsInv
  <2>6. ASSUME NEW i \in 1..m PROVE text'.heap[text'.stack[i]] = doc'[open'[i]].text
    <3>1. CASE i = m
      <4>1. text'.heap[text'.stack[i]] = Append(text.heap[text.stack[m]], c)
        BY <3>1, <2>2, <2>4
      <4>2. text.heap[text.stack[m]] = doc[p].text
        BY <3>1, <2>5, <1>2
      <4>3. doc'[open'[i]].text = Append(doc[p].text, c)
        BY <3>1, <1>1, <1>2, <1>4
      <4> QED
        BY <4>1, <4>2, <4>3
    <3>2. CASE i # m
      <4>1. i < m /\ i \in DOMAIN open /\ m \in DOMAIN open
        BY <3>2, <1>2
      <4>2. open[i] < open[m]
        BY <4>1, <1>0, <1>2 DEF PathInv
      <4>3. open[i] # p /\ open[i] \in DOMAIN doc
        BY <4>2, <1>2
      <4> QED
        BY <3>2, <4>3, <2>4, <2>5, <1>1, <1>4
    <3> QED
      BY <3>1, <3>2
  <2> QED
    BY <2>1, <2>4, <2>6 DEF TextsInv
<1>17. ASSUME NEW e \in DOMAIN doc, NEW w \in BOOLEAN, w => e # p, IsDictOf(dicts[DictOf(e)], e, w)
       PROVE  IsDictOf(dicts[DictOf(e)], e, w)'
  <2>1. PICK d : d = dicts[DictOf(e)] /\ d = dicts[DictOf(e)]'
    BY <1>1, <1>7
  <2>2. IsDictOf(d, e, w)
    BY <1>17, <2>1
  <2>3. \A key \in Keys : ClosedChildren(e, key)' = ClosedChildren(e, key) /\ ClosedChildren(e, key) \in Seq(S)
    BY <1>0, <1>6, <1>10 DEF ChildrenInv
  <2>4. w => doc'[e].text = doc[e].text
    BY <1>4, <1>17
  <2>5. IsDictOf(d, e, w)'
    BY <1>1, <1>4, <1>11, <2>2, <2>3, <2>4, DictKept
  <2> QED
    BY <2>1, <2>5
<1>18. DictsInv'
  <2>1. ASSUME NEW e \in DOMAIN doc', IsOpen(e)' PROVE IsDictOf(dicts[DictOf(e)], e, FALSE)'
    <3>1. e \in DOMAIN doc /\ IsDictOf(dicts[DictOf(e)], e, FALSE)
      BY <2>1, <1>0, <1>3, <1>5 DEF DictsInv
    <3> QED
      BY <3>1, <1>17
  <2>2. ASSUME NEW e \in Closed', ~IsSimple(e)' PROVE IsDictOf(dicts[DictOf(e)], e, TRUE)'
    <3>1. e \in Closed /\ e \in DOMAIN doc /\ e # p
      BY <1>7, <1>9
    <3>2. IsDictOf(dicts[DictOf(e)], e, TRUE)
      BY <2>2, <3>1, <1>0, <1>8 DEF DictsInv
    <3> QED
      BY <3>1, <3>2, <1>17
  <2> QED
    BY <2>1, <2>2 DEF DictsInv
<1>19. rootName' = doc'[1].el /\ ~first'
  <2>1. 1 \in DOMAIN doc
    BY <1>0, <1>2, EmptySeq DEF TreeInv
  <2> QED
    BY <2>1, <1>1, <1>4 DEF DocumentInv
<1> QED
  BY <1>12, <1>13, <1>14, <1>15, <1>16, <1>18, <1>19 DEF DocumentInv

-----------------------------------------------------------------------------
(***************************************************************************)
(* OnEndElement.                                                           *)
(***************************************************************************)

\* Sequences with one domain have one length.
LEMMA SameLength ==
  ASSUME NEW S, NEW s \in Seq(S), NEW T, NEW t \in Seq(T), DOMAIN s = DOMAIN t
  PROVE  Len(s) = Len(t)
<1>1. PICK a \in Nat, b \in Nat : a = Len(s) /\ b = Len(t) /\ 1..a = 1..b
  BY LenProperties
<1>2. a < b => b \in 1..b /\ b \notin 1..a
  OBVIOUS
<1>3. b < a => a \in 1..a /\ a \notin 1..b
  OBVIOUS
<1>4. ~(a < b) /\ ~(b < a)
  BY <1>1, <1>2, <1>3
<1> QED
  BY <1>1, <1>4

\* A stack without its last element.
LEMMA Popped ==
  ASSUME NEW S, NEW s \in Seq(S), s # <<>>, NEW m, m = Len(s)
  PROVE  /\ DOMAIN s = 1..m /\ DOMAIN Front(s) = 1..(m - 1) /\ Len(Front(s)) = m - 1
         /\ \A i \in 1..(m - 1) : Front(s)[i] = s[i]
<1>1. /\ DOMAIN s = 1..Len(s) /\ DOMAIN Front(s) = 1..(Len(s) - 1) /\ Len(Front(s)) = Len(s) - 1
      /\ \A i \in 1..(Len(s) - 1) : Front(s)[i] = s[i]
  BY FrontLast, FrontDomain
<1> QED
  BY <1>1

\* The open elements once the last of them has ended.
LEMMA EndPath ==
  ASSUME IInv, PathInv, phase = "in", open' = Front(open), doc' = doc,
         NEW m, m = Len(open), NEW x, x = Last(open)
  PROVE  /\ m \in Nat \ {0} /\ DOMAIN open = 1..m /\ DOMAIN open' = 1..(m - 1) /\ Len(open') = m - 1
         /\ \A i \in 1..(m - 1) : open'[i] = open[i]
         /\ \A i \in 1..m : open[i] \in DOMAIN doc
         /\ x \in DOMAIN doc /\ x = open[m] /\ IsOpen(x)
         /\ \A e : IsOpen(e)' <=> (IsOpen(e) /\ e # x)
         /\ Closed' = Closed \cup {x}
<1>1. /\ open \in Seq(DOMAIN doc) /\ open # <<>> /\ m \in Nat \ {0} /\ DOMAIN open = 1..m
      /\ \A i \in 1..m : open[i] \in DOMAIN doc
      /\ DOMAIN doc = 1..Len(doc) /\ Len(doc) \in Nat
  BY DocTypes, OpenElements
<1>2. /\ DOMAIN open' = 1..(m - 1) /\ Len(open') = m - 1 /\ \A i \in 1..(m - 1) : open'[i] = open[i]
      /\ x = open[m] /\ x \in DOMAIN doc
  BY <1>1, FrontLast, FrontDomain
<1>3. IsOpen(x)
  <2>1. m \in DOMAIN open
    BY <1>1
  <2> QED
    BY <2>1, <1>2 DEF IsOpen
<1>4. ASSUME NEW i \in 1..(m - 1) PROVE open[i] # x
  <2>1. i \in DOMAIN open /\ m \in DOMAIN open /\ i < m /\ open[i] \in Nat
    BY <1>1
  <2>2. open[i] < open[m]
    BY <2>1 DEF PathInv
  <2> QED
    BY <2>1, <2>2, <1>2
<1>5. ASSUME NEW e PROVE IsOpen(e)' <=> (IsOpen(e) /\ e # x)
  <2>1. ASSUME IsOpen(e)' PROVE IsOpen(e) /\ e # x
    <3>1. PICK i \in 1..(m - 1) : open'[i] = e
      BY <2>1, <1>2 DEF IsOpen
    <3>2. i \in DOMAIN open /\ open[i] = e /\ e # x
      BY <3>1, <1>1, <1>2, <1>4
    <3> QED
      BY <3>2 DEF IsOpen
  <2>2. ASSUME IsOpen(e), e # x PROVE IsOpen(e)'
    <3>1. PICK i \in 1..m : open[i] = e
      BY <2>2, <1>1 DEF IsOpen
    <3>2. i # m
      BY <3>1, <2>2, <1>2
    <3>3. i \in 1..(m - 1)
      BY <3>1, <3>2, <1>1
    <3>4. i \in DOMAIN open' /\ open'[i] = e
      BY <3>1, <3>3, <1>2
    <3> QED
      BY <3>4 DEF IsOpen
  <2> QED
    BY <2>1, <2>2
<1>6. Closed' = Closed \cup {x}
  BY <1>2, <1>3, <1>5 DEF Closed
<1> QED
  BY <1>1, <1>2, <1>3, <1>5, <1>6

\* The children that ended, once one more has.
LEMMA EndChildren ==
  ASSUME IInv, TreeInv, PathInv, ChildrenInv, phase = "in", open' = Front(open), doc' = doc,
         NEW m, m = Len(open), NEW x, x = Last(open), NEW el, el = doc[x].el
  PROVE  /\ m > 1 => /\ doc[x].parent = open[m - 1] /\ open[m - 1] \in DOMAIN doc /\ open[m - 1] # x
                     /\ IsOpen(open[m - 1])
         /\ \A p : m > 1 /\ p = open[m - 1] =>
                ClosedChildren(p, el)' = Append(ClosedChildren(p, el), x)
         /\ \A e \in DOMAIN doc : \A key :
                (m = 1 \/ e # open[m - 1] \/ key # el) => ClosedChildren(e, key)' = ClosedChildren(e, key)
<1>0. /\ m \in Nat \ {0} /\ DOMAIN open = 1..m /\ x \in DOMAIN doc /\ x = open[m] /\ IsOpen(x)
      /\ \A i \in 1..m : open[i] \in DOMAIN doc
      /\ \A e : IsOpen(e)' <=> (IsOpen(e) /\ e # x)
  BY EndPath
<1>1. \A e, key : Children(e, key)' = Children(e, key)
  BY DEF Children, ChildrenAmong
<1>2. DOMAIN doc = 1..Len(doc) /\ Len(doc) \in Nat
  BY DocTypes
<1>3. ASSUME m > 1
      PROVE  /\ doc[x].parent = open[m - 1] /\ open[m - 1] \in DOMAIN doc /\ open[m - 1] # x
             /\ IsOpen(open[m - 1])
             /\ Children(open[m - 1], el) # <<>> /\ Last(Children(open[m - 1], el)) = x
  <2>1. m - 1 \in 1..(Len(open) - 1) /\ m - 1 \in 1..m /\ (m - 1) + 1 = m
    BY <1>0, <1>3
  <2>2. /\ open[m - 1] < open[(m - 1) + 1] /\ doc[open[(m - 1) + 1]].parent = open[m - 1]
        /\ Children(open[m - 1], doc[open[(m - 1) + 1]].el) # <<>>
        /\ Last(Children(open[m - 1], doc[open[(m - 1) + 1]].el)) = open[(m - 1) + 1]
    BY <2>1 DEF PathInv
  <2>3. /\ open[m - 1] < x /\ doc[x].parent = open[m - 1]
        /\ Children(open[m - 1], el) # <<>> /\ Last(Children(open[m - 1], el)) = x
    BY <2>1, <2>2, <1>0
  <2>4. open[m - 1] \in DOMAIN doc /\ open[m - 1] # x
    BY <2>1, <2>3, <1>0, <1>2
  <2>5. IsOpen(open[m - 1])
    BY <2>1, <1>0 DEF IsOpen
  <2> QED
    BY <2>3, <2>4, <2>5
<1>4. ASSUME NEW p, m > 1, p = open[m - 1]
      PROVE  ClosedChildren(p, el)' = Append(ClosedChildren(p, el), x)
  <2>0. PICK C : C = Children(p, el)
    OBVIOUS
  <2>t. C \in Seq(DOMAIN doc)
    BY <2>0, ChildrenType
  <2>1. C = Children(p, el) /\ C = Children(p, el)'
    BY <2>0, <1>1
  <2>2. C \in Seq(DOMAIN doc) /\ C # <<>> /\ Last(C) = x
    BY <2>0, <2>t, <1>3, <1>4
  <2>3. ClosedChildren(p, el) = Front(C)
    BY <2>1, <2>2, <1>0 DEF ClosedChildren
  <2>4. ClosedChildren(p, el)' = C
    BY <2>1, <2>2, <1>0 DEF ClosedChildren
  <2> QED
    BY <2>2, <2>3, <2>4, FrontAndLast
<1>5. ASSUME NEW e \in DOMAIN doc, NEW key, m = 1 \/ e # open[m - 1] \/ key # el
      PROVE  ClosedChildren(e, key)' = ClosedChildren(e, key)
  <2>0. PICK C : C = Children(e, key)
    OBVIOUS
  <2>t. C \in Seq(DOMAIN doc) /\ \A i \in DOMAIN C : doc[C[i]].parent = e /\ doc[C[i]].el = key
    BY <2>0, ChildrenType
  <2>1. C = Children(e, key) /\ C = Children(e, key)'
    BY <2>0, <1>1
  <2>2. C # <<>> => Last(C) # x
    <3> SUFFICES ASSUME C # <<>>, Last(C) = x PROVE FALSE
      OBVIOUS
    <3>1. Last(C) = C[Len(C)] /\ Len(C) \in DOMAIN C
      BY <2>t, FrontLast, FrontDomain
    <3>2. doc[x].parent = e /\ doc[x].el = key
      BY <2>t, <3>1
    <3>3. m = 1
      BY <3>2, <1>0, <1>3, <1>5
    <3>4. x = 1
      <4>1. open # <<>>
        BY OpenElements
      <4> QED
        BY <4>1, <3>3, <1>0 DEF PathInv
    <3>5. doc[x].parent = 0
      BY <3>4 DEF TreeInv
    <3> QED
      BY <3>2, <3>5, <1>2
  <2>3. PICK c : c = Last(C)
    OBVIOUS
  <2>4. C # <<>> => (IsOpen(c)' <=> IsOpen(c))
    BY <2>2, <2>3, <1>0
  <2>5. C # <<>> => (IsOpen(Last(Children(e, key)))' <=> IsOpen(Last(Children(e, key))))
    BY <2>1, <2>3, <2>4 DEF IsOpen
  <2> QED
    BY <2>1, <2>5 DEF ClosedChildren
<1> QED
  BY <1>3, <1>4, <1>5

\* The end of an element: the places of what is open, and the children that ended.
LEMMA EndPlaces ==
  ASSUME IInv, DocumentInv, phase = "in", open' = Front(open), doc' = doc, options' = options,
         stack' = Front(stack), simple' = Front(simple), text' = Pop(EndText),
         UNCHANGED <<builders, root, first, rootName>>, dicts' \in Seq(Dict), DOMAIN dicts' = DOMAIN dicts
  PROVE  /\ TreeInv' /\ PathInv' /\ ChildrenInv' /\ PlaceInv' /\ TextsInv' /\ SimpleInv'
         /\ rootName' = doc'[1].el /\ ~first'
         /\ \A e : /\ DictOf(e)' = DictOf(e) /\ ItemOf(e)' = ItemOf(e)
                   /\ IsSimple(e)' <=> IsSimple(e)
<1>m. PICK m : m = Len(open)
  OBVIOUS
<1>x. PICK x : x = Last(open)
  OBVIOUS
<1>l. PICK el : el = doc[x].el
  OBVIOUS
<1>0. TreeInv /\ PathInv /\ ChildrenInv /\ PlaceInv /\ TextsInv /\ SimpleInv
  BY DEF DocumentInv
<1>1. /\ m \in Nat \ {0} /\ DOMAIN open = 1..m /\ DOMAIN open' = 1..(m - 1) /\ Len(open') = m - 1
      /\ \A i \in 1..(m - 1) : open'[i] = open[i]
      /\ x \in DOMAIN doc /\ x = open[m]
      /\ Closed' = Closed \cup {x}
  BY <1>0, <1>m, <1>x, EndPath
<1>2. /\ m = Len(stack) /\ m = Len(simple) /\ m = Len(text.stack)
      /\ stack \in Seq(DOMAIN builders) /\ simple \in Seq(BOOLEAN) /\ text.stack \in Seq(DOMAIN text.heap)
      /\ BuilderInv
  <2>1. StringStack(text)
    BY DEF IInv, BuilderInv
  <2> QED
    BY <1>0, <1>m, <2>1, StringStackFields DEF IInv, BuilderInv, TypeBuilder, Heights, PathInv
<1>3. stack # <<>> /\ simple # <<>> /\ text.stack # <<>>
  <2>1. \A S : \A s \in Seq(S) : Len(s) = m => s # <<>>
    BY <1>1, EmptySeq
  <2> QED
    BY <1>2, <2>1
<1>4. /\ DOMAIN stack = 1..m /\ DOMAIN stack' = 1..(m - 1) /\ Len(stack') = m - 1
      /\ \A i \in 1..(m - 1) : stack'[i] = stack[i]
  BY <1>2, <1>3, Popped
<1>5. DOMAIN simple = 1..m /\ DOMAIN simple' = 1..(m - 1) /\ \A i \in 1..(m - 1) : simple'[i] = simple[i]
  BY <1>2, <1>3, Popped
<1>6. /\ DOMAIN text.stack = 1..m /\ text'.stack = Front(text.stack) /\ DOMAIN text'.stack = 1..(m - 1)
      /\ \A i \in 1..(m - 1) : /\ text'.stack[i] = text.stack[i]
                               /\ text'.heap[text.stack[i]] = text.heap[text.stack[i]]
  <2>1. PICK ts : ts = text.stack
    OBVIOUS
  <2>2. /\ DOMAIN ts = 1..m /\ DOMAIN Front(ts) = 1..(m - 1) /\ \A i \in 1..(m - 1) : Front(ts)[i] = ts[i]
    <3>1. PICK S : ts \in Seq(S)
      BY <2>1, <1>2
    <3>2. ts # <<>> /\ m = Len(ts)
      BY <2>1, <1>2, <1>3
    <3> QED
      BY <3>1, <3>2, Popped
  <2>3. text'.stack = Front(ts) /\ \A i \in DOMAIN Front(ts) : text'.heap[ts[i]] = text.heap[ts[i]]
    BY <2>1, <1>2, <1>3, EndTextIs
  <2> QED
    BY <2>1, <2>2, <2>3
<1>7. \A e : /\ Object(root)' = Object(root) /\ DictOf(e)' = DictOf(e)
             /\ IsSimple(e)' <=> IsSimple(e)
  BY DEF Object, DictOf, IsSimple
<1>8. \A e : ItemOf(e)' = ItemOf(e)
  <2> TAKE e
  <2>1. doc'[e].text = doc[e].text
    OBVIOUS
  <2> QED
    BY <2>1, <1>7, ItemKept
<1>9. TreeInv'
  BY <1>0 DEF TreeInv
<1>10. \A e, key : Children(e, key)' = Children(e, key)
  BY DEF Children, ChildrenAmong
<1>11. PathInv'
  <2>1. Len(open') = Len(stack')
    BY <1>1, <1>4
  <2>2. open' # <<>> => open'[1] = 1
    <3>1. ASSUME open' # <<>> PROVE open'[1] = 1
      <4>1. open \in Seq(DOMAIN doc) /\ open # <<>>
        BY OpenElements
      <4>2. open' \in Seq(DOMAIN doc)
        BY <4>1, FrontLast
      <4>3. Len(open') \in Nat \ {0}
        BY <3>1, <4>2, EmptySeq
      <4>4. 1 \in 1..(m - 1)
        BY <4>3, <1>1
      <4> QED
        BY <4>1, <4>4, <1>0, <1>1 DEF PathInv
    <3> QED
      BY <3>1
  <2>3. ASSUME NEW i \in 1..(Len(open') - 1)
        PROVE  /\ open'[i] < open'[i + 1] /\ doc'[open'[i + 1]].parent = open'[i]
               /\ Children(open[i], doc[open[i + 1]].el)' # <<>>
               /\ Last(Children(open[i], doc[open[i + 1]].el)') = open'[i + 1]
    <3>1. i \in 1..(m - 1) /\ i + 1 \in 1..(m - 1)
      BY <1>1
    <3>2. PICK e : e = open[i] /\ e = open'[i]
      BY <3>1, <1>1
    <3>3. PICK c : c = open[i + 1] /\ c = open'[i + 1]
      BY <3>1, <1>1
    <3>4. PICK k : k = doc[c].el
      OBVIOUS
    <3>5. Children(open[i], doc[open[i + 1]].el)' = Children(e, k)'
      BY <3>2, <3>3, <3>4
    <3>6. e < c /\ doc[c].parent = e /\ Children(e, k) # <<>> /\ Last(Children(e, k)) = c
      <4>1. i \in 1..(Len(open) - 1)
        BY <3>1, <1>m
      <4> QED
        BY <4>1, <3>2, <3>3, <3>4, <1>0 DEF PathInv
    <3>7. Children(e, k)' = Children(e, k)
      BY <1>10
    <3> QED
      BY <3>2, <3>3, <3>5, <3>6, <3>7
  <2>4. ASSUME NEW i \in DOMAIN open', NEW j \in DOMAIN open', i < j PROVE open'[i] < open'[j]
    <3>1. i \in DOMAIN open /\ j \in DOMAIN open /\ open'[i] = open[i] /\ open'[j] = open[j]
      BY <1>1
    <3> QED
      BY <3>1, <2>4, <1>0 DEF PathInv
  <2> QED
    BY <2>1, <2>2, <2>3, <2>4 DEF PathInv
<1>12. ChildrenInv'
  <2> SUFFICES ASSUME NEW e \in DOMAIN doc, NEW key \in Keys PROVE ClosedChildren(e, key)' \in Seq(Closed')
    BY DEF ChildrenInv
  <2>0. PICK S : S = Closed /\ Closed' = S \cup {x}
    BY <1>1
  <2>1. ClosedChildren(e, key) \in Seq(S \cup {x})
    BY <2>0, <1>0, SeqMonotonic DEF ChildrenInv
  <2>2. CASE m > 1 /\ e = open[m - 1] /\ key = el
    <3>1. ClosedChildren(e, key)' = Append(ClosedChildren(e, key), x)
      BY <2>2, <1>0, <1>m, <1>x, <1>l, EndChildren
    <3> QED
      BY <3>1, <2>0, <2>1, AppendProperties
  <2>3. CASE ~(m > 1 /\ e = open[m - 1] /\ key = el)
    <3>1. m = 1 \/ e # open[m - 1] \/ key # el
      BY <2>3, <1>1
    <3>2. ClosedChildren(e, key)' = ClosedChildren(e, key)
      <4>1. (m = 1 \/ e # open[m - 1] \/ key # el) => ClosedChildren(e, key)' = ClosedChildren(e, key)
        BY <1>0, <1>m, <1>x, <1>l, EndChildren
      <4> QED
        BY <3>1, <4>1
    <3> QED
      BY <3>2, <2>0, <2>1
  <2> QED
    BY <2>2, <2>3
<1>13. PlaceInv'
  <2>1. stack' # <<>> => stack'[1] = root'
    <3>1. ASSUME stack' # <<>> PROVE stack'[1] = root'
      <4>1. stack' \in Seq(DOMAIN builders)
        BY <1>2, <1>3, FrontLast
      <4>2. Len(stack') \in Nat \ {0}
        BY <3>1, <4>1, EmptySeq
      <4>3. 1 \in 1..(m - 1)
        BY <4>2, <1>1, <1>4
      <4> QED
        BY <4>3, <1>0, <1>3, <1>4 DEF PlaceInv
    <3> QED
      BY <3>1
  <2>2. Len(dicts') = Len(dicts)
    BY <1>2, RootDict, SameLength
  <2>3. ASSUME NEW i \in DOMAIN stack' PROVE Object(stack[i])' = DictOf(open[i])'
    <3>1. i \in 1..(m - 1) /\ i \in DOMAIN stack
      BY <1>1, <1>4
    <3>2. Object(stack[i]) = DictOf(open[i])
      BY <3>1, <1>0 DEF PlaceInv
    <3>3. Object(stack[i])' = Object(stack[i])
      BY <3>1, <1>4 DEF Object
    <3>4. DictOf(open[i])' = DictOf(open[i])
      BY <3>1, <1>1 DEF DictOf, Object
    <3> QED
      BY <3>2, <3>3, <3>4
  <2>4. Len(dicts') = Object(root)' + Len(doc') - 1
    BY <2>2, <1>0, <1>7 DEF PlaceInv
  <2> QED
    BY <2>1, <2>3, <2>4 DEF PlaceInv
<1>14. TextsInv'
  <2> SUFFICES ASSUME NEW i \in DOMAIN text'.stack PROVE text'.heap[text'.stack[i]] = doc'[open'[i]].text
    BY DEF TextsInv
  <2>1. i \in 1..(m - 1) /\ i \in 1..m
    BY <1>1, <1>6
  <2>2. text'.heap[text'.stack[i]] = text.heap[text.stack[i]]
    BY <2>1, <1>6
  <2>3. text.heap[text.stack[i]] = doc[open[i]].text
    BY <2>1, <1>0, <1>6 DEF TextsInv
  <2> QED
    BY <2>1, <2>2, <2>3, <1>1
<1>15. SimpleInv'
  <2> SUFFICES ASSUME NEW i \in DOMAIN simple' PROVE simple'[i] <=> IsSimple(open[i])'
    BY DEF SimpleInv
  <2>1. i \in 1..(m - 1) /\ i \in 1..m
    BY <1>1, <1>5
  <2>2. PICK e : e = open[i] /\ e = open'[i]
    BY <2>1, <1>1
  <2>3. simple[i] <=> IsSimple(e)
    BY <2>1, <2>2, <1>0, <1>5 DEF SimpleInv
  <2>4. simple'[i] = simple[i]
    BY <2>1, <1>5
  <2>5. IsSimple(open[i])' <=> IsSimple(e)'
    BY <2>2
  <2> QED
    BY <2>3, <2>4, <2>5, <1>7
<1>16. rootName' = doc'[1].el /\ ~first'
  BY DEF DocumentInv
<1> QED
  BY <1>7, <1>8, <1>9, <1>11, <1>12, <1>13, <1>14, <1>15, <1>16

\* The dictionary of an element that is not simple, once it has its text.
LEMMA EndOwnDict ==
  ASSUME NEW e, NEW d, IsDictOf(d, e, FALSE), NEW new,
         new = IF TextOf(e) = <<>> THEN d ELSE SetDictKeyValue(d, options.textkey, Str(TextOf(e)))
  PROVE  IsDictOf(new, e, TRUE)
<1> SUFFICES ASSUME NEW key \in Keys
             PROVE  IF Worded(e, key) THEN key \in DOMAIN new /\ new[key] = Str(TextOf(e))
                    ELSE KeyHas(new, key, Own(e, key), Items(ClosedChildren(e, key)))
  BY DEF IsDictOf
<1>1. KeyHas(d, key, Own(e, key), Items(ClosedChildren(e, key)))
  BY DEF IsDictOf
<1>2. CASE TextOf(e) = <<>>
  BY <1>1, <1>2 DEF Worded
<1>3. CASE TextOf(e) # <<>> /\ key = options.textkey
  <2>1. key \in DOMAIN new /\ new[key] = Str(TextOf(e))
    BY <1>3 DEF SetDictKeyValue
  <2> QED
    BY <1>3, <2>1 DEF Worded
<1>4. CASE TextOf(e) # <<>> /\ key # options.textkey
  <2>1. PICK k : k = options.textkey /\ key # k
    BY <1>4
  <2>2. PICK v : v = Str(TextOf(e))
    OBVIOUS
  <2>3. new = SetDictKeyValue(d, k, v)
    BY <1>4, <2>1, <2>2
  <2>4. KeyHas(new, key, Own(e, key), Items(ClosedChildren(e, key)))
    BY <1>1, <2>1, <2>3, OtherKeyHas
  <2> QED
    BY <1>4, <2>4 DEF Worded
<1> QED
  BY <1>2, <1>3, <1>4

\* The dictionary of the parent of an element that ended.
LEMMA EndParentDict ==
  ASSUME IInv, ChildrenInv, options' = options, doc' = doc, \A e : ItemOf(e)' = ItemOf(e),
         NEW p \in DOMAIN doc, NEW x \in DOMAIN doc, NEW el \in Name,
         ClosedChildren(p, el)' = Append(ClosedChildren(p, el), x),
         \A key : key # el => ClosedChildren(p, key)' = ClosedChildren(p, key),
         NEW d \in Dict, IsDictOf(d, p, FALSE),
         NEW new, new = AppendToDictKeyList(d, el, ItemOf(x), options.explicit_array)
  PROVE  IsDictOf(new, p, FALSE)'
<1> SUFFICES ASSUME NEW key \in Keys
             PROVE  KeyHas(new, key, Own(p, key), Items(ClosedChildren(p, key)))'
  BY DEF IsDictOf
<1>1. PICK own : own = Own(p, key) /\ own = Own(p, key)'
  BY DEF Own
<1>2. PICK C : C = ClosedChildren(p, key)
  OBVIOUS
<1>3. C \in Seq(DOMAIN doc)
  <2>1. C \in Seq(Closed)
    BY <1>2 DEF ChildrenInv
  <2>2. Closed \subseteq DOMAIN doc
    BY DEF Closed
  <2> QED
    BY <2>1, <2>2, SeqMonotonic
<1>4. own \in Seq(Item) /\ Items(C) \in Seq(Item) /\ ItemOf(x) \in Item
  BY <1>1, <1>3, ItemTypes, ItemsType
<1>5. KeyHas(d, key, own, Items(C))
  BY <1>1, <1>2 DEF IsDictOf
<1>6. \A k, o, s : KeyHas(new, k, o, s)' <=> KeyHas(new, k, o, s)
  BY DEF KeyHas, Meant
<1>7. \A s : Items(s)' = Items(s)
  BY DEF Items
<1>8. CASE key = el
  <2>1. PICK D : D = Append(C, x)
    OBVIOUS
  <2>2. Items(D) = Append(Items(C), ItemOf(x))
    BY <1>3, <2>1, ItemsAppend
  <2>3. KeyHas(new, key, own, Items(D))
    BY <1>4, <1>5, <1>8, <2>2, AppendKeyHas
  <2>4. Items(ClosedChildren(p, key))' = Items(D)
    <3>1. ClosedChildren(p, key)' = D
      BY <1>2, <1>8, <2>1
    <3>2. Items(ClosedChildren(p, key))' = Items(D)'
      BY <3>1 DEF Items
    <3> QED
      BY <3>2, <1>7
  <2>5. PICK s : s = Items(D)
    OBVIOUS
  <2>6. KeyHas(new, key, own, s)'
    BY <2>3, <2>5, <1>6
  <2> QED
    BY <1>1, <2>4, <2>5, <2>6
<1>9. CASE key # el
  <2>1. PICK v : new = SetDictKeyValue(d, el, v)
    BY DEF AppendToDictKeyList
  <2>2. KeyHas(new, key, own, Items(C))
    BY <1>5, <1>9, <2>1, OtherKeyHas
  <2>3. Items(ClosedChildren(p, key))' = Items(C)
    <3>1. ClosedChildren(p, key)' = C
      BY <1>2, <1>9
    <3>2. Items(ClosedChildren(p, key))' = Items(C)'
      BY <3>1 DEF Items
    <3> QED
      BY <3>2, <1>7
  <2>4. PICK s : s = Items(C)
    OBVIOUS
  <2>5. KeyHas(new, key, own, s)'
    BY <2>2, <2>4, <1>6
  <2> QED
    BY <1>1, <2>3, <2>4, <2>5
<1> QED
  BY <1>8, <1>9

\* What OnEndElement works on: the text, the flag and the dictionaries of the
\* element that ends and of its parent.
LEMMA EndPieces ==
  ASSUME IInv, DocumentInv, phase = "in", NEW m, m = Len(open), NEW x, x = Last(open)
  PROVE  /\ m \in Nat \ {0} /\ x = open[m] /\ x \in DOMAIN doc /\ m = Len(stack) /\ stack # <<>> /\ simple # <<>>
         /\ Last(stack) \in DOMAIN builders /\ Object(Last(stack)) = DictOf(x)
         /\ m > 1 => /\ open[m - 1] \in DOMAIN doc
                     /\ Last(Front(stack)) \in DOMAIN builders /\ Object(Last(Front(stack))) = DictOf(open[m - 1])
         /\ Last(simple) <=> IsSimple(x)
         /\ TopString(EndText) = TextOf(x)
<1>0. PathInv /\ PlaceInv /\ TextsInv /\ SimpleInv /\ BuilderInv
  BY DEF DocumentInv, IInv
<1>1. /\ m \in Nat \ {0} /\ DOMAIN open = 1..m /\ \A i \in 1..m : open[i] \in DOMAIN doc
      /\ open \in Seq(DOMAIN doc) /\ open # <<>>
  BY DocTypes, OpenElements
<1>2. x = open[m] /\ x \in DOMAIN doc
  BY <1>1, FrontLast
<1>3. /\ m = Len(stack) /\ m = Len(simple) /\ m = Len(text.stack) /\ StringStack(text)
      /\ stack \in Seq(DOMAIN builders) /\ simple \in Seq(BOOLEAN)
  BY <1>0 DEF BuilderInv, TypeBuilder, Heights, PathInv
<1>4. text.stack \in Seq(DOMAIN text.heap) /\ (text.stack # <<>> => text.top = Last(text.stack))
  BY <1>3, StringStackFields DEF StringStack
<1>5. stack # <<>> /\ simple # <<>> /\ text.stack # <<>>
  <2>1. \A S : \A s \in Seq(S) : Len(s) = m => s # <<>>
    BY <1>1, EmptySeq
  <2> QED
    BY <1>3, <1>4, <2>1
<1>6. Last(stack) \in DOMAIN builders /\ Object(Last(stack)) = DictOf(x)
  <2>1. Last(stack) = stack[m] /\ m \in DOMAIN stack /\ Last(stack) \in DOMAIN builders
    BY <1>3, <1>5, FrontLast, FrontDomain
  <2> QED
    BY <2>1, <1>0, <1>2 DEF PlaceInv
<1>7. ASSUME m > 1
      PROVE  /\ open[m - 1] \in DOMAIN doc
             /\ Last(Front(stack)) \in DOMAIN builders /\ Object(Last(Front(stack))) = DictOf(open[m - 1])
  <2>1. m - 1 \in 1..m
    BY <1>1, <1>7
  <2>2. Last(Front(stack)) \in DOMAIN builders /\ Last(Front(stack)) = stack[m - 1] /\ m - 1 \in DOMAIN stack
    BY <1>0, <1>3, <1>5, <1>7, TopBuilders
  <2> QED
    BY <2>1, <2>2, <1>0, <1>1 DEF PlaceInv
<1>8. Last(simple) <=> IsSimple(x)
  <2>1. Last(simple) = simple[m] /\ m \in DOMAIN simple
    BY <1>3, <1>5, FrontLast, FrontDomain
  <2> QED
    BY <2>1, <1>0, <1>2 DEF SimpleInv
<1>9. TopString(EndText) = TextOf(x)
  <2>1. PICK ts : ts = text.stack
    OBVIOUS
  <2>2. PICK S : ts \in Seq(S)
    BY <2>1, <1>4
  <2>3. ts # <<>> /\ m = Len(ts) /\ text.top = Last(ts)
    BY <2>1, <1>3, <1>4, <1>5
  <2>4. text.top = ts[m] /\ m \in DOMAIN ts
    BY <2>2, <2>3, FrontLast, FrontDomain
  <2>5. text.heap[text.top] = doc[x].text
    BY <2>1, <2>4, <1>0, <1>2 DEF TextsInv
  <2>6. TopString(EndText) = IF options.trim THEN Trim(text.heap[text.top]) ELSE text.heap[text.top]
    BY <1>0, <1>5, EndTextIs
  <2> QED
    BY <2>5, <2>6 DEF TextOf
<1> QED
  BY <1>1, <1>2, <1>3, <1>5, <1>6, <1>7, <1>8, <1>9

\* What OnEndElement does to the dictionaries.
LEMMA EndDicts ==
  ASSUME IInv, DocumentInv, phase = "in", NEW m, m = Len(open), NEW x, x = Last(open),
         NEW el, OnEndElement(el), ~Undefined
  PROVE  /\ \A e \in DOMAIN doc : e # x /\ (m = 1 \/ e # open[m - 1]) => dicts'[DictOf(e)] = dicts[DictOf(e)]
         /\ \A p : m > 1 /\ p = open[m - 1] /\ p # x =>
               dicts'[DictOf(p)] = AppendToDictKeyList(dicts[DictOf(p)], el, ItemOf(x), options.explicit_array)
         /\ ~IsSimple(x) /\ (m = 1 \/ open[m - 1] # x) =>
               dicts'[DictOf(x)] = IF TextOf(x) = <<>> THEN dicts[DictOf(x)]
                                   ELSE SetDictKeyValue(dicts[DictOf(x)], options.textkey, Str(TextOf(x)))
<1>p. PICK p : p = open[m - 1]
  OBVIOUS
<1>o. PICK o : o = DictOf(x)
  OBVIOUS
<1>u. PICK u : u = DictOf(p)
  OBVIOUS
<1>0. /\ m \in Nat \ {0} /\ x \in DOMAIN doc /\ m = Len(stack) /\ stack # <<>> /\ simple # <<>>
      /\ Object(Last(stack)) = o /\ (Last(simple) <=> IsSimple(x)) /\ TopString(EndText) = TextOf(x)
      /\ m > 1 => p \in DOMAIN doc /\ Object(Last(Front(stack))) = u
  BY <1>p, <1>o, <1>u, EndPieces
<1>1. PlaceInv
  BY DEF DocumentInv
<1>2. /\ o \in DOMAIN dicts /\ (m > 1 => u \in DOMAIN dicts) /\ (m > 1 /\ p # x => u # o)
      /\ \A e \in DOMAIN doc : DictOf(e) \in DOMAIN dicts /\ (e # x => DictOf(e) # o)
      /\ m > 1 => \A e \in DOMAIN doc : e # p => DictOf(e) # u
  BY <1>0, <1>1, <1>o, <1>u, DictRange
<1>3. CASE EndSimple(el)
  <2>1. IsSimple(x)
    BY <1>0, <1>3 DEF EndSimple
  <2>2. m > 1
    <3>1. ~(m < 2)
      BY <1>0, <1>3 DEF EndSimple
    <3> QED
      BY <3>1, <1>0
  <2>3. ItemOf(x) = Str(TopString(EndText))
    BY <2>1, <1>0 DEF ItemOf
  <2>4. PICK new : new = AppendToDictKeyList(dicts[u], el, ItemOf(x), options.explicit_array)
    OBVIOUS
  <2>5. dicts' = [dicts EXCEPT ![u] = new]
    BY <1>0, <1>3, <2>2, <2>3, <2>4 DEF EndSimple, Object
  <2>6. dicts'[u] = new /\ \A i \in DOMAIN dicts : i # u => dicts'[i] = dicts[i]
    BY <1>2, <2>2, <2>5
  <2> QED
    BY <1>2, <1>p, <1>u, <2>1, <2>2, <2>4, <2>6
<1>4. CASE EndOther(el)
  <2>1. ~IsSimple(x)
    BY <1>0, <1>4 DEF EndOther
  <2>2. ItemOf(x) = Ref(o)
    BY <2>1, <1>o DEF ItemOf
  <2>3. PICK own : own = IF TextOf(x) = <<>> THEN dicts[o]
                         ELSE SetDictKeyValue(dicts[o], options.textkey, Str(TextOf(x)))
    OBVIOUS
  <2>4. PICK es : es = DictsWithText(Last(stack))
    OBVIOUS
  <2>5. DOMAIN es = DOMAIN dicts /\ es[o] = own /\ \A i \in DOMAIN dicts : i # o => es[i] = dicts[i]
    BY <1>0, <1>2, <2>3, <2>4 DEF DictsWithText, Object
  <2>6. CASE m = 1
    <3>1. dicts' = es
      BY <1>0, <1>4, <2>4, <2>6 DEF EndOther
    <3> QED
      BY <3>1, <1>2, <1>o, <2>3, <2>5, <2>6
  <2>7. CASE m > 1
    <3>1. PICK new : new = AppendToDictKeyList(es[u], el, ItemOf(x), options.explicit_array)
      OBVIOUS
    <3>2. dicts' = [es EXCEPT ![u] = new]
      BY <1>0, <1>4, <2>2, <2>4, <2>7, <3>1 DEF EndOther, Object
    <3>3. dicts'[u] = new /\ \A i \in DOMAIN dicts : i # u => dicts'[i] = es[i]
      BY <1>2, <2>5, <2>7, <3>2
    <3>4. p # x => es[u] = dicts[u] /\ u # o
      BY <1>2, <2>5, <2>7
    <3> QED
      BY <1>2, <1>o, <1>p, <1>u, <2>3, <2>5, <2>7, <3>1, <3>3, <3>4
  <2> QED
    BY <1>0, <2>6, <2>7
<1> QED
  BY <1>3, <1>4 DEF OnEndElement, EndUnderflow

\* OnEndElement.
LEMMA EndDocument ==
  ASSUME IInv, DocumentInv, ParseEnd, ~undefined'
  PROVE  DocumentInv'
<1>m. PICK m : m = Len(open)
  OBVIOUS
<1>x. PICK x : x = Last(open)
  OBVIOUS
<1>l. PICK el : el = doc[x].el
  OBVIOUS
<1>p. PICK p : p = open[m - 1]
  OBVIOUS
<1>0. /\ TreeInv /\ PathInv /\ ChildrenInv /\ PlaceInv /\ DictsInv /\ BuilderInv
      /\ phase = "in" /\ OnEndElement(el) /\ open' = Front(open) /\ doc' = doc
      /\ UNCHANGED <<options, current, replaced>> /\ ~Undefined
  BY <1>x, <1>l DEF DocumentInv, IInv, ParseEnd, Undefined
<1>1. /\ m \in Nat \ {0} /\ x \in DOMAIN doc /\ IsOpen(x)
      /\ \A e : IsOpen(e)' <=> (IsOpen(e) /\ e # x)
      /\ Closed' = Closed \cup {x}
  BY <1>0, <1>m, <1>x, EndPath
<1>2. el \in Name
  BY <1>1, <1>l, DocTypes DEF Elements
<1>3. /\ m > 1 => doc[x].parent = p /\ p \in DOMAIN doc /\ p # x /\ IsOpen(p)
      /\ m > 1 => ClosedChildren(p, el)' = Append(ClosedChildren(p, el), x)
      /\ \A e \in DOMAIN doc : \A key :
             (m = 1 \/ e # p \/ key # el) => ClosedChildren(e, key)' = ClosedChildren(e, key)
  BY <1>0, <1>m, <1>x, <1>l, <1>p, EndChildren
<1>4. /\ stack' = Front(stack) /\ simple' = Front(simple) /\ text' = Pop(EndText)
      /\ UNCHANGED <<builders, root, first, rootName>>
  BY <1>0 DEF OnEndElement, EndSimple, EndOther, EndUnderflow
<1>5. dicts' \in Seq(Dict) /\ DOMAIN dicts' = DOMAIN dicts
  <2>1. BuilderInv'
    BY <1>0, <1>2, EndStep
  <2>2. DOMAIN dicts' = DOMAIN dicts
    BY <1>0 DEF OnEndElement, EndSimple, EndOther, EndUnderflow, DictsWithText
  <2> QED
    BY <2>1, <2>2 DEF BuilderInv
<1>6. /\ TreeInv' /\ PathInv' /\ ChildrenInv' /\ PlaceInv' /\ TextsInv' /\ SimpleInv'
      /\ rootName' = doc'[1].el /\ ~first'
      /\ \A e : /\ DictOf(e)' = DictOf(e) /\ ItemOf(e)' = ItemOf(e)
                /\ IsSimple(e)' <=> IsSimple(e)
  BY <1>0, <1>4, <1>5, EndPlaces
<1>7. /\ \A e \in DOMAIN doc : e # x /\ (m = 1 \/ e # p) => dicts'[DictOf(e)] = dicts[DictOf(e)]
      /\ m > 1 => dicts'[DictOf(p)] = AppendToDictKeyList(dicts[DictOf(p)], el, ItemOf(x), options.explicit_array)
      /\ ~IsSimple(x) =>
            dicts'[DictOf(x)] = IF TextOf(x) = <<>> THEN dicts[DictOf(x)]
                                ELSE SetDictKeyValue(dicts[DictOf(x)], options.textkey, Str(TextOf(x)))
  <2>1. /\ \A e \in DOMAIN doc : e # x /\ (m = 1 \/ e # p) => dicts'[DictOf(e)] = dicts[DictOf(e)]
        /\ m > 1 /\ p # x => dicts'[DictOf(p)] = AppendToDictKeyList(dicts[DictOf(p)], el, ItemOf(x), options.explicit_array)
        /\ ~IsSimple(x) /\ (m = 1 \/ p # x) =>
              dicts'[DictOf(x)] = IF TextOf(x) = <<>> THEN dicts[DictOf(x)]
                                  ELSE SetDictKeyValue(dicts[DictOf(x)], options.textkey, Str(TextOf(x)))
    BY <1>0, <1>m, <1>x, <1>p, EndDicts
  <2>2. m = 1 \/ m > 1
    BY <1>1
  <2> QED
    BY <2>1, <2>2, <1>3
<1>8. PICK S : S = Closed
  OBVIOUS
<1>9. ASSUME NEW e \in DOMAIN doc, m = 1 \/ e # p, NEW w \in BOOLEAN, NEW d, IsDictOf(d, e, w)
      PROVE  IsDictOf(d, e, w)'
  <2>1. \A key \in Keys : ClosedChildren(e, key)' = ClosedChildren(e, key) /\ ClosedChildren(e, key) \in Seq(S)
    BY <1>0, <1>3, <1>8, <1>9 DEF ChildrenInv
  <2>2. doc'[e].attrs = doc[e].attrs /\ doc'[e].text = doc[e].text /\ options' = options
    BY <1>0
  <2>3. \A c \in S : ItemOf(c)' = ItemOf(c)
    BY <1>6
  <2> QED
    BY <1>9, <2>1, <2>2, <2>3, DictKept
<1>10. ASSUME NEW e \in DOMAIN doc, e # x, m = 1 \/ e # p, NEW w \in BOOLEAN,
              IsDictOf(dicts[DictOf(e)], e, w)
       PROVE  IsDictOf(dicts[DictOf(e)], e, w)'
  <2>1. PICK d : d = dicts[DictOf(e)] /\ d = dicts[DictOf(e)]'
    BY <1>6, <1>7, <1>10
  <2>2. IsDictOf(d, e, w)'
    BY <1>9, <1>10, <2>1
  <2> QED
    BY <2>1, <2>2
<1>11. ASSUME m > 1 PROVE IsDictOf(dicts[DictOf(p)], p, FALSE)'
  <2>0. p \in DOMAIN doc /\ IsOpen(p)
    BY <1>3, <1>11
  <2>1. PICK d : d = dicts[DictOf(p)]
    OBVIOUS
  <2>2. IsDictOf(d, p, FALSE)
    BY <2>0, <2>1, <1>0 DEF DictsInv
  <2>3. d \in Dict
    <3>1. dicts \in Seq(Dict) /\ DictOf(p) \in DOMAIN dicts
      BY <2>0, <1>0, RootDict, DictRange
    <3> QED
      BY <3>1, <2>1, StackElements
  <2>4. PICK new : new = AppendToDictKeyList(d, el, ItemOf(x), options.explicit_array)
    OBVIOUS
  <2>5. \A key : key # el => ClosedChildren(p, key)' = ClosedChildren(p, key)
    BY <2>0, <1>3
  <2>6. ClosedChildren(p, el)' = Append(ClosedChildren(p, el), x)
    BY <1>3, <1>11
  <2>7. \A e : ItemOf(e)' = ItemOf(e)
    BY <1>6
  <2>8. IsDictOf(new, p, FALSE)'
    BY <1>0, <1>1, <1>2, <2>0, <2>2, <2>3, <2>4, <2>5, <2>6, <2>7, EndParentDict
  <2>9. new = dicts[DictOf(p)]'
    BY <1>6, <1>7, <1>11, <2>1, <2>4
  <2> QED
    BY <2>8, <2>9
<1>12. ASSUME ~IsSimple(x) PROVE IsDictOf(dicts[DictOf(x)], x, TRUE)'
  <2>1. PICK d : d = dicts[DictOf(x)]
    OBVIOUS
  <2>2. IsDictOf(d, x, FALSE)
    BY <2>1, <1>0, <1>1 DEF DictsInv
  <2>3. PICK new : new = IF TextOf(x) = <<>> THEN d ELSE SetDictKeyValue(d, options.textkey, Str(TextOf(x)))
    OBVIOUS
  <2>4. IsDictOf(new, x, TRUE)
    BY <2>2, <2>3, EndOwnDict
  <2>5. m = 1 \/ x # p
    BY <1>1, <1>3
  <2>6. IsDictOf(new, x, TRUE)'
    BY <2>4, <2>5, <1>1, <1>9
  <2>7. new = dicts[DictOf(x)]'
    BY <2>1, <2>3, <1>6, <1>7, <1>12
  <2> QED
    BY <2>6, <2>7
<1>13. DictsInv'
  <2>1. ASSUME NEW e \in DOMAIN doc', IsOpen(e)' PROVE IsDictOf(dicts[DictOf(e)], e, FALSE)'
    <3>1. e \in DOMAIN doc /\ IsOpen(e) /\ e # x
      BY <2>1, <1>0, <1>1
    <3>2. CASE m > 1 /\ e = p
      BY <3>2, <1>11
    <3>3. CASE ~(m > 1 /\ e = p)
      <4>1. m = 1 \/ e # p
        BY <3>3, <1>1
      <4>2. IsDictOf(dicts[DictOf(e)], e, FALSE)
        BY <3>1, <1>0 DEF DictsInv
      <4> QED
        BY <3>1, <4>1, <4>2, <1>10
    <3> QED
      BY <3>2, <3>3
  <2>2. ASSUME NEW e \in Closed', ~IsSimple(e)' PROVE IsDictOf(dicts[DictOf(e)], e, TRUE)'
    <3>1. ~IsSimple(e) /\ (e = x \/ e \in Closed)
      BY <2>2, <1>1, <1>6
    <3>2. CASE e = x
      BY <3>1, <3>2, <1>12
    <3>3. CASE e # x
      <4>1. e \in Closed /\ e \in DOMAIN doc /\ ~IsOpen(e)
        BY <3>1, <3>3 DEF Closed
      <4>2. m = 1 \/ e # p
        BY <4>1, <1>1, <1>3
      <4>3. IsDictOf(dicts[DictOf(e)], e, TRUE)
        BY <3>1, <4>1, <1>0 DEF DictsInv
      <4> QED
        BY <3>3, <4>1, <4>2, <4>3, <1>10
    <3> QED
      BY <3>2, <3>3
  <2> QED
    BY <2>1, <2>2 DEF DictsInv
<1> QED
  BY <1>6, <1>13 DEF DocumentInv

-----------------------------------------------------------------------------
(***************************************************************************)
(* The value of a document.                                                *)
(***************************************************************************)

\* A text and attributes are what they are, a reference is what it refers to.
LEMMA FollowItems ==
  ASSUME NEW val, NEW y
  PROVE  /\ Follow(val, Str(y)) = Str(y) /\ ~IsList(Str(y))
         /\ Follow(val, AttrDict(y)) = AttrDict(y)
         /\ Follow(val, Ref(y)) = val[y]
BY DEF Follow, Str, AttrDict, Ref, IsList

\* Once nothing is open all children have ended.
LEMMA AllClosed ==
  ASSUME IInv, open = <<>>
  PROVE  Closed = DOMAIN doc /\ \A e, key : ClosedChildren(e, key) = Children(e, key)
<1>1. DOMAIN open = {}
  OBVIOUS
<1>2. \A e : ~IsOpen(e)
  BY <1>1 DEF IsOpen
<1> QED
  BY <1>2 DEF Closed, ClosedChildren

\* r is the a elements of s and then the b elements of t.
Joined(r, s, t, a, b) ==
    /\ Len(r) = a + b
    /\ \A i \in 1..a : r[i] = s[i]
    /\ \A j \in 1..b : r[a + j] = t[j]

\* Two sequences put together.
LEMMA ConcatIs ==
  ASSUME NEW S, NEW s \in Seq(S), NEW t \in Seq(S)
  PROVE  s \o t \in Seq(S) /\ Joined(s \o t, s, t, Len(s), Len(t))
<1>1. PICK a \in Nat, b \in Nat : a = Len(s) /\ b = Len(t)
  BY LenProperties
<1>2. PICK r : r = s \o t
  OBVIOUS
<1>3. r \in Seq(S) /\ Len(r) = a + b
  BY <1>1, <1>2, ConcatProperties
<1>4. \A i \in 1..(Len(s) + Len(t)) : r[i] = IF i <= Len(s) THEN s[i] ELSE t[i - Len(s)]
  BY <1>2, ConcatProperties
<1>5. \A i \in 1..(a + b) : r[i] = IF i <= a THEN s[i] ELSE t[i - a]
  BY <1>1, <1>4
<1>6. ASSUME NEW i \in 1..a PROVE r[i] = s[i]
  <2>1. i \in 1..(a + b) /\ i <= a
    OBVIOUS
  <2> QED
    BY <1>5, <2>1
<1>7. ASSUME NEW j \in 1..b PROVE r[a + j] = t[j]
  <2>1. a + j \in 1..(a + b) /\ ~(a + j <= a) /\ (a + j) - a = j
    OBVIOUS
  <2> QED
    BY <1>5, <2>1
<1>8. Joined(r, s, t, a, b)
  BY <1>3, <1>6, <1>7 DEF Joined
<1> QED
  BY <1>1, <1>2, <1>3, <1>8

\* The first n elements of s lead to those of t.
Lead(val, s, t, n) == \A i \in 1..n : Follow(val, s[i]) = t[i]

\* So if what two sequences hold is followed, what they hold together is.
LEMMA ConcatFollows ==
  ASSUME NEW val, NEW own, NEW its, NEW kids, NEW a \in Nat, NEW b \in Nat, NEW s, NEW t,
         Joined(s, own, its, a, b), Joined(t, own, kids, a, b),
         Lead(val, own, own, a), Lead(val, its, kids, b)
  PROVE  Lead(val, s, t, a + b)
<1>1. ASSUME NEW i \in 1..(a + b) PROVE Follow(val, s[i]) = t[i]
  <2>1. CASE i \in 1..a
    BY <2>1 DEF Lead, Joined
  <2>2. CASE i \notin 1..a
    <3>1. i - a \in 1..b /\ i = a + (i - a)
      BY <2>2
    <3>2. PICK j \in 1..b : i = a + j
      BY <3>1
    <3> QED
      BY <3>2 DEF Lead, Joined
  <2> QED
    BY <2>1, <2>2
<1> QED
  BY <1>1 DEF Lead

\* What mean has for the children of an element under a key.
KidsOf(mean, n, key) == [i \in DOMAIN Children(n, key) |-> mean[Children(n, key)[i]]]

\* What the parent has of each of them leads to that.
ItemsLead(val, mean, n, key) ==
    \A i \in DOMAIN Children(n, key) :
        Follow(val, ItemOf(Children(n, key)[i])) = mean[Children(n, key)[i]]

\* The value of a key of a dictionary, with its references followed.
FollowedKey(val, d, key) ==
    IF IsList(d[key]) THEN List([i \in DOMAIN d[key].list |-> Follow(val, d[key].list[i])])
    ELSE Follow(val, d[key])

\* What a key has in the dictionary of an element that ended means what the key
\* of the element means, if the children do.
LEMMA KeyMeans ==
  ASSUME IInv, NEW e \in DOMAIN doc, NEW key, NEW val, NEW mean, NEW d,
         KeyHas(d, key, Own(e, key), Items(Children(e, key))), ItemsLead(val, mean, e, key)
  PROVE  /\ key \in DOMAIN d <=> Own(e, key) \o KidsOf(mean, e, key) # <<>>
         /\ key \in DOMAIN d => FollowedKey(val, d, key) = Meant(Own(e, key), KidsOf(mean, e, key))
<1>0. PICK kids : kids = KidsOf(mean, e, key)
  OBVIOUS
<1>1. PICK C : C = Children(e, key)
  OBVIOUS
<1>2. C \in Seq(DOMAIN doc)
  BY <1>1, ChildrenType
<1>3. PICK own : own = Own(e, key)
  OBVIOUS
<1>4. PICK its : its = Items(C)
  OBVIOUS
<1>5. own \in Seq(Item) /\ its \in Seq(Item) /\ Len(its) = Len(C) /\ DOMAIN its = DOMAIN C
  BY <1>2, <1>3, <1>4, ItemTypes, ItemsType
<1>6. PICK S : own \in Seq(S) /\ kids \in Seq(S)
  <2>1. PICK M : M = {mean[c] : c \in DOMAIN doc}
    OBVIOUS
  <2>2. PICK n \in Nat : n = Len(C) /\ DOMAIN C = 1..n
    BY <1>2, LenProperties
  <2>3. \A i \in 1..n : mean[C[i]] \in M
    BY <1>2, <2>1, <2>2, StackElements
  <2>4. kids = [i \in 1..n |-> mean[C[i]]]
    BY <1>0, <1>1, <2>2 DEF KidsOf
  <2>5. kids \in [1..n -> M]
    BY <2>3, <2>4
  <2>6. kids \in Seq(M)
    BY <2>5, SeqDef
  <2>7. own \in Seq(Item \cup M) /\ kids \in Seq(Item \cup M)
    BY <1>5, <2>6, SeqMonotonic
  <2> QED
    BY <2>7
<1>7. Len(kids) = Len(C) /\ DOMAIN kids = DOMAIN C
  <2>1. DOMAIN kids = DOMAIN C
    BY <1>0, <1>1 DEF KidsOf
  <2> QED
    BY <1>2, <1>6, <2>1, SameLength
<1>8. PICK s : s = own \o its
  OBVIOUS
<1>9. PICK t : t = own \o kids
  OBVIOUS
<1>10. PICK a \in Nat, b \in Nat : a = Len(own) /\ b = Len(C)
  BY <1>2, <1>5, LenProperties
<1>11. Lead(val, own, own, a)
  <2>1. CASE own = <<>>
    <3>1. a = 0
      BY <2>1, <1>10
    <3> QED
      BY <3>1 DEF Lead
  <2>2. CASE own # <<>>
    <3>1. own = <<AttrDict(doc[e].attrs)>>
      BY <2>2, <1>3 DEF Own
    <3>2. a = 1
      BY <3>1, <1>10
    <3>3. \A i \in 1..a : own[i] = AttrDict(doc[e].attrs)
      BY <3>1, <3>2
    <3> QED
      BY <3>3, FollowItems DEF Lead
  <2> QED
    BY <2>1, <2>2
<1>12. Lead(val, its, kids, b)
  <2> SUFFICES ASSUME NEW i \in 1..b PROVE Follow(val, its[i]) = kids[i]
    BY DEF Lead
  <2>1. i \in DOMAIN C
    BY <1>2, <1>10, LenProperties
  <2>2. its[i] = ItemOf(C[i])
    BY <2>1, <1>4 DEF Items
  <2>3. kids[i] = mean[C[i]]
    BY <2>1, <1>0, <1>1 DEF KidsOf
  <2>4. Follow(val, ItemOf(C[i])) = mean[C[i]]
    BY <2>1, <1>1 DEF ItemsLead
  <2> QED
    BY <2>2, <2>3, <2>4
<1>13. /\ s \in Seq(Item) /\ Len(s) = a + b
       /\ t \in Seq(S) /\ Len(t) = a + b
       /\ \A i \in 1..(a + b) : Follow(val, s[i]) = t[i]
  <2>1. Len(own) = a /\ Len(its) = b /\ Len(kids) = b
    BY <1>5, <1>7, <1>10
  <2>2. s \in Seq(Item) /\ Joined(s, own, its, Len(own), Len(its))
    BY <1>5, <1>8, ConcatIs
  <2>3. t \in Seq(S) /\ Joined(t, own, kids, Len(own), Len(kids))
    BY <1>6, <1>9, ConcatIs
  <2>4. Joined(s, own, its, a, b) /\ Joined(t, own, kids, a, b)
    BY <2>1, <2>2, <2>3
  <2>5. Lead(val, s, t, a + b)
    BY <1>11, <1>12, <2>4, ConcatFollows
  <2> QED
    BY <2>2, <2>3, <2>4, <2>5 DEF Lead, Joined
<1>14. s = <<>> <=> t = <<>>
  BY <1>13, EmptySeq
<1>15. /\ key \in DOMAIN d <=> s # <<>>
       /\ key \in DOMAIN d => d[key] = Meant(own, its)
  BY <1>1, <1>3, <1>4, <1>8 DEF KeyHas
<1>16. ASSUME key \in DOMAIN d PROVE FollowedKey(val, d, key) = Meant(own, kids)
  <2>1. CASE Len(s) = 1 /\ (own # <<>> \/ ~options.explicit_array)
    <3>1. d[key] = s[1]
      BY <1>8, <1>15, <1>16, <2>1 DEF Meant
    <3>2. 1 \in 1..(a + b) /\ s[1] \in Item
      <4>1. a + b = 1
        BY <1>13, <2>1
      <4>2. 1 \in 1..Len(s)
        BY <2>1
      <4> QED
        BY <1>13, <4>1, <4>2, ElementOfSeq
    <3>3. Meant(own, kids) = t[1]
      BY <1>9, <1>13, <2>1 DEF Meant
    <3>4. ~IsList(d[key])
      BY <3>1, <3>2, ItemNoList
    <3> QED
      BY <3>1, <3>2, <3>3, <3>4, <1>13 DEF FollowedKey
  <2>2. CASE ~(Len(s) = 1 /\ (own # <<>> \/ ~options.explicit_array))
    <3>1. d[key] = List(s)
      BY <1>8, <1>15, <1>16, <2>2 DEF Meant
    <3>2. IsList(d[key]) /\ d[key].list = s
      BY <3>1, ListIsList
    <3>3. DOMAIN s = 1..(a + b)
      BY <1>13, LenProperties
    <3>4. t = [i \in 1..(a + b) |-> t[i]]
      BY <1>13, LenProperties
    <3>5. [i \in DOMAIN s |-> Follow(val, s[i])] = t
      BY <3>3, <3>4, <1>13
    <3>6. Meant(own, kids) = List(t)
      BY <1>9, <1>13, <2>2 DEF Meant
    <3> QED
      BY <3>2, <3>5, <3>6 DEF FollowedKey
  <2> QED
    BY <2>1, <2>2
<1> QED
  BY <1>0, <1>3, <1>9, <1>14, <1>15, <1>16

\* The dictionary of an element that is not simple and has ended, with its references
\* followed, is what the element means, if the children are.
LEMMA FollowMeans ==
  ASSUME IInv, NEW e \in DOMAIN doc, ~IsSimple(e), open = <<>>, NEW d, DOMAIN d \subseteq Keys,
         IsDictOf(d, e, TRUE), NEW val, NEW mean, \A key \in Keys : ItemsLead(val, mean, e, key)
  PROVE  Followed(val, d) = Means(mean, e)
<1> DEFINE keys == {k \in Keys : Worded(e, k) \/ Own(e, k) \o KidsOf(mean, e, k) # <<>>}
           has(key) == IF Worded(e, key) THEN Str(TextOf(e)) ELSE Meant(Own(e, key), KidsOf(mean, e, key))
<1>1. Means(mean, e) = [dict |-> [key \in keys |-> has(key)]]
  BY DEF Means, KidsOf
<1>2. Followed(val, d) = [dict |-> [key \in DOMAIN d |-> FollowedKey(val, d, key)]]
  BY DEF Followed, FollowedKey
<1>3. ASSUME NEW key \in Keys
      PROVE  (key \in DOMAIN d <=> key \in keys) /\ (key \in DOMAIN d => FollowedKey(val, d, key) = has(key))
  <2>1. CASE Worded(e, key)
    <3>1. key \in DOMAIN d /\ d[key] = Str(TextOf(e))
      BY <2>1 DEF IsDictOf
    <3>2. FollowedKey(val, d, key) = Str(TextOf(e))
      BY <3>1, FollowItems DEF FollowedKey
    <3> QED
      BY <2>1, <3>1, <3>2
  <2>2. CASE ~Worded(e, key)
    <3>1. KeyHas(d, key, Own(e, key), Items(ClosedChildren(e, key)))
      BY <2>2 DEF IsDictOf
    <3>2. KeyHas(d, key, Own(e, key), Items(Children(e, key)))
      BY <3>1, AllClosed
    <3>3. /\ key \in DOMAIN d <=> Own(e, key) \o KidsOf(mean, e, key) # <<>>
          /\ key \in DOMAIN d => FollowedKey(val, d, key) = Meant(Own(e, key), KidsOf(mean, e, key))
      BY <3>2, KeyMeans
    <3> QED
      BY <2>2, <3>3
  <2> QED
    BY <2>1, <2>2
<1>4. keys \subseteq Keys
  OBVIOUS
<1> HIDE DEF keys, has
<1>5. DOMAIN d = keys
  BY <1>3, <1>4
<1>6. \A key \in keys : FollowedKey(val, d, key) = has(key)
  BY <1>3, <1>4, <1>5
<1>7. [key \in DOMAIN d |-> FollowedKey(val, d, key)] = [key \in keys |-> has(key)]
  BY <1>5, <1>6
<1> QED
  BY <1>1, <1>2, <1>7

\* Once nothing is open the dictionary of each element that is not simple has the
\* meaning of the element.
LEMMA ValueIsMeaning ==
  ASSUME IInv, ObjectInv, DocumentInv, open = <<>>
  PROVE  \A e \in DOMAIN doc : ~IsSimple(e) => Values(dicts)[DictOf(e)] = Meaning[e]
<1>0. TreeInv /\ DictsInv /\ PlaceInv
  BY DEF DocumentInv
<1>1. doc \in Seq(Elements) /\ dicts \in Seq(Dict)
  BY DEF IInv, BuilderInv, ParserInv, TypeParser, Elements
<1>2. PICK L \in Nat : L = Len(doc) /\ DOMAIN doc = 1..L
  BY <1>1, LenProperties
<1>3. \A d \in DOMAIN dicts : Values(dicts)[d] = Followed(Values(dicts), dicts[d])
  <2>1. Forward(dicts)
    BY DEF ObjectInv, NoneCites, Forward
  <2>2. PICK n \in Nat : DOMAIN dicts = 1..n
    BY <1>1, LenProperties
  <2> QED
    BY <2>1, <2>2, ValuesAre
<1>4. \A e \in DOMAIN doc : Meaning[e] = Means(Meaning, e)
  BY <1>0, MeaningIs
<1>5. PICK val : val = Values(dicts)
  OBVIOUS
<1>6. PICK mean : mean = Meaning
  OBVIOUS
<1>7. ASSUME NEW e \in DOMAIN doc, ~IsSimple(e),
             \A c \in DOMAIN doc : c > e => (~IsSimple(c) => val[DictOf(c)] = mean[c])
      PROVE  val[DictOf(e)] = mean[e]
  <2>1. ASSUME NEW key \in Keys PROVE ItemsLead(val, mean, e, key)
    <3> SUFFICES ASSUME NEW i \in DOMAIN Children(e, key)
                 PROVE  Follow(val, ItemOf(Children(e, key)[i])) = mean[Children(e, key)[i]]
      BY DEF ItemsLead
    <3>1. PICK c : c = Children(e, key)[i]
      OBVIOUS
    <3>2. c \in DOMAIN doc /\ c > e
      BY <3>1, <1>0, ChildrenLater
    <3>3. CASE IsSimple(c)
      <4>1. ItemOf(c) = Str(TextOf(c))
        BY <3>3 DEF ItemOf
      <4>2. mean[c] = Str(TextOf(c))
        BY <3>2, <3>3, <1>4, <1>6 DEF Means
      <4> QED
        BY <3>1, <4>1, <4>2, FollowItems
    <3>4. CASE ~IsSimple(c)
      <4>1. ItemOf(c) = Ref(DictOf(c))
        BY <3>4 DEF ItemOf
      <4>2. val[DictOf(c)] = mean[c]
        BY <3>2, <3>4, <1>7
      <4> QED
        BY <3>1, <4>1, <4>2, FollowItems
    <3> QED
      BY <3>3, <3>4
  <2>2. DictOf(e) \in DOMAIN dicts
    BY <1>0, DictRange
  <2>3. PICK d : d = dicts[DictOf(e)]
    OBVIOUS
  <2>4. DOMAIN d \subseteq Keys
    BY <2>2, <2>3 DEF IInv, BuilderInv, TypeBuilder
  <2>5. IsDictOf(d, e, TRUE)
    BY <2>3, <1>0, <1>7, AllClosed DEF DictsInv
  <2>6. Followed(val, d) = Means(mean, e)
    BY <1>7, <2>1, <2>4, <2>5, FollowMeans
  <2>7. val[DictOf(e)] = Followed(val, d)
    BY <2>2, <2>3, <1>3, <1>5
  <2>8. mean[e] = Means(mean, e)
    BY <1>4, <1>6
  <2> QED
    BY <2>6, <2>7, <2>8
<1> DEFINE T == {k \in 0..L : \E e \in DOMAIN doc : k = L - e /\ ~IsSimple(e) /\ val[DictOf(e)] # mean[e]}
<1>8. T = {}
  <2> SUFFICES ASSUME T # {} PROVE FALSE
    OBVIOUS
  <2>1. T \in SUBSET Nat
    OBVIOUS
  <2>2. PICK k \in T : \A j \in T : k <= j
    BY <2>1, Smallest
  <2>3. PICK e \in DOMAIN doc : k = L - e /\ ~IsSimple(e) /\ val[DictOf(e)] # mean[e]
    OBVIOUS
  <2>4. ASSUME NEW c \in DOMAIN doc, c > e, ~IsSimple(c), val[DictOf(c)] # mean[c] PROVE FALSE
    <3>1. L - c \in 0..L
      BY <1>2
    <3>2. L - c \in T
      BY <2>4, <3>1
    <3>3. k <= L - c
      BY <2>2, <3>2, Zenon
    <3>4. e \in 1..L /\ c \in 1..L
      BY <1>2
    <3> HIDE DEF T
    <3> QED
      BY <2>3, <2>4, <3>3, <3>4
  <2> HIDE DEF T
  <2> QED
    BY <2>3, <2>4, <1>7
<1>9. ASSUME NEW e \in DOMAIN doc, ~IsSimple(e) PROVE val[DictOf(e)] = mean[e]
  <2>1. L - e \in 0..L
    BY <1>2
  <2> QED
    BY <2>1, <1>8, <1>9
<1> QED
  BY <1>5, <1>6, <1>9

-----------------------------------------------------------------------------
(***************************************************************************)
(* The theorem: the result is the document.                                *)
(***************************************************************************)

\* A step that leaves the builder and the document alone.
LEMMA SameDocument ==
  ASSUME DocumentInv, UNCHANGED <<doc, open, options, builders, dicts, stack, root, first, rootName, simple, text>>
  PROVE  DocumentInv'
<1>1. /\ \A n, key : Children(n, key)' = Children(n, key)
      /\ \A e : IsOpen(e)' <=> IsOpen(e)
      /\ \A e : TextOf(e)' = TextOf(e)
      /\ \A e : IsSimple(e)' <=> IsSimple(e)
      /\ \A b : Object(b)' = Object(b)
      /\ \A e, key : Own(e, key)' = Own(e, key)
      /\ \A a, b : Meant(a, b)' = Meant(a, b)
  BY DEF Children, IsOpen, TextOf, IsSimple, Object, Own, Meant
<1>2. Closed' = Closed /\ \A e, key : ClosedChildren(e, key)' = ClosedChildren(e, key)
  BY <1>1 DEF Closed, ClosedChildren
<1>3. \A e : DictOf(e)' = DictOf(e)
  BY <1>1 DEF DictOf
<1>4. \A e : ItemOf(e)' = ItemOf(e)
  BY <1>1, <1>3 DEF ItemOf
<1>5. TreeInv' /\ PathInv' /\ ChildrenInv' /\ PlaceInv' /\ TextsInv' /\ SimpleInv'
  <2>1. TreeInv'
    BY DEF DocumentInv, TreeInv
  <2>2. PathInv'
    BY <1>1 DEF DocumentInv, PathInv
  <2>3. ChildrenInv'
    BY <1>2 DEF DocumentInv, ChildrenInv
  <2>4. PlaceInv'
    BY <1>1, <1>3 DEF DocumentInv, PlaceInv
  <2>5. TextsInv'
    BY DEF DocumentInv, TextsInv
  <2>6. SimpleInv'
    BY <1>1 DEF DocumentInv, SimpleInv
  <2> QED
    BY <2>1, <2>2, <2>3, <2>4, <2>5, <2>6
<1>6. ASSUME NEW e \in DOMAIN doc, NEW w \in BOOLEAN, NEW d, IsDictOf(d, e, w)
      PROVE  IsDictOf(d, e, w)'
  <2>1. \A key \in Keys : ClosedChildren(e, key)' = ClosedChildren(e, key)
                            /\ ClosedChildren(e, key) \in Seq(Closed)
    BY <1>2 DEF DocumentInv, ChildrenInv
  <2>2. \A c \in Closed : ItemOf(c)' = ItemOf(c)
    BY <1>4
  <2> QED
    BY <1>6, <2>1, <2>2, DictKept
<1>7. DictsInv'
  <2>0. DictsInv
    BY DEF DocumentInv
  <2>1. ASSUME NEW e \in DOMAIN doc, NEW w \in BOOLEAN, IsDictOf(dicts[DictOf(e)], e, w)
        PROVE  IsDictOf(dicts[DictOf(e)], e, w)'
    <3>1. PICK d : d = dicts[DictOf(e)] /\ d = dicts[DictOf(e)]'
      BY <1>3
    <3>2. IsDictOf(d, e, w)'
      BY <1>6, <2>1, <3>1
    <3> QED
      BY <3>1, <3>2
  <2>2. \A e \in DOMAIN doc : IsOpen(e)' => IsDictOf(dicts[DictOf(e)], e, FALSE)'
    BY <2>0, <2>1, <1>1 DEF DictsInv
  <2>3. \A e \in Closed : ~IsSimple(e)' => IsDictOf(dicts[DictOf(e)], e, TRUE)'
    BY <2>0, <2>1, <1>1 DEF DictsInv, Closed
  <2> QED
    BY <2>2, <2>3, <1>2 DEF DictsInv
<1> QED
  BY <1>5, <1>7 DEF DocumentInv

\* Clear between two documents.
LEMMA ClearFresh ==
  ASSUME IInv, NEW opts, ClearWith(opts)
  PROVE  FreshInv'
<1>0. BuilderInv /\ StringStack(text)
  BY DEF IInv, BuilderInv
<1>1. /\ builders' = BuildersAfterNew(opts) /\ dicts' = Append(dicts, EmptyDict) /\ root' = NewBuilder
      /\ text' = PushEmptyString(Reset(text))
  BY DEF ClearWith
<1>2. builders'[root'].object = Len(dicts) + 1
  BY <1>0, <1>1, NewObject
<1>3. dicts \in Seq(Dict)
  BY <1>0 DEF BuilderInv
<1>4. Len(dicts') = Len(dicts) + 1 /\ dicts'[Len(dicts) + 1] = EmptyDict
  BY <1>1, <1>3, EmptyDictType, AppendProperties
<1>5. text'.heap[text'.top] = <<>>
  BY <1>0, <1>1, ResetLemma, PushTexts
<1> QED
  BY <1>2, <1>4, <1>5 DEF FreshInv, Object

\* The constructor.
LEMMA ResultInit == Init => ResultInv
<1> SUFFICES ASSUME Init PROVE ResultInv
  OBVIOUS
<1>1. IInv
  BY InitInv
<1>2. /\ builders = <<[object |-> 1, options |-> 1]>> /\ dicts = <<EmptyDict>> /\ root = 1
      /\ text = [heap |-> <<<<>>>>, top |-> 1, stack |-> <<1>>, cache |-> <<>>]
      /\ doc = <<>> /\ open = <<>> /\ mode = "ready"
  BY DEF Init
<1>3. FreshInv
  BY <1>2 DEF FreshInv, Object
<1> QED
  BY <1>1, <1>2, <1>3 DEF ResultInv

\* A start event.
LEMMA StartResult ==
  ASSUME ResultInv, IInv', NEW el \in Name, NEW attrs \in Attrs \cup {NoAttrs}, ParseStart(el, attrs)
  PROVE  ResultInv'
<1>0. /\ IInv /\ ParserInv /\ ~undefined /\ phase \in {"before", "in"}
      /\ StartRoot(el, attrs) \/ StartInner(attrs)
      /\ doc' = Append(doc, Element(el, attrs)) /\ open' = Append(open, Len(doc'))
      /\ phase' = "in" /\ options' = options
      /\ mode' = IF phase = "before" THEN IF mode = "ready" THEN "used" ELSE "stale" ELSE mode
  BY DEF ResultInv, IInv, ParseStart, OnStartElement
<1>1. mode' # "ready"
  BY <1>0 DEF ParserInv
<1>2. ASSUME mode' = "used", ~undefined' PROVE DocumentInv'
  <2>0. ~Undefined
    BY <1>2 DEF Undefined
  <2>1. CASE phase = "before"
    <3>1. mode = "ready" /\ doc = <<>> /\ open = <<>> /\ FreshInv
      BY <1>0, <1>2, <2>1 DEF ResultInv
    <3>2. first
      BY <1>0, <3>1 DEF ParserInv
    <3>3. StartRoot(el, attrs)
      BY <1>0, <3>2 DEF StartInner
    <3> QED
      BY <1>0, <2>0, <3>1, <3>3, StartRootDocument
  <2>2. CASE phase = "in"
    <3>1. mode = "used" /\ DocumentInv
      BY <1>0, <1>2, <2>2 DEF ResultInv
    <3>2. StartInner(attrs)
      BY <1>0, <3>1 DEF DocumentInv, StartRoot
    <3> QED
      BY <1>0, <2>0, <2>2, <3>1, <3>2, StartInnerDocument
  <2> QED
    BY <1>0, <2>1, <2>2
<1> QED
  BY <1>0, <1>1, <1>2 DEF ResultInv

\* Every step.
LEMMA ResultNext == ResultInv /\ [Next]_vars => ResultInv'
<1> SUFFICES ASSUME ResultInv, [Next]_vars PROVE ResultInv'
  OBVIOUS
<1>0. IInv /\ IInv' /\ ParserInv
  BY NextInv DEF ResultInv, IInv
<1>1. CASE Clear \/ \E o \in OptionSet : ClearOptions(o)
  <2>1. PICK opts : ClearWith(opts) /\ UNCHANGED parser
    BY <1>1 DEF Clear, ClearOptions
  <2>2. FreshInv'
    BY <1>0, <2>1, ClearFresh
  <2>3. mode' # "used" /\ UNCHANGED <<doc, open, phase>>
    BY <2>1 DEF ClearWith, parser
  <2> QED
    BY <1>0, <2>2, <2>3 DEF ResultInv
<1>2. CASE \E el \in Name, attrs \in Attrs \cup {NoAttrs} : ParseStart(el, attrs)
  BY <1>0, <1>2, StartResult
<1>3. CASE ParseEnd
  <2>1. phase = "in" /\ ~undefined /\ mode' = mode /\ phase' # "before"
    BY <1>3 DEF ParseEnd
  <2>2. mode' # "ready"
    BY <1>0, <2>1 DEF ParserInv
  <2>3. (mode' = "used" /\ ~undefined') => DocumentInv'
    BY <1>0, <1>3, <2>1, EndDocument DEF ResultInv
  <2> QED
    BY <1>0, <2>1, <2>2, <2>3 DEF ResultInv
<1>4. CASE \E c \in Char : ParseText(c)
  <2>0. PICK c \in Char : ParseText(c)
    BY <1>4
  <2>1. phase = "in" /\ ~undefined /\ mode' = mode /\ phase' # "before" /\ undefined' = undefined
    BY <2>0 DEF ParseText, OnText
  <2>2. mode' # "ready"
    BY <1>0, <2>1 DEF ParserInv
  <2>3. (mode' = "used" /\ ~undefined') => DocumentInv'
    BY <1>0, <2>0, <2>1, TextDocument DEF ResultInv
  <2> QED
    BY <1>0, <2>1, <2>2, <2>3 DEF ResultInv
<1>5. CASE FeedLast \/ FeedFails
  <2>1. mode' = "stale" /\ doc' = <<>> /\ open' = <<>>
    BY <1>5 DEF FeedLast, FeedFails
  <2> QED
    BY <1>0, <2>1 DEF ResultInv
<1>6. CASE UNCHANGED vars
  <2>1. /\ UNCHANGED <<doc, open, options, builders, dicts, stack, root, first, rootName, simple, text>>
        /\ UNCHANGED <<phase, mode, undefined>>
    BY <1>6 DEF vars
  <2>2. DocumentInv => DocumentInv'
    BY <2>1, SameDocument
  <2>3. FreshInv => FreshInv'
    BY <2>1 DEF FreshInv, Object
  <2> QED
    BY <1>0, <2>1, <2>2, <2>3 DEF ResultInv
<1> QED
  BY <1>1, <1>2, <1>3, <1>4, <1>5, <1>6 DEF Next

\* What the two invariants say once the root has ended.
LEMMA ResultImplies == StayInv /\ ResultInv => ResultIsTheDocument
<1> SUFFICES ASSUME StayInv, ResultInv, phase = "after", mode = "used", ~undefined
             PROVE  Values(dicts)[builders[root].object] = Meaning[1] /\ rootName = doc[1].el
  BY DEF ResultIsTheDocument
<1>1. IInv /\ ObjectInv /\ DocumentInv
  BY DEF StayInv, ResultInv
<1>2. open = <<>>
  BY <1>1 DEF IInv, ParserInv
<1>3. \A e \in DOMAIN doc : ~IsSimple(e) => Values(dicts)[DictOf(e)] = Meaning[e]
  BY <1>1, <1>2, ValueIsMeaning
<1>4. 1 \in DOMAIN doc
  <2>1. doc \in Seq(Elements) /\ doc # <<>>
    BY <1>1, DocTypes DEF DocumentInv, TreeInv
  <2>2. Len(doc) \in Nat /\ Len(doc) # 0 /\ DOMAIN doc = 1..Len(doc)
    BY <2>1, EmptySeq, LenProperties
  <2> QED
    BY <2>2
<1>5. ~IsSimple(1)
  BY DEF IsSimple
<1>6. DictOf(1) = builders[root].object
  <2>1. Object(root) \in Nat
    BY <1>1, RootDict DEF IInv
  <2> QED
    BY <2>1 DEF DictOf, Object
<1> QED
  BY <1>1, <1>3, <1>4, <1>5, <1>6 DEF DocumentInv

\* A document parsed after Clear gives what the tree of its elements means, whatever
\* its elements, its texts and the options are and whatever the builder was used for
\* before (OnStartElement, OnText, OnEndElement, var).
THEOREM DocumentReturned == Spec => []ResultIsTheDocument
BY StayInit, StayNext, ResultInit, ResultNext, ResultImplies, PTL DEF Spec
===============================================================================
