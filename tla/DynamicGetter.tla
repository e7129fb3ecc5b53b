--------------------------- MODULE DynamicGetter ---------------------------
(***************************************************************************)
(* DynamicGetter and the option classes (dynamic_getter.h): values are     *)
(* taken out of a Dynamic by path, one Get after another; the first that   *)
(* fails leaves an error and the rest do nothing.  A getter of a part of   *)
(* the value has a pointer to the getter it came from, and a share of its  *)
(* list of errors.                                                         *)
(*                                                                         *)
(* A path is a sequence of items; what its text is read as depends on the  *)
(* delimiter (Parsed).  The class that is read as an object has a string   *)
(* s, which must be there, and a string d with a default.                  *)
(***************************************************************************)
EXTENDS Naturals, Sequences, SequencesExt, FiniteSets

CONSTANTS
    Vars,       \* the client's getters
    Datas,      \* the values they may be made of
    Texts,      \* the paths that are asked for
    Outputs,    \* the types of the outputs
    Delimiters,
    MaxErrors,  \* a bound on the errors of a list: no Get beyond it
    Reuse       \* whether the client also assigns to a getter that others came
                \* from, or a part of a getter to itself

\* "scalar" stands for numbers, bool and the Dynamic itself.
Kinds == {"string", "scalar", "list", "map", "object", "objects", "object map"}

\* What an instance gives for the constants.
GetterAssumption ==
    /\ Reuse \in BOOLEAN /\ IsFiniteSet(Vars) /\ MaxErrors \in Nat
    /\ Outputs \subseteq Kinds /\ Delimiters \subseteq {".", "/"}

None == "none"

\* Getters that live during a Get.
Temps == <<"t1", "t2">>
Ids == Vars \cup {Temps[1], Temps[2]}

\* Lists of errors: as many as can be in use.
Lists == Vars

VARIABLES
    st,     \* getters, lists of errors, the client's output, whether pointers
            \* to parents led nowhere or had no end; and a history: whether a
            \* getter was assigned to that others came from, or a part of itself
    last    \* the last Get: what it was and what it found

vars == <<st, last>>

-----------------------------------------------------------------------------
\* Values.

Undef == [type |-> "UNDEF"]
Zero == [type |-> "INTEGER"]
Str(s) == [type |-> "STRING", str |-> s]
List(s) == [type |-> "LIST", list |-> s]
Dict(f) == [type |-> "DICT", dict |-> f]

IndexItem == <<"#1", "#2", "#3">>

Step(v, item) ==
    CASE v.type = "DICT" /\ item \in DOMAIN v.dict -> v.dict[item]
      [] v.type = "LIST" /\ \E i \in DOMAIN v.list : IndexItem[i] = item ->
            v.list[CHOOSE i \in DOMAIN v.list : IndexItem[i] = item]
      [] OTHER -> [type |-> "MISSING"]

\* DynamicPath::Get
At(v, path) == FoldLeft(Step, v, path)

Falsy(v) ==
    \/ v \in {Undef, Zero}
    \/ v.type = "LIST" /\ v.list = <<>>
    \/ v.type = "DICT" /\ DOMAIN v.dict = {}

\* GetString: the string of a string, some text of another value.
Text(v) == IF v.type = "STRING" THEN v.str ELSE v.type

\* The output a list or a dict of scalars becomes.
Texted(v) ==
    IF v.type = "LIST" THEN <<"list", [i \in DOMAIN v.list |-> Text(v.list[i])]>>
    ELSE <<"map", [k \in DOMAIN v.dict |-> Text(v.dict[k])]>>

Wrong == <<"wrong">>

\* The items of the paths' texts under a delimiter.
Parsed(text, delim) ==
    CASE text = "[" -> Wrong
      [] text = "k.j" -> IF delim = "." THEN <<"k", "j">> ELSE <<"k.j">>
      [] OTHER -> <<text>>

-----------------------------------------------------------------------------
\* Getters.

\* A getter, its parent, and so on up to the root, as far as pointers lead.
Chain(s, id) ==
    LET up[n \in 0..Cardinality(Ids)] ==
            IF n = 0 THEN <<id>>
            ELSE LET c == up[n - 1]
                     p == s.getters[Last(c)].parent
                 IN  IF p = None \/ ~s.getters[Last(c)].alive THEN c
                     ELSE Append(c, p)
    IN  up[Cardinality(Ids)]

Root(s, id) == Last(Chain(s, id))

\* No way to a root: a getter is gone, or getters are each other's parents.
Lost(s, id) ==
    LET root == s.getters[Root(s, id)]
    IN  ~root.alive \/ root.parent # None

Ok(s, id) == s.lists[s.getters[id].errors] = <<>>

\* dynamic_path
DynamicPathOf(s, id) ==
    LET c == Chain(s, id)
    IN  FlattenSeq([i \in DOMAIN c |-> s.getters[c[Len(c) + 1 - i]].subPath])

SetError(s, id, what, path) ==
    IF Lost(s, id) THEN [s EXCEPT !.lost = TRUE]
    ELSE [s EXCEPT !.lists[s.getters[Root(s, id)].errors] =
            <<[what |-> what, path |-> path]>> \o @]

ClearErrors(s, id) == [s EXCEPT !.lists[s.getters[id].errors] = <<>>]

Gone == [alive |-> FALSE, parent |-> None, subPath |-> <<>>, data |-> Undef,
         errors |-> CHOOSE l \in Lists : TRUE, delim |-> "."]

Destroyed(s, t) == [s EXCEPT !.getters[t] = Gone]

\* The constructor of a getter of a part.
SubGetter(s, t, id, path) ==
    LET v == At(s.getters[id].data, path)
        new == [alive |-> TRUE, parent |-> id, subPath |-> path,
                data |-> IF v.type = "MISSING" THEN Undef ELSE v,
                errors |-> s.getters[id].errors, delim |-> s.getters[id].delim]
        made == [s EXCEPT !.getters[t] = new]
    IN  IF v.type # "MISSING" THEN made
        ELSE SetError(made, t, "missing", DynamicPathOf(made, t))

Fails(s, id, what, path) ==
    SetError(s, id, what, DynamicPathOf(s, id) \o path)

-----------------------------------------------------------------------------
\* Get, by the type of the output.

GetString(s, id, path) ==
    LET v == At(s.getters[id].data, path)
    IN  IF v.type = "MISSING" \/ Falsy(v)
        THEN Fails([s EXCEPT !.out = <<"string", "">>], id, "missing", path)
        ELSE [s EXCEPT !.out = <<"string", Text(v)>>]

\* A value of any type is converted, by GetSignedInteger and the like.
GetScalar(s, id, path) ==
    LET v == At(s.getters[id].data, path)
    IN  IF v.type = "MISSING" THEN Fails(s, id, "missing", path)
        ELSE [s EXCEPT !.out = <<"scalar", v>>]

GetList(s, id, path) ==
    LET sub == SubGetter(s, Temps[1], id, path)
        v == sub.getters[Temps[1]].data
        got == IF v.type # "LIST" THEN Fails(sub, id, "type", path)
               ELSE [sub EXCEPT !.out = Texted(v)]
    IN  Destroyed(got, Temps[1])

\* There is no else before the conversion: the output is emptied on failure.
GetMap(s, id, path) ==
    LET sub == SubGetter(s, Temps[1], id, path)
        v == sub.getters[Temps[1]].data
        got == IF v.type # "DICT"
               THEN [Fails(sub, id, "type", path) EXCEPT !.out = <<"map", <<>>>>]
               ELSE [sub EXCEPT !.out = Texted(v)]
    IN  Destroyed(got, Temps[1])

\* The default of an output, in place of the error.
OrDefault(s, id, default) ==
    IF Ok(s, id) THEN s ELSE ClearErrors([s EXCEPT !.out = default], id)

DefaultD == "def"

\* Init and Create of an option class: the last option first.
Object(s, d) == [s EXCEPT !.out = <<"object", s.out[2], d>>]
CreateRest(s, id) == Object(GetString(s, id, <<"s">>), s.out[2])
Create(s, id) ==
    CreateRest(OrDefault(GetString(s, id, <<"d">>), id, <<"string", DefaultD>>), id)

\* The output stays as it was unless the object was made.
UnlessMade(s, t, before) == IF Ok(s, t) THEN s ELSE [s EXCEPT !.out = before]
CreateIn(s, t) == IF Ok(s, t) THEN UnlessMade(Create(s, t), t, s.out) ELSE s
GetObject(s, id, path, t) == Destroyed(CreateIn(SubGetter(s, t, id, path), t), t)

\* The loop ends at an item that fails; the ones before it are the output.
\* It goes over pairs of the state and what was collected.
Collected(s, all) == <<s, IF Ok(s, Temps[1]) THEN Append(all, s.out) ELSE all>>
GetObjects(s, id, path) ==
    LET sub == SubGetter(s, Temps[1], id, path)
        v == sub.getters[Temps[1]].data
        one(a, n) ==
            IF ~Ok(a[1], Temps[1]) THEN a
            ELSE Collected(GetObject(a[1], Temps[1], <<IndexItem[n]>>, Temps[2]), a[2])
        Out(a) == [a[1] EXCEPT !.out = <<"objects", a[2]>>]
        got == IF v.type # "LIST" THEN Fails(sub, id, "type", path)
               ELSE Out(FoldLeft(one, <<sub, <<>>>>, [i \in DOMAIN v.list |-> i]))
    IN  Destroyed(got, Temps[1])

Extended(f, k, x) == [j \in DOMAIN f \cup {k} |-> IF j = k THEN x ELSE f[j]]

\* A key of the value is read as a path of its own.
CollectedAs(s, all, k) == <<s, IF Ok(s, Temps[1]) THEN Extended(all, k, s.out) ELSE all>>
GetObjectMap(s, id, path) ==
    LET sub == SubGetter(s, Temps[1], id, path)
        v == sub.getters[Temps[1]].data
        one(a, k) ==
            IF ~Ok(a[1], Temps[1]) THEN a
            ELSE CollectedAs(GetObject(a[1], Temps[1], Parsed(k, s.getters[id].delim),
                                       Temps[2]), a[2], k)
        Out(a) == [a[1] EXCEPT !.out = <<"object map", a[2]>>]
        got == IF v.type # "DICT" THEN Fails(sub, id, "type", path)
               ELSE Out(FoldLeft(one, <<sub, <<>>>>, SetToSeq(DOMAIN v.dict)))
    IN  Destroyed(got, Temps[1])

GetAs(s, id, path, kind) ==
    CASE kind = "string" -> GetString(s, id, path)
      [] kind = "scalar" -> GetScalar(s, id, path)
      [] kind = "list" -> GetList(s, id, path)
      [] kind = "map" -> GetMap(s, id, path)
      [] kind = "object" -> GetObject(s, id, path, Temps[1])
      [] kind = "objects" -> GetObjects(s, id, path)
      [] kind = "object map" -> GetObjectMap(s, id, path)

GetDefault(s, id, path, kind) ==
    OrDefault(GetAs(s, id, path, kind), id, <<"default">>)

-----------------------------------------------------------------------------
\* The client.

\* The output before a Get.
Untouched == <<"untouched">>

Init ==
    /\ st = [getters |-> [id \in Ids |-> IF id \in Vars
                         THEN [Gone EXCEPT !.alive = TRUE, !.errors = id]
                         ELSE Gone],
             lists |-> [l \in Lists |-> <<>>],
             out |-> Untouched, lost |-> FALSE, reused |-> FALSE]
    /\ last = [op |-> None]

InUse(s, ids) == {s.getters[id].errors : id \in ids}

\* A list no getter has is gone, and the next Get has an output of its own.
Dropped(s) ==
    [s EXCEPT !.lists = [l \in Lists |-> IF l \in InUse(s, Vars) THEN @[l] ELSE <<>>],
              !.out = Untouched]

\* No getter came from this one.
Free(id) == \A g \in Vars : st.getters[g].parent # id

CanStep ==
    ~st.lost /\ \A l \in Lists : Len(st.lists[l]) < MaxErrors

\* id = DynamicGetter(data)
New(id, data) ==
    /\ CanStep
    /\ LET others == InUse(st, Vars \ {id})
           list == IF id \notin others THEN id ELSE CHOOSE l \in Lists : l \notin others
       IN  st' = Dropped([st EXCEPT !.lists[list] = <<>>, !.reused = @ \/ ~Free(id),
                    !.getters[id] = [Gone EXCEPT !.alive = TRUE, !.data = data,
                                                 !.errors = list]])
    /\ last' = [op |-> None]

\* Get of a text, with or without a default.
Get(id, text, kind, def) ==
    LET path == Parsed(text, st.getters[id].delim)
    IN  /\ CanStep /\ Ok(st, id)
        /\ st' = IF path = Wrong
                 THEN SetError(Dropped(st), id, "wrong", DynamicPathOf(st, id))
                 ELSE IF def THEN GetDefault(Dropped(st), id, path, kind)
                 ELSE GetAs(Dropped(st), id, path, kind)
        /\ last' = [op |-> "get", id |-> id, kind |-> kind, path |-> path, def |-> def]

\* Mutant: the list of errors is not copied.
SetOwnErrors(s, id, t) ==
    [s EXCEPT !.getters[id] = [s.getters[t] EXCEPT !.errors = s.getters[id].errors]]

\* DynamicGetter::Set
Set(s, id, t) == [s EXCEPT !.getters[id] = s.getters[t]]

\* Get of a getter of a part.  A part that is not there is reported twice.
GetGetter(id, text, target) ==
    LET path == Parsed(text, st.getters[id].delim)
        sub == SubGetter(st, Temps[1], id, path)
        got == IF Ok(sub, Temps[1])
               THEN [Set(sub, target, Temps[1]) EXCEPT
                        !.reused = @ \/ ~Free(target) \/ target = id]
               ELSE Fails(sub, id, "missing", path)
    IN  /\ CanStep /\ Ok(st, id)
        /\ st' = IF path = Wrong
                 THEN SetError(Dropped(st), id, "wrong", DynamicPathOf(st, id))
                 ELSE Dropped(Destroyed(got, Temps[1]))
        /\ last' = [op |-> None]

\* delimiter(d): of the getter and of those it came from.
Delimiter(id, d) ==
    /\ CanStep
    /\ st' = IF Lost(st, id) THEN [Dropped(st) EXCEPT !.lost = TRUE]
             ELSE Dropped([st EXCEPT !.getters = [g \in Ids |->
                    IF Contains(Chain(st, id), g) THEN [@[g] EXCEPT !.delim = d] ELSE @[g]]])
    /\ last' = [op |-> None]

ClearError(id) ==
    /\ CanStep /\ ~Ok(st, id)
    /\ st' = Dropped(ClearErrors(st, id))
    /\ last' = [op |-> None]

Next ==
    \E id \in Vars :
        \/ \E data \in Datas : (Reuse \/ Free(id)) /\ New(id, data)
        \/ \E text \in Texts, kind \in Outputs, def \in BOOLEAN : Get(id, text, kind, def)
        \/ \E text \in Texts, target \in Vars :
              (Reuse \/ (Free(target) /\ target # id)) /\ GetGetter(id, text, target)
        \/ \E d \in Delimiters : Delimiter(id, d)
        \/ ClearError(id)

Spec == Init /\ [][Next]_vars

-----------------------------------------------------------------------------
\* What a Get is about: the value at a path as an output, or Failed.
Failed == <<"failed">>

AsString(v) == IF v.type = "MISSING" \/ Falsy(v) THEN Failed ELSE <<"string", Text(v)>>

AsObject(v) ==
    IF AsString(Step(v, "s")) = Failed THEN Failed
    ELSE <<"object", AsString(Step(v, "s"))[2],
           IF AsString(Step(v, "d")) = Failed THEN DefaultD
           ELSE AsString(Step(v, "d"))[2]>>

Reading(v, kind) ==
    CASE kind = "string" -> AsString(v)
      [] kind = "scalar" /\ v.type # "MISSING" -> <<"scalar", v>>
      [] kind = "object" -> AsObject(v)
      [] kind = "list" /\ v.type = "LIST" -> Texted(v)
      [] kind = "map" /\ v.type = "DICT" -> Texted(v)
      [] kind = "objects" /\ v.type = "LIST" ->
            IF \E i \in DOMAIN v.list : AsObject(v.list[i]) = Failed THEN Failed
            ELSE <<"objects", [i \in DOMAIN v.list |-> AsObject(v.list[i])]>>
      [] kind = "object map" /\ v.type = "DICT" ->
            IF \E k \in DOMAIN v.dict : AsObject(v.dict[k]) = Failed THEN Failed
            ELSE <<"object map", [k \in DOMAIN v.dict |-> AsObject(v.dict[k])]>>
      [] OTHER -> Failed

\* The last Get found what it was for: a key of a map of objects is read as a
\* path, so a key with the delimiter in it is not found or another is.
Found ==
    Reading(At(st.getters[last.id].data, last.path), last.kind)

KeysWithDelimiter ==
    LET v == At(st.getters[last.id].data, last.path)
    IN  /\ last.kind = "object map" /\ v.type = "DICT"
        /\ \E k \in DOMAIN v.dict : Parsed(k, st.getters[last.id].delim) # <<k>>

Tried == ~st.reused /\ last.op = "get" /\ last.path # Wrong /\ ~KeysWithDelimiter

\* Type invariant.
TypeOK ==
    /\ \A id \in Vars : /\ st.getters[id].alive
                        /\ st.getters[id].parent \in Vars \cup {None}
                        /\ st.getters[id].errors \in Lists
    /\ \A t \in {Temps[1], Temps[2]} : st.getters[t] = Gone
    /\ \A l \in Lists : Len(st.lists[l]) <= MaxErrors + 2

\* A Get without a default that does not find what it is for leaves its getter
\* with an error, on whatever part of the value and however deep it is, and one
\* that does find it leaves the whole of it in the output.
FailureIsSeen ==
    (Tried /\ ~last.def) =>
        IF Found = Failed THEN ~Ok(st, last.id)
        ELSE Ok(st, last.id) /\ st.out = Found

\* After a Get with a default the output is the value or the default, never a
\* part of the value, and there is no error, be it of an option of an object.
DefaultIsAllOrNothing ==
    (Tried /\ last.def) =>
        /\ Ok(st, last.id)
        /\ st.out = IF Found = Failed THEN <<"default">> ELSE Found

\* The getters that came from one another see each other's errors.
ErrorsAreShared ==
    ~st.reused => \A id \in Vars :
        st.getters[id].errors = st.getters[Root(st, id)].errors

\* What an error says is missing is so in the value of the first getter, under
\* the path the error gives; the path goes through the value of the getter that
\* failed and goes on with what was asked for.
ErrorsAreTrue ==
    /\ \A id \in Vars : ~st.reused /\ st.getters[id].parent = None =>
          \A i \in DOMAIN st.lists[st.getters[id].errors] :
              LET e == st.lists[st.getters[id].errors][i]
                  v == At(st.getters[id].data, e.path)
              IN  e.what = "missing" => v.type = "MISSING" \/ Falsy(v)
    /\ (Tried /\ ~last.def /\ Found = Failed) =>
          LET root == st.getters[Root(st, last.id)]
          IN  \A i \in DOMAIN st.lists[root.errors] :
                LET p == st.lists[root.errors][i].path
                IN  \E k \in 0..Len(p) :
                      /\ At(root.data, SubSeq(p, 1, k)) = st.getters[last.id].data
                      /\ IsPrefix(last.path, SubSeq(p, k + 1, Len(p)))

\* An error always finds its way to a first getter, unless a getter was assigned
\* to that others came from, or a part of itself: SetError and dynamic_path may
\* then recurse without end.
AlwaysARoot == ~st.reused => ~st.lost /\ \A id \in Vars : ~Lost(st, id)

=============================================================================
