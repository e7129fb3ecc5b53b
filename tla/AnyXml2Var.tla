----------------------------- MODULE AnyXml2Var -----------------------------
(***************************************************************************)
(* nkit::AnyXml2VarBuilder<DynamicBuilder> (src/src/nkit/xml2var.h): a     *)
(* builder of a Dynamic from the events of a parser, used for one document *)
(* after another.                                                          *)
(*                                                                         *)
(* Dictionaries and the strings of StringStack are shared by reference, so *)
(* they have identities here: an index of "dicts" and of "text.heap".      *)
(* VarBuilder objects go from a stack to a cache and are used again; each  *)
(* keeps a reference to the Options object that was current when it was    *)
(* made.  A text is a sequence of characters, one of which is white space; *)
(* the attributes of an element are one value.                             *)
(*                                                                         *)
(* The parser (Expat) delivers the events of well-formed content.  The     *)
(* caller may call Clear between any two of them, and may start a document *)
(* without it.  A call outside the preconditions of std::stack, or a read  *)
(* of a deleted Options object, sets "undefined"; nothing is said of what  *)
(* the program does after it.                                              *)
(***************************************************************************)
EXTENDS Naturals, Sequences, SequencesExt, FiniteSetsExt

CONSTANTS
    Name,       \* names of elements
    Attrs,      \* attributes of an element that has some
    NoAttrs,    \* no attributes
    Char,       \* characters of text
    Space,      \* the one of them in Options::white_spaces_
    OptionSet,  \* Options as read from the configuration
    NoText,     \* an empty key in the configuration
    Dollar,     \* "$", the default of attrkey_
    Underscore, \* "_", the default of textkey_
    MaxDicts,   \* bound: dictionaries made
    MaxClears,  \* bound: calls of Clear
    MaxText,    \* bound: characters in a document
    MaxOptions  \* bound: Options objects

Keys == (Name \cup {o.attrkey : o \in OptionSet} \cup {o.textkey : o \in OptionSet}
           \cup {Dollar, Underscore}) \ {NoText}

ASSUME AnyXml2VarAssumption ==
    /\ NoAttrs \notin Attrs
    /\ Space \in Char
    /\ NoText \notin Name \cup {Dollar, Underscore}
    /\ OptionSet \subseteq [trim : BOOLEAN, explicit_array : BOOLEAN,
                            attrkey : Keys \cup {NoText}, textkey : Keys \cup {NoText}]
    /\ {MaxDicts, MaxClears, MaxText, MaxOptions} \subseteq Nat /\ MaxOptions > 0

VARIABLES
    options,    \* *options_
    current,    \* which Options object that is
    builders,   \* VarBuilder objects: the dictionary and the Options of each
    dicts,      \* dictionaries: functions from their keys
    stack,      \* var_builder_stack_
    cache,      \* var_builder_cache_
    root,       \* root_var_builder_
    first,      \* first_
    rootName,   \* root_name_, NoText if empty
    simple,     \* is_simple_element_stack_
    text,       \* current_text_stack_
    undefined,  \* undefined behaviour happened
    doc,        \* history: the elements of the document, in the order they start
    open,       \* the parser: the elements that have not ended
    phase,      \* the parser: before, in or after the root element
    mode,       \* history: "ready" after Clear between documents, "used" in and
                \* after a document started so, "stale" otherwise
    clears,     \* history: calls of Clear, for the bound
    replaced,   \* history: Clear(options) met builders in the cache
    results     \* history: what var() returned for documents of mode "used", and its
                \* value then

vars == <<options, current, builders, dicts, stack, cache, root, first, rootName,
          simple, text, undefined, doc, open, phase, mode, clears, replaced, results>>

built == <<builders, dicts, stack, cache, root, first, rootName, simple, text>>
parser == <<doc, open, phase>>

-----------------------------------------------------------------------------
(* Dynamic values.  A dictionary inside another one is a reference to it.  *)

Str(s) == [str |-> s]
AttrDict(a) == [attrs |-> a]
Ref(d) == [ref |-> d]
List(s) == [list |-> s]

IsList(v) == "list" \in DOMAIN v

\* What a list holds, and what a dictionary holds.
Item == [str : Seq(Char)] \cup [attrs : Attrs] \cup [ref : Nat]
Val == Item \cup [list : Seq(Item)]

EmptyDict == <<>>

SetDictKeyValue(d, key, v) ==
    [k \in DOMAIN d \cup {key} |-> IF k = key THEN v ELSE d[k]]

AsList(v) == IF IsList(v) THEN v.list ELSE <<v>>

AppendToDictKeyList(d, key, v, explicit) ==
    SetDictKeyValue(d, key,
        IF key \in DOMAIN d THEN List(Append(AsList(d[key]), v))
        ELSE IF explicit THEN List(<<v>>) ELSE v)

Trim(s) ==
    LET ink == {i \in DOMAIN s : s[i] # Space}
    IN  IF ink = {} THEN <<>> ELSE SubSeq(s, Min(ink), Max(ink))

-----------------------------------------------------------------------------
(* StringStack.                                                            *)

Strings(heap, top, stk, spare) == [heap |-> heap, top |-> top, stack |-> stk, cache |-> spare]

\* Mutant: a string from the cache is not cleared.
PushCachedString(t) ==
    IF t.cache = <<>>
    THEN Strings(Append(t.heap, <<>>), Len(t.heap) + 1,
                 Append(t.stack, Len(t.heap) + 1), t.cache)
    ELSE Strings(t.heap, Last(t.cache), Append(t.stack, Last(t.cache)), Front(t.cache))

PushEmptyString(t) ==
    IF t.cache = <<>>
    THEN Strings(Append(t.heap, <<>>), Len(t.heap) + 1,
                 Append(t.stack, Len(t.heap) + 1), t.cache)
    ELSE Strings([t.heap EXCEPT ![Last(t.cache)] = <<>>], Last(t.cache),
                 Append(t.stack, Last(t.cache)), Front(t.cache))

\* Mutant: only the cache changes.
PopCacheOnly(t) == Strings(t.heap, t.top, t.stack, Append(t.cache, t.top))

Pop(t) ==
    LET rest == Front(t.stack)
    IN  Strings(t.heap, IF rest = <<>> THEN t.top ELSE Last(rest),
                rest, Append(t.cache, t.top))

SetTopString(t, s) ==
    Strings([t.heap EXCEPT ![t.top] = s], t.top, t.stack, t.cache)

AppendToTopString(t, c) == SetTopString(t, Append(t.heap[t.top], c))

TrimTopString(t) == SetTopString(t, Trim(t.heap[t.top]))

Reset(t) == Strings(t.heap, t.top, <<>>, <<>>)

TopString(t) == t.heap[t.top]

-----------------------------------------------------------------------------
(* The cache of VarBuilder objects: the object new_var_builder returns,    *)
(* and what the call leaves.  The caller calls InitAsDict at once, which   *)
(* gives the object a new dictionary, the next one in "dicts".             *)

NewBuilder == IF cache = <<>> THEN Len(builders) + 1 ELSE Last(cache)

\* Mutant: the object stays in the cache.
CacheNotPopped == cache

CacheAfterNew == IF cache = <<>> THEN cache ELSE Front(cache)

NewDict == Len(dicts) + 1

\* Mutant: InitAsDict keeps the dictionary of an object from the cache.
BuildersKeepDict(opts) ==
    IF cache = <<>>
    THEN Append(builders, [object |-> NewDict, options |-> opts])
    ELSE builders

BuildersAfterNew(opts) ==
    IF cache = <<>>
    THEN Append(builders, [object |-> NewDict, options |-> opts])
    ELSE [builders EXCEPT ![Last(cache)].object = NewDict]

\* A builder that reads its options_ reads a deleted object.
Dangling(b, opts) == builders[b].options # opts

-----------------------------------------------------------------------------
(* Clear, with the options it fills in.                                    *)

\* Mutant: no defaults.
FilledWithNothing(o) == o

Filled(o) ==
    [o EXCEPT !.attrkey = IF @ = NoText THEN Dollar ELSE @,
              !.textkey = IF @ = NoText THEN Underscore ELSE @]

\* Mutant: no flag is pushed for the root.
ClearNoFlag(opts) ==
    /\ clears < MaxClears
    /\ clears' = clears + 1
    /\ builders' = BuildersAfterNew(opts)
    /\ dicts' = Append(dicts, EmptyDict)
    /\ root' = NewBuilder
    /\ cache' = CacheAfterNew
    /\ stack' = <<NewBuilder>>
    /\ first' = TRUE
    /\ rootName' = NoText
    /\ simple' = <<>>
    /\ text' = PushEmptyString(Reset(text))
    /\ mode' = IF phase = "before" THEN "ready" ELSE "stale"

ClearWith(opts) ==
    /\ clears < MaxClears
    /\ clears' = clears + 1
    /\ builders' = BuildersAfterNew(opts)
    /\ dicts' = Append(dicts, EmptyDict)
    /\ root' = NewBuilder
    /\ cache' = CacheAfterNew
    /\ stack' = <<NewBuilder>>
    /\ first' = TRUE
    /\ rootName' = NoText
    /\ simple' = <<FALSE>>
    /\ text' = PushEmptyString(Reset(text))
    /\ mode' = IF phase = "before" THEN "ready" ELSE "stale"

Init ==
    /\ \E o \in OptionSet : options = Filled(o)
    /\ current = 1
    /\ builders = <<[object |-> 1, options |-> 1]>>
    /\ dicts = <<EmptyDict>>
    /\ stack = <<1>>
    /\ cache = <<>>
    /\ root = 1
    /\ first = TRUE
    /\ rootName = NoText
    /\ simple = <<FALSE>>
    /\ text = [heap |-> <<<<>>>>, top |-> 1, stack |-> <<1>>, cache |-> <<>>]
    /\ undefined = FALSE
    /\ doc = <<>>
    /\ open = <<>>
    /\ phase = "before"
    /\ mode = "ready"
    /\ clears = 0
    /\ replaced = FALSE
    /\ results = <<>>

Clear ==
    /\ ~undefined
    /\ Len(dicts) < MaxDicts
    /\ ClearWith(current)
    /\ UNCHANGED <<options, current, undefined, parser, replaced, results>>

\* Clear(options, error) with options that can be read; with others it
\* returns before it changes anything.
ClearOptions(o) ==
    /\ ~undefined
    /\ Len(dicts) < MaxDicts
    /\ current < MaxOptions
    /\ options' = Filled(o)
    /\ current' = current + 1
    /\ ClearWith(current + 1)
    /\ replaced' = (replaced \/ cache # <<>>)
    /\ UNCHANGED <<undefined, parser, results>>

-----------------------------------------------------------------------------
(* The handlers.                                                           *)

SetAttrKey(d, attrs) ==
    IF attrs = NoAttrs THEN d
    ELSE SetDictKeyValue(d, options.attrkey, AttrDict(attrs))

Undefined == undefined' = TRUE /\ UNCHANGED built

StartRoot(el, attrs) ==
    /\ first
    /\ IF attrs # NoAttrs /\ Dangling(root, current)
       THEN Undefined
       ELSE /\ rootName' = el
            /\ first' = FALSE
            /\ dicts' = [dicts EXCEPT ![builders[root].object] = SetAttrKey(@, attrs)]
            /\ UNCHANGED <<builders, stack, cache, root, simple, text, undefined>>

StartInner(attrs) ==
    /\ ~first
    /\ IF \/ simple = <<>>
          \/ attrs # NoAttrs /\ cache # <<>> /\ Dangling(Last(cache), current)
       THEN Undefined
       ELSE /\ builders' = BuildersAfterNew(current)
            /\ dicts' = Append(dicts, SetAttrKey(EmptyDict, attrs))
            /\ cache' = CacheAfterNew
            /\ stack' = Append(stack, NewBuilder)
            /\ simple' = Append([simple EXCEPT ![Len(simple)] = FALSE], attrs = NoAttrs)
            /\ text' = PushEmptyString(text)
            /\ UNCHANGED <<root, first, rootName, undefined>>

OnStartElement(el, attrs) == StartRoot(el, attrs) \/ StartInner(attrs)

\* AppendToDictKeyList of builder b is defined for key el: it reads
\* explicit_array_ only for a key that is new.
Readable(b, el) ==
    el \in DOMAIN dicts[builders[b].object] \/ ~Dangling(b, current)

EndText == IF options.trim THEN TrimTopString(text) ELSE text

EndSimple(el) ==
    /\ simple # <<>> /\ Last(simple)
    /\ LET up == Last(Front(stack))
       IN  IF Len(stack) < 2 \/ ~Readable(up, el)
           THEN Undefined
           ELSE /\ dicts' = [dicts EXCEPT ![builders[up].object] =
                     AppendToDictKeyList(@, el, Str(TopString(EndText)),
                                         options.explicit_array)]
                /\ stack' = Front(stack)
                /\ cache' = Append(cache, Last(stack))
                /\ simple' = Front(simple)
                /\ text' = Pop(EndText)
                /\ UNCHANGED <<builders, root, first, rootName, undefined>>

\* The dictionaries once the text of the element is in the one of builder b.
DictsWithText(b) ==
    IF TopString(EndText) = <<>> THEN dicts
    ELSE [dicts EXCEPT ![builders[b].object] =
             SetDictKeyValue(@, options.textkey, Str(TopString(EndText)))]

EndOther(el) ==
    /\ simple # <<>> /\ ~Last(simple)
    /\ LET last == Last(stack)
           up == Last(Front(stack))
       IN  IF stack = <<>> \/ (Len(stack) > 1 /\ ~Readable(up, el))
           THEN Undefined
           ELSE /\ dicts' = IF Len(stack) = 1 THEN DictsWithText(last)
                            ELSE [DictsWithText(last) EXCEPT ![builders[up].object] =
                                    AppendToDictKeyList(@, el, Ref(builders[last].object),
                                                        options.explicit_array)]
                /\ stack' = Front(stack)
                /\ cache' = Append(cache, last)
                /\ simple' = Front(simple)
                /\ text' = Pop(EndText)
                /\ UNCHANGED <<builders, root, first, rootName, undefined>>

EndUnderflow == simple = <<>> /\ Undefined

OnEndElement(el) == EndSimple(el) \/ EndOther(el) \/ EndUnderflow

OnText(c) ==
    /\ text' = AppendToTopString(text, c)
    /\ UNCHANGED <<builders, dicts, stack, cache, root, first, rootName, simple, undefined>>

-----------------------------------------------------------------------------
(* The parser: the events it delivers and the end of its input.            *)

Element(el, attrs) ==
    [el |-> el, attrs |-> attrs, text |-> <<>>,
     parent |-> IF open = <<>> THEN 0 ELSE Last(open)]

ParseStart(el, attrs) ==
    /\ ~undefined
    /\ phase \in {"before", "in"}
    /\ Len(dicts) < MaxDicts
    /\ OnStartElement(el, attrs)
    /\ doc' = Append(doc, Element(el, attrs))
    /\ open' = Append(open, Len(doc'))
    /\ phase' = "in"
    /\ mode' = IF phase = "before"
               THEN IF mode = "ready" THEN "used" ELSE "stale"
               ELSE mode
    /\ UNCHANGED <<options, current, clears, replaced, results>>

ParseEnd ==
    /\ ~undefined
    /\ phase = "in"
    /\ OnEndElement(doc[Last(open)].el)
    /\ open' = Front(open)
    /\ phase' = IF Len(open) = 1 THEN "after" ELSE "in"
    /\ UNCHANGED <<options, current, doc, mode, clears, replaced, results>>

ParseText(c) ==
    /\ ~undefined
    /\ phase = "in"
    /\ Len(FlattenSeq([n \in DOMAIN doc |-> doc[n].text])) < MaxText
    /\ OnText(c)
    /\ doc' = [doc EXCEPT ![Last(open)].text = Append(@, c)]
    /\ UNCHANGED <<options, current, open, phase, mode, clears, replaced, results>>

\* A value and a dictionary with each reference replaced by what val gives for it.
Follow(val, v) == IF "ref" \in DOMAIN v THEN val[v.ref] ELSE v

Followed(val, d) ==
    [dict |-> [k \in DOMAIN d |->
        IF IsList(d[k]) THEN List([i \in DOMAIN d[k].list |-> Follow(val, d[k].list[i])])
        ELSE Follow(val, d[k])]]

\* What the Dynamic of each of the dictionaries ds means, references followed.
Values(ds) == LET val[d \in DOMAIN ds] == Followed(val, ds[d]) IN val

\* Feed(..., last = true): the parser is reset, the builder is not.  After a
\* whole document the caller takes var().
FeedLast ==
    /\ ~undefined
    /\ phase = "after"
    /\ phase' = "before"
    /\ open' = <<>>
    /\ results' = IF mode # "used" THEN results
                  ELSE Append(results, [object |-> builders[root].object,
                                        value |-> Values(dicts)[builders[root].object]])
    /\ doc' = <<>>
    /\ mode' = "stale"
    /\ UNCHANGED <<options, current, built, undefined, clears, replaced>>

\* The same when the rest of the document cannot be parsed.
FeedFails ==
    /\ ~undefined
    /\ phase # "before"
    /\ phase' = "before"
    /\ open' = <<>>
    /\ doc' = <<>>
    /\ mode' = "stale"
    /\ UNCHANGED <<options, current, built, undefined, clears, replaced, results>>

Next ==
    \/ Clear
    \/ \E o \in OptionSet : ClearOptions(o)
    \/ \E el \in Name, attrs \in Attrs \cup {NoAttrs} : ParseStart(el, attrs)
    \/ ParseEnd
    \/ \E c \in Char : ParseText(c)
    \/ FeedLast
    \/ FeedFails

Spec == Init /\ [][Next]_vars

-----------------------------------------------------------------------------
(* What a document means: the reference the result is compared with.       *)

\* The children with the name key of the element n, among the first c elements of
\* the document dc for each c.
ChildrenAmong(dc, n, key) ==
    LET kids[c \in 0..Len(dc)] ==
          IF c = 0 THEN <<>>
          ELSE IF dc[c].parent = n /\ dc[c].el = key THEN Append(kids[c - 1], c)
          ELSE kids[c - 1]
    IN  kids

Children(n, key) == ChildrenAmong(doc, n, key)[Len(doc)]

TextOf(n) == IF options.trim THEN Trim(doc[n].text) ELSE doc[n].text

IsSimple(n) ==
    /\ n # 1
    /\ doc[n].attrs = NoAttrs
    /\ \A c \in DOMAIN doc : doc[c].parent # n

\* What the element itself has under a key: its attributes.
Own(n, key) ==
    IF doc[n].attrs # NoAttrs /\ key = options.attrkey THEN <<AttrDict(doc[n].attrs)>> ELSE <<>>

\* The text of the element is under the key.
Worded(n, key) == key = options.textkey /\ TextOf(n) # <<>>

\* What a key has for the sequences of what the element has under it and of its children.
Meant(own, kids) ==
    IF Len(own \o kids) = 1 /\ (own # <<>> \/ ~options.explicit_array) THEN (own \o kids)[1]
    ELSE List(own \o kids)

\* The meaning of an element, where mean has those of its children.
Means(mean, n) ==
    LET kids(key) == [i \in DOMAIN Children(n, key) |-> mean[Children(n, key)[i]]]
    IN  IF IsSimple(n) THEN Str(TextOf(n))
        ELSE [dict |-> [key \in {k \in Keys : Worded(n, k) \/ Own(n, k) \o kids(k) # <<>>} |->
                 IF Worded(n, key) THEN Str(TextOf(n)) ELSE Meant(Own(n, key), kids(key))]]

Meaning == LET mean[n \in DOMAIN doc] == Means(mean, n) IN mean

-----------------------------------------------------------------------------
(* Properties.                                                             *)

Options == [trim : BOOLEAN, explicit_array : BOOLEAN, attrkey : Keys, textkey : Keys]

TypeBuilder ==
    /\ options \in Options
    /\ current \in 1..MaxOptions
    /\ \A d \in DOMAIN dicts :
          DOMAIN dicts[d] \subseteq Keys /\ dicts[d] \in [DOMAIN dicts[d] -> Val]
    /\ builders \in Seq([object : DOMAIN dicts, options : 1..current])
    /\ stack \in Seq(DOMAIN builders) /\ cache \in Seq(DOMAIN builders)
    /\ root \in DOMAIN builders
    /\ simple \in Seq(BOOLEAN)
    /\ rootName \in Name \cup {NoText}
    /\ {first, undefined, replaced} \subseteq BOOLEAN

TypeText ==
    LET Id == DOMAIN text.heap
    IN  text \in [heap : Seq(Seq(Char)), top : Id, stack : Seq(Id), cache : Seq(Id)]

TypeParser ==
    /\ doc \in Seq([el : Name, attrs : Attrs \cup {NoAttrs}, text : Seq(Char), parent : Nat])
    /\ open \in Seq(DOMAIN doc)
    /\ phase \in {"before", "in", "after"} /\ mode \in {"ready", "used", "stale"}
    /\ clears \in 0..MaxClears

\* The types of the builder's members, of StringStack and of the parser's state:
\* every reference is to an object that exists.
TypeOK == TypeBuilder /\ TypeText /\ TypeParser

\* A document parsed after Clear gives, when its root has ended, the value the
\* tree of its elements means (OnStartElement, OnText, OnEndElement): each child
\* once, in order, under its name; text of an element with others between put
\* together; a textkey_ that is also the name of a child replaces that child.
ResultIsTheDocument ==
    (phase = "after" /\ mode = "used" /\ ~undefined) =>
        Values(dicts)[builders[root].object] = Meaning[1] /\ rootName = doc[1].el

\* A Dynamic that var() returned for a document parsed after Clear keeps its
\* value, whatever the builder is used for later: a VarBuilder that is used again
\* has a new dictionary (InitAsDict).
ResultsStay ==
    \A i \in DOMAIN results : Values(dicts)[results[i].object] = results[i].value

\* A VarBuilder is on the stack or in the cache, or in neither, and never twice;
\* so is a string of StringStack, however the caller uses Clear: no element
\* writes to the dictionary or the text of another one.
NothingShared ==
    /\ IsInjective(stack \o cache)
    /\ IsInjective(text.stack \o text.cache)

\* The stacks are never used empty, and a builder never reads deleted Options,
\* as long as the caller calls Clear between two documents and only there, and
\* Clear(options) only while no builder is in the cache.
UndefinedOnlyAfterMisuse ==
    undefined => mode = "stale" \/ replaced

\* The three stacks have the height of the open elements during a document that
\* was started after Clear; the root is at the bottom.
StacksInStep ==
    (mode = "used" /\ phase = "in" /\ ~undefined) =>
        /\ Len(stack) = Len(open) /\ Len(simple) = Len(open)
        /\ Len(text.stack) = Len(open)
        /\ stack[1] = root /\ ~simple[1] /\ ~first
=============================================================================
