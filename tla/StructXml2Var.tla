--------------------------- MODULE StructXml2Var ---------------------------
(***************************************************************************)
(* nkit::StructXml2VarBuilder<DynamicBuilder> (src/src/nkit/xml2var.h): a  *)
(* builder of Dynamic values from the events of a parser, as told by       *)
(* mappings.                                                               *)
(*                                                                         *)
(* A mapping is a list, a dictionary or a scalar, as AddMapping finds it   *)
(* after the configuration has been read and its keys have been split:     *)
(*   [type |-> "scalar", of |-> a type, default |-> <<>> or <<text>>]      *)
(*   [type |-> "list", path, attr, sub]                                    *)
(*   [type |-> "dict", pairs |-> sequence of [path, attr, key, isAttr, sub]]*)
(*   [type |-> "other"]: anything else, an error                           *)
(* A text is a sequence of characters, an attribute's value is at most one *)
(* character.  Of the types of scalars "string" and "boolean" are here;    *)
(* the others differ in the conversion only.                               *)
(*                                                                         *)
(* Dictionaries and lists are shared by reference, so they have identities *)
(* here: an index of "heap".  A node of the path tree is its path: the     *)
(* items of a node are those registered with that path, in their order.    *)
(*                                                                         *)
(* The parser (Expat) delivers the events of well-formed content and may   *)
(* stop at an error.  Mappings are added before the first document.        *)
(***************************************************************************)
EXTENDS Integers, Sequences, SequencesExt, FiniteSetsExt, TLC

CONSTANTS
    Name,         \* names of elements
    Star,         \* "*" in a path or as a key
    AttrSets,     \* attributes of an element: functions from names to values
    Char,         \* characters of text
    Space,        \* the one of them in Options::white_spaces_
    Truthy,       \* texts bool_cast takes for true
    Empty,        \* the empty string as a key, a name or an attribute's value
    OptionSet,    \* Options as read from the configuration
    Mappings,     \* mappings the caller adds
    MaxMappings,  \* bound: calls of AddMapping
    MaxElements,  \* bound: elements in all documents
    MaxText,      \* bound: characters of text in all documents
    MaxDocs       \* bound: documents

\* The assert of Path::operator /: no path goes on after an attribute, so that a
\* list, or a dictionary with pairs, is not what a mapping finds under one.
RECURSIVE PathsEndAtAttributes(_, _)
PathsEndAtAttributes(m, attr) ==
    CASE m.type = "list" -> attr = Empty /\ PathsEndAtAttributes(m.sub, m.attr)
      [] m.type = "dict" -> \A i \in DOMAIN m.pairs :
            attr = Empty /\ PathsEndAtAttributes(m.pairs[i].sub, m.pairs[i].attr)
      [] OTHER -> TRUE

\* What an instance gives for the constants.
StructXml2VarAssumption ==
    /\ Star \notin Name /\ Empty \notin Name /\ Space \in Char /\ Empty \notin Char
    /\ \A o \in OptionSet : /\ o.trim \in BOOLEAN /\ o.attrkey \notin Name \cup {Star}
                           /\ o.true \cup o.false \subseteq Seq(Char)
    /\ {MaxMappings, MaxElements, MaxText, MaxDocs} \subseteq Nat
    /\ \A m \in Mappings : PathsEndAtAttributes(m, Empty)

VARIABLES
    options,    \* *options_
    store,      \* what AddMapping made: targets, items, path tree, mask items, and
                \* the containers of the targets
    roots,      \* root_targets_
    path,       \* current_path_, and the path of current_node_
    first,      \* first_node_
    mappings,   \* history: the mapping of each root, and the number of calls
    failed,     \* history: an AddMapping returned false
    undefined,  \* a target that has been destroyed was used
    doc,        \* history: the elements, in the order they start
    open,       \* history: the elements that have not ended
    phase,      \* the parser: before, in or after the root element
    docs        \* history: documents started

vars == <<options, store, roots, path, first, mappings, failed, undefined,
          doc, open, phase, docs>>

-----------------------------------------------------------------------------
(* Values.  InitAsString and InitAsBoolean; InitAsList and InitAsDict make *)
(* a new container, so values handed on keep the old one.                  *)

UseCustomBoolVariants == options.false # {}

Convert(of, text) ==
    IF of = "string" THEN [str |-> text]
    ELSE [bool |-> text \in IF UseCustomBoolVariants THEN options.true ELSE Truthy]

Trim(text) ==
    LET ink == {i \in DOMAIN text : text[i] # Space}
    IN  IF ~options.trim THEN text
        ELSE IF ink = {} THEN <<>> ELSE SubSeq(text, Min(ink), Max(ink))

NewContainer(s, t, empty) ==
    [s EXCEPT !.heap = Append(@, empty), !.targets[t].val = [ref |-> Len(s.heap) + 1]]

\* Mutant: Clear empties the list it has in place of making one
ClearInPlace(s, t) ==
    CASE s.targets[t].kind = "dict"   -> NewContainer(s, t, [dict |-> [x \in {} |-> x]])
      [] s.targets[t].kind = "list"   ->
           IF "ref" \in DOMAIN s.targets[t].val
           THEN [s EXCEPT !.heap[s.targets[t].val.ref].list = <<>>]
           ELSE NewContainer(s, t, [list |-> <<>>])
      [] s.targets[t].kind = "scalar" -> [s EXCEPT !.targets[t].text = <<>>,
                                                   !.targets[t].useDefault = TRUE]

\* ObjectTarget, ListTarget and ScalarTarget::Clear
Clear(s, t) ==
    CASE s.targets[t].kind = "dict"   -> NewContainer(s, t, [dict |-> [x \in {} |-> x]])
      [] s.targets[t].kind = "list"   -> NewContainer(s, t, [list |-> <<>>])
      [] s.targets[t].kind = "scalar" -> [s EXCEPT !.targets[t].text = <<>>,
                                                   !.targets[t].useDefault = TRUE]

MustUseDefault(target) == target.default # <<>> /\ target.useDefault

Var(s, t) ==
    LET target == s.targets[t]
    IN  IF MustUseDefault(target) THEN Convert(target.of, target.default[1]) ELSE target.val

SetDictKeyValue(s, t, key, v) ==
    [s EXCEPT !.heap[s.targets[t].val.ref].dict = (key :> v) @@ @]

AppendToList(s, t, v) == [s EXCEPT !.heap[s.targets[t].val.ref].list = Append(@, v)]

-----------------------------------------------------------------------------
(* Parsing a mapping: each operator returns the store and the item made,   *)
(* which is 0 after an error.  The items made before an error stay in the  *)
(* tree, with a pointer to a parent that has been destroyed.               *)

IsMask(p) == Star \in Range(p)

NewTarget(s, kind, of, default) ==
    LET t == Len(s.targets) + 1
        made == [s EXCEPT !.targets = Append(@,
                   [kind |-> kind, of |-> of, default |-> default, items |-> <<>>,
                    val |-> [none |-> TRUE], text |-> <<>>, live |-> TRUE,
                    useDefault |-> default # <<>>])]
    IN  IF kind = "scalar" THEN made ELSE Clear(made, t)

\* PathNode::PutTargetItem, or mask_target_items->push_back
Register(s, i) ==
    IF IsMask(s.items[i].path) THEN [s EXCEPT !.masks = Append(@, i)]
    ELSE [s EXCEPT !.tree = Append(@, i)]

\* TargetItem::Create and SetParentTarget
AddItem(s, t, parent, p, attr) ==
    LET i == Len(s.items) + 1
        made == [s EXCEPT !.items = Append(@,
                   [path |-> p, attr |-> attr, target |-> t, parent |-> parent,
                    key |-> Empty, isAttr |-> FALSE, actual |-> Empty])]
    IN  [store |-> Register(made, i), item |-> i]

Error(s) == [store |-> s, item |-> 0]

\* ObjectTarget::AppendTargetItem: the items of an object by the length of their paths
Insert(items, its, i) ==
    LET longer == {k \in DOMAIN its : Len(items[i].path) < Len(items[its[k]].path)}
    IN  IF longer = {} THEN Append(its, i) ELSE InsertAt(its, Min(longer), i)

PutTargetItem(s, t, i) ==
    IF s.targets[t].kind = "dict"
         /\ \E k \in Range(s.targets[t].items) : s.items[k].key = s.items[i].key
    THEN s
    ELSE [s EXCEPT !.targets[t].items = Insert(s.items, @, i)]

SetKey(s, i, key, isAttr) ==
    [s EXCEPT !.items[i].key = key, !.items[i].actual = key, !.items[i].isAttr = isAttr]

KeyOf(pair) ==
    IF pair.key # Empty THEN pair.key
    ELSE IF pair.attr # Empty THEN pair.attr
    ELSE IF pair.path = <<>> THEN Empty ELSE Last(pair.path)

\* "Attribute name should not be '*'", "Key alias should not be '@'"
BadKey(pair) ==
    IF pair.isAttr THEN pair.key = Empty ELSE pair.key = Empty /\ pair.attr = Star

ParseScalarTargetSpec(s, parent, p, attr, m) ==
    IF \/ m.of \notin {"string", "boolean"}
       \/ m.of = "boolean" /\ m.default # <<>> /\ UseCustomBoolVariants
            /\ m.default[1] \notin options.true \cup options.false
    THEN Error(s)
    ELSE AddItem(NewTarget(s, "scalar", m.of, m.default), Len(s.targets) + 1, parent, p, attr)

RECURSIVE ParseTargetSpec(_, _, _, _, _)

ParseListTargetSpec(s, parent, p, m) ==
    LET t == Len(s.targets) + 1
        full == p \o m.path
        child == ParseTargetSpec(NewTarget(s, "list", "", <<>>), t, full, m.attr, m.sub)
    IN  IF child.item = 0 THEN Error([child.store EXCEPT !.targets[t].live = FALSE])
        ELSE AddItem(PutTargetItem(child.store, t, child.item), t, parent, full, m.attr)

ParseObjectTargetSpec(s, parent, p, attr, m) ==
    LET t == Len(s.targets) + 1
        Put(r, pair) ==
            IF r.item = 0 THEN r
            ELSE IF BadKey(pair) THEN Error(r.store)
            ELSE LET child == ParseTargetSpec(r.store, t, p \o pair.path, pair.attr, pair.sub)
                 IN  IF child.item = 0 THEN Error(child.store)
                     ELSE [store |-> PutTargetItem(SetKey(child.store, child.item,
                                       KeyOf(pair), pair.isAttr), t, child.item),
                           item |-> child.item]
        all == FoldLeft(Put, [store |-> NewTarget(s, "dict", "", <<>>), item |-> -1], m.pairs)
    IN  IF all.item = 0 THEN Error([all.store EXCEPT !.targets[t].live = FALSE])
        ELSE AddItem(all.store, t, parent, p, attr)

ParseTargetSpec(s, parent, p, attr, m) ==
    CASE m.type = "list"   -> ParseListTargetSpec(s, parent, p, m)
      [] m.type = "dict"   -> ParseObjectTargetSpec(s, parent, p, attr, m)
      [] m.type = "scalar" -> ParseScalarTargetSpec(s, parent, p, attr, m)
      [] OTHER             -> Error(s)

ParseMapping(s, m) ==
    IF m.type \in {"list", "dict"} THEN ParseTargetSpec(s, 0, <<>>, Empty, m) ELSE Error(s)

\* Mutant: an error in a mapping is not reported
AddMappingSilently(n, m) ==
    /\ phase = "before" /\ docs = 0 /\ mappings.calls < MaxMappings
    /\ store' = ParseMapping(store, m).store
    /\ mappings' = [mappings EXCEPT !.calls = @ + 1]
    /\ UNCHANGED <<options, roots, path, first, failed, undefined, doc, open, phase, docs>>

\* StructXml2VarBuilder::AddMapping, which may be called again after it has failed
AddMapping(n, m) ==
    /\ phase = "before" /\ docs = 0 /\ mappings.calls < MaxMappings
    /\ LET parsed == ParseMapping(store, m)
           done == parsed.item # 0
       IN  /\ store' = parsed.store
           /\ failed' = (failed \/ ~done)
           /\ roots' = IF done THEN (n :> parsed.store.items[parsed.item].target) @@ roots
                       ELSE roots
           /\ mappings' = [calls |-> mappings.calls + 1,
                           of |-> IF done THEN (n :> m) @@ mappings.of ELSE mappings.of]
    /\ UNCHANGED <<options, path, first, undefined, doc, open, phase, docs>>

-----------------------------------------------------------------------------
(* The events of targets and items.                                        *)

\* SetAttrKey
SetAttrKey(s, t, attrs) ==
    IF options.attrkey = Empty \/ DOMAIN attrs = {} THEN s
    ELSE SetDictKeyValue(s, t, options.attrkey, [attrs |-> attrs])

TargetOnEnter(s, t, attrs) ==
    CASE s.targets[t].kind = "dict"   -> SetAttrKey(Clear(s, t), t, attrs)
      [] s.targets[t].kind = "list"   -> s
      [] s.targets[t].kind = "scalar" -> [s EXCEPT !.targets[t].useDefault = TRUE]

TargetOnText(s, t, text) ==
    IF s.targets[t].kind # "scalar" THEN s
    ELSE [s EXCEPT !.targets[t].useDefault = FALSE, !.targets[t].text = @ \o text]

\* ObjectTarget::OnExit: defaults of what the element did not have, with the key of
\* the item or, when that is "*", the name of the object's own element
ObjectOnExit(s, t, el) ==
    LET Leave(r, i) ==
            LET item == r.items[i]
                key == IF item.actual = Star THEN el ELSE item.actual
            IN  Clear(IF MustUseDefault(r.targets[item.target])
                      THEN SetDictKeyValue(r, t, key, Var(r, item.target)) ELSE r,
                      item.target)
    IN  FoldLeft(Leave, s, s.targets[t].items)

ListOnExit(s, t) ==
    LET Leave(r, i) == Clear(AppendToList(r, t, Var(r, r.items[i].target)), r.items[i].target)
    IN  FoldLeft(Leave, s, s.targets[t].items)

ScalarOnExit(s, t) ==
    LET target == s.targets[t]
    IN  [s EXCEPT !.targets[t].text = <<>>,
                  !.targets[t].val = IF MustUseDefault(target) THEN @
                                     ELSE Convert(target.of, Trim(target.text))]

TargetOnExit(s, t, el) ==
    CASE s.targets[t].kind = "dict"   -> ObjectOnExit(s, t, el)
      [] s.targets[t].kind = "list"   -> ListOnExit(s, t)
      [] s.targets[t].kind = "scalar" -> ScalarOnExit(s, t)

\* find_attribute_value
Attribute(attrs, a, missing) == IF a \in DOMAIN attrs THEN attrs[a] ELSE missing

TextOfAttribute(v) == IF v = Empty THEN <<>> ELSE <<v>>

\* TargetItem::OnEnter
OnEnter(s, i, attrs) ==
    LET item == s.items[i]
        entered == TargetOnEnter(s, item.target, attrs)
        read == IF item.attr \in DOMAIN attrs
                THEN TargetOnText(entered, item.target, TextOfAttribute(attrs[item.attr]))
                ELSE entered
    IN  IF item.isAttr
        THEN [read EXCEPT !.items[i].actual = Attribute(attrs, item.key, item.key)]
        ELSE read

\* TargetItem::OnExit writes to a destroyed parent
WritesToDestroyed(s, i) ==
    /\ s.items[i].actual # Empty
    /\ ~s.targets[s.items[i].parent].live

\* TargetItem::OnExit
OnExit(s, i, el) ==
    LET item == s.items[i]
        left == TargetOnExit(s, item.target, el)
    IN  IF item.actual = Empty THEN left
        ELSE SetDictKeyValue(left, item.parent, IF item.actual = Star THEN el ELSE item.actual,
                             Var(left, item.target))

\* TargetItem::OnText
OnText(s, i, text) ==
    IF s.items[i].attr = Empty THEN TargetOnText(s, s.items[i].target, text) ELSE s

-----------------------------------------------------------------------------
(* The handlers of the builder, with the parser that calls them.           *)

Matches(p, mask) ==
    Len(p) = Len(mask) /\ \A k \in DOMAIN p : mask[k] \in {p[k], Star}

MasksAt(p) == SelectSeq(store.masks, LAMBDA i : Matches(p, store.items[i].path))

NodeAt(p) == SelectSeq(store.tree, LAMBDA i : store.items[i].path = p)

\* Path::operator /= and PathNode::MoveToChild
MoveToChild(p, el) == Append(p, el)

OnStartElement(el, attrs) ==
    IF first
    THEN first' = FALSE /\ UNCHANGED <<path, store>>
    ELSE /\ path' = MoveToChild(path, el)
         /\ store' = LET Enter(s, i) == OnEnter(s, i, attrs)
                     IN  FoldLeft(Enter, store, MasksAt(path') \o NodeAt(path'))
         /\ first' = first

\* Expat calls the handler; "undefined" says that nothing is known from here on
Start(el, attrs) ==
    /\ phase # "after" /\ ~undefined /\ Len(doc) < MaxElements
    /\ phase = "before" => docs < MaxDocs
    /\ docs' = IF phase = "before" THEN docs + 1 ELSE docs
    /\ OnStartElement(el, attrs)
    /\ doc' = Append(doc, [el |-> el, attrs |-> attrs, text |-> <<>>, ended |-> FALSE,
                           up |-> IF open # <<>> THEN Last(open) ELSE IF first THEN 0 ELSE 1,
                           root |-> phase = "before"])
    /\ open' = Append(open, Len(doc) + 1)
    /\ phase' = "in"
    /\ UNCHANGED <<options, roots, mappings, failed, undefined>>

\* Path::BubbleUp and PathNode::MoveToParent
BubbleUp(p) == IF p = <<>> THEN p ELSE Front(p)

OnEndElement(el) ==
    LET items == MasksAt(path) \o NodeAt(path)
        Exit(s, i) == OnExit(s, i, el)
    IN  /\ IF \E i \in Range(items) : WritesToDestroyed(store, i)
           THEN undefined' = TRUE /\ UNCHANGED store
           ELSE store' = FoldLeft(Exit, store, items) /\ UNCHANGED undefined
        /\ path' = BubbleUp(path)

End ==
    /\ phase = "in" /\ ~undefined
    /\ OnEndElement(doc[Last(open)].el)
    /\ doc' = [doc EXCEPT ![Last(open)].ended = TRUE]
    /\ open' = Front(open)
    /\ phase' = IF doc[Last(open)].root THEN "after" ELSE "in"
    /\ UNCHANGED <<options, roots, first, mappings, failed, docs>>

Text(c) ==
    /\ phase = "in" /\ ~undefined
    /\ FoldLeft(LAMBDA n, e : n + Len(e.text), 0, doc) < MaxText
    /\ store' = LET Put(s, i) == OnText(s, i, <<c>>)
                IN  FoldLeft(Put, store, NodeAt(path) \o MasksAt(path))
    /\ doc' = [doc EXCEPT ![Last(open)].text = Append(@, c)]
    /\ UNCHANGED <<options, roots, path, first, mappings, failed, undefined, open, phase, docs>>

\* Feed with "last", after the root element or at an error: the parser is reset, the
\* builder is not
FeedLast ==
    /\ phase \in {"in", "after"} /\ ~undefined
    /\ phase' = "before"
    /\ UNCHANGED <<options, store, roots, path, first, mappings, failed, undefined,
                   doc, open, docs>>

Init ==
    /\ options \in OptionSet
    /\ store = [targets |-> <<>>, items |-> <<>>, tree |-> <<>>, masks |-> <<>>, heap |-> <<>>]
    /\ roots = [x \in {} |-> x]
    /\ path = <<>> /\ first = TRUE
    /\ mappings = [calls |-> 0, of |-> [x \in {} |-> x]]
    /\ failed = FALSE /\ undefined = FALSE
    /\ doc = <<>> /\ open = <<>> /\ phase = "before" /\ docs = 0

Next ==
    \/ \E n \in 1..MaxMappings, m \in Mappings : AddMapping(n, m)
    \/ \E el \in Name, attrs \in AttrSets : Start(el, attrs)
    \/ End
    \/ \E c \in Char : Text(c)
    \/ FeedLast

Spec == Init /\ [][Next]_vars

-----------------------------------------------------------------------------
(* What a mapping means for a document, defined over its elements.         *)

RECURSIVE PathOf(_), Ancestor(_, _), Deep(_), RefValue(_, _, _), Plain(_)

\* The path from the root element of the first document, whose child the root element
\* of any other document is
PathOf(d) == IF d = 1 THEN <<>> ELSE Append(PathOf(doc[d].up), doc[d].el)

Ancestor(d, n) == IF n = 0 THEN d ELSE Ancestor(doc[d].up, n - 1)

\* The elements under e a path leads to that have ended, or e itself
Under(e, p) ==
    SelectSeq([d \in DOMAIN doc |-> d],
        LAMBDA d : LET n == Len(PathOf(d)) - Len(PathOf(e))
                   IN  /\ n = Len(p) /\ Ancestor(d, n) = e
                       /\ Matches(SubSeq(PathOf(d), Len(PathOf(e)) + 1, Len(PathOf(d))), p)
                       /\ doc[d].ended \/ d = e)

\* The attributes of the root element of the first document are not looked at
AttrsOf(d) == IF d = 1 THEN [x \in {} |-> x] ELSE doc[d].attrs

RefScalar(m, d, attr) ==
    LET missing == IF attr = Empty THEN doc[d].text = <<>> ELSE attr \notin DOMAIN AttrsOf(d)
        text == IF attr = Empty THEN doc[d].text
                ELSE TextOfAttribute(Attribute(AttrsOf(d), attr, Empty))
    IN  IF missing /\ m.default # <<>> THEN Convert(m.of, m.default[1])
        ELSE Convert(m.of, Trim(text))

RefList(m, e, p) ==
    LET ds == Under(e, p \o m.path) IN [k \in DOMAIN ds |-> RefValue(m.sub, ds[k], m.attr)]

RefKey(pair, d) ==
    LET key == KeyOf(pair)
    IN  IF pair.isAttr THEN Attribute(AttrsOf(d), key, key)
        ELSE IF key = Star THEN doc[d].el ELSE key

\* What a pair of a dictionary gives: entries, a later one before an earlier one
RefEntries(pair, e) ==
    LET list == pair.sub.type = "list"
        ds == Under(e, IF list THEN pair.path \o pair.sub.path ELSE pair.path)
        entry(d) == RefKey(pair, d) :> IF list THEN [list |-> RefList(pair.sub, e, pair.path)]
                                       ELSE RefValue(pair.sub, d, pair.attr)
        given == FoldLeft(LAMBDA f, d : IF RefKey(pair, d) = Empty THEN f ELSE entry(d) @@ f,
                          [x \in {} |-> x], ds)
    IN  IF ds = <<>> /\ pair.sub.type = "scalar" /\ pair.sub.default # <<>>
        THEN KeyOf(pair) :> Convert(pair.sub.of, pair.sub.default[1])
        ELSE given

RefDict(m, e) ==
    LET attrs == IF options.attrkey = Empty \/ DOMAIN AttrsOf(e) = {} THEN [x \in {} |-> x]
                 ELSE options.attrkey :> [attrs |-> AttrsOf(e)]
    IN  FoldLeft(LAMBDA f, pair : RefEntries(pair, e) @@ f, attrs, m.pairs)

RefValue(m, d, attr) ==
    CASE m.type = "scalar" -> RefScalar(m, d, attr)
      [] m.type = "list"   -> [list |-> RefList(m, d, <<>>)]
      [] m.type = "dict"   -> [dict |-> RefDict(m, d)]

\* A Dynamic with its parts in the place of references to them
Deep(v) ==
    IF "ref" \notin DOMAIN v THEN v
    ELSE LET c == store.heap[v.ref]
         IN  [kind \in DOMAIN c |-> [k \in DOMAIN c[kind] |-> Deep(c[kind][k])]]

\* The keys of a dictionary differ whatever the document, and a default has a fixed key
Plain(m) ==
    CASE m.type = "list" -> Plain(m.sub)
      [] m.type = "dict" ->
           LET free(k) == m.pairs[k].isAttr \/ KeyOf(m.pairs[k]) = Star
           IN  \A k \in DOMAIN m.pairs :
                 /\ Plain(m.pairs[k].sub)
                 /\ KeyOf(m.pairs[k]) # Empty
                 /\ free(k) => m.pairs[k].sub.type # "scalar" \/ m.pairs[k].sub.default = <<>>
                 /\ \A j \in DOMAIN m.pairs \ {k} :
                      ~free(k) /\ KeyOf(m.pairs[j]) # KeyOf(m.pairs[k])
      [] OTHER -> TRUE

-----------------------------------------------------------------------------
(* Properties.                                                             *)

\* Types: items and targets refer to each other, containers of dictionaries and lists
\* are of their kind, and the path is as deep as the elements that have not ended.
TypeOK ==
    /\ \A t \in DOMAIN store.targets :
         LET target == store.targets[t]
         IN  /\ Range(target.items) \subseteq DOMAIN store.items
             /\ target.kind # "scalar" => DOMAIN store.heap[target.val.ref] = {target.kind}
    /\ \A i \in DOMAIN store.items : store.items[i].target \in DOMAIN store.targets
    /\ Range(roots) \subseteq DOMAIN store.targets
    /\ Len(path) = IF open = <<>> THEN 0 ELSE Len(PathOf(Last(open)))
    /\ phase \in {"before", "in", "after"} /\ BOOLEAN = {failed, undefined, first} \cup BOOLEAN

\* The value of a mapping is what the mapping says of the document: when the first
\* document has ended (OnEndElement of its root element), for a dictionary; at any time,
\* in any document after it and after an error, for a list, whose elements then are
\* found as if the root element of a later document were inside the element the
\* builder had come to.
ResultIsTheDocument ==
    \A n \in DOMAIN roots :
      LET m == mappings.of[n]
      IN  (Plain(m) /\ ~undefined /\ doc # <<>>
            /\ (m.type = "dict" => docs = 1 /\ phase = "after"))
          => Deep(Var(store, roots[n])) = RefValue(m, 1, Empty)

\* A destroyed target is written to only if an AddMapping failed: every item that is
\* reached from the path tree or the masks has a parent that an item owns.
DestroyedOnlyAfterFailure == undefined => failed
=============================================================================
