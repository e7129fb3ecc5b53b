---------------------------- MODULE MCAnyXml2Var ----------------------------
(***************************************************************************)
(* AnyXml2VarBuilder, in three instances.  For the value of one document:  *)
(* elements named "a" and "_", the latter also the default of textkey, an  *)
(* attrkey that is the name of an element, and both kinds of array, with   *)
(* more elements or with more characters.  For one builder and several     *)
(* documents: one name and one set of options.  The constants of the       *)
(* module itself are those of all together, and its properties are what is *)
(* checked.                                                                *)
(***************************************************************************)
EXTENDS AnyXml2Var

VARIABLE part

Trimmed ==
    [trim |-> TRUE, explicit_array |-> FALSE, attrkey |-> "", textkey |-> ""]
Arrays ==
    [trim |-> FALSE, explicit_array |-> TRUE, attrkey |-> "a", textkey |-> "t"]
Plain ==
    [trim |-> FALSE, explicit_array |-> FALSE, attrkey |-> "", textkey |-> ""]

MCOptions == {Trimmed, Arrays, Plain}

Document == INSTANCE AnyXml2Var WITH
    OptionSet <- {Trimmed, Arrays}, MaxDicts <- 4, MaxClears <- 0, MaxText <- 2,
    MaxOptions <- 1

Blanks == INSTANCE AnyXml2Var WITH
    OptionSet <- {Trimmed, Arrays}, MaxDicts <- 2, MaxClears <- 0, MaxOptions <- 1

Reuse == INSTANCE AnyXml2Var WITH
    Name <- {"a"}, Char <- {" "}, OptionSet <- {Plain}, MaxDicts <- 4, MaxText <- 1

MCInit ==
    \/ part = "document" /\ Document!Init
    \/ part = "blanks" /\ Blanks!Init
    \/ part = "reuse" /\ Reuse!Init

MCNext ==
    \/ part = "document" /\ Document!Next /\ UNCHANGED part
    \/ part = "blanks" /\ Blanks!Next /\ UNCHANGED part
    \/ part = "reuse" /\ Reuse!Next /\ UNCHANGED part

MCSpec == MCInit /\ [][MCNext]_<<vars, part>>

\* Constraint: what a builder does after its first document is the subject of
\* the last instance.
FirstDocument == part \in {"document", "blanks"} => mode # "stale"
=============================================================================
