---------------------------- MODULE XmlDocument ----------------------------
(***************************************************************************)
(* The document the tokenizer (the external crate quick-xml) has delivered *)
(* so far, as the sequence of its open elements, outermost first.  Each    *)
(* carries its closed children, and under `evaluated` the verdict on those *)
(* of them whose rules have run: what a specification of the parser may    *)
(* refer to, none of it being state of the parser.                         *)
(*                                                                         *)
(* Text is a sequence of pieces, one per Text event; `content` counts the  *)
(* pieces of character data, those of other events too.  Garbled is a      *)
(* name, a piece of text or an attribute that is not UTF-8; Malformed an   *)
(* attribute the tokenizer's attribute iterator rejects.                   *)
(***************************************************************************)
EXTENDS Naturals, Sequences, FiniteSets, SequencesExt

CONSTANTS Tags, Attrs, Texts, Garbled, Malformed,
          AttrLists,  \* the attribute lists of start tags
          OtherData   \* events but Text that carry character data: CDATA
                      \* sections and references such as &amp;

Illegible == {Garbled, Malformed}

ASSUME IllegibleAssumption == Malformed \notin Texts
ASSUME AttrListsAssumption == AttrLists \subseteq Seq(Attrs \cup Illegible)

Element(tag, attrs) ==
  [tag |-> tag, attrs |-> attrs, text |-> <<>>, children |-> <<>>,
   evaluated |-> <<>>, content |-> 0]

Open(doc, tag, attrs) == Append(doc, Element(tag, attrs))

(* quick-xml reports text outside of any element too.                      *)
AddText(doc, piece) ==
  IF doc = <<>> THEN doc
  ELSE [doc EXCEPT ![Len(doc)].text = Append(@, piece),
                   ![Len(doc)].content = @ + 1]

AddOther(doc) ==
  IF doc = <<>> THEN doc ELSE [doc EXCEPT ![Len(doc)].content = @ + 1]

(* The closed element as its ancestors keep it.                            *)
Dom(element) ==
  [tag |-> element.tag, attrs |-> element.attrs, text |-> element.text,
   children |-> element.children]

(* Number of earlier siblings with the tag of the innermost open element.  *)
SiblingIndex(doc) ==
  IF Len(doc) = 1 THEN 0
  ELSE LET siblings == doc[Len(doc) - 1].children
       IN Cardinality({i \in DOMAIN siblings : siblings[i].tag = Last(doc).tag})

(* The full account of the innermost open element as a child, given its    *)
(* descriptor and which of its rules passed.                               *)
ChildVerdict(doc, node, results) ==
  [attrs |-> Last(doc).attrs, text |-> Last(doc).text, descriptor_id |-> node,
   index |-> SiblingIndex(doc), rule_results |-> results]

(* childVerdicts is empty if the rules of the closing element did not run. *)
Close(doc, childVerdicts) ==
  IF Len(doc) = 1 THEN <<>>
  ELSE LET rest == Front(doc)
           top  == Len(rest)
       IN [rest EXCEPT ![top].children = Append(@, Dom(Last(doc))),
                       ![top].evaluated = @ \o childVerdicts]

PathOfDoc(doc, depth) == [i \in 1 .. depth |-> doc[i].tag]
=============================================================================
