------------------------ MODULE DocumentValidation ------------------------
(***************************************************************************)
(* What parse_file and parse_slice promise of one document: the rules of   *)
(* every declared element run exactly once, when it closes, against a view *)
(* that tells the truth about the document; their diagnostics come out in  *)
(* that order, and all of them when the document is accepted.              *)
(*                                                                         *)
(* Stated over the document alone: no stacks, counters, modes or pools.    *)
(***************************************************************************)
EXTENDS DescriptorTree, XmlDocument, Views, SequencesExt

CONSTANT Trees      \* the descriptor trees a program may have built

VARIABLES tree, doc,
          observed,     \* <<view>> when the last step ran rules against view
          diagnostics,  \* every diagnostic the rules have produced, in order
          delivered,    \* those the receiver has been sent
          status

vars == <<tree, doc, observed, diagnostics, delivered, status>>

(* The declaration of the open element at that depth, by its path.         *)
Declared(depth) ==
  {n \in NodeIds(tree) : tree.nodes[n].full_path = PathOfDoc(doc, depth)}

(* Inside a captured element nothing is evaluated on its own.              *)
Visible ==
  /\ Declared(Len(doc)) # {}
  /\ \A d \in 1 .. Len(doc) - 1 :
        \A n \in Declared(d) : ~IsCapture(tree.nodes[n].needs)

Brief(childVerdicts) ==
  [i \in DOMAIN childVerdicts |-> [childVerdicts[i] EXCEPT !.attrs = <<>>, !.text = <<>>]]

Legible(s) == \A i \in DOMAIN s : s[i] \notin Illegible

(* The view shows the closing element: its place, and whatever the needs   *)
(* of its declaration name.                                                *)
ShowsElement(v, node) ==
  LET e     == Last(doc)
      needs == tree.nodes[node].needs
  IN /\ NodeOf(v) = node
     /\ TagOf(tree, v) = e.tag
     /\ PathOf(tree, v) = PathOfDoc(doc, Len(doc))
     /\ ElementIndex(v) = SiblingIndex(doc)
     /\ IsCapture(needs) => Subtree(v) = <<Dom(e)>>
     /\ {"ATTRS", "CAPTURE"} \cap needs # {} =>
           AttrsOf(v) = e.attrs /\ Legible(e.attrs)
     /\ {"TEXT", "CAPTURE"} \cap needs # {} =>
           TextOf(v) = e.text /\ Legible(e.text)
     /\ ~IsCapture(needs) =>
           IF "CHILDREN" \in needs
           THEN ChildrenSummaries(v) = e.evaluated
           ELSE Brief(ChildrenSummaries(v)) = Brief(e.evaluated)

(* The view shows every ancestor as it is at that moment: its attributes,  *)
(* the text read so far and the children closed so far.                    *)
ShowsAncestors(v) ==
  /\ Depth(v) = Len(doc) - 1
  /\ Ancestor(v, Depth(v)) = <<>>
  /\ \A level \in 0 .. Depth(v) - 1 :
       LET a  == doc[Len(doc) - 1 - level]
           nc == Ancestor(v, level)
       IN /\ nc # <<>>
          /\ nc[1].attrs = a.attrs
          /\ nc[1].text = a.text
          /\ Brief(nc[1].children) = Brief(a.evaluated)

-----------------------------------------------------------------------------
Init ==
  /\ tree \in Trees
  /\ doc = <<>>
  /\ observed = <<>>
  /\ diagnostics = <<>>
  /\ delivered = <<>>
  /\ status \in {"reading", "Utf8"}

OpenElement(tag, attrs) ==
  /\ status = "reading"
  /\ doc' = Open(doc, tag, attrs)
  /\ observed' = <<>>
  /\ UNCHANGED <<tree, diagnostics, delivered, status>>

Text(piece) ==
  /\ status = "reading"
  /\ doc' = AddText(doc, piece)
  /\ observed' = <<>>
  /\ UNCHANGED <<tree, diagnostics, delivered, status>>

(* Character data that no rule ever sees.                                  *)
OtherText ==
  /\ status = "reading"
  /\ doc' = AddOther(doc)
  /\ observed' = <<>>
  /\ UNCHANGED <<tree, diagnostics, delivered, status>>

(* An element whose rules do not apply: undeclared, under one that is, or  *)
(* part of a captured one.                                                 *)
CloseUnobserved ==
  /\ status = "reading"
  /\ doc # <<>>
  /\ ~Visible
  /\ doc' = Close(doc, <<>>)
  /\ observed' = <<>>
  /\ UNCHANGED <<tree, diagnostics, delivered, status>>

CloseObserved ==
  /\ status = "reading"
  /\ doc # <<>>
  /\ Visible
  /\ \E node \in Declared(Len(doc)) : \E diags \in Evaluations(tree, node) :
        /\ doc' = Close(doc, <<ChildVerdict(doc, node, Passed(tree, node, diags))>>)
        /\ diagnostics' = diagnostics \o diags
        /\ Len(observed') = 1
        /\ ShowsElement(observed'[1], node)
        /\ ShowsAncestors(observed'[1])
  /\ IsPrefix(delivered, delivered')
  /\ IsPrefix(delivered', diagnostics')
  /\ UNCHANGED <<tree, status>>

Accept ==
  /\ status = "reading"
  /\ status' = "ok"
  /\ delivered' = diagnostics
  /\ observed' = <<>>
  /\ UNCHANGED <<tree, doc, diagnostics>>

(* What the document owes is lost, and it may be the element or the text   *)
(* just read that is refused.                                              *)
Reject ==
  /\ status = "reading"
  /\ status' \in {"XmlParse", "Utf8", "CaptureOverflow"}
  /\ \/ UNCHANGED doc
     \/ \E tag \in Tags \cup {Garbled}, attrs \in AttrLists :
           doc' = Open(doc, tag, attrs)
     \/ \E piece \in Texts \cup {Garbled} : doc' = AddText(doc, piece)
  /\ observed' = <<>>
  /\ UNCHANGED <<tree, diagnostics, delivered>>

Next ==
  \/ \E tag \in Tags \cup {Garbled}, attrs \in AttrLists : OpenElement(tag, attrs)
  \/ \E piece \in Texts \cup {Garbled} : Text(piece)
  \/ OtherText
  \/ CloseUnobserved
  \/ CloseObserved
  \/ Accept
  \/ Reject

Spec == Init /\ [][Next]_vars
=============================================================================
