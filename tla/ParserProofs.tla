---------------------------- MODULE ParserProofs ----------------------------
(***************************************************************************)
(* Parser never leaves its types and its bookkeeping stays consistent, for *)
(* every tree, document and bound.  The inductive invariant is             *)
(* TypeOK /\ StackInv; IInvStep proves it kept by every event, with one    *)
(* lemma for each handler.                                                 *)
(***************************************************************************)
EXTENDS Parser, SequenceFacts

(* IsSeq is being a sequence over some set.                                *)
LEMMA IsSeqOf ==
  ASSUME NEW S, NEW s \in Seq(S)
  PROVE  IsSeq(s) /\ Len(s) \in Nat
BY SeqOfRange, LenProperties DEF IsSeq

(* Appending to, taking the front of and updating a sequence whose         *)
(* elements have no stated type.                                           *)
LEMMA AppendAny ==
  ASSUME NEW s, IsSeq(s), NEW e
  PROVE  /\ IsSeq(Append(s, e))
         /\ Len(Append(s, e)) = Len(s) + 1
         /\ Len(s) \in Nat
         /\ \A i \in 1 .. Len(s) : Append(s, e)[i] = s[i]
         /\ Append(s, e)[Len(s) + 1] = e
<1> DEFINE S == Range(s) \cup {e}
<1>1. s \in Seq(S) /\ e \in S
  BY SeqMonotonic DEF IsSeq
<1>2. /\ Append(s, e) \in Seq(S)
      /\ Len(Append(s, e)) = Len(s) + 1
      /\ \A i \in 1 .. Len(s) : Append(s, e)[i] = s[i]
      /\ Append(s, e)[Len(s) + 1] = e
  <2> HIDE DEF S
  <2> QED  BY <1>1, AppendProperties
<1>3. QED  BY <1>1, <1>2, IsSeqOf

(* Two such sequences make one.                                            *)
LEMMA ConcatAny ==
  ASSUME NEW s, IsSeq(s), NEW t, IsSeq(t)
  PROVE  /\ IsSeq(s \o t)
         /\ Len(s) \in Nat /\ Len(t) \in Nat /\ Len(s \o t) = Len(s) + Len(t)
         /\ \A i \in 1 .. Len(s) + Len(t) :
               (s \o t)[i] = IF i <= Len(s) THEN s[i] ELSE t[i - Len(s)]
<1> DEFINE S == Range(s) \cup Range(t)
<1>1. s \in Seq(S) /\ t \in Seq(S)
  BY SeqMonotonic DEF IsSeq
<1> HIDE DEF S
<1>2. QED  BY <1>1, ConcatProperties, LenProperties, IsSeqOf

(* Front drops the last element of such a sequence and keeps the others.   *)
LEMMA FrontAny ==
  ASSUME NEW s, IsSeq(s), s # <<>>
  PROVE  /\ IsSeq(Front(s))
         /\ Len(Front(s)) = Len(s) - 1
         /\ Len(s) \in Nat \ {0}
         /\ \A i \in 1 .. Len(s) - 1 : Front(s)[i] = s[i]
         /\ Last(s) = s[Len(s)]
<1>1. s \in Seq(Range(s))  BY DEF IsSeq
<1>2. Len(s) \in Nat \ {0}  BY <1>1, EmptySeq
<1>3. QED  BY <1>1, <1>2, FrontLast, IsSeqOf

(* Updating one position of such a sequence touches no other.              *)
LEMMA ExceptAny ==
  ASSUME NEW s, IsSeq(s), NEW i \in 1 .. Len(s), NEW e
  PROVE  /\ IsSeq([s EXCEPT ![i] = e])
         /\ Len([s EXCEPT ![i] = e]) = Len(s)
         /\ \A j \in 1 .. Len(s) :
               [s EXCEPT ![i] = e][j] = IF j = i THEN e ELSE s[j]
<1> DEFINE S == Range(s) \cup {e}
<1>1. s \in Seq(S) /\ e \in S
  BY SeqMonotonic DEF IsSeq
<1>2. /\ [s EXCEPT ![i] = e] \in Seq(S)
      /\ Len([s EXCEPT ![i] = e]) = Len(s)
      /\ \A j \in 1 .. Len(s) :
            [s EXCEPT ![i] = e][j] = IF j = i THEN e ELSE s[j]
  <2> HIDE DEF S
  <2> QED  BY <1>1, ExceptSeq
<1>3. QED  BY <1>2, IsSeqOf

-----------------------------------------------------------------------------
(* The document: each operation of XmlDocument moves its depth by one or   *)
(* not at all.  First, the empty sequence.                                 *)
LEMMA EmptyIsSeq == IsSeq(<<>>) /\ Len(<<>>) = 0
BY EmptySeq, IsSeqOf

(* A start tag adds one level.                                             *)
LEMMA OpenDoc ==
  ASSUME NEW d, IsSeq(d), NEW tag, NEW attrs
  PROVE  IsSeq(Open(d, tag, attrs)) /\ Len(Open(d, tag, attrs)) = Len(d) + 1
BY AppendAny DEF Open

(* Text leaves the depth alone.                                            *)
LEMMA AddTextDoc ==
  ASSUME NEW d, IsSeq(d), NEW piece
  PROVE  IsSeq(AddText(d, piece)) /\ Len(AddText(d, piece)) = Len(d)
<1>1. CASE d = <<>>  BY <1>1 DEF AddText
<1>2. CASE d # <<>>
  <2> DEFINE i == Len(d)
             e == [d[i] EXCEPT !.text = Append(@, piece), !.content = @ + 1]
  <2>1. i \in 1 .. Len(d)  BY <1>2, FrontAny
  <2>2. AddText(d, piece) = [d EXCEPT ![i] = e]
    BY <1>2 DEF AddText
  <2> HIDE DEF i, e
  <2>3. IsSeq([d EXCEPT ![i] = e]) /\ Len([d EXCEPT ![i] = e]) = Len(d)
    BY <2>1, ExceptAny
  <2>4. QED  BY <2>2, <2>3
<1>3. QED  BY <1>1, <1>2

(* And so does any other character data.                                   *)
LEMMA AddOtherDoc ==
  ASSUME NEW d, IsSeq(d)
  PROVE  IsSeq(AddOther(d)) /\ Len(AddOther(d)) = Len(d)
<1>1. CASE d = <<>>  BY <1>1 DEF AddOther
<1>2. CASE d # <<>>
  <2> DEFINE i == Len(d)
             e == [d[i] EXCEPT !.content = @ + 1]
  <2>1. i \in 1 .. Len(d)  BY <1>2, FrontAny
  <2>2. AddOther(d) = [d EXCEPT ![i] = e]
    BY <1>2 DEF AddOther
  <2> HIDE DEF i, e
  <2>3. IsSeq([d EXCEPT ![i] = e]) /\ Len([d EXCEPT ![i] = e]) = Len(d)
    BY <2>1, ExceptAny
  <2>4. QED  BY <2>2, <2>3
<1>3. QED  BY <1>1, <1>2

(* An end tag removes one level.                                           *)
LEMMA CloseDoc ==
  ASSUME NEW d, IsSeq(d), d # <<>>, NEW childVerdicts
  PROVE  IsSeq(Close(d, childVerdicts)) /\ Len(Close(d, childVerdicts)) = Len(d) - 1
<1>1. CASE Len(d) = 1  BY <1>1, EmptyIsSeq DEF Close
<1>2. CASE Len(d) # 1
  <2> DEFINE rest == Front(d)
             i    == Len(rest)
             e    == [rest[i] EXCEPT !.children = Append(@, Dom(Last(d))),
                                     !.evaluated = @ \o childVerdicts]
  <2>1. IsSeq(rest) /\ i = Len(d) - 1 /\ Len(d) \in Nat \ {0}
    BY FrontAny
  <2>2. i \in 1 .. Len(rest)  BY <1>2, <2>1
  <2>3. Close(d, childVerdicts) = [rest EXCEPT ![i] = e]
    BY <1>2 DEF Close
  <2> HIDE DEF rest, i, e
  <2>4. IsSeq([rest EXCEPT ![i] = e]) /\ Len([rest EXCEPT ![i] = e]) = Len(rest)
    BY <2>1, <2>2, ExceptAny, SMTT(30)
  <2>5. Len(rest) = Len(d) - 1  BY <2>1 DEF i
  <2>6. QED  BY <2>3, <2>4, <2>5
<1>3. QED  BY <1>1, <1>2

-----------------------------------------------------------------------------
(* A builder is known by its three fields.                                 *)
LEMMA BuilderFields ==
  ASSUME NEW stack, IsSeq(stack), NEW used \in Nat,
         \A j \in 1 .. Len(stack) : IsBuildNode(stack[j])
  PROVE  IsBuilder([stack |-> stack, memory_usage |-> used,
                    memory_limit |-> tree.capture_memory_limit])
BY DEF IsBuilder

(* CaptureBuilder::start_element pushes one well-formed node.              *)
LEMMA StartElementBuilder ==
  ASSUME NEW b, IsBuilder(b), NEW tag, NEW attrs \in AttrSeqs
  PROVE  /\ IsBuilder(StartElement(b, tag, attrs))
         /\ Len(StartElement(b, tag, attrs).stack) = Len(b.stack) + 1
<1> DEFINE node  == BuildNode(tag, attrs)
           stack == Append(b.stack, node)
           used  == b.memory_usage + NodeBytes + AttrBytes * Len(attrs)
<1>1. IsBuildNode(node)
  BY EmptySeq DEF BuildNode, IsBuildNode, TextSeqs
<1>2. /\ IsSeq(stack) /\ Len(stack) = Len(b.stack) + 1 /\ Len(b.stack) \in Nat
      /\ \A j \in 1 .. Len(b.stack) : stack[j] = b.stack[j]
      /\ stack[Len(b.stack) + 1] = node
  <2> HIDE DEF node
  <2> QED  BY AppendAny DEF IsBuilder
<1>3. Len(attrs) \in Nat  BY LenProperties DEF AttrSeqs
<1>4. used \in Nat
  <2> HIDE DEF stack
  <2> QED  BY <1>3, SizesAssumption DEF IsBuilder
<1>5. StartElement(b, tag, attrs) =
        [stack |-> stack, memory_usage |-> used,
         memory_limit |-> tree.capture_memory_limit]
  BY DEF IsBuilder, StartElement
<1> HIDE DEF node, stack, used
<1>6. \A j \in 1 .. Len(stack) : IsBuildNode(stack[j])
  BY <1>1, <1>2 DEF IsBuilder
<1>7. QED  BY <1>2, <1>4, <1>5, <1>6, BuilderFields

(* CaptureBuilder::new starts with an empty stack.                         *)
LEMMA NewBuilderOK ==
  ASSUME tree.capture_memory_limit \in Nat
  PROVE  /\ IsBuilder(NewBuilder(tree.capture_memory_limit))
         /\ Len(NewBuilder(tree.capture_memory_limit).stack) = 0
BY EmptyIsSeq DEF IsBuilder, NewBuilder

(* CaptureBuilder::text changes the top node only.                         *)
LEMMA TextPieceBuilder ==
  ASSUME NEW b, IsBuilder(b), Len(b.stack) > 0, NEW piece \in Texts
  PROVE  /\ IsBuilder(TextPiece(b, piece))
         /\ Len(TextPiece(b, piece).stack) = Len(b.stack)
<1> DEFINE old   == b.stack
           i     == Len(old)
           text  == Append(old[i].text, piece)
           e     == [old[i] EXCEPT !.text = text]
           stack == [old EXCEPT ![i] = e]
           used  == b.memory_usage + 1
<1>1. /\ i \in 1 .. Len(old) /\ IsSeq(old) /\ used \in Nat
      /\ \A j \in 1 .. Len(old) : IsBuildNode(old[j])
  BY FrontAny, EmptyIsSeq DEF IsBuilder
<1>2. TextPiece(b, piece) =
        [stack |-> stack, memory_usage |-> used,
         memory_limit |-> tree.capture_memory_limit]
  BY DEF IsBuilder, TextPiece
<1> HIDE DEF old
<1>3. IsBuildNode(e)
  <2>1. text \in TextSeqs
    BY <1>1, AppendProperties DEF IsBuildNode, TextSeqs
  <2> HIDE DEF text
  <2>2. QED  BY <1>1, <2>1 DEF IsBuildNode
<1> HIDE DEF i, text, e, used
<1>4. /\ IsSeq(stack) /\ Len(stack) = Len(old)
      /\ \A j \in 1 .. Len(old) : stack[j] = IF j = i THEN e ELSE old[j]
  BY <1>1, ExceptAny
<1> HIDE DEF stack
<1>5. \A j \in 1 .. Len(stack) : IsBuildNode(stack[j])
  BY <1>1, <1>3, <1>4
<1>6. QED  BY <1>1, <1>2, <1>4, <1>5, BuilderFields DEF old

(* CaptureBuilder::end_element, inside the captured element, pops one node *)
(* and keeps the rest well formed: its expect() has a node to pop.         *)
LEMMA EndElementBuilder ==
  ASSUME NEW b, IsBuilder(b), Len(b.stack) > 1
  PROVE  /\ IsBuilder(EndElement(b))
         /\ Len(EndElement(b).stack) = Len(b.stack) - 1
<1> DEFINE rest     == Front(b.stack)
           i        == Len(rest)
           children == Append(rest[i].children, Last(b.stack))
           e        == [rest[i] EXCEPT !.children = children]
           stack    == [rest EXCEPT ![i] = e]
<1>1. /\ IsSeq(rest) /\ i = Len(b.stack) - 1 /\ Len(b.stack) \in Nat \ {0}
      /\ \A j \in 1 .. Len(b.stack) - 1 : rest[j] = b.stack[j]
  BY FrontAny, EmptyIsSeq DEF IsBuilder
<1>2. i \in 1 .. Len(rest) /\ rest # <<>>
  <2>1. i \in 1 .. Len(rest)  BY <1>1
  <2>2. QED  BY <2>1, EmptyIsSeq
<1>3. EndElement(b) =
        [stack |-> stack, memory_usage |-> b.memory_usage,
         memory_limit |-> tree.capture_memory_limit]
  BY <1>2 DEF IsBuilder, EndElement
<1> HIDE DEF rest, children
<1>4. \A j \in 1 .. Len(rest) : IsBuildNode(rest[j])
  BY <1>1 DEF IsBuilder
<1>5. IsBuildNode(e)  BY <1>2, <1>4 DEF IsBuildNode
<1> HIDE DEF e
<1>6. /\ IsSeq(stack) /\ Len(stack) = Len(rest)
      /\ \A j \in 1 .. Len(rest) : stack[j] = IF j = i THEN e ELSE rest[j]
  BY <1>1, <1>2, ExceptAny, SMTT(40)
<1>7. b.memory_usage \in Nat  BY DEF IsBuilder
<1> HIDE DEF stack
<1>8. \A j \in 1 .. Len(stack) : IsBuildNode(stack[j])
  BY <1>4, <1>5, <1>6
<1>9. QED  BY <1>1, <1>3, <1>6, <1>7, <1>8, BuilderFields

(* What finalize returns for a builder left with its root only.            *)
LEMMA FinalizeBuilder ==
  ASSUME NEW b, IsBuilder(b), Len(b.stack) = 1
  PROVE  Finalize(EndElement(b)) = b.stack[1] /\ IsBuildNode(b.stack[1])
<1>1. IsSeq(b.stack) /\ b.stack # <<>> /\ IsBuildNode(b.stack[1])
  BY EmptyIsSeq DEF IsBuilder
<1>2. /\ IsSeq(Front(b.stack))
      /\ Len(Front(b.stack)) = Len(b.stack) - 1
      /\ Last(b.stack) = b.stack[Len(b.stack)]
  BY <1>1, FrontAny
<1>3. Front(b.stack) = <<>>  BY <1>2, EmptySeq DEF IsSeq
<1>4. Finalize(EndElement(b)) = b.stack[1]
  BY <1>2, <1>3 DEF Finalize, EndElement
<1>5. QED  BY <1>1, <1>4

-----------------------------------------------------------------------------
(* The part of the inductive invariant the handlers are responsible for.   *)
Core ==
  /\ tree \in Trees
  /\ IsSeq(doc)
  /\ StacksOK
  /\ ModeOK
  /\ skip_depth \in Nat
  /\ OutputOK
  /\ status \in {"reading", "ok", "XmlParse", "Utf8", "CaptureOverflow"}
  /\ StackInv

(* What IsTree says of the tree in use.                                    *)
LEMMA TreeFacts ==
  ASSUME tree \in Trees
  PROVE  /\ tree.capture_memory_limit \in Nat
         /\ Root \in NodeIds(tree)
         /\ NodeIds(tree) \subseteq Nat
         /\ NoNode \notin NodeIds(tree)
         /\ \A n \in NodeIds(tree) :
               /\ tree.nodes[n].rules \in Seq(SUBSET NodeNeeds)
               /\ tree.nodes[n].needs \subseteq NodeNeeds
<1>1. IsTree(tree)  BY TreesAssumption
<1> DEFINE tags == {tree.nodes[n].tag : n \in NodeIds(tree)}
           S == [tag : tags, full_path : Seq(tags), rules : Seq(SUBSET NodeNeeds),
                 parent_id : {NoNode} \cup NodeIds(tree),
                 needs : SUBSET NodeNeeds, summary_needs : SUBSET NodeNeeds]
<1>2. tree.nodes \in Seq(S)  BY <1>1 DEF IsTree
<1>3. /\ Len(tree.nodes) \in Nat
      /\ DOMAIN tree.nodes = 1 .. Len(tree.nodes)
      /\ \A n \in 1 .. Len(tree.nodes) : tree.nodes[n] \in S
  <2> HIDE DEF S
  <2> QED  BY <1>2, LenProperties, ElementOfSeq
<1>4. \A n \in NodeIds(tree) : tree.nodes[n] \in S
  <2> HIDE DEF S
  <2> QED  BY <1>3 DEF NodeIds
<1>5. NodeIds(tree) = 1 .. Len(tree.nodes)  BY <1>3 DEF NodeIds
<1>6. NodeIds(tree) \subseteq Nat /\ NoNode \notin NodeIds(tree)
  BY <1>3, <1>5 DEF NoNode
<1>7. \A n \in NodeIds(tree) :
        /\ tree.nodes[n].rules \in Seq(SUBSET NodeNeeds)
        /\ tree.nodes[n].needs \subseteq NodeNeeds
  BY <1>4
<1>8. QED  BY <1>1, <1>6, <1>7 DEF IsTree

(* The tree never changes, and with it the types that mention it.          *)
LEMMA SameTypes ==
  ASSUME tree' = tree
  PROVE  /\ NodeIds(tree)' = NodeIds(tree)
         /\ NodeContexts' = NodeContexts
         /\ ChildSummaries' = ChildSummaries
         /\ Diagnostics' = Diagnostics
BY DEF NodeContexts, ChildSummaries, Diagnostics, NodeIds

(* A descriptor that is found is one of the tree.                          *)
LEMMA LookupType ==
  ASSUME tree \in Trees, StacksOK, NEW tag, Lookup(tag) # NoNode
  PROVE  Lookup(tag) \in NodeIds(tree)
<1>1. CASE descriptor_stack = <<>>
  BY <1>1, TreeFacts DEF Lookup, RootIfTagged
<1>2. CASE descriptor_stack # <<>>
  <2>1. Lookup(tag) = ChildOf(tree, Last(descriptor_stack), tag)
    BY <1>2 DEF Lookup
  <2>2. QED  BY <2>1 DEF ChildOf
<1>3. QED  BY <1>1, <1>2

(* What rules may return is a sequence of diagnostics.                     *)
LEMMA EvaluationsType ==
  ASSUME tree \in Trees, NEW node \in NodeIds(tree),
         NEW diags \in Evaluations(tree, node)
  PROVE  /\ diags \in Seq(Diagnostics)
         /\ Passed(tree, node, diags) \subseteq 0 .. Len(tree.nodes[node].rules) - 1
         /\ Passed(tree, node, diags) \in SUBSET Nat
         /\ Packed(Passed(tree, node, diags)) \in SUBSET Nat
<1>1. /\ DOMAIN tree.nodes[node].rules \subseteq Nat
      /\ Diagnostic(tree, node) \subseteq Diagnostics
  BY TreeFacts, LenProperties DEF Diagnostic, Diagnostics
<1>2. PICK d \in 0 .. MaxDiags : diags \in [1 .. d -> Diagnostic(tree, node)]
  BY DEF Evaluations
<1>3. diags \in Seq(Diagnostics)
  BY <1>1, <1>2, BoundsAssumption
<1> DEFINE n == Len(tree.nodes[node].rules)
<1>4. n \in Nat /\ DOMAIN tree.nodes[node].rules = 1 .. n
  BY TreeFacts, LenProperties
<1>5. Passed(tree, node, diags) \subseteq 0 .. n - 1
  BY <1>4 DEF Passed
<1> HIDE DEF n
<1>6. Passed(tree, node, diags) \in SUBSET Nat  BY <1>4, <1>5
<1>7. \A i \in Nat : i % Width \in Nat  BY WidthAssumption
<1>8. Packed(Passed(tree, node, diags)) \in SUBSET Nat
  BY <1>6, <1>7 DEF Packed
<1>9. QED  BY <1>3, <1>5, <1>6, <1>8 DEF n

(* The number of diagnostics drained leaves less than a full buffer.       *)
LEMMA FlushedBounds ==
  ASSUME NEW n \in Nat
  PROVE  Flushed(n) \in 0 .. n /\ n - Flushed(n) < DiagBuffer
BY BoundsAssumption DEF Flushed

(* buffer_diagnostic keeps types and never leaves a full buffer.           *)
LEMMA BufferStep ==
  ASSUME OutputOK, NEW diags \in Seq(Diagnostics), BufferDiagnostics(diags),
         tree' = tree
  PROVE  OutputOK' /\ BufferBounded'
<1> DEFINE all == diag_buffer \o diags
           n   == Flushed(Len(all))
<1>1. all \in Seq(Diagnostics) /\ Len(all) \in Nat
  BY ConcatProperties, LenProperties DEF OutputOK
<1>2. n \in 0 .. Len(all) /\ Len(all) - n < DiagBuffer
  <2> HIDE DEF all
  <2> QED  BY <1>1, FlushedBounds
<1>3. sent' = sent \o SubSeq(all, 1, n) /\ diag_buffer' = SubSeq(all, n + 1, Len(all))
  BY DEF BufferDiagnostics
<1> HIDE DEF all, n
<1>4. \A i \in 1 .. Len(all) : all[i] \in Diagnostics
  BY <1>1, ElementOfSeq
<1>5. SubSeq(all, 1, n) \in Seq(Diagnostics)
  <2>1. n \in Int /\ \A i \in 1 .. n : all[i] \in Diagnostics  BY <1>1, <1>2, <1>4
  <2>2. QED  BY <2>1, SubSeqProperties
<1>6. /\ SubSeq(all, n + 1, Len(all)) \in Seq(Diagnostics)
      /\ Len(SubSeq(all, n + 1, Len(all))) < DiagBuffer
  <2> DEFINE m == n + 1  k == Len(all)
  <2>1. /\ m \in Int /\ k \in Int /\ k - m + 1 < DiagBuffer
        /\ \A i \in m .. k : all[i] \in Diagnostics
    BY <1>1, <1>2, <1>4
  <2> HIDE DEF m, k
  <2>2. /\ SubSeq(all, m, k) \in Seq(Diagnostics)
        /\ Len(SubSeq(all, m, k)) = IF m <= k THEN k - m + 1 ELSE 0
    BY <2>1, SubSeqProperties
  <2>3. 0 < DiagBuffer  BY BoundsAssumption
  <2>4. Len(SubSeq(all, m, k)) < DiagBuffer  BY <2>1, <2>2, <2>3
  <2>5. QED  BY <2>2, <2>4 DEF m, k
<1>7. sent' \in Seq(Diagnostics)
  BY <1>3, <1>5, ConcatProperties DEF OutputOK
<1>8. QED  BY <1>3, <1>6, <1>7, SameTypes DEF OutputOK, BufferBounded

-----------------------------------------------------------------------------
(* The handlers.  Each lemma takes Core and one case of a handler to Core. *)

(* An error return, and whatever else leaves the locals alone: reading     *)
(* stops, or no element was opened or closed.                              *)
LEMMA LocalsUnchanged ==
  ASSUME Core, UNCHANGED <<tree, stacks, mode, skip_depth, output>>,
         IsSeq(doc'), status' \in {"reading", "ok", "XmlParse", "Utf8", "CaptureOverflow"},
         status' # "reading" \/ (Len(doc') = Len(doc) /\ status' = status)
  PROVE  Core'
<1>1. StacksOK' /\ ModeOK' /\ OutputOK'
  BY SameTypes DEF Core, StacksOK, ModeOK, OutputOK, stacks, output, IsBuilder,
                   IsBuildNode
<1>2. StackInv'
  BY DEF Core, StackInv, StacksAligned, CaptureOnTop, Accounted, BufferBounded,
         stacks, output, IsCapturing
<1>3. QED  BY <1>1, <1>2 DEF Core

(* A step that only moves skip_depth, along with the document's depth.     *)
LEMMA SkipStep ==
  ASSUME Core, status = "reading",
         UNCHANGED <<tree, stacks, mode, output, status>>,
         IsSeq(doc'), skip_depth' \in Nat, IsStreaming,
         Len(doc') - Len(doc) = skip_depth' - skip_depth
  PROVE  Core'
<1>1. StacksOK' /\ ModeOK' /\ OutputOK'
  BY SameTypes DEF Core, StacksOK, ModeOK, OutputOK, stacks, output, IsBuilder,
                   IsBuildNode
<1>2. Len(context_stack) \in Nat /\ Len(doc) \in Nat /\ Len(doc') \in Nat
  BY LenProperties DEF Core, StacksOK, IsSeq
<1>3. StackInv'
  <2>1. StacksAligned' /\ BufferBounded'
    BY DEF Core, StackInv, StacksAligned, BufferBounded, stacks, output
  <2>2. CaptureOnTop' /\ ~IsCapturing'
    BY DEF Core, CaptureOnTop, IsCapturing, IsStreaming, Streaming
  <2>3. Accounted'
    BY <1>2, <2>2 DEF Core, StackInv, Accounted, stacks, IsCapturing, IsStreaming
  <2>4. QED  BY <2>1, <2>2, <2>3 DEF StackInv
<1>4. QED  BY <1>1, <1>3 DEF Core

(* Nothing is skipped while capturing.                                     *)
LEMMA SkippingIsStreaming ==
  ASSUME Core, skip_depth # 0
  PROVE  IsStreaming
BY DEF Core, StackInv, CaptureOnTop, ModeOK, IsStreaming, IsCapturing, Streaming

(* A step of the capture that leaves the stacks alone.                     *)
LEMMA CaptureStep ==
  ASSUME Core, status = "reading", IsCapturing,
         UNCHANGED <<tree, stacks, skip_depth, output, status>>,
         IsSeq(doc'),
         NEW b, IsBuilder(b), NEW depth \in Nat \ {0}, Len(b.stack) = depth,
         mode' = [mode EXCEPT !.builder = b, !.depth = depth],
         Len(doc') - Len(doc) = depth - mode.depth
  PROVE  Core'
<1>1. StacksOK' /\ OutputOK'
  BY SameTypes DEF Core, StacksOK, OutputOK, stacks, output
<1>2. mode \in [kind : {"Capturing"}, builder : {mode.builder}, depth : Nat,
                descriptor_id : NodeIds(tree), context_stack_index : Nat]
  BY DEF Core, ModeOK, IsCapturing, Streaming
<1>3. /\ mode' \in [kind : {"Capturing"}, builder : {b}, depth : Nat,
                     descriptor_id : NodeIds(tree), context_stack_index : Nat]
      /\ mode'.builder = b
      /\ mode'.depth = depth
      /\ mode'.descriptor_id = mode.descriptor_id
      /\ mode'.context_stack_index = mode.context_stack_index
  BY <1>2
<1>4. IsBuilder(b)'
  BY DEF IsBuilder, IsBuildNode
<1>5. ModeOK'
  BY <1>3, <1>4, SameTypes DEF ModeOK
<1>6. Len(context_stack) \in Nat /\ Len(doc) \in Nat /\ Len(doc') \in Nat
  BY LenProperties DEF Core, StacksOK, IsSeq
<1>7. StackInv'
  <2>1. StacksAligned' /\ BufferBounded'
    BY DEF Core, StackInv, StacksAligned, BufferBounded, stacks, output
  <2>2. CaptureOnTop'
    BY <1>3 DEF Core, StackInv, CaptureOnTop, stacks, IsCapturing
  <2>3. Accounted'
    <3>1. Len(doc) = Len(context_stack) + skip_depth + (mode.depth - 1)
      BY DEF Core, StackInv, Accounted
    <3>2. mode.depth \in Nat /\ skip_depth \in Nat  BY <1>2 DEF Core
    <3>3. Len(doc') = Len(context_stack) + skip_depth + (depth - 1)
      BY <1>6, <3>1, <3>2, SMTT(40)
    <3>4. /\ Len(context_stack') = Len(context_stack)
          /\ mode'.kind = "Capturing" /\ mode'.depth = depth
      BY <1>3 DEF stacks
    <3>5. QED  BY <3>3, <3>4 DEF Accounted, IsCapturing
  <2>4. QED  BY <2>1, <2>2, <2>3 DEF StackInv
<1>8. QED  BY <1>1, <1>5, <1>7 DEF Core

-----------------------------------------------------------------------------
(* Opening a declared element.                                             *)
LEMMA AcquireType ==
  ASSUME NEW pool \in Seq(NodeContexts), NEW id \in NodeIds(tree),
         NEW attrs \in AttrSeqs, NEW index \in Nat
  PROVE  /\ Acquire(pool, id, attrs, index) \in NodeContexts
         /\ Acquire(pool, id, attrs, index).descriptor_id = id
         /\ Acquired(pool) \in Seq(NodeContexts)
<1>1. <<>> \in TextSeqs /\ <<>> \in Seq(ChildSummaries)
  BY EmptySeq DEF TextSeqs
<1>2. CASE pool = <<>>
  BY <1>1, <1>2, EmptySeq DEF Acquire, Acquired, Context, NodeContexts
<1>3. CASE pool # <<>>
  <2>1. Last(pool) \in NodeContexts /\ Front(pool) \in Seq(NodeContexts)
    BY <1>3, FrontLast
  <2>2. QED  BY <1>1, <1>3, <2>1 DEF Acquire, Acquired, NodeContexts
<1>4. QED  BY <1>2, <1>3

(* Sibling counters: counting keeps the stack's height, and a recycled map *)
(* is a map.                                                               *)
LEMMA CountersType ==
  ASSUME StacksOK, NEW tag \in Tags
  PROVE  /\ SiblingIndexOf(tag) \in Nat
         /\ CountSibling(tag) \in Seq([Hashes -> Nat])
         /\ Len(CountSibling(tag)) = Len(sibling_counters)
         /\ FreshCounters.map \in [Hashes -> Nat]
         /\ FreshCounters.pool \in Seq([Hashes -> Nat])
<1> DEFINE C == [Hashes -> Nat]
<1>1. HashOf[tag] \in Hashes  BY HashAssumption
<1>2. FreshCounters.map \in C  BY DEF FreshCounters, NoCounts
<1>3. sibling_counters \in Seq(C) /\ sibling_pool \in Seq(C)
  BY DEF StacksOK
<1>4. FreshCounters.pool \in Seq(C)
  <2> HIDE DEF C
  <2> QED  BY <1>3, FrontLast, EmptySeq DEF FreshCounters
<1>5. CASE sibling_counters = <<>>
  BY <1>2, <1>3, <1>4, <1>5 DEF SiblingIndexOf, CountSibling
<1>6. CASE sibling_counters # <<>>
  <2> DEFINE i == Len(sibling_counters)
             c == sibling_counters[i]
             d == [c EXCEPT ![HashOf[tag]] = @ + 1]
  <2>1. Last(sibling_counters) \in C /\ Last(sibling_counters) = c
    <3> HIDE DEF C
    <3> QED  BY <1>3, <1>6, FrontLast
  <2>2. i \in 1 .. i
    <3> HIDE DEF C
    <3> QED  BY <1>3, <1>6, EmptySeq
  <2>3. SiblingIndexOf(tag) \in Nat
    BY <1>1, <1>6, <2>1 DEF SiblingIndexOf
  <2>4. d \in C  BY <1>1, <2>1
  <2>5. CountSibling(tag) = [sibling_counters EXCEPT ![i] = d]
    BY <1>6 DEF CountSibling
  <2> HIDE DEF C, d
  <2>6. /\ CountSibling(tag) \in Seq(C)
        /\ Len(CountSibling(tag)) = Len(sibling_counters)
    BY <1>3, <2>2, <2>4, <2>5, ExceptSeq
  <2>7. QED  BY <1>2, <1>4, <2>3, <2>6 DEF C
<1>7. QED  BY <1>5, <1>6

(* handle_start on a declared element pushes one entry on each of the      *)
(* three stacks, and starts a capture whose depth is 1.                    *)
LEMMA OpenDeclaredStep ==
  ASSUME Core, status = "reading", tree' = tree, UNCHANGED output,
         NEW tag \in Tags \cup {Garbled}, NEW attrs \in AttrSeqs,
         doc' = Open(doc, tag, attrs), OpenDeclared(tag, attrs)
  PROVE  Core'
<1> DEFINE id    == Lookup(tag)
           kept  == IF NeedsAttrs(id) THEN attrs ELSE <<>>
           index == SiblingIndexOf(tag)
           ctx   == Acquire(ctx_pool, id, kept, index)
           n     == Len(context_stack)
<1>1. tag \in Tags
  BY DEF OpenDeclared, StartError
<1>2. id \in NodeIds(tree)
  BY LookupType DEF Core, OpenDeclared
<1>3. kept \in AttrSeqs  BY EmptySeq DEF AttrSeqs
<1>4. /\ ctx \in NodeContexts /\ ctx.descriptor_id = id
      /\ Acquired(ctx_pool) \in Seq(NodeContexts)
  <2>1. index \in Nat  BY <1>1, CountersType DEF Core
  <2> HIDE DEF id, kept, index
  <2>2. QED  BY <1>2, <1>3, <2>1, AcquireType DEF Core, StacksOK
<1>5. /\ context_stack' = Append(context_stack, ctx)
      /\ descriptor_stack' = Append(descriptor_stack, id)
      /\ sibling_counters' = Append(CountSibling(tag), FreshCounters.map)
      /\ sibling_pool' = FreshCounters.pool
      /\ ctx_pool' = Acquired(ctx_pool)
      /\ mode' = IF IsCapture(tree.nodes[id].needs)
                 THEN Capturing(CaptureRoot(tag, attrs), 1, id, n)
                 ELSE mode
      /\ IsStreaming /\ skip_depth = 0 /\ skip_depth' = 0 /\ status' = status
  BY DEF OpenDeclared
<1> HIDE DEF kept, index, ctx, id
<1>6. /\ context_stack' \in Seq(NodeContexts)
      /\ n \in Nat /\ Len(context_stack') = n + 1
      /\ \A k \in 1 .. n : context_stack'[k] = context_stack[k]
      /\ context_stack'[n + 1] = ctx
  BY <1>4, <1>5, AppendProperties, LenProperties DEF Core, StacksOK
<1>7. /\ descriptor_stack' \in Seq(NodeIds(tree))
      /\ Len(descriptor_stack') = n + 1
      /\ \A k \in 1 .. n : descriptor_stack'[k] = descriptor_stack[k]
      /\ descriptor_stack'[n + 1] = id
  BY <1>2, <1>5, AppendProperties, LenProperties
     DEF Core, StacksOK, StackInv, StacksAligned
<1>8. /\ sibling_counters' \in Seq([Hashes -> Nat])
      /\ Len(sibling_counters') = n + 1
      /\ sibling_pool' \in Seq([Hashes -> Nat])
  <2> DEFINE C == [Hashes -> Nat]  m == FreshCounters.map
  <2>1. /\ CountSibling(tag) \in Seq(C) /\ Len(CountSibling(tag)) = n
        /\ m \in C /\ sibling_pool' \in Seq(C)
    BY <1>1, <1>5, CountersType DEF Core, StackInv, StacksAligned
  <2> HIDE DEF C, m
  <2>2. Append(CountSibling(tag), m) \in Seq(C)
        /\ Len(Append(CountSibling(tag), m)) = n + 1
    BY <2>1, AppendProperties
  <2>3. QED  BY <1>5, <2>1, <2>2 DEF C, m
<1>9. StacksOK'
  BY <1>4, <1>5, <1>6, <1>7, <1>8, SameTypes DEF StacksOK
<1>10. IsSeq(doc') /\ Len(doc') = Len(doc) + 1
  BY OpenDoc DEF Core
<1>11. StacksAligned'
  <2>1. \A k \in 1 .. n : descriptor_stack[k] = context_stack[k].descriptor_id
    BY LenProperties DEF Core, StackInv, StacksAligned, StacksOK
  <2>2. \A k \in 1 .. n : descriptor_stack'[k] = context_stack'[k].descriptor_id
    BY <1>6, <1>7, <2>1
  <2>3. descriptor_stack'[n + 1] = context_stack'[n + 1].descriptor_id
    BY <1>4, <1>6, <1>7
  <2>4. \A k \in 1 .. n + 1 : descriptor_stack'[k] = context_stack'[k].descriptor_id
    BY <1>6, <2>2, <2>3
  <2>5. DOMAIN context_stack' = 1 .. n + 1  BY <1>6, LenProperties
  <2>6. QED  BY <1>6, <1>7, <1>8, <2>4, <2>5 DEF StacksAligned
<1>12. OutputOK' /\ BufferBounded'
  BY SameTypes DEF Core, OutputOK, StackInv, BufferBounded, output
<1>13. CASE IsCapture(tree.nodes[id].needs)
  <2> DEFINE b == CaptureRoot(tag, attrs)
  <2>1. IsBuilder(b) /\ Len(b.stack) = 1
    <3> DEFINE b0 == NewBuilder(tree.capture_memory_limit)
    <3>1. IsBuilder(b0) /\ Len(b0.stack) = 0
      BY TreeFacts, NewBuilderOK DEF Core
    <3> HIDE DEF b0
    <3>2. /\ IsBuilder(StartElement(b0, tag, attrs))
          /\ Len(StartElement(b0, tag, attrs).stack) = 1
      <4>1. /\ IsBuilder(StartElement(b0, tag, attrs))
            /\ Len(StartElement(b0, tag, attrs).stack) = Len(b0.stack) + 1
        BY <3>1, StartElementBuilder
      <4>2. QED  BY <3>1, <4>1
    <3>3. QED  BY <3>2 DEF b0, CaptureRoot
  <2>2. IsBuilder(b)'
    BY <2>1 DEF IsBuilder, IsBuildNode, CaptureRoot, NewBuilder, StartElement
  <2> HIDE DEF b
  <2>3. mode' = Capturing(b, 1, id, n)  BY <1>5, <1>13 DEF b
  <2>4. ModeOK' /\ CaptureOnTop' /\ Accounted'
    <3>1. b' = b  BY DEF b, CaptureRoot
    <3>2. ModeOK'
      BY <1>2, <1>6, <2>2, <2>3, <3>1, SameTypes DEF ModeOK, Capturing
    <3>3. CaptureOnTop'
      <4>1. /\ context_stack' # <<>>
            /\ n = Len(context_stack') - 1
            /\ id = context_stack'[Len(context_stack')].descriptor_id
        BY <1>4, <1>6, EmptySeq
      <4>2. /\ mode'.builder = b /\ mode'.depth = 1
            /\ mode'.descriptor_id = id /\ mode'.context_stack_index = n
        BY <2>3 DEF Capturing
      <4>3. mode'.depth > 0 /\ Len(mode'.builder.stack) = mode'.depth
        BY <2>1, <4>2
      <4> HIDE DEF n
      <4>4. QED
        BY <1>5, <4>1, <4>2, <4>3 DEF CaptureOnTop
    <3>4. Accounted'
      BY <1>5, <1>6, <1>10, <2>3 DEF Core, StackInv, Accounted, Capturing, IsCapturing,
                                     IsStreaming
    <3>5. QED  BY <3>2, <3>3, <3>4
  <2>5. QED
    BY <1>5, <1>9, <1>10, <1>11, <1>12, <2>4 DEF Core, StackInv
<1>14. CASE ~IsCapture(tree.nodes[id].needs)
  <2>1. mode' = mode /\ mode = Streaming
    BY <1>5, <1>14 DEF Core, ModeOK, IsStreaming
  <2>2. ModeOK' /\ CaptureOnTop'
    BY <2>1 DEF ModeOK, CaptureOnTop, IsCapturing, Streaming
  <2>3. Accounted'
    BY <1>5, <1>6, <1>10, <2>1 DEF Core, StackInv, Accounted, IsCapturing, Streaming
  <2>4. QED
    BY <1>5, <1>9, <1>10, <1>11, <1>12, <2>2, <2>3 DEF Core, StackInv
<1>15. QED  BY <1>13, <1>14

-----------------------------------------------------------------------------
(* Closing an element whose rules run.                                     *)
LEMMA SummaryType ==
  ASSUME NEW node \in NodeIds(tree), NEW attrs \in AttrSeqs,
         NEW text \in TextSeqs, NEW index \in Nat, NEW results \in SUBSET Nat
  PROVE  Summary(node, attrs, text, index, results) \in ChildSummaries
<1>1. <<>> \in AttrSeqs /\ <<>> \in TextSeqs
  BY EmptySeq DEF AttrSeqs, TextSeqs
<1>2. QED  BY <1>1 DEF Summary, ChildSummaries

(* Handing a summary to the parent changes no descriptor and no height.    *)
LEMMA PushToParentType ==
  ASSUME NEW stack \in Seq(NodeContexts), NEW summary \in ChildSummaries
  PROVE  /\ PushToParent(stack, summary) \in Seq(NodeContexts)
         /\ Len(PushToParent(stack, summary)) = Len(stack)
         /\ \A k \in 1 .. Len(stack) :
               PushToParent(stack, summary)[k].descriptor_id
                 = stack[k].descriptor_id
<1>1. CASE stack = <<>>  BY <1>1 DEF PushToParent
<1>2. CASE stack # <<>>
  <2> DEFINE i        == Len(stack)
             c        == stack[i]
             children == Append(c.children, summary)
             d        == [c EXCEPT !.children = children]
  <2>1. i \in 1 .. Len(stack) /\ c \in NodeContexts
    BY <1>2, EmptySeq, ElementOfSeq
  <2>2. children \in Seq(ChildSummaries)
    BY <2>1, AppendProperties DEF NodeContexts
  <2>3. PushToParent(stack, summary) = [stack EXCEPT ![i] = d]
    BY <1>2 DEF PushToParent
  <2> HIDE DEF children
  <2>4. d \in NodeContexts /\ d.descriptor_id = c.descriptor_id
    BY <2>1, <2>2 DEF NodeContexts
  <2> HIDE DEF d
  <2>5. /\ [stack EXCEPT ![i] = d] \in Seq(NodeContexts)
        /\ Len([stack EXCEPT ![i] = d]) = Len(stack)
        /\ \A k \in 1 .. Len(stack) :
              [stack EXCEPT ![i] = d][k] = IF k = i THEN d ELSE stack[k]
    BY <2>1, <2>4, ExceptSeq
  <2>6. QED  BY <2>3, <2>4, <2>5
<1>3. QED  BY <1>1, <1>2

(* Running the rules pops one entry of each of the three stacks.           *)
LEMMA RunRulesStep ==
  ASSUME Core, tree' = tree, doc # <<>>, context_stack # <<>>,
         NEW view, NEW node \in NodeIds(tree), NEW ctx \in NodeContexts,
         NEW text \in TextSeqs, RunRules(view, node, ctx, text)
  PROVE  /\ context_stack' \in Seq(NodeContexts)
         /\ descriptor_stack' \in Seq(NodeIds(tree))
         /\ sibling_counters' \in Seq([Hashes -> Nat])
         /\ sibling_pool' \in Seq([Hashes -> Nat])
         /\ Len(context_stack') = Len(context_stack) - 1
         /\ StacksAligned'
         /\ OutputOK' /\ BufferBounded'
         /\ IsSeq(doc') /\ Len(doc') = Len(doc) - 1
<1> DEFINE n == Len(context_stack)
           C == [Hashes -> Nat]
<1>1. PICK diags \in Evaluations(tree, node) :
        LET passed == Passed(tree, node, diags)
        IN /\ BufferDiagnostics(diags)
           /\ context_stack' =
                PushToParent(Front(context_stack),
                             Summary(node, ctx.attrs, text, ctx.index, Packed(passed)))
           /\ descriptor_stack' = Front(descriptor_stack)
           /\ sibling_counters' = Front(sibling_counters)
           /\ sibling_pool' = Recycle(sibling_pool, sibling_counters)
           /\ doc' = Close(doc, <<ChildVerdict(doc, node, passed)>>)
  BY DEF RunRules
<1> DEFINE summary == Summary(node, ctx.attrs, text, ctx.index,
                              Packed(Passed(tree, node, diags)))
<1>2. summary \in ChildSummaries
  <2>1. /\ ctx.attrs \in AttrSeqs /\ ctx.index \in Nat
        /\ Packed(Passed(tree, node, diags)) \in SUBSET Nat
    BY EvaluationsType DEF Core, NodeContexts
  <2>2. QED  BY <2>1, SummaryType
<1>3. context_stack' = PushToParent(Front(context_stack), summary)
  BY <1>1
<1> HIDE DEF summary
<1>4. /\ Front(context_stack) \in Seq(NodeContexts)
      /\ n \in Nat /\ n # 0 /\ Len(Front(context_stack)) = n - 1
      /\ \A k \in 1 .. n - 1 : Front(context_stack)[k] = context_stack[k]
  BY FrontLast, EmptySeq DEF Core, StacksOK
<1>5. /\ context_stack' \in Seq(NodeContexts)
      /\ Len(context_stack') = n - 1
      /\ \A k \in 1 .. n - 1 :
            context_stack'[k].descriptor_id = context_stack[k].descriptor_id
  BY <1>2, <1>3, <1>4, PushToParentType
<1>6. Len(descriptor_stack) = n /\ Len(sibling_counters) = n
  BY DEF Core, StackInv, StacksAligned
<1>7. /\ descriptor_stack' \in Seq(NodeIds(tree))
      /\ Len(descriptor_stack') = n - 1
      /\ \A k \in 1 .. n - 1 : descriptor_stack'[k] = descriptor_stack[k]
  BY <1>1, <1>4, <1>6, FrontLast, EmptySeq DEF Core, StacksOK
<1>8. /\ sibling_counters' \in Seq(C) /\ Len(sibling_counters') = n - 1
      /\ sibling_pool' \in Seq(C)
  <2>1. sibling_counters \in Seq(C) /\ sibling_pool \in Seq(C)
    BY DEF Core, StacksOK
  <2> HIDE DEF C
  <2>2. sibling_counters # <<>>  BY <1>4, <1>6, EmptySeq
  <2>3. /\ Front(sibling_counters) \in Seq(C)
        /\ Len(Front(sibling_counters)) = Len(sibling_counters) - 1
        /\ Last(sibling_counters) \in C
    BY <2>1, <2>2, FrontLast
  <2>4. Recycle(sibling_pool, sibling_counters) \in Seq(C)
    BY <2>1, <2>2, <2>3, AppendProperties DEF Recycle
  <2>5. QED  BY <1>1, <1>6, <2>3, <2>4
<1>9. StacksAligned'
  <2>1. DOMAIN context_stack' = 1 .. n - 1  BY <1>5, LenProperties
  <2>2. \A k \in 1 .. n - 1 : descriptor_stack[k] = context_stack[k].descriptor_id
    <3>1. DOMAIN context_stack = 1 .. n
      BY LenProperties DEF Core, StacksOK
    <3>2. \A k \in 1 .. n : descriptor_stack[k] = context_stack[k].descriptor_id
      BY <3>1 DEF Core, StackInv, StacksAligned
    <3>3. QED  BY <1>4, <3>2
  <2>3. QED  BY <1>5, <1>7, <1>8, <2>1, <2>2 DEF StacksAligned
<1>10. OutputOK' /\ BufferBounded'
  <2>1. diags \in Seq(Diagnostics)  BY EvaluationsType DEF Core
  <2>2. QED  BY <1>1, <2>1, BufferStep DEF Core
<1>11. IsSeq(doc') /\ Len(doc') = Len(doc) - 1
  BY <1>1, CloseDoc DEF Core
<1>12. QED  BY <1>5, <1>7, <1>8, <1>9, <1>10, <1>11

(* handle_end in streaming mode.                                           *)
LEMMA CloseStreamingStep ==
  ASSUME Core, status = "reading", UNCHANGED <<tree, status>>, CloseStreaming
  PROVE  Core'
<1> DEFINE ctx  == Last(context_stack)
           view == StreamingViewOwned(ctx, Front(context_stack))
           n    == Len(context_stack)
<1>1. /\ context_stack # <<>> /\ IsStreaming /\ skip_depth = 0
      /\ RunRules(view, ctx.descriptor_id, ctx, ctx.text)
      /\ UNCHANGED <<ctx_pool, mode, skip_depth>>
  BY DEF CloseStreaming
<1>2. ctx \in NodeContexts /\ n \in Nat \ {0}
  BY <1>1, FrontLast, EmptySeq DEF Core, StacksOK
<1>3. mode = Streaming  BY <1>1 DEF Core, ModeOK, IsStreaming
<1>4. Len(doc) = n
  BY <1>1, <1>2, <1>3 DEF Core, StackInv, Accounted, IsCapturing, Streaming
<1>5. doc # <<>>  BY <1>2, <1>4, EmptyIsSeq
<1> HIDE DEF ctx, view
<1>6. /\ context_stack' \in Seq(NodeContexts)
      /\ descriptor_stack' \in Seq(NodeIds(tree))
      /\ sibling_counters' \in Seq([Hashes -> Nat])
      /\ sibling_pool' \in Seq([Hashes -> Nat])
      /\ Len(context_stack') = n - 1
      /\ StacksAligned'
      /\ OutputOK' /\ BufferBounded'
      /\ IsSeq(doc') /\ Len(doc') = Len(doc) - 1
  <2>1. ctx.descriptor_id \in NodeIds(tree) /\ ctx.text \in TextSeqs
    BY <1>2 DEF NodeContexts
  <2>2. QED  BY <1>1, <1>2, <1>5, <2>1, RunRulesStep
<1>7. StacksOK'
  BY <1>1, <1>6, SameTypes DEF Core, StacksOK
<1>8. ModeOK' /\ CaptureOnTop'
  BY <1>1, <1>3 DEF ModeOK, CaptureOnTop, IsCapturing, Streaming
<1>9. Accounted'
  BY <1>1, <1>2, <1>3, <1>4, <1>6 DEF Accounted, IsCapturing, Streaming
<1>10. QED
  BY <1>1, <1>6, <1>7, <1>8, <1>9 DEF Core, StackInv

(* handle_end on the captured element itself, back to streaming mode.      *)
LEMMA CloseCaptureStep ==
  ASSUME Core, status = "reading", UNCHANGED <<tree, status>>, CloseCapture
  PROVE  Core'
<1> DEFINE n     == Len(context_stack)
           index == mode.context_stack_index + 1
           ctx   == context_stack[index]
           root  == Finalize(EndElement(mode.builder))
           id    == mode.descriptor_id
           view  == SubtreeView(root, id, ctx.index,
                                SubSeq(context_stack, 1, index - 1))
<1>1. /\ skip_depth = 0 /\ IsCapturing /\ mode.depth = 1
      /\ mode' = Streaming
      /\ RunRules(view, id, ctx, root.text)
      /\ ctx_pool' = Release(ctx_pool, Last(context_stack))
      /\ UNCHANGED skip_depth
  BY DEF CloseCapture
<1>2. /\ context_stack # <<>> /\ index = n
      /\ Len(mode.builder.stack) = 1
  <2>1. n \in Nat  BY LenProperties DEF Core, StacksOK
  <2>2. QED  BY <1>1, <2>1 DEF Core, StackInv, CaptureOnTop
<1>3. IsBuilder(mode.builder) /\ id \in NodeIds(tree)
  BY <1>1 DEF Core, ModeOK, IsCapturing, Streaming
<1>4. /\ n \in Nat \ {0} /\ ctx \in NodeContexts
      /\ Last(context_stack) \in NodeContexts
  BY <1>2, FrontLast, EmptySeq, ElementOfSeq DEF Core, StacksOK
<1>5. root.text \in TextSeqs
  BY <1>2, <1>3, FinalizeBuilder DEF IsBuildNode
<1>6. Len(doc) = n
  BY <1>1, <1>4 DEF Core, StackInv, Accounted
<1>7. doc # <<>>  BY <1>4, <1>6, EmptyIsSeq
<1> HIDE DEF ctx, view, index, root, id
<1>8. /\ context_stack' \in Seq(NodeContexts)
      /\ descriptor_stack' \in Seq(NodeIds(tree))
      /\ sibling_counters' \in Seq([Hashes -> Nat])
      /\ sibling_pool' \in Seq([Hashes -> Nat])
      /\ Len(context_stack') = n - 1
      /\ StacksAligned'
      /\ OutputOK' /\ BufferBounded'
      /\ IsSeq(doc') /\ Len(doc') = Len(doc) - 1
  BY <1>1, <1>2, <1>3, <1>4, <1>5, <1>7, RunRulesStep
<1>9. ctx_pool' \in Seq(NodeContexts)
  <2> DEFINE last == Last(context_stack)
             d    == [last EXCEPT !.attrs = <<>>, !.text = <<>>, !.children = <<>>]
  <2>1. <<>> \in AttrSeqs /\ <<>> \in TextSeqs /\ <<>> \in Seq(ChildSummaries)
    BY EmptySeq DEF AttrSeqs, TextSeqs
  <2> HIDE DEF last
  <2>2. d \in NodeContexts  BY <1>4, <2>1 DEF NodeContexts, last
  <2>3. ctx_pool' = Append(ctx_pool, d)  BY <1>1 DEF Release, last
  <2> HIDE DEF d
  <2>4. QED  BY <2>2, <2>3, AppendProperties DEF Core, StacksOK
<1>10. StacksOK'
  BY <1>8, <1>9, SameTypes DEF StacksOK
<1>11. ModeOK' /\ CaptureOnTop'
  BY <1>1 DEF ModeOK, CaptureOnTop, IsCapturing, Streaming
<1>12. Accounted'
  BY <1>1, <1>4, <1>6, <1>8 DEF Accounted, IsCapturing, Streaming
<1>13. QED
  BY <1>1, <1>8, <1>10, <1>11, <1>12 DEF Core, StackInv

-----------------------------------------------------------------------------
(* The handlers as wholes.                                                 *)
LEMMA HandleStartStep ==
  ASSUME Core, status = "reading", tree' = tree,
         NEW tag \in Tags \cup {Garbled}, NEW attrs \in AttrLists,
         HandleStart(tag, attrs)
  PROVE  Core'
<1>1. attrs \in AttrSeqs  BY AttrListsAssumption DEF AttrSeqs
<1>2. /\ doc' = Open(doc, tag, attrs) /\ UNCHANGED output
      /\ IsSeq(doc') /\ Len(doc') = Len(doc) + 1 /\ Len(doc) \in Nat
  BY OpenDoc, AppendAny DEF HandleStart, Core
<1>3. CASE SkipStart
  <2>1. IsStreaming  BY <1>3, SkippingIsStreaming DEF SkipStart
  <2>2. /\ UNCHANGED <<stacks, mode, status>>
        /\ skip_depth' = skip_depth + 1 /\ skip_depth \in Nat
    BY <1>3 DEF SkipStart, Core
  <2>3. QED  BY <1>2, <2>1, <2>2, SkipStep
<1>4. CASE StartFails(tag, attrs)
  <2>1. status' \in {"XmlParse", "Utf8", "CaptureOverflow"}
    BY <1>4 DEF StartFails, StartError, AttrError
  <2>2. UNCHANGED <<tree, stacks, mode, skip_depth, output>>
    BY <1>2, <1>4 DEF StartFails
  <2>3. QED  BY <1>2, <2>1, <2>2, LocalsUnchanged
<1>5. CASE CaptureStart(tag, attrs)
  <2> DEFINE b     == StartElement(mode.builder, tag, attrs)
             depth == mode.depth + 1
  <2>1. /\ IsCapturing /\ UNCHANGED <<stacks, skip_depth, status>>
        /\ mode' = [mode EXCEPT !.builder = b, !.depth = depth]
    BY <1>5 DEF CaptureStart
  <2>2. IsBuilder(mode.builder) /\ mode.depth \in Nat
        /\ Len(mode.builder.stack) = mode.depth
    BY <2>1 DEF Core, ModeOK, IsCapturing, Streaming, StackInv, CaptureOnTop
  <2>3. IsBuilder(b) /\ Len(b.stack) = depth /\ depth \in Nat \ {0}
    BY <1>1, <2>2, StartElementBuilder
  <2>4. Len(doc') - Len(doc) = depth - mode.depth  BY <1>2, <2>2
  <2> HIDE DEF b, depth
  <2>5. QED  BY <1>2, <2>1, <2>3, <2>4, CaptureStep
<1>6. CASE OpenUndeclared(tag, attrs)
  <2>1. /\ IsStreaming /\ UNCHANGED <<stacks, mode, status>>
        /\ skip_depth = 0 /\ skip_depth' = 1
    BY <1>6 DEF OpenUndeclared
  <2>2. QED  BY <1>2, <2>1, SkipStep
<1>7. CASE OpenDeclared(tag, attrs)
  BY <1>1, <1>2, <1>7, OpenDeclaredStep
<1>8. QED  BY <1>3, <1>4, <1>5, <1>6, <1>7 DEF HandleStart

(* handle_end as a whole.                                                  *)
LEMMA HandleEndStep ==
  ASSUME Core, status = "reading", tree' = tree, HandleEnd
  PROVE  Core'
<1>1. status' = status  BY DEF HandleEnd
<1>2. Len(context_stack) \in Nat /\ Len(doc) \in Nat
  BY LenProperties DEF Core, StacksOK, IsSeq
<1>3. CASE SkipEnd
  <2>1. /\ skip_depth \in Nat \ {0} /\ skip_depth' = skip_depth - 1
        /\ doc' = Close(doc, <<>>) /\ UNCHANGED <<stacks, mode, output>>
    BY <1>3 DEF SkipEnd, Core
  <2>2. IsStreaming  BY <2>1, SkippingIsStreaming
  <2>3. Len(doc) # 0
    BY <1>2, <2>1, <2>2 DEF Core, StackInv, Accounted, IsCapturing, IsStreaming
  <2>4. doc # <<>>  BY <2>3, EmptyIsSeq
  <2>5. IsSeq(doc') /\ Len(doc') = Len(doc) - 1
    BY <2>1, <2>4, CloseDoc DEF Core
  <2>6. skip_depth' \in Nat /\ Len(doc') - Len(doc) = skip_depth' - skip_depth
    BY <1>2, <2>1, <2>5
  <2>7. QED  BY <1>1, <2>1, <2>2, <2>5, <2>6, SkipStep
<1>4. CASE CaptureEnd
  <2> DEFINE b     == EndElement(mode.builder)
             depth == mode.depth - 1
  <2>1. /\ IsCapturing /\ UNCHANGED <<stacks, skip_depth, output>>
        /\ mode' = [mode EXCEPT !.builder = b, !.depth = depth]
        /\ mode.depth # 1 /\ skip_depth = 0
        /\ doc' = Close(doc, <<>>)
    BY <1>4 DEF CaptureEnd
  <2>2. /\ IsBuilder(mode.builder) /\ mode.depth \in Nat /\ mode.depth > 0
        /\ Len(mode.builder.stack) = mode.depth
    BY <2>1 DEF Core, ModeOK, IsCapturing, Streaming, StackInv, CaptureOnTop
  <2>3. IsBuilder(b) /\ Len(b.stack) = depth /\ depth \in Nat \ {0}
    BY <2>1, <2>2, EndElementBuilder
  <2>4. Len(doc) # 0
    BY <1>2, <2>1, <2>2 DEF Core, StackInv, Accounted
  <2>5. doc # <<>>  BY <2>4, EmptyIsSeq
  <2>6. IsSeq(doc') /\ Len(doc') = Len(doc) - 1
    BY <2>1, <2>5, CloseDoc DEF Core
  <2>7. Len(doc') - Len(doc) = depth - mode.depth  BY <1>2, <2>2, <2>6
  <2> HIDE DEF b, depth
  <2>8. QED  BY <1>1, <2>1, <2>3, <2>6, <2>7, CaptureStep
<1>5. CASE CloseCapture  BY <1>1, <1>5, CloseCaptureStep
<1>6. CASE CloseStreaming  BY <1>1, <1>6, CloseStreamingStep
<1>7. QED  BY <1>3, <1>4, <1>5, <1>6 DEF HandleEnd

(* The Text arm of the event loop.                                         *)
LEMMA TextStep ==
  ASSUME Core, status = "reading", UNCHANGED <<tree, skip_depth, output>>,
         NEW piece \in Texts \cup {Garbled}, doc' = AddText(doc, piece),
         IgnoreText \/ TextFails(piece) \/ CaptureText(piece) \/ AppendText(piece)
  PROVE  Core'
<1>1. IsSeq(doc') /\ Len(doc') = Len(doc) /\ Len(doc) \in Nat
  BY AddTextDoc, LenProperties DEF Core, IsSeq
<1>2. CASE IgnoreText
  <2>1. UNCHANGED <<tree, stacks, mode, skip_depth, output, status>>
    BY <1>2 DEF IgnoreText
  <2>2. QED  BY <1>1, <2>1, LocalsUnchanged
<1>3. CASE TextFails(piece)
  <2>1. /\ UNCHANGED <<tree, stacks, mode, skip_depth, output>>
        /\ status' \in {"XmlParse", "CaptureOverflow"}
    BY <1>3 DEF TextFails
  <2>2. QED  BY <1>1, <2>1, LocalsUnchanged
<1>4. CASE CaptureText(piece)
  <2> DEFINE b     == TextPiece(mode.builder, piece)
             depth == mode.depth
  <2>1. /\ IsCapturing /\ UNCHANGED <<stacks, status>>
        /\ mode' = [mode EXCEPT !.builder = b]
        /\ piece \in Texts
    BY <1>4 DEF CaptureText
  <2>2. /\ IsBuilder(mode.builder) /\ depth \in Nat \ {0}
        /\ Len(mode.builder.stack) = depth
    BY <2>1 DEF Core, ModeOK, IsCapturing, Streaming, StackInv, CaptureOnTop
  <2>3. IsBuilder(b) /\ Len(b.stack) = depth
    BY <2>1, <2>2, TextPieceBuilder
  <2>4. mode' = [mode EXCEPT !.builder = b, !.depth = depth]
    <3>1. mode \in [kind : {"Capturing"}, builder : {mode.builder}, depth : Nat,
                    descriptor_id : NodeIds(tree), context_stack_index : Nat]
      BY <2>1 DEF Core, ModeOK, IsCapturing, Streaming
    <3> HIDE DEF b
    <3>2. QED  BY <2>1, <3>1
  <2>5. Len(doc') - Len(doc) = depth - mode.depth  BY <1>1, <2>2
  <2> HIDE DEF b, depth
  <2>6. QED  BY <1>1, <2>1, <2>2, <2>3, <2>4, <2>5, CaptureStep
<1>5. CASE AppendText(piece)
  <2> DEFINE n    == Len(context_stack)
             c    == context_stack[n]
             text == Append(c.text, piece)
             d    == [c EXCEPT !.text = text]
  <2>1. /\ IsStreaming /\ skip_depth = 0 /\ context_stack # <<>>
        /\ piece \in Texts
        /\ context_stack' = [context_stack EXCEPT ![n] = d]
        /\ UNCHANGED <<descriptor_stack, sibling_counters, sibling_pool,
                       ctx_pool, mode, status>>
    BY <1>5 DEF AppendText, TextWanted, IsStreaming, IsCapturing
  <2>2. n \in 1 .. n /\ n \in Nat /\ c \in NodeContexts
    BY <2>1, EmptySeq, ElementOfSeq, LenProperties DEF Core, StacksOK
  <2>3. text \in TextSeqs
    BY <2>1, <2>2, AppendProperties DEF NodeContexts, TextSeqs
  <2> HIDE DEF text
  <2>4. d \in NodeContexts /\ d.descriptor_id = c.descriptor_id
    BY <2>2, <2>3 DEF NodeContexts
  <2> HIDE DEF d
  <2>5. /\ context_stack' \in Seq(NodeContexts)
        /\ Len(context_stack') = n
        /\ \A k \in 1 .. n : context_stack'[k].descriptor_id
                              = context_stack[k].descriptor_id
    BY <2>1, <2>2, <2>4, ExceptSeq DEF Core, StacksOK
  <2>6. StacksAligned'
    <3>1. DOMAIN context_stack = 1 .. n /\ DOMAIN context_stack' = 1 .. n
      BY <2>5, LenProperties DEF Core, StacksOK
    <3>2. QED  BY <2>1, <2>5, <3>1 DEF Core, StackInv, StacksAligned
  <2>7. StacksOK' /\ OutputOK' /\ BufferBounded'
    BY <2>1, <2>5, SameTypes
       DEF Core, StacksOK, OutputOK, StackInv, BufferBounded, output
  <2>8. mode = Streaming /\ mode' = Streaming
    BY <2>1 DEF Core, ModeOK, IsStreaming
  <2>9. ModeOK' /\ CaptureOnTop'
    BY <2>8 DEF ModeOK, CaptureOnTop, IsCapturing, Streaming
  <2>10. Accounted'
    BY <1>1, <2>1, <2>5, <2>8 DEF Core, StackInv, Accounted, IsCapturing, Streaming
  <2>11. QED  BY <1>1, <2>1, <2>6, <2>7, <2>9, <2>10 DEF Core, StackInv
<1>6. QED  BY <1>2, <1>3, <1>4, <1>5

(* The end of the input, with its last flush.                              *)
LEMMA EofStep ==
  ASSUME Core, Eof
  PROVE  Core'
<1>1. /\ sent' = sent \o diag_buffer /\ diag_buffer' = <<>>
      /\ status' = "ok"
      /\ UNCHANGED <<tree, doc, stacks, mode, skip_depth>>
  BY DEF Eof, FlushDiagnostics
<1>2. OutputOK' /\ BufferBounded'
  BY <1>1, SameTypes, EmptySeq, ConcatProperties, BoundsAssumption
     DEF Core, OutputOK, BufferBounded
<1>3. StacksOK' /\ ModeOK'
  BY <1>1, SameTypes DEF Core, StacksOK, ModeOK, stacks, IsBuilder, IsBuildNode
<1>4. StacksAligned' /\ CaptureOnTop' /\ Accounted'
  BY <1>1 DEF Core, StackInv, StacksAligned, CaptureOnTop, Accounted, stacks,
              IsCapturing
<1>5. QED  BY <1>1, <1>2, <1>3, <1>4 DEF Core, StackInv

-----------------------------------------------------------------------------
(* TypeOK and StackInv are inductive together.                             *)
IInv == TypeOK /\ StackInv

(* The inductive invariant holds initially.                                *)
LEMMA InitIInv == Init => IInv
<1> SUFFICES ASSUME Init PROVE IInv
  OBVIOUS
<1>1. TypeOK
  <2>1. StacksOK /\ OutputOK
    BY EmptySeq DEF Init, StacksOK, OutputOK
  <2>2. ModeOK  BY DEF Init, ModeOK
  <2>3. IsSeq(doc)  BY EmptyIsSeq DEF Init
  <2>4. events \in 0 .. MaxEvents  BY BoundsAssumption DEF Init
  <2>5. QED  BY <2>1, <2>2, <2>3, <2>4 DEF Init, TypeOK
<1>2. DOMAIN context_stack = {}  BY DEF Init
<1>3. StackInv
  BY <1>2, EmptyIsSeq, BoundsAssumption
     DEF Init, StackInv, StacksAligned, CaptureOnTop, Accounted, BufferBounded,
         IsCapturing, Streaming
<1>4. QED  BY <1>1, <1>3 DEF IInv

(* Every event preserves the inductive invariant.                          *)
LEMMA IInvStep == IInv /\ [Next]_vars => IInv'
<1> SUFFICES ASSUME IInv, [Next]_vars PROVE IInv'
  OBVIOUS
<1>1. Core /\ events \in 0 .. MaxEvents /\ selfclosing \in BOOLEAN
  BY DEF IInv, TypeOK, Core
<1> SUFFICES Core' /\ events' \in 0 .. MaxEvents /\ selfclosing' \in BOOLEAN
  BY DEF IInv, TypeOK, Core
<1>2. ReadEvent => /\ events' \in 0 .. MaxEvents /\ status = "reading"
                   /\ tree' = tree
  BY <1>1, BoundsAssumption DEF ReadEvent
<1>3. ASSUME NEW tag \in TagsOf, NEW attrs \in AttrListsOf, StartTag(tag, attrs)
      PROVE  Core' /\ events' \in 0 .. MaxEvents /\ selfclosing' \in BOOLEAN
  <2>1. tag \in Tags \cup {Garbled} /\ attrs \in AttrLists
    BY DEF TagsOf, AttrListsOf
  <2>2. Core'  BY <1>1, <1>2, <1>3, <2>1, HandleStartStep DEF StartTag
  <2>3. QED  BY <1>2, <1>3, <2>2 DEF StartTag
<1>4. CASE EndTag
  BY <1>1, <1>2, <1>4, HandleEndStep DEF EndTag
<1>5. CASE SelfClose
  BY <1>1, <1>5, HandleEndStep DEF SelfClose
<1>6. ASSUME NEW piece \in TextsOf, TextRun(piece)
      PROVE  Core' /\ events' \in 0 .. MaxEvents /\ selfclosing' \in BOOLEAN
  <2>1. piece \in Texts \cup {Garbled}  BY DEF TextsOf
  <2>2. Core'  BY <1>1, <1>2, <1>6, <2>1, TextStep DEF TextRun
  <2>3. QED  BY <1>1, <1>2, <1>6, <2>2 DEF TextRun
<1>7. CASE TokenizerError
  <2>1. Core'
    BY <1>1, <1>2, <1>7, LocalsUnchanged DEF TokenizerError, Core
  <2>2. QED  BY <1>1, <1>2, <1>7, <2>1 DEF TokenizerError
<1>8. CASE Eof
  <2>1. Core'  BY <1>1, <1>8, EofStep
  <2>2. QED  BY <1>1, <1>8, <2>1 DEF Eof
<1>9. CASE UNCHANGED vars
  <2>1. Core'
    BY <1>1, <1>9, LocalsUnchanged DEF vars, Core
  <2>2. QED  BY <1>1, <1>9, <2>1 DEF vars
<1>10. ASSUME NEW event \in OtherData, IgnoreOther(event)
       PROVE  Core' /\ events' \in 0 .. MaxEvents /\ selfclosing' \in BOOLEAN
  <2>1. IsSeq(doc') /\ Len(doc') = Len(doc)
    BY <1>1, <1>10, AddOtherDoc DEF IgnoreOther, Core
  <2>2. Core'
    BY <1>1, <1>2, <1>10, <2>1, LocalsUnchanged DEF IgnoreOther, Core
  <2>3. QED  BY <1>1, <1>2, <1>10, <2>2 DEF IgnoreOther
<1>11. QED
  BY <1>3, <1>4, <1>5, <1>6, <1>7, <1>8, <1>9, <1>10 DEF Next, Returned

(* No sequence of events, whatever the rules answer and wherever an error  *)
(* strikes, makes a local of parse_file hold a value of the wrong kind: in *)
(* particular no counter goes below zero and every descriptor id on a      *)
(* stack is one of the tree.                                               *)
THEOREM TypeCorrect == Spec => []TypeOK
<1>1. IInv => TypeOK  BY DEF IInv
<1>2. QED  BY InitIInv, IInvStep, <1>1, PTL DEF Spec

(* For every tree and document, the stacks stay aligned, every open        *)
(* element is accounted for, a capture always belongs to the innermost     *)
(* context (so none of the panics of handle_end and CaptureBuilder can     *)
(* fire), and less than a full buffer of diagnostics is ever held back.    *)
THEOREM StacksConsistent == Spec => []StackInv
<1>1. IInv => StackInv  BY DEF IInv
<1>2. QED  BY InitIInv, IInvStep, <1>1, PTL DEF Spec

-----------------------------------------------------------------------------
(***************************************************************************)
(* Parser implements FileOutput.  OutputEffect sorts the events by what    *)
(* they do to the diagnostics; each sort is a step of FileOutput or a      *)
(* stutter, from the inductive invariant above.                            *)
(***************************************************************************)

(* buffer_diagnostic only moves the border between what is sent and what   *)
(* waits: nothing is lost, repeated or reordered.                          *)
LEMMA BufferKeepsOrder ==
  ASSUME OutputOK, NEW diags \in Seq(Diagnostics), BufferDiagnostics(diags)
  PROVE  /\ sent' \o diag_buffer' = (sent \o diag_buffer) \o diags
         /\ IsPrefix(sent, sent')
<1> DEFINE all == diag_buffer \o diags
           n   == Flushed(Len(all))
           a   == SubSeq(all, 1, n)
           b   == SubSeq(all, n + 1, Len(all))
<1>1. all \in Seq(Diagnostics) /\ Len(all) \in Nat
  BY ConcatProperties, LenProperties DEF OutputOK
<1>2. n \in 0 .. Len(all)
  <2> HIDE DEF all
  <2> QED  BY <1>1, FlushedBounds
<1>3. sent' = sent \o a /\ diag_buffer' = b
  BY DEF BufferDiagnostics
<1> HIDE DEF all, n
<1>4. \A i \in 1 .. Len(all) : all[i] \in Diagnostics
  BY <1>1, ElementOfSeq
<1>5. a \in Seq(Diagnostics) /\ b \in Seq(Diagnostics)
  <2>1. n \in Int /\ \A i \in 1 .. n : all[i] \in Diagnostics
    BY <1>1, <1>2, <1>4
  <2> DEFINE m == n + 1  k == Len(all)
  <2>2. m \in Int /\ k \in Int /\ \A i \in m .. k : all[i] \in Diagnostics
    BY <1>1, <1>2, <1>4
  <2>3. SubSeq(all, 1, n) \in Seq(Diagnostics)  BY <2>1, SubSeqProperties
  <2>4. SubSeq(all, n + 1, Len(all)) \in Seq(Diagnostics)
    <3> HIDE DEF m, k
    <3>1. SubSeq(all, m, k) \in Seq(Diagnostics)  BY <2>2, SubSeqProperties
    <3>2. QED  BY <3>1 DEF m, k
  <2>5. QED  BY <2>3, <2>4
<1>6. a \o b = all
  <2>1. /\ 1 \in 1 .. Len(all) + 1 /\ n \in 1 - 1 .. Len(all)
        /\ Len(all) \in n .. Len(all)
    BY <1>1, <1>2
  <2>2. a \o b = SubSeq(all, 1, Len(all))
    BY <1>1, <2>1, ConcatAdjacentSubSeq
  <2>3. QED  BY <1>1, <2>2, SubSeqFull
<1> HIDE DEF a, b
<1>7. sent' \o diag_buffer' = sent \o all
  <2>1. (sent \o a) \o b = sent \o (a \o b)
    BY <1>5, ConcatAssociative, SMTT(40) DEF OutputOK
  <2>2. QED  BY <1>3, <1>6, <2>1
<1>8. sent \o all = (sent \o diag_buffer) \o diags
  BY ConcatAssociative, SMTT(40) DEF OutputOK, all
<1>9. QED  BY <1>3, <1>5, <1>7, <1>8, PrefixOfConcat DEF OutputOK

-----------------------------------------------------------------------------
(* What an event can do to the diagnostics: nothing, or buffer those of    *)
(* one element's rules.                                                    *)
OutputKept == UNCHANGED output
OutputGrows ==
  \E diags \in Seq(Diagnostics) : BufferDiagnostics(diags) /\ UNCHANGED status

(* An end tag buffers the diagnostics of the declaration it closes, if it  *)
(* closes one.                                                             *)
LEMMA HandleEndOutput ==
  ASSUME Core, HandleEnd
  PROVE  UNCHANGED status /\ (OutputKept \/ OutputGrows)
<1>1. UNCHANGED status  BY DEF HandleEnd
<1>2. CASE SkipEnd \/ CaptureEnd
  BY <1>1, <1>2 DEF SkipEnd, CaptureEnd, OutputKept
<1>3. ASSUME NEW node \in NodeIds(tree),
             \E diags \in Evaluations(tree, node) : BufferDiagnostics(diags)
      PROVE  OutputGrows
  BY <1>1, <1>3, EvaluationsType DEF Core, OutputGrows
<1>4. CASE CloseCapture
  <2>1. mode.descriptor_id \in NodeIds(tree)
    BY <1>4 DEF CloseCapture, Core, ModeOK, IsCapturing, Streaming
  <2>2. \E diags \in Evaluations(tree, mode.descriptor_id) : BufferDiagnostics(diags)
    BY <1>4 DEF CloseCapture, RunRules
  <2>3. QED  BY <1>1, <1>3, <2>1, <2>2
<1>5. CASE CloseStreaming
  <2> DEFINE node == Last(context_stack).descriptor_id
  <2>1. Last(context_stack) \in NodeContexts
    BY <1>5, FrontLast DEF CloseStreaming, Core, StacksOK
  <2>2. node \in NodeIds(tree)
    BY <2>1 DEF NodeContexts
  <2>3. \E diags \in Evaluations(tree, node) : BufferDiagnostics(diags)
    BY <1>5 DEF CloseStreaming, RunRules
  <2> HIDE DEF node
  <2>4. QED  BY <1>1, <1>3, <2>2, <2>3
<1>6. QED  BY <1>1, <1>2, <1>4, <1>5 DEF HandleEnd

(* The errors with which the event loop returns.                           *)
ErrorStatuses == {"XmlParse", "Utf8", "CaptureOverflow"}

(* Every event keeps the output, grows it, or ends the file: with an error *)
(* the output stays as it is, at the end of the input it is flushed.       *)
LEMMA OutputEffect ==
  ASSUME Core, [Next]_vars
  PROVE  \/ OutputKept /\ UNCHANGED status
         \/ status = "reading" /\ OutputGrows
         \/ status = "reading" /\ OutputKept /\ status' \in ErrorStatuses
         \/ status = "reading" /\ FlushDiagnostics /\ status' = "ok"
<1> USE DEF OutputKept
<1>1. ASSUME NEW tag \in TagsOf, NEW attrs \in AttrListsOf, StartTag(tag, attrs)
      PROVE  /\ status = "reading" /\ OutputKept
             /\ UNCHANGED status \/ status' \in ErrorStatuses
  <2>1. status = "reading" /\ HandleStart(tag, attrs)
    BY <1>1 DEF StartTag, ReadEvent
  <2>2. StartFails(tag, attrs) => status' \in ErrorStatuses
    BY DEF StartFails, StartError, AttrError, ErrorStatuses
  <2>3. QED
    BY <2>1, <2>2 DEF HandleStart, SkipStart, CaptureStart, OpenUndeclared,
                      OpenDeclared
<1>2. CASE EndTag
  BY <1>2, HandleEndOutput DEF EndTag, ReadEvent
<1>3. CASE SelfClose
  BY <1>3, HandleEndOutput DEF SelfClose
<1>4. ASSUME NEW piece \in TextsOf, TextRun(piece)
      PROVE  /\ status = "reading" /\ OutputKept
             /\ UNCHANGED status \/ status' \in ErrorStatuses
  BY <1>4 DEF TextRun, ReadEvent, IgnoreText, TextFails, CaptureText,
              AppendText, ErrorStatuses
<1>5. CASE TokenizerError
  BY <1>5 DEF TokenizerError, ReadEvent, ErrorStatuses
<1>6. ASSUME NEW event \in OtherData, IgnoreOther(event)
      PROVE  OutputKept /\ UNCHANGED status
  BY <1>6 DEF IgnoreOther
<1>7. CASE Eof
  BY <1>7 DEF Eof
<1>8. CASE UNCHANGED vars \/ Returned
  BY <1>8 DEF vars, Returned
<1>9. QED
  BY <1>1, <1>2, <1>3, <1>4, <1>5, <1>6, <1>7, <1>8 DEF Next

-----------------------------------------------------------------------------
(* A file starts with no diagnostics, and perhaps already refused.         *)
LEMMA OutputInit == Init => FO!Init
<1> SUFFICES ASSUME Init PROVE FO!Init
  OBVIOUS
<1>1. sent = <<>> /\ diag_buffer = <<>> /\ status \in {"reading", "Utf8"}
  BY DEF Init
<1>2. sent \o diag_buffer = <<>>  BY <1>1
<1>3. QED  BY <1>1, <1>2 DEF FO!Init

(* Every event is a step of FileOutput or leaves it as it is.              *)
LEMMA OutputStep == IInv /\ IInv' /\ [Next]_vars => [FO!Next]_FO!vars
<1> SUFFICES ASSUME IInv, IInv', [Next]_vars PROVE [FO!Next]_FO!vars
  OBVIOUS
<1> DEFINE produced == sent \o diag_buffer
<1>1. /\ Core
      /\ sent \in Seq(Diagnostics) /\ diag_buffer \in Seq(Diagnostics)
      /\ Len(diag_buffer) < DiagBuffer
      /\ Len(sent) \in Nat /\ Len(diag_buffer) \in Nat
      /\ Len(produced) = Len(sent) + Len(diag_buffer)
      /\ produced \in Seq(Diagnostics)
  BY LenProperties, ConcatProperties
     DEF IInv, TypeOK, Core, OutputOK, StackInv, BufferBounded
<1>2. /\ IsSeq(sent') /\ IsSeq(diag_buffer')
      /\ Len(diag_buffer') < DiagBuffer
  <2>1. Len(diag_buffer') < DiagBuffer  BY DEF IInv, StackInv, BufferBounded
  <2>2. sent' \in Seq(Diagnostics') /\ diag_buffer' \in Seq(Diagnostics')
    BY DEF IInv, TypeOK, OutputOK
  <2>3. QED  BY <2>1, <2>2, IsSeqOf
<1>3. CASE OutputKept /\ UNCHANGED status
  BY <1>3 DEF OutputKept, output, FO!vars
<1>4. CASE status = "reading" /\ OutputGrows
  <2>1. PICK diags \in Seq(Diagnostics) :
          BufferDiagnostics(diags) /\ UNCHANGED status
    BY <1>4 DEF OutputGrows
  <2>2. /\ produced' = produced \o diags
        /\ IsPrefix(sent, sent')
    BY <1>1, <2>1, BufferKeepsOrder DEF Core
  <2>3. IsPrefix(produced, produced')
    BY <1>1, <2>2, PrefixOfConcat
  <2>4. IsPrefix(sent', produced') /\ Len(produced') - Len(sent') <= DiagBuffer
    <3> DEFINE S == Range(sent') \cup Range(diag_buffer')
    <3>1. sent' \in Seq(S) /\ diag_buffer' \in Seq(S)
      BY <1>2, SeqMonotonic DEF IsSeq
    <3>2. /\ Len(sent') \in Nat /\ Len(diag_buffer') \in Nat
          /\ Len(produced') = Len(sent') + Len(diag_buffer')
      BY <3>1, LenProperties, ConcatProperties
    <3>3. IsPrefix(sent', produced')  BY <3>1, PrefixOfConcat
    <3>4. QED  BY <1>2, <3>2, <3>3, BoundsAssumption
  <2>5. \A s, t : FO!IsPrefix(s, t) <=> IsPrefix(s, t)
    BY DEF FO!IsPrefix, IsPrefix
  <2> HIDE DEF produced
  <2>6. /\ FO!IsPrefix(produced, produced')
        /\ FO!IsPrefix(sent, sent')
        /\ FO!IsPrefix(sent', produced')
    BY <2>2, <2>3, <2>4, <2>5
  <2>7. FO!Progress
    BY <1>4, <2>1, <2>4, <2>6 DEF FO!Progress, produced
  <2>8. QED  BY <2>7 DEF FO!Next
<1>5. CASE status = "reading" /\ OutputKept /\ status' \in ErrorStatuses
  <2>1. Len(produced) - Len(sent) < DiagBuffer  BY <1>1, BoundsAssumption
  <2>2. FO!Reject
    BY <1>5, <2>1 DEF FO!Reject, OutputKept, output, ErrorStatuses
  <2>3. QED  BY <2>2 DEF FO!Next
<1>6. CASE status = "reading" /\ FlushDiagnostics /\ status' = "ok"
  <2>1. sent' = produced /\ diag_buffer' = <<>>
    BY <1>6 DEF FlushDiagnostics
  <2>2. produced' = produced
    BY <1>1, <2>1, ConcatEmptySeq
  <2>3. FO!Accept  BY <1>6, <2>1, <2>2 DEF FO!Accept
  <2>4. QED  BY <2>3 DEF FO!Next
<1>7. QED  BY <1>1, <1>3, <1>4, <1>5, <1>6, OutputEffect

(* For every tree, document, buffer size and outcome of the rules, the     *)
(* receiver gets of a file what FileOutput promises: its diagnostics in    *)
(* order, each once, all of them if the file is accepted, and less than a  *)
(* full buffer short if it is rejected.                                    *)
THEOREM OutputImplemented == Spec => DeliversInOrder
<1>1. Spec => []IInv
  BY InitIInv, IInvStep, PTL DEF Spec
<1>2. QED
  BY <1>1, OutputInit, OutputStep, PTL DEF Spec, DeliversInOrder, FO!Spec
=============================================================================
