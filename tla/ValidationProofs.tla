-------------------------- MODULE ValidationProofs --------------------------
(***************************************************************************)
(* Parser implements DocumentValidation, and an element's index is its     *)
(* place among the siblings of its tag: under the hypothesis that hash_tag *)
(* gives no two tags the same hash, for the parser counts siblings by hash *)
(* only; and the former if the rules of a declaration fit in the word that *)
(* holds their results (RulesFit).  Told is what has to be known, beyond   *)
(* FInv, of the contexts, the counters and the builder for that; it is     *)
(* kept by every event while a document is read.  Only what it says of     *)
(* counters, of the indexes read from them and of the summaries that hold  *)
(* these and the results is under the hypotheses.                          *)
(*                                                                         *)
(* The last section is about the memory of a capture: it stays within its  *)
(* limit, whatever the hashes.                                             *)
(***************************************************************************)
EXTENDS ContextProofs, CaptureMemory

(* A file starts as DocumentValidation has it.                             *)
LEMMA ValidationInit == Init => DV!Init
<1> SUFFICES ASSUME Init PROVE DV!Init
  OBVIOUS
<1>1. sent \o diag_buffer = <<>>  BY DEF Init
<1>2. QED  BY <1>1 DEF Init, DV!Init

(* DocumentValidation speaks of documents, trees and views in the words    *)
(* that the parser's modules use.                                          *)
LEMMA SameWords ==
  /\ \A d, k : DV!PathOfDoc(d, k) = PathOfDoc(d, k)
  /\ \A d, tag, attrs : DV!Open(d, tag, attrs) = Open(d, tag, attrs)
  /\ \A d, piece : DV!AddText(d, piece) = AddText(d, piece)
  /\ \A d : DV!AddOther(d) = AddOther(d)
  /\ \A e : DV!Dom(e) = Dom(e)
  /\ \A d : DV!Last(d) = Last(d) /\ DV!Front(d) = Front(d)
  /\ \A d : DV!SiblingIndex(d) = SiblingIndex(d)
  /\ \A d, childVerdicts : DV!Close(d, childVerdicts) = Close(d, childVerdicts)
  /\ \A d, n, results : DV!ChildVerdict(d, n, results) = ChildVerdict(d, n, results)
  /\ \A n : DV!Evaluations(tree, n) = Evaluations(tree, n)
  /\ \A n, diags : DV!Passed(tree, n, diags) = Passed(tree, n, diags)
  /\ DV!NodeIds(tree) = NodeIds(tree)
  /\ \A needs : DV!IsCapture(needs) <=> IsCapture(needs)
  /\ \A s, t : DV!IsPrefix(s, t) <=> IsPrefix(s, t)
<1>1. /\ \A d, k : DV!PathOfDoc(d, k) = PathOfDoc(d, k)
      /\ \A needs : DV!IsCapture(needs) <=> IsCapture(needs)
  BY DEF DV!PathOfDoc, PathOfDoc, DV!IsCapture, IsCapture
<1>2. \A d, tag, attrs : DV!Open(d, tag, attrs) = Open(d, tag, attrs)
  BY DEF DV!Open, Open, DV!Element, Element
<1>3. \A d, piece : DV!AddText(d, piece) = AddText(d, piece)
  BY DEF DV!AddText, AddText
<1>4. \A d : DV!AddOther(d) = AddOther(d)
  BY DEF DV!AddOther, AddOther
<1>5. \A e : DV!Dom(e) = Dom(e)
  BY DEF DV!Dom, Dom
<1>6. \A d : DV!Last(d) = Last(d) /\ DV!Front(d) = Front(d)
  BY DEF DV!Last, Last, DV!Front, Front
<1>7. \A d : DV!SiblingIndex(d) = SiblingIndex(d)
  <2>1. \A S : DV!Cardinality(S) = Cardinality(S)
    BY DEF DV!Cardinality, Cardinality
  <2>2. QED  BY <1>6, <2>1 DEF DV!SiblingIndex, SiblingIndex
<1>8. \A d, childVerdicts : DV!Close(d, childVerdicts) = Close(d, childVerdicts)
  BY <1>5, <1>6 DEF DV!Close, Close
<1>9. \A d, n, results : DV!ChildVerdict(d, n, results) = ChildVerdict(d, n, results)
  BY <1>6, <1>7 DEF DV!ChildVerdict, ChildVerdict
<1>10. /\ \A n : DV!Evaluations(tree, n) = Evaluations(tree, n)
       /\ \A n, diags : DV!Passed(tree, n, diags) = Passed(tree, n, diags)
  <2>1. \A n : DV!Diagnostic(tree, n) = Diagnostic(tree, n)
    BY DEF DV!Diagnostic, Diagnostic
  <2>2. \A n : DV!Evaluations(tree, n) = Evaluations(tree, n)
    BY <2>1 DEF DV!Evaluations, Evaluations
  <2>3. \A n, diags : DV!Passed(tree, n, diags) = Passed(tree, n, diags)
    BY DEF DV!Passed, Passed
  <2>4. QED  BY <2>2, <2>3
<1>11. DV!NodeIds(tree) = NodeIds(tree)
  BY DEF DV!NodeIds, NodeIds
<1>12. \A s, t : DV!IsPrefix(s, t) <=> IsPrefix(s, t)
  BY DEF DV!IsPrefix, IsPrefix
<1>13. QED
  BY <1>1, <1>2, <1>3, <1>4, <1>5, <1>6, <1>7, <1>8, <1>9, <1>10, <1>11, <1>12

-----------------------------------------------------------------------------
(* The children with a tag, which is what an index counts.                 *)
Count(children, tag) == Cardinality({i \in DOMAIN children : children[i].tag = tag})

(* One more child counts for its own tag and for no other.                 *)
LEMMA CountAppend ==
  ASSUME NEW s, IsSeq(s), NEW e, NEW tag
  PROVE  /\ Count(s, tag) \in Nat
         /\ Count(<<>>, tag) = 0
         /\ Count(Append(s, e), tag) = Count(s, tag) + (IF e.tag = tag THEN 1 ELSE 0)
<1> DEFINE n == Len(s)
           r == Append(s, e)
           A == {i \in 1 .. n : s[i].tag = tag}
           B == {i \in 1 .. n + 1 : r[i].tag = tag}
<1>1. /\ n \in Nat /\ DOMAIN s = 1 .. n
      /\ DOMAIN r = 1 .. n + 1
      /\ \A i \in 1 .. n : r[i] = s[i]
      /\ r[n + 1] = e
  BY AppendAny, LenProperties DEF IsSeq
<1> HIDE DEF n, r
<1>2. IsFiniteSet(A) /\ Cardinality(A) \in Nat
  <2>1. IsFiniteSet(1 .. n)  BY <1>1, FS_Interval
  <2>2. A \in SUBSET (1 .. n)  OBVIOUS
  <2> HIDE DEF A
  <2>3. QED  BY <2>1, <2>2, FS_Subset, FS_CardinalityType
<1>3. B = IF e.tag = tag THEN A \cup {n + 1} ELSE A
  <2>1. \A i \in 1 .. n + 1 : i \in 1 .. n \/ i = n + 1  BY <1>1
  <2>2. \A i \in 1 .. n : i \in 1 .. n + 1 /\ i # n + 1  BY <1>1
  <2>3. n + 1 \in 1 .. n + 1  BY <1>1
  <2>4. QED  BY <1>1, <2>1, <2>2, <2>3
<1>4. n + 1 \notin A  BY <1>1
<1> HIDE DEF A, B
<1>5. Cardinality(B) = Cardinality(A) + (IF e.tag = tag THEN 1 ELSE 0)
  <2>1. CASE e.tag = tag
    <3>1. Cardinality(A \cup {n + 1}) = Cardinality(A) + 1
      BY <1>2, <1>4, FS_AddElement
    <3>2. QED  BY <1>3, <2>1, <3>1
  <2>2. CASE e.tag # tag  BY <1>2, <1>3, <2>2
  <2>3. QED  BY <2>1, <2>2
<1>6. Count(s, tag) = Cardinality(A) /\ Count(r, tag) = Cardinality(B)
  BY <1>1 DEF Count, A, B
<1>7. Count(<<>>, tag) = 0
  <2>1. {i \in DOMAIN <<>> : <<>>[i].tag = tag} = {}  OBVIOUS
  <2>2. QED  BY <2>1, FS_EmptySet DEF Count
<1>8. QED  BY <1>2, <1>5, <1>6, <1>7 DEF r

(* An account of a child without what its parent may not have asked for.   *)
BriefOf(summary) == [summary EXCEPT !.attrs = <<>>, !.text = <<>>]

(* Accounts that agree in brief still do when one is added to each.        *)
LEMMA BriefAppend ==
  ASSUME NEW s, IsSeq(s), NEW t, IsSeq(t), DV!Brief(s) = DV!Brief(t),
         NEW e, NEW f, BriefOf(e) = BriefOf(f)
  PROVE  DV!Brief(Append(s, e)) = DV!Brief(Append(t, f))
<1> DEFINE r == Append(s, e)
           q == Append(t, f)
           n == Len(s)
<1>1. \A u : DV!Brief(u) = [i \in DOMAIN u |-> BriefOf(u[i])]
  BY DEF DV!Brief, BriefOf
<1>2. /\ DOMAIN s = 1 .. n /\ n \in Nat /\ DOMAIN t = 1 .. Len(t) /\ Len(t) \in Nat
      /\ DOMAIN r = 1 .. n + 1 /\ DOMAIN q = 1 .. Len(t) + 1
      /\ \A i \in 1 .. n : r[i] = s[i]
      /\ \A i \in 1 .. Len(t) : q[i] = t[i]
      /\ r[n + 1] = e /\ q[Len(t) + 1] = f
  BY AppendAny, LenProperties DEF IsSeq
<1>3. DOMAIN s = DOMAIN t
  BY <1>1
<1>4. Len(t) = n
  <2> DEFINE m == Len(t)
  <2>1. n \in Nat /\ m \in Nat /\ 1 .. n = 1 .. m  BY <1>2, <1>3
  <2> HIDE DEF n, m
  <2>2. \A i \in Nat : i > 0 /\ i <= n <=> i > 0 /\ i <= m
    <3>1. \A i \in Nat : i \in 1 .. n <=> i \in 1 .. m  BY <2>1
    <3>2. QED  BY <2>1, <3>1
  <2>3. n <= m /\ m <= n  BY <2>1, <2>2
  <2>4. m = n  BY <2>1, <2>3
  <2>5. QED  BY <2>4 DEF m
<1>5. \A i \in 1 .. n : BriefOf(s[i]) = BriefOf(t[i])
  <2>1. \A i \in 1 .. n : [j \in DOMAIN s |-> BriefOf(s[j])][i]
                         = [j \in DOMAIN t |-> BriefOf(t[j])][i]
    BY <1>1
  <2>2. QED  BY <1>2, <1>3, <2>1
<1> HIDE DEF r, q, n
<1>6. \A i \in 1 .. n + 1 : BriefOf(r[i]) = BriefOf(q[i])
  <2>1. \A i \in 1 .. n + 1 : i \in 1 .. n \/ i = n + 1  BY <1>2
  <2>2. QED  BY <1>2, <1>4, <1>5, <2>1
<1>7. DOMAIN r = DOMAIN q  BY <1>2, <1>4
<1>8. DV!Brief(r) = DV!Brief(q)
  <2>1. \A i \in DOMAIN r : BriefOf(r[i]) = BriefOf(q[i])  BY <1>2, <1>6
  <2>2. [i \in DOMAIN r |-> BriefOf(r[i])] = [i \in DOMAIN q |-> BriefOf(q[i])]
    BY <1>7, <2>1
  <2>3. QED  BY <1>1, <2>2
<1>9. QED  BY <1>8 DEF r, q

(* Adding what can be read to what can be read.                            *)
LEMMA LegibleAppend ==
  ASSUME NEW s, IsSeq(s), DV!Legible(s), NEW e, e \notin Illegible
  PROVE  DV!Legible(Append(s, e))
<1>1. /\ DOMAIN s = 1 .. Len(s) /\ DOMAIN Append(s, e) = 1 .. Len(s) + 1
      /\ Len(s) \in Nat
      /\ \A i \in 1 .. Len(s) : Append(s, e)[i] = s[i]
      /\ Append(s, e)[Len(s) + 1] = e
  BY AppendAny, LenProperties DEF IsSeq
<1>2. \A i \in 1 .. Len(s) + 1 : i \in 1 .. Len(s) \/ i = Len(s) + 1
  BY <1>1
<1>3. DV!Illegible = Illegible  BY DEF DV!Illegible, Illegible
<1>4. QED  BY <1>1, <1>2, <1>3 DEF DV!Legible

-----------------------------------------------------------------------------
(* The declarations at the path of the open element at that depth.         *)
DeclaredAt(d, depth) ==
  {m \in NodeIds(tree) : tree.nodes[m].full_path = PathOfDoc(d, depth)}

(* DocumentValidation's word for it.                                       *)
LEMMA SameDeclared == \A depth : DV!Declared(depth) = DeclaredAt(doc, depth)
BY SameWords DEF DV!Declared, DeclaredAt

(* An element is declared only where its parent is, below it and with its  *)
(* own tag; the outermost one only as the root.                            *)
LEMMA DeclaredBelow ==
  ASSUME tree \in Trees, NEW d, NEW depth \in Nat \ {0}, NEW m \in DeclaredAt(d, depth)
  PROVE  /\ tree.nodes[m].tag = d[depth].tag
         /\ depth = 1 => m = Root
         /\ depth > 1 => /\ tree.nodes[m].parent_id \in DeclaredAt(d, depth - 1)
                         /\ m # Root
<1> DEFINE path == tree.nodes[m].full_path
           p    == tree.nodes[m].parent_id
           tag  == tree.nodes[m].tag
           up   == tree.nodes[p].full_path
<1>1. /\ m \in NodeIds(tree)
      /\ path = [i \in 1 .. depth |-> d[i].tag]
  BY DEF DeclaredAt, PathOfDoc
<1>2. /\ tree.nodes[Root].full_path = <<tree.nodes[Root].tag>>
      /\ \A n \in NodeIds(tree) : n # Root =>
           /\ tree.nodes[n].parent_id \in NodeIds(tree)
           /\ tree.nodes[n].full_path
                = Append(tree.nodes[tree.nodes[n].parent_id].full_path, tree.nodes[n].tag)
      /\ \A n \in NodeIds(tree) : IsSeq(tree.nodes[n].full_path)
  <2>1. IsPlaced(tree)  BY TreesAssumption DEF IsTree
  <2>2. \A n \in NodeIds(tree) : IsSeq(tree.nodes[n].full_path)
    BY TreePaths, IsSeqOf
  <2>3. QED  BY <2>1, <2>2 DEF IsPlaced
<1>3. \A n \in NodeIds(tree) : Len(tree.nodes[n].full_path) > 0
  <2> SUFFICES ASSUME NEW n \in NodeIds(tree)
               PROVE  Len(tree.nodes[n].full_path) > 0
    OBVIOUS
  <2>1. CASE n = Root
    <3> DEFINE t == tree.nodes[Root].tag
    <3>1. tree.nodes[n].full_path = <<t>>  BY <1>2, <2>1
    <3> HIDE DEF t
    <3>2. Len(<<t>>) = 1  OBVIOUS
    <3>3. QED  BY <3>1, <3>2
  <2>2. CASE n # Root
    <3> DEFINE s == tree.nodes[tree.nodes[n].parent_id].full_path
               t == tree.nodes[n].tag
    <3>1. IsSeq(s) /\ tree.nodes[n].full_path = Append(s, t)  BY <1>2, <2>2
    <3> HIDE DEF s, t
    <3>2. Len(Append(s, t)) = Len(s) + 1 /\ Len(s) \in Nat  BY <3>1, AppendAny
    <3>3. QED  BY <3>1, <3>2
  <2>3. QED  BY <2>1, <2>2
<1>4. IsSeq(path) /\ Len(path) = depth
  <2>1. IsSeq(path) /\ DOMAIN path = 1 .. depth  BY <1>1, <1>2
  <2>2. DOMAIN path = 1 .. Len(path) /\ Len(path) \in Nat
    BY <2>1, LenProperties DEF IsSeq
  <2>3. QED
    <3> HIDE DEF path
    <3>1. \A i \in Nat : i \in 1 .. depth <=> i \in 1 .. Len(path)  BY <2>1, <2>2
    <3>2. \A i \in Nat : i > 0 /\ i <= depth <=> i > 0 /\ i <= Len(path)
      BY <2>2, <3>1
    <3>3. depth <= Len(path) /\ Len(path) <= depth  BY <2>2, <3>2
    <3>4. QED  BY <2>1, <2>2, <3>3
<1>5. CASE m = Root
  <2>1. path = <<tag>>  BY <1>2, <1>5
  <2>2. Len(path) = 1 /\ path[1] = tag  BY <2>1
  <2>3. depth = 1  BY <1>4, <2>2
  <2>4. 1 \in 1 .. depth  BY <2>3
  <2>5. tag = d[1].tag  BY <1>1, <2>2, <2>4
  <2>6. QED  BY <1>5, <2>3, <2>5
<1>6. CASE m # Root
  <2>1. p \in NodeIds(tree) /\ IsSeq(up) /\ Len(up) > 0 /\ path = Append(up, tag)
    BY <1>1, <1>2, <1>3, <1>6
  <2>2. /\ Len(up) \in Nat /\ depth = Len(up) + 1
        /\ \A i \in 1 .. Len(up) : path[i] = up[i]
        /\ path[Len(up) + 1] = tag
    <3> HIDE DEF path, up, tag
    <3>1. /\ Len(Append(up, tag)) = Len(up) + 1 /\ Len(up) \in Nat
          /\ \A i \in 1 .. Len(up) : Append(up, tag)[i] = up[i]
          /\ Append(up, tag)[Len(up) + 1] = tag
      BY <2>1, AppendAny
    <3>2. QED  BY <1>4, <2>1, <3>1
  <2> DEFINE k == depth - 1
  <2>3. /\ k \in Nat /\ k = Len(up) /\ depth > 1 /\ depth # 1
        /\ depth \in 1 .. depth /\ \A i \in 1 .. k : i \in 1 .. depth
    <3> HIDE DEF path, up, tag
    <3>1. QED  BY <2>1, <2>2
  <2>4. tag = d[depth].tag
    <3>1. path[depth] = d[depth].tag  BY <1>1, <2>3
    <3> HIDE DEF path
    <3>2. QED  BY <2>2, <3>1
  <2>5. up = [i \in 1 .. k |-> d[i].tag]
    <3>1. \A i \in 1 .. k : path[i] = d[i].tag  BY <1>1, <2>3
    <3>2. DOMAIN up = 1 .. Len(up)  BY <2>1, LenProperties DEF IsSeq
    <3>3. up \in [1 .. k -> Range(up)]
      <4>1. up \in Seq(Range(up))  BY <2>1 DEF IsSeq
      <4> HIDE DEF up, k
      <4>2. \A i \in 1 .. k : up[i] \in Range(up)  BY <2>3, <4>1, ElementOfSeq
      <4>3. up \in [1 .. Len(up) -> Range(up)]  BY <4>1
      <4>4. QED  BY <2>3, <4>3
    <3> HIDE DEF up, path, k
    <3>4. \A i \in 1 .. k : up[i] = d[i].tag  BY <2>2, <2>3, <3>1
    <3>5. QED  BY <3>3, <3>4
  <2>6. p \in DeclaredAt(d, k)
    BY <2>1, <2>5 DEF DeclaredAt, PathOfDoc
  <2>7. QED  BY <1>6, <2>3, <2>4, <2>6
<1>7. QED  BY <1>5, <1>6

(* A place has one declaration at most.                                    *)
LEMMA DeclaredOnce ==
  ASSUME tree \in Trees, NEW d, NEW depth, NEW m \in DeclaredAt(d, depth),
         NEW n \in DeclaredAt(d, depth)
  PROVE  m = n
BY TreePaths DEF DeclaredAt

-----------------------------------------------------------------------------
(* What has to be known besides.  The context of an element that is being  *)
(* captured is not kept up to date: the builder is.                        *)
Live == Len(context_stack) - (IF IsCapturing THEN 1 ELSE 0)

IdOf(k) == context_stack[k].descriptor_id

(* The counter of a declared child's tag counts those that were opened.    *)
(* This, and what is read from the counters, depends on the hash.          *)
Opened(k, tag) ==
  Count(doc[k].children, tag)
    + (IF k < Len(doc) /\ doc[k + 1].tag = tag THEN 1 ELSE 0)

CountersTold ==
  IsInjective(HashOf) =>
    \A k \in 1 .. Live : \A tag \in Tags :
       ChildOf(tree, IdOf(k), tag) # NoNode =>
         sibling_counters[k][HashOf[tag]] = Opened(k, tag)

IndexesTold ==
  IsInjective(HashOf) =>
    \A k \in 1 .. Len(context_stack) :
       context_stack[k].index
         = IF k = 1 THEN 0 ELSE Count(doc[k - 1].children, doc[k].tag)

AttrsTold ==
  \A k \in 1 .. Len(context_stack) :
     NeedsAttrs(IdOf(k)) =>
       context_stack[k].attrs = doc[k].attrs /\ DV!Legible(doc[k].attrs)

TextTold ==
  \A k \in 1 .. Live :
     NeedsText(IdOf(k)) =>
       context_stack[k].text = doc[k].text /\ DV!Legible(doc[k].text)

ChildrenTold ==
  IsInjective(HashOf) /\ RulesFit =>
    \A k \in 1 .. Live :
       /\ DV!Brief(context_stack[k].children) = DV!Brief(doc[k].evaluated)
       /\ "CHILDREN" \in tree.nodes[IdOf(k)].needs =>
            context_stack[k].children = doc[k].evaluated

(* What is skipped is not declared.                                        *)
SkippedTold ==
  skip_depth > 0 =>
    \A depth \in Len(context_stack) + 1 .. Len(doc) : DeclaredAt(doc, depth) = {}

(* The captured element, and no other on the stack, is declared a capture; *)
(* its text could be read.                                                 *)
CaptureTold ==
  /\ \A k \in 1 .. Len(context_stack) :
       IsCapture(tree.nodes[IdOf(k)].needs) <=> IsCapturing /\ k = Len(context_stack)
  /\ IsCapturing => DV!Legible(doc[Len(context_stack)].text)

Told ==
  /\ CountersTold
  /\ IndexesTold
  /\ AttrsTold
  /\ TextTold
  /\ ChildrenTold
  /\ SkippedTold
  /\ CaptureTold

VInv == FInv /\ (status = "reading" => Told)

-----------------------------------------------------------------------------
(* A path grows by the tag of the element added.                           *)
LEMMA PathExtends ==
  ASSUME NEW d, NEW n \in Nat
  PROVE  PathOfDoc(d, n + 1) = Append(PathOfDoc(d, n), d[n + 1].tag)
<1> DEFINE s   == [i \in 1 .. n |-> d[i].tag]
           t   == [i \in 1 .. n + 1 |-> d[i].tag]
           tag == d[n + 1].tag
           T   == {d[i].tag : i \in 1 .. n + 1}
<1>1. s \in Seq(T) /\ tag \in T /\ Len(s) = n /\ t \in [1 .. n + 1 -> T]
  <2>1. s \in [1 .. n -> T] /\ t \in [1 .. n + 1 -> T] /\ tag \in T  OBVIOUS
  <2> HIDE DEF T, s, t, tag
  <2>2. s \in Seq(T)  BY <2>1
  <2>3. DOMAIN s = 1 .. n  BY <2>1
  <2>4. QED  BY <2>1, <2>2, <2>3, LenProperties
<1>2. \A i \in 1 .. n : s[i] = t[i]  OBVIOUS
<1>3. t[n + 1] = tag  OBVIOUS
<1> HIDE DEF T, s, t, tag
<1> DEFINE a == Append(s, tag)
<1>4. /\ a \in Seq(T) /\ Len(a) = n + 1
      /\ \A i \in 1 .. n : a[i] = s[i]
      /\ a[n + 1] = tag
  BY <1>1, AppendProperties
<1> HIDE DEF a
<1>5. a \in [1 .. n + 1 -> T]  BY <1>4, LenProperties
<1>6. \A i \in 1 .. n + 1 : i \in 1 .. n \/ i = n + 1  OBVIOUS
<1>7. \A i \in 1 .. n + 1 : a[i] = t[i]  BY <1>2, <1>3, <1>4, <1>6
<1>8. a = t  BY <1>1, <1>5, <1>7
<1>9. QED  BY <1>8 DEF a, s, t, tag, PathOfDoc

(* What is declared at a place depends on the tags above it only.          *)
LEMMA DeclaredSame ==
  ASSUME NEW d, NEW e, NEW depth, \A i \in 1 .. depth : d[i].tag = e[i].tag
  PROVE  DeclaredAt(d, depth) = DeclaredAt(e, depth)
BY DEF DeclaredAt, PathOfDoc

(* The sizes the lemmas below start from; each context is the declaration  *)
(* of its element.                                                         *)
LEMMA Places ==
  ASSUME IInv, Followed, status = "reading"
  PROVE  LET n == Len(context_stack)
         IN /\ tree \in Trees /\ StacksOK /\ IsSeq(doc)
            /\ n \in Nat /\ Len(doc) \in Nat /\ n <= Len(doc)
            /\ Live \in 0 .. n
            /\ IsStreaming => Live = n /\ Len(doc) = n + skip_depth
            /\ IsCapturing => Live = n - 1 /\ n > 0 /\ skip_depth = 0
            /\ IsStreaming \/ IsCapturing
            /\ ~(IsStreaming /\ IsCapturing)
            /\ skip_depth \in Nat
            /\ \A k \in 1 .. Len(doc) : IsElement(doc[k])
            /\ \A k \in 1 .. n :
                 /\ k \in 1 .. Len(doc) /\ IsElement(doc[k])
                 /\ context_stack[k] \in NodeContexts
                 /\ IdOf(k) \in NodeIds(tree) /\ IdOf(k) \in DeclaredAt(doc, k)
<1> DEFINE n == Len(context_stack)
<1>1. /\ tree \in Trees /\ StacksOK /\ IsSeq(doc) /\ skip_depth \in Nat
      /\ n \in Nat /\ Len(doc) \in Nat
      /\ IsStreaming \/ IsCapturing
      /\ ~(IsStreaming /\ IsCapturing)
      /\ IsStreaming => Len(doc) = n + skip_depth
      /\ IsCapturing => /\ mode.depth \in Nat \ {0} /\ n > 0 /\ skip_depth = 0
                        /\ Len(doc) = n + (mode.depth - 1)
      /\ \A k \in 1 .. n : context_stack[k] \in NodeContexts
  BY Sizes
<1>2. n <= Len(doc)  BY <1>1
<1>3. /\ Live \in 0 .. n
      /\ IsStreaming => Live = n
      /\ IsCapturing => Live = n - 1
  BY <1>1 DEF Live
<1>4. \A k \in 1 .. Len(doc) : IsElement(doc[k])
  BY DEF Followed, DocOK
<1>5. ASSUME NEW k \in 1 .. n
      PROVE  /\ k \in 1 .. Len(doc) /\ IsElement(doc[k])
             /\ context_stack[k] \in NodeContexts
             /\ IdOf(k) \in NodeIds(tree) /\ IdOf(k) \in DeclaredAt(doc, k)
  <2>1. k \in 1 .. Len(doc)  BY <1>1, <1>2
  <2>2. IdOf(k) \in NodeIds(tree)  BY <1>1 DEF IdOf, NodeContexts
  <2>3. tree.nodes[IdOf(k)].full_path = PathOfDoc(doc, k)
    BY DEF Followed, PathsFollowed, IdOf
  <2>4. QED  BY <1>1, <1>4, <2>1, <2>2, <2>3 DEF DeclaredAt
<1>6. QED  BY <1>1, <1>2, <1>3, <1>4, <1>5

(* What was not found is not declared.                                     *)
LEMMA UndeclaredPlace ==
  ASSUME IInv, Followed, status = "reading", IsStreaming, skip_depth = 0,
         NEW tag, Lookup(tag) = NoNode, NEW d, d[Len(context_stack) + 1].tag = tag,
         \A i \in 1 .. Len(context_stack) : d[i].tag = doc[i].tag
  PROVE  DeclaredAt(d, Len(context_stack) + 1) = {}
<1> DEFINE n == Len(context_stack)
<1>1. /\ tree \in Trees /\ StacksOK /\ n \in Nat
      /\ \A k \in 1 .. n : IdOf(k) \in NodeIds(tree) /\ IdOf(k) \in DeclaredAt(doc, k)
  BY Places
<1>2. SUFFICES ASSUME NEW m \in DeclaredAt(d, n + 1) PROVE FALSE
  OBVIOUS
<1>3. /\ m \in NodeIds(tree) /\ tree.nodes[m].tag = tag
      /\ n + 1 = 1 => m = Root
      /\ n + 1 > 1 => tree.nodes[m].parent_id \in DeclaredAt(d, n)
  <2>1. n + 1 \in Nat \ {0} /\ n + 1 - 1 = n  BY <1>1
  <2>2. LET k == n + 1
        IN /\ tree.nodes[m].tag = d[k].tag
           /\ k = 1 => m = Root
           /\ k > 1 => tree.nodes[m].parent_id \in DeclaredAt(d, k - 1)
    BY <1>1, <2>1, DeclaredBelow
  <2>3. m \in NodeIds(tree)  BY DEF DeclaredAt
  <2>4. QED  BY <2>1, <2>2, <2>3
<1>4. /\ descriptor_stack \in Seq(NodeIds(tree)) /\ Len(descriptor_stack) = n
      /\ NoNode \notin NodeIds(tree)
      /\ \A k \in 1 .. n : descriptor_stack[k] = IdOf(k)
  BY <1>1, Sizes, TreeFacts DEF StacksOK, IInv, StackInv, StacksAligned, IdOf
<1>5. CASE n = 0
  <2>1. descriptor_stack = <<>>  BY <1>4, <1>5, EmptySeq
  <2>2. tree.nodes[Root].tag = tag  BY <1>3, <1>5
  <2>3. QED  BY <2>1, <2>2 DEF Lookup, RootIfTagged, Root, NoNode
<1>6. CASE n # 0
  <2>1. n \in 1 .. n /\ n + 1 > 1  BY <1>1, <1>6
  <2>2. descriptor_stack # <<>>  BY <1>4, <1>6, EmptySeq
  <2>3. Last(descriptor_stack) = IdOf(n)  BY <1>4, <2>1, <2>2, FrontLast
  <2>4. DeclaredAt(d, n) = DeclaredAt(doc, n)  BY DeclaredSame
  <2>5. tree.nodes[m].parent_id = IdOf(n)
    BY <1>1, <1>3, <2>1, <2>4, DeclaredOnce
  <2> DEFINE found == {c \in NodeIds(tree) : /\ IdOf(n) # NoNode
                                             /\ tree.nodes[c].parent_id = IdOf(n)
                                             /\ tree.nodes[c].tag = tag}
  <2>6. m \in found  BY <1>1, <1>3, <1>4, <2>1, <2>5
  <2>7. Lookup(tag) = IF found = {} THEN NoNode ELSE CHOOSE c \in found : TRUE
    BY <2>2, <2>3 DEF Lookup, ChildOf
  <2>8. Lookup(tag) \in found  BY <2>6, <2>7
  <2>9. QED  BY <1>4, <2>8
<1>7. QED  BY <1>5, <1>6

-----------------------------------------------------------------------------
(* What is told of the document stays told while neither the contexts nor  *)
(* their counters change and the document keeps what they tell.            *)
LEMMA ToldKept ==
  ASSUME IInv, Followed, status = "reading", Told, IInv',
         UNCHANGED <<tree, context_stack, sibling_counters>>, mode'.kind = mode.kind,
         NEW n, n = Len(context_stack), n <= Len(doc'),
         \A k \in 1 .. n : doc'[k].tag = doc[k].tag /\ doc'[k].attrs = doc[k].attrs,
         \A k \in 1 .. n - 1 :
            /\ doc'[k].children = doc[k].children
            /\ doc'[k].text = doc[k].text /\ doc'[k].evaluated = doc[k].evaluated,
         IsStreaming /\ n > 0 =>
            /\ doc'[n].evaluated = doc[n].evaluated
            /\ NeedsText(IdOf(n)) => doc'[n].text = doc[n].text
            /\ \A tag \in Tags : ChildOf(tree, IdOf(n), tag) # NoNode =>
                  Opened(n, tag)' = Opened(n, tag),
         SkippedTold', IsCapturing => DV!Legible(doc'[n].text)
  PROVE  Told'
<1>1. /\ n \in Nat /\ Len(doc) \in Nat /\ n <= Len(doc) /\ Len(doc') \in Nat
      /\ Live \in 0 .. n
      /\ IsStreaming => Live = n
      /\ IsCapturing => Live = n - 1 /\ n > 0
      /\ IsStreaming \/ IsCapturing
  <2>1. Len(doc') \in Nat  BY LenProperties DEF IInv, TypeOK, IsSeq
  <2>2. QED  BY <2>1, Places
<1>2. /\ Len(context_stack)' = n /\ Live' = Live
      /\ IsCapturing' <=> IsCapturing
      /\ \A k : IdOf(k)' = IdOf(k)
  BY DEF Live, IsCapturing, IdOf
<1>3. /\ \A k : NeedsAttrs(IdOf(k))' <=> NeedsAttrs(IdOf(k))
      /\ \A k : NeedsText(IdOf(k))' <=> NeedsText(IdOf(k))
      /\ \A k, tag : ChildOf(tree, IdOf(k), tag)' = ChildOf(tree, IdOf(k), tag)
  BY <1>2 DEF NeedsAttrs, NeedsText, ChildOf, NodeIds, IdOf
<1>4. ASSUME NEW k \in 1 .. Live
      PROVE  /\ k \in 1 .. n
             /\ k # n => k \in 1 .. n - 1 /\ k + 1 \in 1 .. n /\ k < Len(doc) /\ k < Len(doc')
             /\ k = n => IsStreaming /\ n > 0
  BY <1>1
<1>5. CountersTold'
  <2>1. SUFFICES ASSUME IsInjective(HashOf), NEW k \in 1 .. Live, NEW tag \in Tags,
                        ChildOf(tree, IdOf(k), tag) # NoNode
                 PROVE  sibling_counters[k][HashOf[tag]] = Opened(k, tag)'
    BY <1>2, <1>3 DEF CountersTold
  <2>2. sibling_counters[k][HashOf[tag]] = Opened(k, tag)
    BY <2>1 DEF Told, CountersTold
  <2>3. CASE k = n  BY <1>4, <2>1, <2>2, <2>3
  <2>4. CASE k # n
    <3>1. /\ k \in 1 .. n - 1 /\ k + 1 \in 1 .. n /\ k < Len(doc) /\ k < Len(doc')
      BY <1>4, <2>4
    <3>2. doc'[k].children = doc[k].children /\ doc'[k + 1].tag = doc[k + 1].tag
      BY <3>1
    <3>3. Opened(k, tag)' = Opened(k, tag)  BY <3>1, <3>2 DEF Opened, Count
    <3>4. QED  BY <2>2, <3>3
  <2>5. QED  BY <2>3, <2>4
<1>6. IndexesTold'
  <2>1. SUFFICES ASSUME IsInjective(HashOf), NEW k \in 1 .. n
                 PROVE  context_stack[k].index
                          = IF k = 1 THEN 0 ELSE Count(doc'[k - 1].children, doc'[k].tag)
    BY <1>2 DEF IndexesTold, Count
  <2>2. context_stack[k].index = IF k = 1 THEN 0 ELSE Count(doc[k - 1].children, doc[k].tag)
    BY <2>1 DEF Told, IndexesTold
  <2>3. k # 1 => k - 1 \in 1 .. n - 1  BY <1>1
  <2>4. QED  BY <2>2, <2>3
<1>7. AttrsTold'
  <2>1. SUFFICES ASSUME NEW k \in 1 .. n, NeedsAttrs(IdOf(k))
                 PROVE  context_stack[k].attrs = doc'[k].attrs /\ DV!Legible(doc'[k].attrs)
    BY <1>2, <1>3 DEF AttrsTold, DV!Legible
  <2>2. QED  BY <2>1 DEF Told, AttrsTold
<1>8. TextTold'
  <2>1. SUFFICES ASSUME NEW k \in 1 .. Live, NeedsText(IdOf(k))
                 PROVE  context_stack[k].text = doc'[k].text /\ DV!Legible(doc'[k].text)
    BY <1>2, <1>3 DEF TextTold, DV!Legible
  <2>2. context_stack[k].text = doc[k].text /\ DV!Legible(doc[k].text)
    BY <2>1 DEF Told, TextTold
  <2>3. doc'[k].text = doc[k].text
    <3>1. CASE k = n  BY <1>4, <2>1, <3>1
    <3>2. CASE k # n  BY <1>4, <3>2
    <3>3. QED  BY <3>1, <3>2
  <2>4. QED  BY <2>2, <2>3
<1>9. ChildrenTold'
  <2>1. SUFFICES ASSUME IsInjective(HashOf), RulesFit, NEW k \in 1 .. Live
                 PROVE  /\ DV!Brief(context_stack[k].children) = DV!Brief(doc'[k].evaluated)
                        /\ "CHILDREN" \in tree.nodes[IdOf(k)].needs =>
                             context_stack[k].children = doc'[k].evaluated
    <3>1. \A k : DV!Brief(context_stack[k].children)' = DV!Brief(context_stack[k].children)
      BY DEF DV!Brief
    <3>2. \A k : DV!Brief(doc[k].evaluated)' = DV!Brief(doc'[k].evaluated)
      BY DEF DV!Brief
    <3>3. \A k : tree'.nodes[IdOf(k)'].needs = tree.nodes[IdOf(k)].needs
      BY <1>2
    <3>4. QED  BY <1>2, <3>1, <3>2, <3>3 DEF ChildrenTold
  <2>2. /\ DV!Brief(context_stack[k].children) = DV!Brief(doc[k].evaluated)
        /\ "CHILDREN" \in tree.nodes[IdOf(k)].needs =>
             context_stack[k].children = doc[k].evaluated
    BY <2>1 DEF Told, ChildrenTold
  <2>3. doc'[k].evaluated = doc[k].evaluated
    <3>1. CASE k = n  BY <1>4, <3>1
    <3>2. CASE k # n  BY <1>4, <3>2
    <3>3. QED  BY <3>1, <3>2
  <2>4. QED  BY <2>2, <2>3
<1>10. CaptureTold'
  <2>1. SUFFICES /\ \A k \in 1 .. n :
                      IsCapture(tree.nodes[IdOf(k)].needs) <=> IsCapturing /\ k = n
                 /\ IsCapturing => DV!Legible(doc'[n].text)
    BY <1>2 DEF CaptureTold, DV!Legible, IsCapture, IdOf
  <2>2. QED  BY DEF Told, CaptureTold
<1>11. QED  BY <1>5, <1>6, <1>7, <1>8, <1>9, <1>10 DEF Told

(* What remains of what is skipped is still not declared.                  *)
LEMMA SkippedKept ==
  ASSUME Told, UNCHANGED <<tree, context_stack>>, skip_depth' > 0 => skip_depth > 0,
         Len(context_stack) \in Nat, Len(doc) \in Nat, Len(doc') \in 0 .. Len(doc),
         \A i \in 1 .. Len(doc') : doc'[i].tag = doc[i].tag
  PROVE  SkippedTold'
<1>1. SUFFICES ASSUME skip_depth' > 0, NEW depth \in Len(context_stack) + 1 .. Len(doc')
               PROVE  DeclaredAt(doc', depth) = {}
  BY DEF SkippedTold, DeclaredAt, PathOfDoc, NodeIds
<1>2. depth \in Len(context_stack) + 1 .. Len(doc)  OBVIOUS
<1>3. DeclaredAt(doc, depth) = {}  BY <1>1, <1>2 DEF Told, SkippedTold
<1>4. \A i \in 1 .. depth : doc'[i].tag = doc[i].tag  OBVIOUS
<1>5. DeclaredAt(doc', depth) = DeclaredAt(doc, depth)
  <2> DEFINE e == doc'
  <2>1. \A i \in 1 .. depth : e[i].tag = doc[i].tag  BY <1>4
  <2> HIDE DEF e
  <2>2. DeclaredAt(e, depth) = DeclaredAt(doc, depth)  BY <2>1, DeclaredSame
  <2>3. QED  BY <2>2 DEF e
<1>6. QED  BY <1>3, <1>5

(* The start tag of an element inside one that is skipped.                 *)
LEMMA SkipStartTold ==
  ASSUME IInv, Followed, status = "reading", Told, IInv', tree' = tree,
         NEW n, n = Len(context_stack),
         NEW tag, NEW attrs, doc' = Open(doc, tag, attrs), SkipStart
  PROVE  Told'
<1> DEFINE m == Len(doc)
<1>1. /\ tree \in Trees /\ IsSeq(doc) /\ n \in Nat /\ m \in Nat /\ skip_depth \in Nat
      /\ IsStreaming => m = n + skip_depth
      /\ IsCapturing => skip_depth = 0
      /\ IsStreaming \/ IsCapturing
      /\ skip_depth > 0 /\ skip_depth' = skip_depth + 1
      /\ UNCHANGED <<tree, context_stack, sibling_counters, mode>>
  BY Places DEF SkipStart, stacks
<1>2. IsStreaming /\ ~IsCapturing /\ n < m  BY <1>1 DEF IsStreaming, IsCapturing
<1>3. Len(doc') = m + 1 /\ \A i \in 1 .. m : doc'[i] = doc[i]
  BY <1>1, OpenElements DEF Followed, DocOK
<1>4. SkippedTold'
  <2>1. SUFFICES ASSUME NEW depth \in n + 1 .. m + 1
                 PROVE  DeclaredAt(doc', depth) = {}
    BY <1>1, <1>3 DEF SkippedTold, DeclaredAt, PathOfDoc, NodeIds
  <2> DEFINE e == doc'
  <2>2. \A k \in n + 1 .. m : DeclaredAt(e, k) = {}
    <3>1. SUFFICES ASSUME NEW k \in n + 1 .. m PROVE DeclaredAt(e, k) = {}
      OBVIOUS
    <3>2. DeclaredAt(doc, k) = {}  BY <1>1 DEF Told, SkippedTold
    <3>3. \A i \in 1 .. k : i \in 1 .. m  BY <1>1
    <3>4. \A i \in 1 .. k : e[i].tag = doc[i].tag
      <4> HIDE DEF m
      <4>1. QED  BY <1>3, <3>3
    <3> HIDE DEF e
    <3>5. QED  BY <3>2, <3>4, DeclaredSame
  <2> HIDE DEF e
  <2>3. CASE depth \in n + 1 .. m  BY <2>2, <2>3 DEF e
  <2>4. CASE depth = m + 1
    <3>1. depth \in Nat \ {0} /\ depth > 1 /\ depth - 1 = m /\ m \in n + 1 .. m
      BY <1>1, <1>2, <2>4
    <3>2. DeclaredAt(e, depth - 1) = {}  BY <2>2, <3>1
    <3>3. DeclaredAt(e, depth) = {}  BY <1>1, <3>1, <3>2, DeclaredBelow
    <3>4. QED  BY <3>3 DEF e
  <2>5. QED  BY <1>1, <2>3, <2>4
<1>5. \A k \in 1 .. n : doc'[k] = doc[k]  BY <1>1, <1>2, <1>3
<1>6. \A t : n > 0 => Opened(n, t)' = Opened(n, t)
  <2>1. SUFFICES ASSUME NEW t, n > 0
                 PROVE  LET f == doc'
                        IN Count(f[n].children, t)
                             + (IF n < Len(f) /\ f[n + 1].tag = t THEN 1 ELSE 0)
                             = Opened(n, t)
    BY <1>1 DEF Opened, Count
  <2>2. n \in 1 .. m /\ n + 1 \in 1 .. m  BY <1>1, <1>2, <2>1
  <2>3. doc'[n] = doc[n] /\ doc'[n + 1] = doc[n + 1]  BY <1>3, <2>2
  <2>4. n < Len(doc') <=> n < Len(doc)  BY <1>1, <1>2, <1>3
  <2>5. QED  BY <2>3, <2>4 DEF Opened
<1>7. n <= Len(doc') /\ \A k \in 1 .. n - 1 : k \in 1 .. n  BY <1>1, <1>2, <1>3
<1>8. n > 0 => n \in 1 .. n  BY <1>1
<1> HIDE DEF m
<1>9. QED  BY <1>1, <1>2, <1>4, <1>5, <1>6, <1>7, <1>8, ToldKept

(* The start tag of an element that is not declared.                       *)
LEMMA OpenUndeclaredTold ==
  ASSUME IInv, Followed, status = "reading", Told, IInv', tree' = tree,
         NEW n, n = Len(context_stack),
         NEW tag, NEW attrs, doc' = Open(doc, tag, attrs), OpenUndeclared(tag, attrs)
  PROVE  Told'
<1>1. /\ tree \in Trees /\ IsSeq(doc) /\ n \in Nat /\ Len(doc) = n
      /\ IsStreaming /\ ~IsCapturing /\ skip_depth = 0 /\ skip_depth' = 1
      /\ Lookup(tag) = NoNode
      /\ UNCHANGED <<tree, context_stack, sibling_counters, mode>>
  BY Places DEF OpenUndeclared, stacks
<1>2. /\ Len(doc') = n + 1 /\ \A i \in 1 .. n : doc'[i] = doc[i]
      /\ doc'[n + 1].tag = tag
  <2>1. Len(doc') = n + 1 /\ \A i \in 1 .. n : doc'[i] = doc[i]
    BY <1>1, OpenElements DEF Followed, DocOK
  <2>2. doc'[n + 1] = Element(tag, attrs)
    BY <1>1, OpenElements DEF Followed, DocOK
  <2>3. QED  BY <2>1, <2>2 DEF Element
<1>3. SkippedTold'
  <2>1. SUFFICES DeclaredAt(doc', n + 1) = {}
    <3>1. \A depth \in n + 1 .. n + 1 : depth = n + 1  BY <1>1
    <3>2. QED  BY <1>1, <1>2, <3>1 DEF SkippedTold, DeclaredAt, PathOfDoc, NodeIds
  <2> DEFINE e == doc'
  <2>2. e[n + 1].tag = tag /\ \A i \in 1 .. n : e[i].tag = doc[i].tag  BY <1>2
  <2> HIDE DEF e
  <2>3. DeclaredAt(e, n + 1) = {}  BY <1>1, <2>2, UndeclaredPlace
  <2>4. QED  BY <2>3 DEF e
<1>4. ASSUME NEW t, n > 0, ChildOf(tree, IdOf(n), t) # NoNode
      PROVE  Opened(n, t)' = Opened(n, t)
  <2>1. n \in 1 .. n  BY <1>1, <1>4
  <2>2. tag # t
    <3>1. /\ descriptor_stack \in Seq(NodeIds(tree)) /\ Len(descriptor_stack) = n
          /\ \A k \in 1 .. n : descriptor_stack[k] = IdOf(k)
      BY <1>1, Sizes DEF StacksOK, IInv, StackInv, StacksAligned, IdOf
    <3>2. descriptor_stack # <<>>  BY <1>4, <3>1
    <3>3. Last(descriptor_stack) = IdOf(n)  BY <2>1, <3>1, <3>2, FrontLast
    <3>4. Lookup(tag) = ChildOf(tree, IdOf(n), tag)  BY <3>2, <3>3 DEF Lookup
    <3>5. QED  BY <1>1, <1>4, <3>4
  <2>3. Opened(n, t)' = Count(doc'[n].children, t)
                          + (IF n < Len(doc') /\ doc'[n + 1].tag = t THEN 1 ELSE 0)
    BY DEF Opened, Count
  <2>4. Opened(n, t) = Count(doc[n].children, t) + 0  BY <1>1 DEF Opened
  <2>5. Opened(n, t)' = Count(doc[n].children, t) + 0
    BY <1>2, <2>1, <2>2, <2>3
  <2>6. QED  BY <2>4, <2>5
<1>5. n <= Len(doc') /\ \A k \in 1 .. n - 1 : k \in 1 .. n  BY <1>1, <1>2
<1>6. n > 0 => n \in 1 .. n  BY <1>1
<1>7. QED  BY <1>1, <1>2, <1>3, <1>4, <1>5, <1>6, ToldKept

(* The end tag of an element that is skipped.                              *)
LEMMA SkipEndTold ==
  ASSUME IInv, Followed, status = "reading", Told, IInv', tree' = tree,
         NEW n, n = Len(context_stack), SkipEnd
  PROVE  Told'
<1> DEFINE m == Len(doc)
<1>1. /\ tree \in Trees /\ IsSeq(doc) /\ n \in Nat /\ m \in Nat /\ skip_depth \in Nat
      /\ m = n + skip_depth /\ IsStreaming /\ ~IsCapturing
      /\ skip_depth > 0 /\ skip_depth' = skip_depth - 1
      /\ UNCHANGED <<tree, context_stack, sibling_counters, mode>>
      /\ \A i \in 1 .. n : IsElement(doc[i])
  BY Places DEF SkipEnd, stacks
<1>2. doc # <<>>  BY <1>1
<1>3. /\ Len(doc') = m - 1
      /\ \A i \in 1 .. m - 2 : doc'[i] = doc[i]
      /\ m > 1 =>
           /\ doc'[m - 1].tag = doc[m - 1].tag /\ doc'[m - 1].attrs = doc[m - 1].attrs
           /\ doc'[m - 1].text = doc[m - 1].text
           /\ doc'[m - 1].children = Append(doc[m - 1].children, Dom(doc[m]))
           /\ doc'[m - 1].evaluated = doc[m - 1].evaluated \o <<>>
  <2>1. doc' = Close(doc, <<>>)  BY DEF SkipEnd
  <2>2. QED  BY <1>1, <1>2, <2>1, EmptyIsSeq, CloseElements, ZenonT(60) DEF Followed, DocOK
<1> HIDE DEF m
<1>4. /\ \A k \in 1 .. n - 1 : k \in 1 .. m - 2
      /\ \A k \in 1 .. n : k \in 1 .. m - 2 \/ (k = m - 1 /\ m > 1)
      /\ n > 0 => n \in 1 .. n /\ m > 1
      /\ n <= Len(doc')
      /\ \A k \in 1 .. Len(doc') : k \in 1 .. m - 2 \/ (k = m - 1 /\ m > 1)
      /\ Len(doc') \in 0 .. m
  BY <1>1, <1>3
<1>5. /\ \A k \in 1 .. n : doc'[k].tag = doc[k].tag /\ doc'[k].attrs = doc[k].attrs
      /\ \A k \in 1 .. n - 1 : doc'[k] = doc[k]
      /\ \A k \in 1 .. n : doc'[k].text = doc[k].text
  BY <1>1, <1>3, <1>4
<1>6. SkippedTold'
  <2>1. \A i \in 1 .. Len(doc') : doc'[i].tag = doc[i].tag  BY <1>3, <1>4
  <2>2. m \in Nat /\ Len(context_stack) \in Nat  BY <1>1
  <2>3. QED  BY <1>1, <1>4, <2>1, <2>2, SkippedKept DEF m
<1>7. ASSUME n > 0 PROVE doc'[n].evaluated = doc[n].evaluated
  <2>1. CASE n = m - 1
    <3>1. n \in 1 .. n /\ m > 1  BY <1>4, <1>7
    <3>2. IsSeq(doc[n].evaluated)  BY <1>1, <3>1 DEF IsElement
    <3>3. doc'[n].evaluated = doc[n].evaluated \o <<>>  BY <1>3, <2>1, <3>1
    <3> DEFINE s == doc[n].evaluated
    <3>4. s \in Seq(Range(s))  BY <3>2 DEF IsSeq
    <3> HIDE DEF s
    <3>5. s \o <<>> = s  BY <3>4
    <3>6. QED  BY <3>3, <3>5 DEF s
  <2>2. CASE n # m - 1  BY <1>3, <1>4, <1>7, <2>2
  <2>3. QED  BY <2>1, <2>2
<1>8. ASSUME NEW t, n > 0 PROVE Opened(n, t)' = Opened(n, t)
  <2>1. Opened(n, t)' = Count(doc'[n].children, t)
                          + (IF n < Len(doc') /\ doc'[n + 1].tag = t THEN 1 ELSE 0)
    BY DEF Opened, Count
  <2>2. Opened(n, t) = Count(doc[n].children, t)
                          + (IF n < m /\ doc[n + 1].tag = t THEN 1 ELSE 0)
    BY DEF Opened, m
  <2>3. CASE n = m - 1
    <3>1. /\ n \in 1 .. n /\ m > 1 /\ n + 1 = m /\ n < m /\ ~(n < Len(doc'))
      BY <1>1, <1>3, <1>4, <1>8, <2>3
    <3>2. doc'[n].children = Append(doc[n].children, Dom(doc[m]))
      BY <1>3, <2>3, <3>1
    <3>3. Dom(doc[m]).tag = doc[m].tag  BY DEF Dom
    <3>4. IsSeq(doc[n].children)  BY <1>1, <3>1 DEF IsElement
    <3>5. /\ Count(doc[n].children, t) \in Nat
          /\ Count(doc'[n].children, t)
               = Count(doc[n].children, t) + (IF doc[m].tag = t THEN 1 ELSE 0)
      BY <3>2, <3>3, <3>4, CountAppend
    <3> DEFINE a == Count(doc[n].children, t)
               b == Count(doc'[n].children, t)
    <3> HIDE DEF a, b
    <3>6. Opened(n, t)' = b + 0  BY <2>1, <3>1 DEF b
    <3>7. Opened(n, t) = a + (IF doc[m].tag = t THEN 1 ELSE 0)  BY <2>2, <3>1 DEF a
    <3>8. a \in Nat /\ b = a + (IF doc[m].tag = t THEN 1 ELSE 0)  BY <3>5 DEF a, b
    <3>9. QED  BY <3>6, <3>7, <3>8
  <2>4. CASE n # m - 1
    <3>1. n \in 1 .. m - 2 /\ n < m /\ n < Len(doc') /\ n + 1 \in 1 .. Len(doc')
      BY <1>1, <1>3, <1>4, <1>8, <2>4
    <3>2. doc'[n] = doc[n] /\ doc'[n + 1].tag = doc[n + 1].tag
      BY <1>3, <1>4, <3>1
    <3>3. QED  BY <2>1, <2>2, <3>1, <3>2
  <2>5. QED  BY <2>3, <2>4
<1>9. QED  BY <1>1, <1>4, <1>5, <1>6, <1>7, <1>8, ToldKept

(* Character data that is not for a context.                               *)
LEMMA QuietTold ==
  ASSUME IInv, Followed, status = "reading", Told, IInv',
         UNCHANGED <<tree, context_stack, sibling_counters, skip_depth>>,
         mode'.kind = mode.kind, NEW n, n = Len(context_stack), Len(doc') = Len(doc),
         \A i \in 1 .. Len(doc) :
            /\ doc'[i].tag = doc[i].tag /\ doc'[i].attrs = doc[i].attrs
            /\ doc'[i].children = doc[i].children /\ doc'[i].evaluated = doc[i].evaluated
            /\ i # Len(doc) => doc'[i].text = doc[i].text,
         IsStreaming /\ n > 0 /\ n = Len(doc) /\ NeedsText(IdOf(n)) =>
            doc'[n].text = doc[n].text,
         IsCapturing => DV!Legible(doc'[n].text)
  PROVE  Told'
<1> DEFINE m == Len(doc)
<1>1. n \in Nat /\ m \in Nat /\ n <= m  BY Places
<1>2. SkippedTold'
  <2>1. Len(context_stack) \in Nat /\ Len(doc) \in Nat /\ Len(doc') \in 0 .. Len(doc)
    BY <1>1
  <2>2. \A i \in 1 .. Len(doc') : doc'[i].tag = doc[i].tag  OBVIOUS
  <2>3. QED  BY <2>1, <2>2, SkippedKept
<1>3. ASSUME NEW t, n > 0 PROVE Opened(n, t)' = Opened(n, t)
  <2>1. Opened(n, t)' = Count(doc'[n].children, t)
                          + (IF n < m /\ doc'[n + 1].tag = t THEN 1 ELSE 0)
    BY DEF Opened, Count
  <2>2. Opened(n, t) = Count(doc[n].children, t)
                          + (IF n < m /\ doc[n + 1].tag = t THEN 1 ELSE 0)
    BY DEF Opened
  <2>3. n \in 1 .. m  BY <1>1, <1>3
  <2>4. doc'[n].children = doc[n].children  BY <2>3
  <2>5. n < m => n + 1 \in 1 .. m  BY <1>1
  <2>6. n < m => doc'[n + 1].tag = doc[n + 1].tag  BY <2>5
  <2>7. QED  BY <2>1, <2>2, <2>4, <2>6
<1>4. \A k \in 1 .. n : k \in 1 .. m  BY <1>1
<1>5. \A k \in 1 .. n - 1 : k \in 1 .. m /\ k # m  BY <1>1
<1>6. n > 0 => n \in 1 .. m  BY <1>1
<1>7. n <= Len(doc')  BY <1>1
<1>8. ASSUME IsStreaming, n > 0, NeedsText(IdOf(n)) PROVE doc'[n].text = doc[n].text
  BY <1>6, <1>8
<1>9. /\ \A k \in 1 .. n : doc'[k].tag = doc[k].tag /\ doc'[k].attrs = doc[k].attrs
      /\ \A k \in 1 .. n - 1 :
           /\ doc'[k].children = doc[k].children
           /\ doc'[k].text = doc[k].text /\ doc'[k].evaluated = doc[k].evaluated
      /\ n > 0 => doc'[n].evaluated = doc[n].evaluated
  BY <1>4, <1>5, <1>6
<1> HIDE DEF m
<1>10. QED  BY <1>2, <1>3, <1>7, <1>8, <1>9, ToldKept

(* Text that is not wanted.                                                *)
LEMMA IgnoreTextTold ==
  ASSUME IInv, Followed, status = "reading", Told, IInv', UNCHANGED <<tree, skip_depth>>,
         NEW piece, doc' = AddText(doc, piece), IgnoreText
  PROVE  Told'
<1> DEFINE n == Len(context_stack)
           m == Len(doc)
<1>1. /\ IsSeq(doc) /\ n \in Nat /\ m \in Nat /\ n <= m
      /\ IsStreaming \/ (IsCapturing /\ n > 0 /\ skip_depth = 0)
      /\ UNCHANGED <<tree, context_stack, sibling_counters, skip_depth, mode>>
      /\ ~TextWanted /\ skip_depth \in Nat
      /\ IsStreaming => m = n + skip_depth
  BY Places DEF IgnoreText, stacks
<1>2. IsStreaming /\ ~IsCapturing
  <2>1. ~IsCapturing  BY <1>1 DEF TextWanted, IsStreaming, IsCapturing
  <2>2. QED  BY <1>1, <2>1
<1>3. /\ Len(doc') = m
      /\ \A i \in 1 .. m :
            /\ doc'[i].tag = doc[i].tag /\ doc'[i].attrs = doc[i].attrs
            /\ doc'[i].children = doc[i].children /\ doc'[i].evaluated = doc[i].evaluated
            /\ i # m => doc'[i].text = doc[i].text
  <2>1. CASE doc = <<>>  BY <2>1 DEF AddText
  <2>2. CASE doc # <<>>
    <3> DEFINE e == doc'
    <3>1. /\ m \in Nat \ {0} /\ Len(e) = m
          /\ \A i \in 1 .. m - 1 : e[i] = doc[i]
          /\ e[m].tag = doc[m].tag /\ e[m].attrs = doc[m].attrs
          /\ e[m].children = doc[m].children /\ e[m].evaluated = doc[m].evaluated
      BY <1>1, <2>2, AddTextElements DEF Followed, DocOK
    <3> HIDE DEF e, m
    <3>2. \A i \in 1 .. m : i # m => i \in 1 .. m - 1  BY <3>1
    <3>3. QED  BY <3>1, <3>2 DEF e
  <2>3. QED  BY <2>1, <2>2
<1>4. ~(n > 0 /\ n = m /\ NeedsText(IdOf(n)))
  <2>1. SUFFICES ASSUME n > 0, n = m PROVE ~NeedsText(IdOf(n))
    OBVIOUS
  <2>2. skip_depth = 0 /\ context_stack # <<>>
    BY <1>1, <1>2, <2>1
  <2>3. Last(context_stack) = context_stack[n]
    BY <1>1, <2>2, FrontLast, Places DEF StacksOK
  <2>4. QED  BY <1>1, <2>2, <2>3 DEF TextWanted, IdOf
<1>5. mode'.kind = mode.kind  BY <1>1
<1>6. QED
  <2> HIDE DEF m
  <2>1. QED  BY <1>1, <1>2, <1>3, <1>4, <1>5, QuietTold DEF m

(* CDATA sections, references and the like.                                *)
LEMMA OtherTold ==
  ASSUME IInv, Followed, status = "reading", Told, IInv',
         UNCHANGED <<tree, stacks, mode, skip_depth>>, doc' = AddOther(doc)
  PROVE  Told'
<1> DEFINE n == Len(context_stack)
           m == Len(doc)
<1>1. /\ IsSeq(doc) /\ n \in Nat /\ m \in Nat /\ n <= m
      /\ IsCapturing => n > 0
      /\ UNCHANGED <<tree, context_stack, sibling_counters, skip_depth, mode>>
  BY Places DEF stacks
<1>2. /\ Len(doc') = m
      /\ \A i \in 1 .. m :
            /\ doc'[i].tag = doc[i].tag /\ doc'[i].attrs = doc[i].attrs
            /\ doc'[i].children = doc[i].children /\ doc'[i].evaluated = doc[i].evaluated
            /\ doc'[i].text = doc[i].text
  <2>1. CASE doc = <<>>  BY <2>1 DEF AddOther
  <2>2. CASE doc # <<>>  BY <1>1, <2>2, AddOtherElements DEF Followed, DocOK
  <2>3. QED  BY <2>1, <2>2
<1>3. n > 0 => n \in 1 .. m  BY <1>1
<1>4. n > 0 => doc'[n].text = doc[n].text  BY <1>2, <1>3
<1>5. IsCapturing => DV!Legible(doc'[n].text)
  BY <1>1, <1>4 DEF Told, CaptureTold
<1>6. mode'.kind = mode.kind  BY <1>1
<1>7. QED
  <2> HIDE DEF m
  <2>1. QED  BY <1>1, <1>2, <1>4, <1>5, <1>6, QuietTold DEF m

(* Text inside of a captured element.                                      *)
LEMMA CaptureTextTold ==
  ASSUME IInv, Followed, status = "reading", Told, IInv', UNCHANGED <<tree, skip_depth>>,
         NEW piece \in Texts \cup {Garbled}, doc' = AddText(doc, piece), CaptureText(piece)
  PROVE  Told'
<1> DEFINE n == Len(context_stack)
           m == Len(doc)
<1>1. /\ IsSeq(doc) /\ n \in Nat /\ m \in Nat /\ n <= m /\ n > 0
      /\ IsCapturing /\ ~IsStreaming
      /\ UNCHANGED <<tree, context_stack, sibling_counters, skip_depth>>
      /\ \A k \in 1 .. n : IsElement(doc[k])
  BY Places DEF CaptureText, stacks
<1>2. mode'.kind = mode.kind
  <2>1. ModeOK /\ mode # Streaming
    BY <1>1 DEF IInv, TypeOK, IsCapturing, Streaming
  <2>2. QED  BY <2>1 DEF ModeOK, CaptureText
<1>3. doc # <<>>  BY <1>1
<1> DEFINE e == doc'
<1>4. /\ m \in Nat \ {0} /\ Len(e) = m
      /\ \A i \in 1 .. m - 1 : e[i] = doc[i]
      /\ e[m].tag = doc[m].tag /\ e[m].attrs = doc[m].attrs
      /\ e[m].children = doc[m].children /\ e[m].evaluated = doc[m].evaluated
      /\ e[m].text = Append(doc[m].text, piece)
  BY <1>1, <1>3, AddTextElements DEF Followed, DocOK
<1> HIDE DEF e, m
<1>5. \A i \in 1 .. m : i # m => i \in 1 .. m - 1  BY <1>4
<1>6. piece \notin Illegible
  BY IllegibleAssumption DEF CaptureText, Illegible
<1>7. DV!Legible(e[n].text)
  <2>1. n \in 1 .. n /\ n \in 1 .. m  BY <1>1
  <2>2. DV!Legible(doc[n].text)  BY <1>1 DEF Told, CaptureTold
  <2>3. CASE n = m
    <3>1. IsSeq(doc[n].text)  BY <1>1, <2>1 DEF IsElement
    <3>2. QED  BY <1>4, <1>6, <2>2, <2>3, <3>1, LegibleAppend
  <2>4. CASE n # m  BY <1>4, <1>5, <2>1, <2>2, <2>4
  <2>5. QED  BY <2>3, <2>4
<1>8. /\ Len(doc') = Len(doc)
      /\ \A i \in 1 .. Len(doc) :
            /\ doc'[i].tag = doc[i].tag /\ doc'[i].attrs = doc[i].attrs
            /\ doc'[i].children = doc[i].children /\ doc'[i].evaluated = doc[i].evaluated
            /\ i # Len(doc) => doc'[i].text = doc[i].text
  BY <1>4, <1>5 DEF e, m
<1>9. DV!Legible(doc'[n].text)  BY <1>7 DEF e
<1>10. QED  BY <1>1, <1>2, <1>8, <1>9, QuietTold

(* The start tag of an element inside of a captured one.                   *)
LEMMA CaptureStartTold ==
  ASSUME IInv, Followed, status = "reading", Told, IInv', tree' = tree,
         NEW tag, NEW attrs, doc' = Open(doc, tag, attrs), CaptureStart(tag, attrs)
  PROVE  Told'
<1> DEFINE n == Len(context_stack)
           m == Len(doc)
<1>1. /\ IsSeq(doc) /\ n \in Nat /\ m \in Nat /\ n <= m /\ n > 0
      /\ IsCapturing /\ ~IsStreaming /\ skip_depth' = 0
      /\ UNCHANGED <<tree, context_stack, sibling_counters>>
  BY Places DEF CaptureStart, stacks
<1>2. mode'.kind = mode.kind
  <2>1. ModeOK /\ mode # Streaming
    BY <1>1 DEF IInv, TypeOK, IsCapturing, Streaming
  <2>2. QED  BY <2>1 DEF ModeOK, CaptureStart
<1>3. Len(doc') = m + 1 /\ \A i \in 1 .. m : doc'[i] = doc[i]
  BY <1>1, OpenElements DEF Followed, DocOK
<1>4. SkippedTold'  BY <1>1 DEF SkippedTold
<1>5. \A k \in 1 .. n : doc'[k] = doc[k]  BY <1>1, <1>3
<1>6. n \in 1 .. n /\ n <= Len(doc') /\ \A k \in 1 .. n - 1 : k \in 1 .. n
  BY <1>1, <1>3
<1>7. DV!Legible(doc'[n].text)
  BY <1>1, <1>5, <1>6 DEF Told, CaptureTold
<1> HIDE DEF m
<1>8. QED  BY <1>1, <1>2, <1>4, <1>5, <1>6, <1>7, ToldKept

(* The end tag of an element inside of a captured one.                     *)
LEMMA CaptureEndTold ==
  ASSUME IInv, Followed, status = "reading", Told, IInv', tree' = tree, CaptureEnd
  PROVE  Told'
<1> DEFINE n == Len(context_stack)
           m == Len(doc)
<1>1. /\ IsSeq(doc) /\ n \in Nat /\ m \in Nat /\ n < m /\ n > 0
      /\ IsCapturing /\ ~IsStreaming /\ skip_depth' = 0
      /\ UNCHANGED <<tree, context_stack, sibling_counters>>
  <2>1. /\ IsCapturing /\ mode.depth # 1 /\ skip_depth' = 0
        /\ UNCHANGED <<tree, context_stack, sibling_counters>>
    BY DEF CaptureEnd, stacks
  <2>2. mode.depth \in Nat \ {0} /\ m = n + (mode.depth - 1)
    BY <2>1, Sizes
  <2>3. IsSeq(doc) /\ n \in Nat /\ m \in Nat /\ n > 0 /\ ~IsStreaming
    BY <2>1, Places
  <2>4. n < m  BY <2>1, <2>2, <2>3
  <2>5. QED  BY <2>1, <2>3, <2>4
<1>2. mode'.kind = mode.kind
  <2>1. ModeOK /\ mode # Streaming
    BY <1>1 DEF IInv, TypeOK, IsCapturing, Streaming
  <2>2. QED  BY <2>1 DEF ModeOK, CaptureEnd
<1>3. doc # <<>>  BY <1>1
<1>4. /\ Len(doc') = m - 1
      /\ \A i \in 1 .. m - 2 : doc'[i] = doc[i]
      /\ m > 1 =>
           /\ doc'[m - 1].tag = doc[m - 1].tag /\ doc'[m - 1].attrs = doc[m - 1].attrs
           /\ doc'[m - 1].text = doc[m - 1].text
  <2>1. doc' = Close(doc, <<>>)  BY DEF CaptureEnd
  <2>2. QED  BY <1>1, <1>3, <2>1, EmptyIsSeq, CloseElements DEF Followed, DocOK
<1> HIDE DEF m
<1>5. /\ \A k \in 1 .. n - 1 : k \in 1 .. m - 2
      /\ \A k \in 1 .. n : k \in 1 .. m - 2 \/ (k = m - 1 /\ m > 1)
      /\ n <= Len(doc') /\ n \in 1 .. n
  BY <1>1, <1>4
<1>6. /\ \A k \in 1 .. n : doc'[k].tag = doc[k].tag /\ doc'[k].attrs = doc[k].attrs
      /\ \A k \in 1 .. n - 1 : doc'[k] = doc[k]
      /\ \A k \in 1 .. n : doc'[k].text = doc[k].text
  BY <1>4, <1>5
<1>7. SkippedTold'  BY <1>1 DEF SkippedTold
<1>8. DV!Legible(doc'[n].text)
  BY <1>1, <1>5, <1>6 DEF Told, CaptureTold
<1>9. QED  BY <1>1, <1>2, <1>5, <1>6, <1>7, <1>8, ToldKept

-----------------------------------------------------------------------------
(* What has to be shown of a next state, where the contexts are cs, the    *)
(* counters sc and the document e.                                         *)
LEMMA ToldNext ==
  ASSUME tree' = tree, NEW cs, cs = context_stack', NEW sc, sc = sibling_counters',
         NEW e, e = doc', NEW live, live = Live',
         IsInjective(HashOf) =>
           \A k \in 1 .. live : \A tag \in Tags :
              ChildOf(tree, cs[k].descriptor_id, tag) # NoNode =>
                sc[k][HashOf[tag]]
                  = Count(e[k].children, tag)
                      + (IF k < Len(e) /\ e[k + 1].tag = tag THEN 1 ELSE 0),
         IsInjective(HashOf) =>
           \A k \in 1 .. Len(cs) :
              cs[k].index = IF k = 1 THEN 0 ELSE Count(e[k - 1].children, e[k].tag),
         \A k \in 1 .. Len(cs) :
            NeedsAttrs(cs[k].descriptor_id) =>
              cs[k].attrs = e[k].attrs /\ DV!Legible(e[k].attrs),
         \A k \in 1 .. live :
            NeedsText(cs[k].descriptor_id) =>
              cs[k].text = e[k].text /\ DV!Legible(e[k].text),
         IsInjective(HashOf) /\ RulesFit =>
           \A k \in 1 .. live :
              /\ DV!Brief(cs[k].children) = DV!Brief(e[k].evaluated)
              /\ "CHILDREN" \in tree.nodes[cs[k].descriptor_id].needs =>
                   cs[k].children = e[k].evaluated,
         skip_depth' = 0,
         \A k \in 1 .. Len(cs) :
            IsCapture(tree.nodes[cs[k].descriptor_id].needs)
              <=> IsCapturing' /\ k = Len(cs),
         IsCapturing' => DV!Legible(e[Len(cs)].text)
  PROVE  Told'
<1>1. \A k : IdOf(k)' = cs[k].descriptor_id  BY DEF IdOf
<1>2. /\ \A k : NeedsAttrs(IdOf(k))' <=> NeedsAttrs(cs[k].descriptor_id)
      /\ \A k : NeedsText(IdOf(k))' <=> NeedsText(cs[k].descriptor_id)
      /\ \A k, tag : ChildOf(tree, IdOf(k), tag)' = ChildOf(tree, cs[k].descriptor_id, tag)
  BY <1>1 DEF NeedsAttrs, NeedsText, ChildOf, NodeIds, IdOf
<1>3. /\ \A k : DV!Legible(doc[k].attrs)' <=> DV!Legible(e[k].attrs)
      /\ \A k : DV!Legible(doc[k].text)' <=> DV!Legible(e[k].text)
  BY DEF DV!Legible
<1>4. /\ \A k : DV!Brief(context_stack[k].children)' = DV!Brief(cs[k].children)
      /\ \A k : DV!Brief(doc[k].evaluated)' = DV!Brief(e[k].evaluated)
  BY DEF DV!Brief
<1>5. /\ \A k, tag : Count(doc[k].children, tag)' = Count(e[k].children, tag)
      /\ \A k : Count(doc[k - 1].children, doc[k].tag)' = Count(e[k - 1].children, e[k].tag)
  BY DEF Count
<1>6. \A k, tag :
         Opened(k, tag)' = Count(e[k].children, tag)
                             + (IF k < Len(e) /\ e[k + 1].tag = tag THEN 1 ELSE 0)
  BY <1>5 DEF Opened
<1>7. Len(context_stack)' = Len(cs)  OBVIOUS
<1>8. CountersTold'
  <2>1. SUFFICES ASSUME IsInjective(HashOf), NEW k \in 1 .. live, NEW tag \in Tags,
                        ChildOf(tree, cs[k].descriptor_id, tag) # NoNode
                 PROVE  sc[k][HashOf[tag]] = Opened(k, tag)'
    BY <1>2 DEF CountersTold
  <2>2. QED  BY <1>6, <2>1
<1>9. IndexesTold'  BY <1>5, <1>7 DEF IndexesTold
<1>10. AttrsTold'  BY <1>2, <1>3, <1>7 DEF AttrsTold
<1>11. TextTold'  BY <1>2, <1>3 DEF TextTold
<1>12. ChildrenTold'  BY <1>1, <1>4 DEF ChildrenTold
<1>13. SkippedTold'  BY DEF SkippedTold
<1>14. CaptureTold'
  <2>1. \A k : IsCapture(tree.nodes[IdOf(k)].needs)'
                 <=> IsCapture(tree.nodes[cs[k].descriptor_id].needs)
    BY <1>1 DEF IsCapture
  <2>2. DV!Legible(doc[Len(context_stack)].text)' <=> DV!Legible(e[Len(cs)].text)
    BY DEF DV!Legible
  <2>3. QED  BY <1>7, <2>1, <2>2 DEF CaptureTold
<1>15. QED  BY <1>8, <1>9, <1>10, <1>11, <1>12, <1>13, <1>14 DEF Told

(* A piece of text goes to the innermost context as to its element.        *)
LEMMA AppendTextTold ==
  ASSUME IInv, Followed, status = "reading", Told, UNCHANGED <<tree, skip_depth>>,
         NEW piece \in Texts \cup {Garbled}, doc' = AddText(doc, piece), AppendText(piece),
         NEW n, n = Len(context_stack), NEW cs, cs = context_stack', NEW e, e = doc'
  PROVE  Told'
<1> DEFINE old == context_stack[n]
           ctx == [old EXCEPT !.text = Append(old.text, piece)]
<1>1. /\ IsSeq(doc) /\ n \in Nat /\ Len(doc) = n /\ Live = n
      /\ IsStreaming /\ ~IsCapturing /\ skip_depth = 0 /\ skip_depth' = 0
      /\ UNCHANGED <<tree, sibling_counters, mode>>
      /\ context_stack # <<>> /\ context_stack \in Seq(NodeContexts)
      /\ \A k \in 1 .. n : IsElement(doc[k]) /\ context_stack[k] \in NodeContexts
  <2>1. /\ IsStreaming /\ skip_depth = 0 /\ context_stack # <<>>
        /\ UNCHANGED <<tree, sibling_counters, mode>>
    BY DEF AppendText, TextWanted, IsStreaming, IsCapturing
  <2>2. QED  BY <2>1, Places DEF StacksOK
<1>2. n # 0  BY <1>1, EmptySeq
<1>3. n \in 1 .. n /\ n > 0 /\ doc # <<>>  BY <1>1, <1>2
<1>4. /\ Len(cs) = n
      /\ \A k \in 1 .. n : cs[k] = IF k = n THEN ctx ELSE context_stack[k]
  <2>1. cs = [context_stack EXCEPT ![n] = ctx]  BY DEF AppendText
  <2>2. IsSeq(context_stack)  BY <1>1, IsSeqOf
  <2> HIDE DEF ctx
  <2>3. QED  BY <1>3, <2>1, <2>2, ExceptAny
<1>5. /\ ctx.descriptor_id = old.descriptor_id /\ ctx.attrs = old.attrs
      /\ ctx.index = old.index /\ ctx.children = old.children
      /\ ctx.text = Append(old.text, piece)
  <2>1. old \in NodeContexts  BY <1>1, <1>3
  <2> HIDE DEF old
  <2>2. QED  BY <2>1 DEF NodeContexts
<1> HIDE DEF ctx
<1>6. \A k \in 1 .. n : /\ cs[k].descriptor_id = context_stack[k].descriptor_id
                        /\ cs[k].attrs = context_stack[k].attrs
                        /\ cs[k].index = context_stack[k].index
                        /\ cs[k].children = context_stack[k].children
                        /\ k # n => cs[k].text = context_stack[k].text
                        /\ k = n => cs[k].text = Append(context_stack[n].text, piece)
  BY <1>4, <1>5
<1>7. /\ Len(e) = n
      /\ \A i \in 1 .. n - 1 : e[i] = doc[i]
      /\ e[n].tag = doc[n].tag /\ e[n].attrs = doc[n].attrs
      /\ e[n].children = doc[n].children /\ e[n].evaluated = doc[n].evaluated
      /\ e[n].text = Append(doc[n].text, piece)
  BY <1>1, <1>3, AddTextElements DEF Followed, DocOK
<1>8. \A i \in 1 .. n : i = n \/ i \in 1 .. n - 1  BY <1>1
<1>9. \A i \in 1 .. n : /\ e[i].tag = doc[i].tag /\ e[i].attrs = doc[i].attrs
                        /\ e[i].children = doc[i].children
                        /\ e[i].evaluated = doc[i].evaluated
                        /\ i # n => e[i].text = doc[i].text
                        /\ i = n => e[i].text = Append(doc[n].text, piece)
  BY <1>7, <1>8
<1>10. piece \notin Illegible
  BY IllegibleAssumption DEF AppendText, Illegible
<1>11. Live' = n /\ ~IsCapturing'
  BY <1>1, <1>4 DEF Live, IsCapturing
<1>12. ASSUME IsInjective(HashOf), NEW k \in 1 .. n, NEW tag \in Tags,
              ChildOf(tree, cs[k].descriptor_id, tag) # NoNode
       PROVE  sibling_counters'[k][HashOf[tag]]
                = Count(e[k].children, tag)
                    + (IF k < Len(e) /\ e[k + 1].tag = tag THEN 1 ELSE 0)
  <2>1. sibling_counters[k][HashOf[tag]] = Opened(k, tag)
    BY <1>1, <1>6, <1>12 DEF Told, CountersTold, IdOf
  <2>2. k < n => k + 1 \in 1 .. n  BY <1>1
  <2>3. k < n => e[k + 1].tag = doc[k + 1].tag  BY <1>9, <2>2
  <2>4. QED  BY <1>1, <1>7, <1>9, <2>1, <2>3 DEF Opened
<1>13. ASSUME IsInjective(HashOf), NEW k \in 1 .. n
       PROVE  cs[k].index = IF k = 1 THEN 0 ELSE Count(e[k - 1].children, e[k].tag)
  <2>1. context_stack[k].index = IF k = 1 THEN 0 ELSE Count(doc[k - 1].children, doc[k].tag)
    BY <1>13 DEF Told, IndexesTold
  <2>2. k # 1 => k - 1 \in 1 .. n  BY <1>1
  <2>3. QED  BY <1>6, <1>9, <2>1, <2>2
<1>14. ASSUME NEW k \in 1 .. n, NeedsAttrs(cs[k].descriptor_id)
       PROVE  cs[k].attrs = e[k].attrs /\ DV!Legible(e[k].attrs)
  BY <1>6, <1>9, <1>14 DEF Told, AttrsTold, IdOf
<1>15. ASSUME NEW k \in 1 .. n, NeedsText(cs[k].descriptor_id)
       PROVE  cs[k].text = e[k].text /\ DV!Legible(e[k].text)
  <2>1. context_stack[k].text = doc[k].text /\ DV!Legible(doc[k].text)
    BY <1>1, <1>6, <1>15 DEF Told, TextTold, IdOf
  <2>2. CASE k # n  BY <1>6, <1>9, <2>1, <2>2
  <2>3. CASE k = n
    <3>1. IsSeq(doc[k].text)  BY <1>1 DEF IsElement
    <3>2. DV!Legible(Append(doc[k].text, piece))  BY <1>10, <2>1, <3>1, LegibleAppend
    <3>3. cs[k].text = Append(context_stack[k].text, piece)  BY <1>6, <2>3
    <3>4. e[k].text = Append(doc[k].text, piece)  BY <1>9, <2>3
    <3>5. QED  BY <2>1, <3>2, <3>3, <3>4
  <2>4. QED  BY <2>2, <2>3
<1>16. ASSUME IsInjective(HashOf), RulesFit, NEW k \in 1 .. n
       PROVE  /\ DV!Brief(cs[k].children) = DV!Brief(e[k].evaluated)
              /\ "CHILDREN" \in tree.nodes[cs[k].descriptor_id].needs =>
                   cs[k].children = e[k].evaluated
  <2>1. /\ DV!Brief(context_stack[k].children) = DV!Brief(doc[k].evaluated)
        /\ "CHILDREN" \in tree.nodes[IdOf(k)].needs =>
             context_stack[k].children = doc[k].evaluated
    BY <1>1, <1>16 DEF Told, ChildrenTold
  <2>2. QED  BY <1>6, <1>9, <2>1 DEF IdOf
<1>17. \A k \in 1 .. n : ~IsCapture(tree.nodes[cs[k].descriptor_id].needs)
  BY <1>1, <1>6 DEF Told, CaptureTold, IdOf
<1> DEFINE sc == sibling_counters'
<1> HIDE DEF sc
<1>18. QED
  BY <1>1, <1>4, <1>11, <1>12, <1>13, <1>14, <1>15, <1>16, <1>17, ToldNext DEF sc

(* An attribute list without an error can be read.                         *)
LEMMA NoAttrError ==
  ASSUME NEW attrs, AttrError(attrs) = "none"
  PROVE  DV!Legible(attrs)
<1> DEFINE bad == {i \in DOMAIN attrs : attrs[i] \in Illegible}
           first == \E i \in bad : attrs[i] = Garbled /\ \A j \in bad : i <= j
<1>1. AttrError(attrs) = IF bad = {} THEN "none" ELSE IF first THEN "Utf8" ELSE "XmlParse"
  BY DEF AttrError
<1> HIDE DEF first
<1>2. bad = {}  BY <1>1
<1>3. DV!Illegible = Illegible  BY DEF DV!Illegible, Illegible
<1>4. QED  BY <1>2, <1>3 DEF DV!Legible

(* The counters when the element of a declared tag opens: its parent has   *)
(* counted it, for no other tag, and it has counted nothing itself.        *)
LEMMA CountersOpened ==
  ASSUME StacksOK, IsInjective(HashOf), NEW n, n = Len(sibling_counters),
         NEW tag \in Tags
  PROVE  LET sc == Append(CountSibling(tag), NoCounts)
         IN /\ \A k \in 1 .. n - 1 : sc[k] = sibling_counters[k]
            /\ n > 0 => \A t \in Tags :
                 sc[n][HashOf[t]]
                   = sibling_counters[n][HashOf[t]] + (IF t = tag THEN 1 ELSE 0)
            /\ \A t \in Tags : sc[n + 1][HashOf[t]] = 0
            /\ n > 0 => SiblingIndexOf(tag) = sibling_counters[n][HashOf[tag]]
<1> DEFINE cc == CountSibling(tag)
           sc == Append(cc, NoCounts)
           h  == HashOf[tag]
<1>1. /\ sibling_counters \in Seq([Hashes -> Nat]) /\ n \in Nat
      /\ IsSeq(sibling_counters)
      /\ h \in Hashes /\ \A t \in Tags : HashOf[t] \in Hashes /\ t \in DOMAIN HashOf
      /\ \A k \in 1 .. n : sibling_counters[k] \in [Hashes -> Nat]
  BY HashAssumption, IsSeqOf DEF StacksOK
<1>2. IsSeq(cc) /\ Len(cc) = n
  BY CountersType, IsSeqOf
<1>3. ASSUME n > 0
      PROVE  /\ \A k \in 1 .. n : cc[k] = IF k = n THEN [sibling_counters[n] EXCEPT ![h] = @ + 1]
                                          ELSE sibling_counters[k]
             /\ SiblingIndexOf(tag) = sibling_counters[n][h]
  <2>1. n \in 1 .. n /\ sibling_counters # <<>>  BY <1>1, <1>3
  <2> DEFINE c == [sibling_counters[n] EXCEPT ![h] = @ + 1]
  <2>2. cc = [sibling_counters EXCEPT ![n] = c]  BY <2>1 DEF CountSibling
  <2>3. SiblingIndexOf(tag) = sibling_counters[n][h]
    BY <1>1, <2>1, FrontLast DEF SiblingIndexOf
  <2> HIDE DEF c, cc
  <2>4. \A k \in 1 .. n : cc[k] = IF k = n THEN c ELSE sibling_counters[k]
    BY <1>1, <2>1, <2>2, ExceptAny
  <2>5. QED  BY <2>3, <2>4 DEF c
<1> HIDE DEF cc, sc
<1>4. /\ \A k \in 1 .. n : sc[k] = cc[k]
      /\ sc[n + 1] = NoCounts
  BY <1>2, AppendAny DEF sc
<1>5. \A k \in 1 .. n - 1 : sc[k] = sibling_counters[k]
  <2>1. \A k \in 1 .. n - 1 : k \in 1 .. n /\ k # n /\ n > 0  BY <1>1
  <2>2. QED  BY <1>3, <1>4, <2>1
<1>6. ASSUME n > 0, NEW t \in Tags
      PROVE  sc[n][HashOf[t]]
               = sibling_counters[n][HashOf[t]] + (IF t = tag THEN 1 ELSE 0)
  <2>1. n \in 1 .. n  BY <1>1, <1>6
  <2>2. sc[n] = [sibling_counters[n] EXCEPT ![h] = @ + 1]  BY <1>3, <1>4, <1>6, <2>1
  <2>3. HashOf[t] = h <=> t = tag
    BY <1>1 DEF IsInjective
  <2> DEFINE c == sibling_counters[n]
  <2>4. c \in [Hashes -> Nat] /\ HashOf[t] \in Hashes  BY <1>1, <2>1
  <2> HIDE DEF c
  <2>5. sc[n] = [c EXCEPT ![h] = @ + 1]  BY <2>2 DEF c
  <2>6. CASE t = tag
    <3>1. sc[n][HashOf[t]] = c[HashOf[t]] + 1  BY <2>3, <2>4, <2>5, <2>6
    <3>2. QED  BY <2>6, <3>1 DEF c
  <2>7. CASE t # tag
    <3>1. sc[n][HashOf[t]] = c[HashOf[t]]  BY <2>3, <2>4, <2>5, <2>7
    <3>2. c[HashOf[t]] \in Nat  BY <2>4
    <3>3. QED  BY <2>7, <3>1, <3>2 DEF c
  <2>8. QED  BY <2>6, <2>7
<1>7. \A t \in Tags : sc[n + 1][HashOf[t]] = 0  BY <1>1, <1>4 DEF NoCounts
<1>8. QED  BY <1>3, <1>5, <1>6, <1>7 DEF sc, cc, h

(* The start tag of a declared element.                                    *)
LEMMA OpenDeclaredTold ==
  ASSUME IInv, Followed, status = "reading", Told, tree' = tree,
         NEW tag \in Tags \cup {Garbled}, NEW attrs, doc' = Open(doc, tag, attrs),
         OpenDeclared(tag, attrs),
         NEW n, n = Len(context_stack), NEW cs, cs = context_stack', NEW e, e = doc',
         NEW sc, sc = sibling_counters', NEW live, live = Live'
  PROVE  Told'
<1> DEFINE id == Lookup(tag)
<1>1. /\ IsSeq(doc) /\ n \in Nat /\ Len(doc) = n /\ Live = n
      /\ tree \in Trees /\ StacksOK
      /\ IsStreaming /\ ~IsCapturing /\ skip_depth = 0 /\ skip_depth' = 0
      /\ id # NoNode /\ StartError(tag, attrs) = "none"
  <2>1. /\ IsStreaming /\ skip_depth = 0 /\ skip_depth' = 0
        /\ id # NoNode /\ StartError(tag, attrs) = "none"
    BY DEF OpenDeclared
  <2> HIDE DEF id
  <2>2. QED  BY <2>1, Places
<1>2. /\ Len(cs) = n + 1
      /\ \A k \in 1 .. n : cs[k] = context_stack[k]
      /\ cs[n + 1].descriptor_id = id
      /\ cs[n + 1].attrs = IF NeedsAttrs(id) THEN attrs ELSE <<>>
      /\ cs[n + 1].text = <<>> /\ cs[n + 1].children = <<>>
      /\ cs[n + 1].index = SiblingIndexOf(tag)
      /\ sc = Append(CountSibling(tag), NoCounts)
  BY OpenedContext
<1>3. /\ IsCapturing' <=> IsCapture(tree.nodes[id].needs)
      /\ live = n + (IF IsCapture(tree.nodes[id].needs) THEN 0 ELSE 1)
  <2>1. IF IsCapture(tree.nodes[id].needs)
        THEN mode' = Capturing(CaptureRoot(tag, attrs), 1, id, n)
        ELSE mode' = mode
    BY OpenedContext
  <2>2. IsCapturing' <=> IsCapture(tree.nodes[id].needs)
    BY <1>1, <2>1 DEF IsCapturing, Capturing
  <2>3. Len(context_stack)' = n + 1  BY <1>2
  <2>4. live = n + 1 - (IF IsCapturing' THEN 1 ELSE 0)  BY <2>3 DEF Live
  <2> HIDE DEF id
  <2>5. CASE IsCapture(tree.nodes[id].needs)
    <3>1. live = n + 1 - 1  BY <2>2, <2>4, <2>5
    <3>2. QED  BY <1>1, <2>2, <2>5, <3>1
  <2>6. CASE ~IsCapture(tree.nodes[id].needs)
    <3>1. live = n + 1 - 0  BY <2>2, <2>4, <2>6
    <3>2. QED  BY <1>1, <2>2, <2>6, <3>1
  <2>7. QED  BY <2>5, <2>6
<1>4. tag \in Tags /\ (NeedsAttrs(id) => DV!Legible(attrs))
  <2>1. tag # Garbled  BY <1>1 DEF StartError
  <2>2. NeedsAttrs(id) => AttrError(attrs) = "none"
    BY <1>1, <2>1 DEF StartError
  <2>3. QED  BY <2>1, <2>2, NoAttrError
<1>5. /\ Len(e) = n + 1
      /\ \A k \in 1 .. n : e[k] = doc[k]
      /\ e[n + 1] = Element(tag, attrs)
  BY <1>1, OpenElements DEF Followed, DocOK
<1>6. /\ e[n + 1].tag = tag /\ e[n + 1].attrs = attrs /\ e[n + 1].text = <<>>
      /\ e[n + 1].children = <<>> /\ e[n + 1].evaluated = <<>>
  BY <1>5 DEF Element
<1>7. n > 0 => ChildOf(tree, IdOf(n), tag) # NoNode
  <2>1. SUFFICES ASSUME n > 0 PROVE ChildOf(tree, IdOf(n), tag) # NoNode
    OBVIOUS
  <2>2. /\ descriptor_stack \in Seq(NodeIds(tree)) /\ Len(descriptor_stack) = n
        /\ \A k \in 1 .. n : descriptor_stack[k] = IdOf(k)
    BY <1>1, Sizes DEF StacksOK, IInv, StackInv, StacksAligned, IdOf
  <2>3. descriptor_stack # <<>> /\ n \in 1 .. n  BY <1>1, <2>1, <2>2
  <2>4. Last(descriptor_stack) = IdOf(n)  BY <2>2, <2>3, FrontLast
  <2>5. id = ChildOf(tree, IdOf(n), tag)  BY <2>3, <2>4 DEF Lookup
  <2>6. QED  BY <1>1, <2>5
<1>8. IsInjective(HashOf) =>
      /\ n = Len(sibling_counters)
      /\ \A k \in 1 .. n - 1 : sc[k] = sibling_counters[k]
      /\ n > 0 => \A t \in Tags :
           sc[n][HashOf[t]]
             = sibling_counters[n][HashOf[t]] + (IF t = tag THEN 1 ELSE 0)
      /\ \A t \in Tags : sc[n + 1][HashOf[t]] = 0
      /\ n > 0 => SiblingIndexOf(tag) = sibling_counters[n][HashOf[tag]]
      /\ n = 0 => SiblingIndexOf(tag) = 0
  <2> SUFFICES ASSUME IsInjective(HashOf)
               PROVE  /\ n = Len(sibling_counters)
                      /\ \A k \in 1 .. n - 1 : sc[k] = sibling_counters[k]
                      /\ n > 0 => \A t \in Tags :
                           sc[n][HashOf[t]]
                             = sibling_counters[n][HashOf[t]] + (IF t = tag THEN 1 ELSE 0)
                      /\ \A t \in Tags : sc[n + 1][HashOf[t]] = 0
                      /\ n > 0 => SiblingIndexOf(tag) = sibling_counters[n][HashOf[tag]]
                      /\ n = 0 => SiblingIndexOf(tag) = 0
    OBVIOUS
  <2>1. n = Len(sibling_counters)  BY DEF IInv, StackInv, StacksAligned
  <2>2. n = 0 => SiblingIndexOf(tag) = 0
    BY <1>1, <2>1, EmptySeq DEF SiblingIndexOf, StacksOK
  <2> DEFINE r == Append(CountSibling(tag), NoCounts)
  <2>3. /\ \A k \in 1 .. n - 1 : r[k] = sibling_counters[k]
        /\ n > 0 => \A t \in Tags :
             r[n][HashOf[t]]
               = sibling_counters[n][HashOf[t]] + (IF t = tag THEN 1 ELSE 0)
        /\ \A t \in Tags : r[n + 1][HashOf[t]] = 0
        /\ n > 0 => SiblingIndexOf(tag) = sibling_counters[n][HashOf[tag]]
    BY <1>1, <1>4, <2>1, CountersOpened
  <2> HIDE DEF r
  <2>4. sc = r  BY <1>2 DEF r
  <2>5. QED  BY <2>1, <2>2, <2>3, <2>4
<1>9. ASSUME IsInjective(HashOf), NEW k \in 1 .. n, NEW t \in Tags,
             ChildOf(tree, IdOf(k), t) # NoNode
      PROVE  sibling_counters[k][HashOf[t]]
               = Count(doc[k].children, t)
                   + (IF k < n /\ doc[k + 1].tag = t THEN 1 ELSE 0)
  BY <1>1, <1>9 DEF Told, CountersTold, Opened
<1> HIDE DEF id
<1>10. \A k \in 1 .. n + 1 : k \in 1 .. n \/ k = n + 1  BY <1>1
<1>11. \A k \in 1 .. n : cs[k].descriptor_id = IdOf(k)  BY <1>2 DEF IdOf
<1>12. ASSUME IsInjective(HashOf), NEW k \in 1 .. live, NEW t \in Tags,
              ChildOf(tree, cs[k].descriptor_id, t) # NoNode
       PROVE  sc[k][HashOf[t]]
                = Count(e[k].children, t)
                    + (IF k < Len(e) /\ e[k + 1].tag = t THEN 1 ELSE 0)
  <2>1. k \in 1 .. n + 1  BY <1>1, <1>3
  <2>2. CASE k \in 1 .. n - 1
    <3>1. k \in 1 .. n /\ k + 1 \in 1 .. n /\ k < n /\ k < Len(e)
      BY <1>1, <1>5, <2>2
    <3>2. e[k] = doc[k] /\ e[k + 1] = doc[k + 1]  BY <1>5, <3>1
    <3>3. QED  BY <1>8, <1>9, <1>11, <1>12, <2>2, <3>1, <3>2
  <2>3. CASE k = n /\ n > 0
    <3>1. k \in 1 .. n /\ k < Len(e) /\ ~(k < n)  BY <1>1, <1>5, <2>3
    <3>2. sibling_counters[k][HashOf[t]] = Count(doc[k].children, t) + 0
      BY <1>9, <1>11, <1>12, <3>1
    <3>3. IsSeq(doc[k].children)
      BY <3>1, Places DEF IsElement
    <3>4. Count(doc[k].children, t) \in Nat  BY <3>3, CountAppend
    <3>5. sc[k][HashOf[t]] = Count(doc[k].children, t) + (IF t = tag THEN 1 ELSE 0)
      BY <1>8, <1>12, <2>3, <3>2, <3>4
    <3>6. e[k] = doc[k] /\ e[k + 1].tag = tag  BY <1>5, <1>6, <2>3, <3>1
    <3>7. QED  BY <3>1, <3>5, <3>6
  <2>4. CASE k = n + 1
    <3>1. ~(k < Len(e))  BY <1>1, <1>5, <2>4
    <3>2. IsSeq(<<>>)  BY EmptyIsSeq
    <3>3. Count(<<>>, t) = 0  BY <3>2, CountAppend
    <3>4. QED  BY <1>6, <1>8, <1>12, <2>4, <3>1, <3>3
  <2>5. k \in 1 .. n - 1 \/ (k = n /\ n > 0) \/ k = n + 1  BY <1>1, <2>1
  <2>6. QED  BY <2>2, <2>3, <2>4, <2>5
<1>13. ASSUME IsInjective(HashOf), NEW k \in 1 .. n + 1
       PROVE  cs[k].index = IF k = 1 THEN 0 ELSE Count(e[k - 1].children, e[k].tag)
  <2>1. CASE k \in 1 .. n
    <3>1. context_stack[k].index = IF k = 1 THEN 0 ELSE Count(doc[k - 1].children, doc[k].tag)
      BY <1>13, <2>1 DEF Told, IndexesTold
    <3>2. k # 1 => k - 1 \in 1 .. n  BY <1>1, <2>1
    <3>3. QED  BY <1>2, <1>5, <2>1, <3>1, <3>2
  <2>2. CASE k = n + 1 /\ n = 0  BY <1>2, <1>8, <1>13, <2>2
  <2>3. CASE k = n + 1 /\ n > 0
    <3>1. n \in 1 .. n /\ ~(n < n) /\ k - 1 = n /\ k # 1  BY <1>1, <2>3
    <3>2. sibling_counters[n][HashOf[tag]] = Count(doc[n].children, tag) + 0
      BY <1>4, <1>7, <1>9, <1>13, <2>3, <3>1
    <3>3. IsSeq(doc[n].children)  BY <3>1, Places DEF IsElement
    <3>4. Count(doc[n].children, tag) \in Nat  BY <3>3, CountAppend
    <3>5. cs[k].index = Count(doc[n].children, tag)  BY <1>2, <1>8, <1>13, <2>3, <3>2, <3>4
    <3>6. e[k - 1].children = doc[n].children /\ e[k].tag = tag
      BY <1>5, <1>6, <2>3, <3>1
    <3>7. QED  BY <3>1, <3>5, <3>6
  <2>4. QED  BY <1>1, <1>10, <2>1, <2>2, <2>3
<1>14. ASSUME NEW k \in 1 .. n + 1, NeedsAttrs(cs[k].descriptor_id)
       PROVE  cs[k].attrs = e[k].attrs /\ DV!Legible(e[k].attrs)
  <2>1. CASE k \in 1 .. n
    BY <1>2, <1>5, <1>11, <1>14, <2>1 DEF Told, AttrsTold
  <2>2. CASE k = n + 1  BY <1>2, <1>4, <1>6, <1>14, <2>2
  <2>3. QED  BY <1>10, <2>1, <2>2
<1>15. \A k \in 1 .. live : k \in 1 .. n \/ k = n + 1  BY <1>1, <1>3
<1>16. ASSUME NEW k \in 1 .. live, NeedsText(cs[k].descriptor_id)
       PROVE  cs[k].text = e[k].text /\ DV!Legible(e[k].text)
  <2>1. CASE k \in 1 .. n
    BY <1>1, <1>2, <1>5, <1>11, <1>16, <2>1 DEF Told, TextTold
  <2>2. CASE k = n + 1  BY <1>2, <1>6, <2>2 DEF DV!Legible
  <2>3. QED  BY <1>15, <2>1, <2>2
<1>17. ASSUME IsInjective(HashOf), RulesFit, NEW k \in 1 .. live
       PROVE  /\ DV!Brief(cs[k].children) = DV!Brief(e[k].evaluated)
              /\ "CHILDREN" \in tree.nodes[cs[k].descriptor_id].needs =>
                   cs[k].children = e[k].evaluated
  <2>1. CASE k \in 1 .. n
    BY <1>1, <1>2, <1>5, <1>11, <1>17, <2>1 DEF Told, ChildrenTold
  <2>2. CASE k = n + 1  BY <1>2, <1>6, <2>2
  <2>3. QED  BY <1>15, <2>1, <2>2
<1>18. ASSUME NEW k \in 1 .. n + 1
       PROVE  IsCapture(tree.nodes[cs[k].descriptor_id].needs)
                <=> IsCapturing' /\ k = n + 1
  <2>1. CASE k \in 1 .. n
    <3>1. k # n + 1  BY <1>1, <2>1
    <3>2. ~IsCapture(tree.nodes[IdOf(k)].needs)  BY <1>1, <2>1 DEF Told, CaptureTold
    <3>3. QED  BY <1>11, <2>1, <3>1, <3>2
  <2>2. CASE k = n + 1  BY <1>2, <1>3, <2>2
  <2>3. QED  BY <1>10, <2>1, <2>2
<1>19. DV!Legible(e[n + 1].text)  BY <1>6 DEF DV!Legible
<1>20. /\ IsInjective(HashOf) =>
            \A k \in 1 .. Len(cs) :
               cs[k].index = IF k = 1 THEN 0 ELSE Count(e[k - 1].children, e[k].tag)
       /\ \A k \in 1 .. Len(cs) :
            NeedsAttrs(cs[k].descriptor_id) =>
              cs[k].attrs = e[k].attrs /\ DV!Legible(e[k].attrs)
       /\ \A k \in 1 .. Len(cs) :
            IsCapture(tree.nodes[cs[k].descriptor_id].needs)
              <=> IsCapturing' /\ k = Len(cs)
       /\ DV!Legible(e[Len(cs)].text)
  BY <1>2, <1>13, <1>14, <1>18, <1>19
<1>21. QED
  BY <1>1, <1>12, <1>16, <1>17, <1>20, ToldNext

-----------------------------------------------------------------------------
(* The index of an element, counted among the children of its parent.      *)
LEMMA SiblingCount ==
  ASSUME NEW d, IsSeq(d), NEW n, n = Len(d), n > 0
  PROVE  SiblingIndex(d) = IF n = 1 THEN 0 ELSE Count(d[n - 1].children, d[n].tag)
<1>1. Len(d) \in Nat  BY LenProperties DEF IsSeq
<1>2. d # <<>>  BY <1>1
<1>3. Last(d) = d[n]  BY <1>2, FrontAny
<1>4. QED  BY <1>3 DEF SiblingIndex, Count

(* The declaration of an open element is below that of the one around it,  *)
(* which keeps what its rules and those of its children may read.          *)
LEMMA ParentPlace ==
  ASSUME IInv, Followed, status = "reading", NEW k, k + 1 \in 1 .. Len(context_stack),
         k \in Nat, k > 0
  PROVE  /\ IdOf(k + 1) # Root /\ tree.nodes[IdOf(k + 1)].parent_id = IdOf(k)
         /\ {"ATTRS", "TEXT"} \subseteq tree.nodes[IdOf(k)].needs
         /\ "CHILDREN" \in tree.nodes[IdOf(k)].needs =>
              tree.nodes[IdOf(k + 1)].summary_needs = AllNeeds
<1> DEFINE n == Len(context_stack)
           m == IdOf(k + 1)
<1>1. n \in Nat /\ k \in 1 .. n /\ k + 1 \in 1 .. n  BY Places
<1>2. /\ tree \in Trees
      /\ m \in NodeIds(tree) /\ m \in DeclaredAt(doc, k + 1)
      /\ IdOf(k) \in DeclaredAt(doc, k)
  BY <1>1, Places
<1> HIDE DEF m
<1>3. tree.nodes[m].parent_id = IdOf(k) /\ m # Root
  <2> DEFINE depth == k + 1
  <2>1. depth \in Nat \ {0} /\ depth > 1 /\ depth - 1 = k  BY <1>1
  <2>2. m \in DeclaredAt(doc, depth)  BY <1>2
  <2> HIDE DEF depth
  <2>3. tree.nodes[m].parent_id \in DeclaredAt(doc, depth - 1) /\ m # Root
    BY <1>2, <2>1, <2>2, DeclaredBelow
  <2>4. QED  BY <1>2, <2>1, <2>3, DeclaredOnce
<1>4. KeepsForOthers(tree)  BY <1>2, TreesAssumption DEF IsTree
<1>5. QED  BY <1>2, <1>3, <1>4 DEF KeepsForOthers, m

(* What an account is in brief.                                            *)
LEMMA BriefAccount ==
  ASSUME NEW attrs, NEW text, NEW node, NEW index, NEW results
  PROVE  BriefOf([attrs |-> attrs, text |-> text, descriptor_id |-> node,
                  index |-> index, rule_results |-> results])
           = [attrs |-> <<>>, text |-> <<>>, descriptor_id |-> node,
              index |-> index, rule_results |-> results]
<1> DEFINE full == [attrs |-> attrs, text |-> text, descriptor_id |-> node,
                    index |-> index, rule_results |-> results]
           half == [attrs |-> <<>>, text |-> text, descriptor_id |-> node,
                    index |-> index, rule_results |-> results]
<1>1. [full EXCEPT !.attrs = <<>>] = half  OBVIOUS
<1>2. [half EXCEPT !.text = <<>>]
        = [attrs |-> <<>>, text |-> <<>>, descriptor_id |-> node,
           index |-> index, rule_results |-> results]
  OBVIOUS
<1> HIDE DEF full, half
<1>3. [full EXCEPT !.attrs = <<>>, !.text = <<>>]
        = [[full EXCEPT !.attrs = <<>>] EXCEPT !.text = <<>>]
  OBVIOUS
<1>4. QED  BY <1>1, <1>2, <1>3 DEF BriefOf, full

(* A closing element's summary against the full account of it.             *)
LEMMA SummaryTold ==
  ASSUME IInv, Followed, status = "reading", Told, IsInjective(HashOf),
         NEW n, n = Len(context_stack), n > 0, Len(doc) = n,
         NEW text, NeedsText(IdOf(n)) => text = doc[n].text, NEW results
  PROVE  LET ctx     == context_stack[n]
             summary == Summary(IdOf(n), ctx.attrs, text, ctx.index, results)
             childVerdict == ChildVerdict(doc, IdOf(n), results)
         IN /\ BriefOf(summary) = BriefOf(childVerdict)
            /\ n > 1 /\ "CHILDREN" \in tree.nodes[IdOf(n - 1)].needs =>
                 summary = childVerdict
<1> DEFINE ctx     == context_stack[n]
           summary == Summary(IdOf(n), ctx.attrs, text, ctx.index, results)
           childVerdict == ChildVerdict(doc, IdOf(n), results)
<1>1. /\ IsSeq(doc) /\ n \in Nat /\ n \in 1 .. n
  BY Places
<1>2. Last(doc) = doc[n] /\ SiblingIndex(doc) = ctx.index
  <2>1. doc # <<>>  BY <1>1
  <2>2. Last(doc) = doc[n]  BY <1>1, <2>1, FrontAny
  <2>3. SiblingIndex(doc) = IF n = 1 THEN 0 ELSE Count(doc[n - 1].children, doc[n].tag)
    BY <1>1, SiblingCount
  <2>4. QED  BY <1>1, <2>2, <2>3 DEF Told, IndexesTold
<1>3. BriefOf(summary) = BriefOf(childVerdict)
  <2> DEFINE account(attrs, txt) ==
               [attrs |-> attrs, text |-> txt, descriptor_id |-> IdOf(n),
                index |-> ctx.index, rule_results |-> results]
  <2>1. \A attrs, txt : BriefOf(account(attrs, txt)) = account(<<>>, <<>>)
    BY BriefAccount
  <2>2. \E attrs, txt : summary = account(attrs, txt)  BY DEF Summary
  <2>3. \E attrs, txt : childVerdict = account(attrs, txt)  BY <1>2 DEF ChildVerdict
  <2> HIDE DEF account, summary, childVerdict
  <2>4. QED  BY <2>1, <2>2, <2>3
<1>4. ASSUME n > 1, "CHILDREN" \in tree.nodes[IdOf(n - 1)].needs
      PROVE  summary = childVerdict
  <2>1. tree.nodes[IdOf(n)].summary_needs = AllNeeds
    <3> DEFINE k == n - 1
    <3>1. k + 1 = n /\ k \in Nat /\ k > 0  BY <1>1, <1>4
    <3> HIDE DEF k
    <3>2. k + 1 \in 1 .. Len(context_stack)  BY <1>1, <3>1
    <3>3. "CHILDREN" \in tree.nodes[IdOf(k)].needs  BY <1>4 DEF k
    <3>4. tree.nodes[IdOf(k + 1)].summary_needs = AllNeeds
      BY <3>1, <3>2, <3>3, ParentPlace
    <3>5. QED  BY <3>1, <3>4
  <2>2. NeedsAttrs(IdOf(n)) /\ NeedsText(IdOf(n))
    BY <2>1 DEF NeedsAttrs, NeedsText, AllNeeds, NodeNeeds
  <2>3. ctx.attrs = doc[n].attrs  BY <1>1, <2>2 DEF Told, AttrsTold
  <2>4. text = doc[n].text  BY <2>2
  <2>5. QED
    BY <1>2, <2>1, <2>3, <2>4 DEF Summary, ChildVerdict, AllNeeds, NodeNeeds
<1>5. QED  BY <1>3, <1>4

(* The word tells the rules of a declaration apart if it has a bit for     *)
(* each.                                                                   *)
LEMMA WordFits ==
  ASSUME RulesFit, tree \in Trees, NEW node \in NodeIds(tree),
         NEW diags \in Evaluations(tree, node)
  PROVE  Packed(Passed(tree, node, diags)) = Passed(tree, node, diags)
<1> DEFINE n == Len(tree.nodes[node].rules)
           passed == Passed(tree, node, diags)
<1>1. n <= Width  BY DEF RulesFit
<1>2. passed \subseteq 0 .. n - 1 /\ n \in Nat
  BY EvaluationsType, TreeFacts, LenProperties
<1> HIDE DEF n, passed
<1>3. \A i \in passed : i % Width = i  BY <1>1, <1>2, WidthAssumption
<1>4. Packed(passed) = passed  BY <1>3 DEF Packed
<1>5. QED  BY <1>4 DEF passed

(* The rules of the innermost context run, and its parent is told.         *)
LEMMA RulesRunTold ==
  ASSUME IInv, Followed, status = "reading", Told, tree' = tree, mode' = Streaming,
         skip_depth' = 0, NEW n, n = Len(context_stack), n > 0, Len(doc) = n,
         NEW text, NeedsText(IdOf(n)) => text = doc[n].text,
         NEW view, RunRules(view, IdOf(n), context_stack[n], text),
         NEW cs, cs = context_stack', NEW e, e = doc', NEW sc, sc = sibling_counters',
         NEW live, live = Live'
  PROVE  Told'
<1> DEFINE ctx == context_stack[n]
<1>1. /\ IsSeq(doc) /\ n \in Nat /\ Live \in {n - 1, n}
      /\ context_stack # <<>> /\ doc # <<>> /\ StacksOK
      /\ \A k \in 1 .. n : IsElement(doc[k]) /\ context_stack[k] \in NodeContexts
  <2>1. /\ IsSeq(doc) /\ n \in Nat /\ StacksOK
        /\ \A k \in 1 .. n : IsElement(doc[k]) /\ context_stack[k] \in NodeContexts
    BY Places
  <2>2. Live = n \/ Live = n - 1  BY Places
  <2>3. context_stack # <<>> /\ doc # <<>>  BY <2>1
  <2>4. QED  BY <2>1, <2>2, <2>3
<1>2. PICK diags \in Evaluations(tree, IdOf(n)) :
        LET passed == Passed(tree, IdOf(n), diags)
        IN /\ doc' = Close(doc, <<ChildVerdict(doc, IdOf(n), passed)>>)
           /\ n > 1 =>
                cs[n - 1].children
                  = Append(context_stack[n - 1].children,
                           Summary(IdOf(n), ctx.attrs, text, ctx.index, Packed(passed)))
  BY <1>1, RulesRun
<1> DEFINE passed == Passed(tree, IdOf(n), diags)
           results == Packed(passed)
           summary == Summary(IdOf(n), ctx.attrs, text, ctx.index, results)
           childVerdict == ChildVerdict(doc, IdOf(n), passed)
<1>3. /\ Len(cs) = n - 1
      /\ \A k \in 1 .. n - 1 :
           /\ cs[k].descriptor_id = IdOf(k) /\ cs[k].attrs = context_stack[k].attrs
           /\ cs[k].text = context_stack[k].text /\ cs[k].index = context_stack[k].index
      /\ \A k \in 1 .. n - 2 : cs[k].children = context_stack[k].children
      /\ \A k \in 1 .. n - 1 : sc[k] = sibling_counters[k]
  BY <1>1, RulesRun DEF IdOf
<1>4. n > 1 => cs[n - 1].children = Append(context_stack[n - 1].children, summary)
  BY <1>2
<1>5. IsInjective(HashOf) /\ RulesFit =>
      /\ BriefOf(summary) = BriefOf(childVerdict)
      /\ n > 1 /\ "CHILDREN" \in tree.nodes[IdOf(n - 1)].needs => summary = childVerdict
  <2> SUFFICES ASSUME IsInjective(HashOf), RulesFit
               PROVE  /\ BriefOf(summary) = BriefOf(childVerdict)
                      /\ n > 1 /\ "CHILDREN" \in tree.nodes[IdOf(n - 1)].needs =>
                           summary = childVerdict
    OBVIOUS
  <2>1. results = passed
    <3>1. tree \in Trees /\ IdOf(n) \in NodeIds(tree)  BY <1>1, Places
    <3>2. QED  BY <3>1, WordFits
  <2> HIDE DEF results, passed
  <2>2. QED  BY <2>1, SummaryTold
<1>6. doc' = Close(doc, <<childVerdict>>)  BY <1>2
<1> HIDE DEF summary, childVerdict, results, passed
<1>7. IsSeq(<<childVerdict>>)
  <2>1. <<childVerdict>> \in Seq({childVerdict})  OBVIOUS
  <2>2. QED  BY <2>1, IsSeqOf
<1>8. /\ Len(e) = n - 1
      /\ \A i \in 1 .. n - 2 : e[i] = doc[i]
      /\ n > 1 =>
           /\ e[n - 1].tag = doc[n - 1].tag /\ e[n - 1].attrs = doc[n - 1].attrs
           /\ e[n - 1].text = doc[n - 1].text
           /\ e[n - 1].children = Append(doc[n - 1].children, Dom(doc[n]))
           /\ e[n - 1].evaluated = doc[n - 1].evaluated \o <<childVerdict>>
  <2> DEFINE v == <<childVerdict>>
             r == Close(doc, v)
             m == Len(doc)
  <2>1. IsSeq(v) /\ \A i \in 1 .. Len(doc) : IsElement(doc[i])
    BY <1>1, <1>7
  <2> HIDE DEF v
  <2>2. /\ Len(r) = m - 1
        /\ \A i \in 1 .. m - 2 : r[i] = doc[i]
        /\ m > 1 =>
             /\ r[m - 1].tag = doc[m - 1].tag /\ r[m - 1].attrs = doc[m - 1].attrs
             /\ r[m - 1].text = doc[m - 1].text
             /\ r[m - 1].children = Append(doc[m - 1].children, Dom(doc[m]))
             /\ r[m - 1].evaluated = doc[m - 1].evaluated \o v
    BY <1>1, <2>1, CloseElements, ZenonT(60)
  <2>3. e = r  BY <1>6 DEF r, v
  <2>4. m = n  OBVIOUS
  <2> HIDE DEF r, m
  <2>5. QED  BY <2>2, <2>3, <2>4 DEF v
<1>9. \A k \in 1 .. n - 1 : k \in 1 .. n /\ (k \in 1 .. n - 2 \/ (k = n - 1 /\ n > 1))
  BY <1>1
<1>10. \A k \in 1 .. n - 1 :
         /\ e[k].tag = doc[k].tag /\ e[k].attrs = doc[k].attrs /\ e[k].text = doc[k].text
  BY <1>8, <1>9
<1>11. live = n - 1 /\ ~IsCapturing'
  <2>1. ~IsCapturing'  BY DEF IsCapturing, Streaming
  <2>2. Len(context_stack)' = n - 1  BY <1>3
  <2>3. live = n - 1 - 0  BY <2>1, <2>2 DEF Live
  <2>4. QED  BY <1>1, <2>1, <2>3
<1>12. \A k \in 1 .. n - 1 : k \in 1 .. Live  BY <1>1
<1>13. ASSUME IsInjective(HashOf), NEW k \in 1 .. n - 1, NEW t \in Tags,
              ChildOf(tree, cs[k].descriptor_id, t) # NoNode
       PROVE  sc[k][HashOf[t]]
                = Count(e[k].children, t)
                    + (IF k < Len(e) /\ e[k + 1].tag = t THEN 1 ELSE 0)
  <2>1. sc[k][HashOf[t]] = Count(doc[k].children, t)
                             + (IF k < n /\ doc[k + 1].tag = t THEN 1 ELSE 0)
    <3>1. sibling_counters[k][HashOf[t]] = Opened(k, t)
      BY <1>3, <1>12, <1>13 DEF Told, CountersTold
    <3>2. QED  BY <1>3, <3>1 DEF Opened
  <2>2. CASE k \in 1 .. n - 2
    <3>1. k < n /\ k < Len(e) /\ k + 1 \in 1 .. n - 1  BY <1>1, <1>8, <2>2
    <3>2. e[k] = doc[k] /\ e[k + 1].tag = doc[k + 1].tag  BY <1>8, <1>10, <2>2, <3>1
    <3>3. QED  BY <2>1, <3>1, <3>2
  <2>3. CASE k = n - 1 /\ n > 1
    <3>1. k < n /\ ~(k < Len(e)) /\ k + 1 = n /\ k \in 1 .. n  BY <1>1, <1>8, <2>3
    <3>2. IsSeq(doc[k].children)  BY <1>1, <3>1 DEF IsElement
    <3>3. e[k].children = Append(doc[k].children, Dom(doc[n]))  BY <1>8, <2>3
    <3>4. Dom(doc[n]).tag = doc[n].tag  BY DEF Dom
    <3> DEFINE a == Count(doc[k].children, t)
               b == Count(e[k].children, t)
    <3>5. a \in Nat /\ b = a + (IF doc[n].tag = t THEN 1 ELSE 0)
      BY <3>2, <3>3, <3>4, CountAppend
    <3> HIDE DEF a, b
    <3>6. sc[k][HashOf[t]] = a + (IF doc[n].tag = t THEN 1 ELSE 0)
      BY <2>1, <3>1 DEF a
    <3>7. sc[k][HashOf[t]] = b /\ b \in Nat  BY <3>5, <3>6
    <3>8. QED  BY <3>1, <3>7 DEF b
  <2>4. QED  BY <1>9, <2>2, <2>3
<1>14. ASSUME IsInjective(HashOf), NEW k \in 1 .. n - 1
       PROVE  cs[k].index = IF k = 1 THEN 0 ELSE Count(e[k - 1].children, e[k].tag)
  <2>1. context_stack[k].index = IF k = 1 THEN 0 ELSE Count(doc[k - 1].children, doc[k].tag)
    BY <1>9, <1>14 DEF Told, IndexesTold
  <2>2. k # 1 => k - 1 \in 1 .. n - 2  BY <1>1
  <2>3. QED  BY <1>3, <1>8, <1>10, <2>1, <2>2
<1>15. ASSUME NEW k \in 1 .. n - 1, NeedsAttrs(cs[k].descriptor_id)
       PROVE  cs[k].attrs = e[k].attrs /\ DV!Legible(e[k].attrs)
  BY <1>3, <1>9, <1>10, <1>15 DEF Told, AttrsTold
<1>16. ASSUME NEW k \in 1 .. n - 1, NeedsText(cs[k].descriptor_id)
       PROVE  cs[k].text = e[k].text /\ DV!Legible(e[k].text)
  BY <1>3, <1>10, <1>12, <1>16 DEF Told, TextTold
<1>17. ASSUME IsInjective(HashOf), RulesFit, NEW k \in 1 .. n - 1
       PROVE  /\ DV!Brief(cs[k].children) = DV!Brief(e[k].evaluated)
              /\ "CHILDREN" \in tree.nodes[cs[k].descriptor_id].needs =>
                   cs[k].children = e[k].evaluated
  <2>1. /\ DV!Brief(context_stack[k].children) = DV!Brief(doc[k].evaluated)
        /\ "CHILDREN" \in tree.nodes[IdOf(k)].needs =>
             context_stack[k].children = doc[k].evaluated
    BY <1>12, <1>17 DEF Told, ChildrenTold
  <2>2. CASE k \in 1 .. n - 2  BY <1>3, <1>8, <2>1, <2>2
  <2>3. CASE k = n - 1 /\ n > 1
    <3> DEFINE s == context_stack[k].children
               d == doc[k].evaluated
    <3>1. k \in 1 .. n  BY <1>9
    <3>2. IsSeq(s)
      <4>1. s \in Seq(ChildSummaries)  BY <1>1, <3>1 DEF NodeContexts
      <4> HIDE DEF s
      <4>2. QED  BY <4>1, IsSeqOf
    <3>3. IsSeq(d)  BY <1>1, <3>1 DEF IsElement
    <3>4. cs[k].children = Append(s, summary)  BY <1>4, <2>3
    <3>5. e[k].evaluated = d \o <<childVerdict>>  BY <1>8, <2>3
    <3>6. DV!Brief(s) = DV!Brief(d)  BY <2>1
    <3>7. "CHILDREN" \in tree.nodes[IdOf(k)].needs => s = d /\ summary = childVerdict
      BY <1>5, <1>17, <2>1, <2>3
    <3> HIDE DEF s, d
    <3>8. d \o <<childVerdict>> = Append(d, childVerdict)
      <4>1. d \in Seq(Range(d) \cup {childVerdict})
        <5>1. d \in Seq(Range(d))  BY <3>3 DEF IsSeq
        <5>2. QED  BY <5>1
      <4>2. QED  BY <4>1
    <3>9. DV!Brief(Append(s, summary)) = DV!Brief(Append(d, childVerdict))
      BY <1>5, <1>17, <3>2, <3>3, <3>6, BriefAppend
    <3>10. QED  BY <1>3, <3>4, <3>5, <3>7, <3>8, <3>9
  <2>4. QED  BY <1>9, <2>2, <2>3
<1>18. \A k \in 1 .. n - 1 : ~IsCapture(tree.nodes[cs[k].descriptor_id].needs)
  <2>1. SUFFICES ASSUME NEW k \in 1 .. n - 1
                 PROVE  ~IsCapture(tree.nodes[IdOf(k)].needs)
    BY <1>3
  <2>2. k # n /\ k \in 1 .. n  BY <1>1, <1>9
  <2>3. QED  BY <2>2 DEF Told, CaptureTold
<1>19. /\ IsInjective(HashOf) =>
            \A k \in 1 .. Len(cs) :
               cs[k].index = IF k = 1 THEN 0 ELSE Count(e[k - 1].children, e[k].tag)
       /\ \A k \in 1 .. Len(cs) :
            NeedsAttrs(cs[k].descriptor_id) =>
              cs[k].attrs = e[k].attrs /\ DV!Legible(e[k].attrs)
       /\ \A k \in 1 .. Len(cs) :
            IsCapture(tree.nodes[cs[k].descriptor_id].needs)
              <=> IsCapturing' /\ k = Len(cs)
       /\ IsCapturing' => DV!Legible(e[Len(cs)].text)
  BY <1>3, <1>11, <1>14, <1>15, <1>18
<1>20. QED
  BY <1>11, <1>13, <1>16, <1>17, <1>19, ToldNext

(* The end tag of an element in streaming mode.                            *)
LEMMA ClosesStreaming ==
  ASSUME IInv, Followed, status = "reading", Told, CloseStreaming,
         NEW n, n = Len(context_stack)
  PROVE  LET ctx  == context_stack[n]
             view == StreamingViewOwned(ctx, Front(context_stack))
         IN /\ n > 0 /\ Len(doc) = n /\ mode' = Streaming /\ skip_depth' = 0
            /\ IsStreaming
            /\ NeedsText(IdOf(n)) => ctx.text = doc[n].text /\ DV!Legible(doc[n].text)
            /\ RunRules(view, IdOf(n), ctx, ctx.text)
<1> DEFINE ctx  == Last(context_stack)
           view == StreamingViewOwned(ctx, Front(context_stack))
<1>1. /\ skip_depth = 0 /\ IsStreaming /\ context_stack # <<>>
      /\ RunRules(view, ctx.descriptor_id, ctx, ctx.text)
      /\ mode' = mode /\ skip_depth' = skip_depth
  BY DEF CloseStreaming
<1>2. mode = Streaming  BY <1>1 DEF IInv, TypeOK, ModeOK, IsStreaming
<1>3. /\ n \in Nat /\ Len(doc) = n /\ Live = n /\ context_stack \in Seq(NodeContexts)
  BY <1>1, Places DEF StacksOK
<1>4. n # 0  BY <1>1, <1>3, EmptySeq
<1>5. n > 0 /\ n \in 1 .. n  BY <1>3, <1>4
<1>6. ctx = context_stack[n]  BY <1>1, <1>3, FrontLast
<1>7. NeedsText(IdOf(n)) => ctx.text = doc[n].text /\ DV!Legible(doc[n].text)
  BY <1>3, <1>5, <1>6 DEF Told, TextTold
<1>8. ctx.descriptor_id = IdOf(n)  BY <1>6 DEF IdOf
<1> HIDE DEF ctx
<1>9. QED  BY <1>1, <1>2, <1>3, <1>5, <1>6, <1>7, <1>8

(* The end tag of the captured element.                                    *)
LEMMA ClosesCapture ==
  ASSUME IInv, Followed, status = "reading", CloseCapture,
         NEW n, n = Len(context_stack)
  PROVE  LET ctx  == context_stack[n]
             root == Dom(doc[n])
             view == SubtreeView(root, IdOf(n), ctx.index, SubSeq(context_stack, 1, n - 1))
         IN /\ n > 0 /\ Len(doc) = n /\ mode' = Streaming /\ skip_depth' = 0
            /\ IsCapturing
            /\ root.text = doc[n].text
            /\ RunRules(view, IdOf(n), ctx, root.text)
<1> DEFINE index == mode.context_stack_index + 1
           ctx   == context_stack[index]
           root  == Finalize(EndElement(mode.builder))
           id    == mode.descriptor_id
           view  == SubtreeView(root, id, ctx.index, SubSeq(context_stack, 1, index - 1))
<1>1. /\ skip_depth = 0 /\ IsCapturing /\ mode.depth = 1
      /\ mode' = Streaming
      /\ RunRules(view, id, ctx, root.text)
      /\ UNCHANGED skip_depth
  BY DEF CloseCapture
<1>2. /\ IsBuilder(mode.builder) /\ Len(mode.builder.stack) = 1
      /\ n \in Nat /\ n > 0 /\ Len(doc) = n /\ index = n
      /\ mode.context_stack_index = n - 1
  BY <1>1, Sizes
<1>3. id = IdOf(n)
  BY <1>1 DEF IInv, StackInv, CaptureOnTop, IdOf
<1>4. root = Dom(doc[n])
  <2>1. root = mode.builder.stack[1]  BY <1>2, FinalizeBuilder
  <2>2. 1 \in 1 .. 1 /\ mode.context_stack_index + 1 = n  BY <1>2
  <2>3. mode.builder.stack[1] = Dom(doc[mode.context_stack_index + 1])
    BY <1>1, <1>2, <2>2 DEF Followed, BuilderFollowed
  <2>4. QED  BY <2>1, <2>2, <2>3
<1>5. Dom(doc[n]).text = doc[n].text  BY DEF Dom
<1> HIDE DEF root, id, index
<1>6. QED  BY <1>1, <1>2, <1>3, <1>4, <1>5

(* The events as wholes: an end tag.                                       *)
LEMMA HandleEndTold ==
  ASSUME IInv, Followed, IInv', status = "reading", Told, tree' = tree, HandleEnd
  PROVE  Told'
<1> DEFINE n    == Len(context_stack)
           cs   == context_stack'
           e    == doc'
           sc   == sibling_counters'
           live == Live'
<1> HIDE DEF n, cs, e, sc, live
<1>1. CASE SkipEnd  BY <1>1, SkipEndTold
<1>2. CASE CaptureEnd  BY <1>2, CaptureEndTold
<1>3. CASE CloseStreaming
  <2>1. /\ n > 0 /\ Len(doc) = n /\ mode' = Streaming /\ skip_depth' = 0
        /\ NeedsText(IdOf(n)) => context_stack[n].text = doc[n].text
        /\ \E view : RunRules(view, IdOf(n), context_stack[n], context_stack[n].text)
    BY <1>3, ClosesStreaming DEF n
  <2>2. QED  BY <2>1, RulesRunTold DEF n, cs, e, sc, live
<1>4. CASE CloseCapture
  <2>1. /\ n > 0 /\ Len(doc) = n /\ mode' = Streaming /\ skip_depth' = 0
        /\ \E view : RunRules(view, IdOf(n), context_stack[n], doc[n].text)
    BY <1>4, ClosesCapture DEF n
  <2>2. QED  BY <2>1, RulesRunTold DEF n, cs, e, sc, live
<1>5. QED  BY <1>1, <1>2, <1>3, <1>4 DEF HandleEnd

(* A start tag that is not refused.                                        *)
LEMMA HandleStartTold ==
  ASSUME IInv, Followed, IInv', status = "reading", Told, tree' = tree,
         NEW tag \in Tags \cup {Garbled}, NEW attrs,
         HandleStart(tag, attrs), status' = "reading"
  PROVE  Told'
<1> DEFINE n    == Len(context_stack)
           cs   == context_stack'
           e    == doc'
           sc   == sibling_counters'
           live == Live'
<1> HIDE DEF n, cs, e, sc, live
<1>1. doc' = Open(doc, tag, attrs)  BY DEF HandleStart
<1>2. CASE SkipStart  BY <1>1, <1>2, SkipStartTold
<1>3. CASE StartFails(tag, attrs)
  <2>1. StartError(tag, attrs) = "reading"  BY <1>3 DEF StartFails
  <2>2. StartError(tag, attrs) # "reading"
    <3>1. \A a : AttrError(a) # "reading"  BY DEF AttrError
    <3>2. QED  BY <3>1 DEF StartError
  <2>3. QED  BY <2>1, <2>2
<1>4. CASE CaptureStart(tag, attrs)  BY <1>1, <1>4, CaptureStartTold
<1>5. CASE OpenUndeclared(tag, attrs)  BY <1>1, <1>5, OpenUndeclaredTold
<1>6. CASE OpenDeclared(tag, attrs)
  BY <1>1, <1>6, OpenDeclaredTold DEF n, cs, e, sc, live
<1>7. QED  BY <1>2, <1>3, <1>4, <1>5, <1>6 DEF HandleStart

(* Text that is not refused.                                               *)
LEMMA TextEventTold ==
  ASSUME IInv, Followed, IInv', status = "reading", Told, UNCHANGED <<tree, skip_depth>>,
         NEW piece \in Texts \cup {Garbled}, doc' = AddText(doc, piece), status' = "reading",
         IgnoreText \/ TextFails(piece) \/ CaptureText(piece) \/ AppendText(piece)
  PROVE  Told'
<1> DEFINE n    == Len(context_stack)
           cs   == context_stack'
           e    == doc'
<1> HIDE DEF n, cs, e
<1>1. CASE IgnoreText  BY <1>1, IgnoreTextTold
<1>2. CASE TextFails(piece)  BY <1>2 DEF TextFails
<1>3. CASE CaptureText(piece)  BY <1>3, CaptureTextTold
<1>4. CASE AppendText(piece)  BY <1>4, AppendTextTold DEF n, cs, e
<1>5. QED  BY <1>1, <1>2, <1>3, <1>4

-----------------------------------------------------------------------------
(* VInv holds when parsing starts.                                         *)
LEMMA InitVInv == Init => VInv
<1> SUFFICES ASSUME Init PROVE VInv
  OBVIOUS
<1>1. FInv  BY InitFInv
<1>2. /\ Len(context_stack) = 0 /\ ~IsCapturing /\ Live = 0 /\ skip_depth = 0
  BY EmptyIsSeq DEF Init, IsCapturing, Streaming, Live
<1>3. 1 .. 0 = {}  OBVIOUS
<1>4. /\ CountersTold /\ IndexesTold /\ AttrsTold /\ TextTold /\ ChildrenTold
      /\ SkippedTold /\ CaptureTold
  BY <1>2, <1>3 DEF CountersTold, IndexesTold, AttrsTold, TextTold, ChildrenTold,
                    SkippedTold, CaptureTold
<1>5. QED  BY <1>1, <1>4 DEF VInv, Told

(* Every event preserves VInv.                                             *)
LEMMA VInvStep == VInv /\ [Next]_vars => VInv'
<1> SUFFICES ASSUME VInv, [Next]_vars PROVE VInv'
  OBVIOUS
<1>1. FInv /\ FInv' /\ IInv /\ IInv'  BY FInvStep DEF VInv, FInv
<1> SUFFICES ASSUME status' = "reading" PROVE Told'
  BY <1>1 DEF VInv
<1>2. ReadEvent => status = "reading" /\ tree' = tree /\ Followed /\ Told
  BY <1>1 DEF ReadEvent, VInv, FInv
<1>3. ASSUME NEW tag \in TagsOf, NEW attrs \in AttrListsOf, StartTag(tag, attrs)
      PROVE  Told'
  <2>1. tag \in Tags \cup {Garbled}  BY DEF TagsOf
  <2>2. HandleStart(tag, attrs) /\ ReadEvent  BY <1>3 DEF StartTag
  <2>3. QED  BY <1>1, <1>2, <2>1, <2>2, HandleStartTold
<1>4. CASE EndTag
  BY <1>1, <1>2, <1>4, HandleEndTold DEF EndTag
<1>5. CASE SelfClose
  BY <1>1, <1>5, HandleEndTold DEF SelfClose, VInv, FInv
<1>6. ASSUME NEW piece \in TextsOf, TextRun(piece)
      PROVE  Told'
  <2>1. piece \in Texts \cup {Garbled}  BY DEF TextsOf
  <2>2. QED  BY <1>1, <1>2, <1>6, <2>1, TextEventTold DEF TextRun
<1>7. ASSUME NEW event \in OtherData, IgnoreOther(event)
      PROVE  Told'
  BY <1>1, <1>2, <1>7, OtherTold DEF IgnoreOther
<1>8. CASE TokenizerError  BY <1>8 DEF TokenizerError
<1>9. CASE Eof  BY <1>9 DEF Eof
<1>10. CASE UNCHANGED vars
  <2>1. UNCHANGED <<tree, context_stack, sibling_counters, mode, skip_depth, doc, status>>
    BY <1>10 DEF vars, stacks
  <2>2. status = "reading" /\ Told /\ Followed  BY <1>1, <2>1 DEF VInv, FInv
  <2>3. IsCapturing => DV!Legible(doc[Len(context_stack)].text)
    BY <2>2 DEF Told, CaptureTold
  <2> DEFINE n == Len(context_stack)
  <2>4. n = Len(context_stack) /\ (IsCapturing => DV!Legible(doc'[n].text))
    BY <2>1, <2>3
  <2> HIDE DEF n
  <2>5. QED  BY <1>1, <2>1, <2>2, <2>4, QuietTold
<1>11. QED
  BY <1>3, <1>4, <1>5, <1>6, <1>7, <1>8, <1>9, <1>10 DEF Next, Returned

(* For every tree and document: if no two tags have one hash, the index of *)
(* an open element is the number of its earlier siblings with its tag, and *)
(* its context stands for the declaration at its path (handle_start keeps  *)
(* the counters of the open elements in maps that are used again).         *)
THEOREM ContextsFollow ==
  ASSUME IsInjective(HashOf)
  PROVE  Spec => []ContextsFollowDocument
<1>1. VInv => IndexesFollowDocument
  <2> SUFFICES ASSUME VInv, status = "reading", NEW k \in DOMAIN context_stack
               PROVE  context_stack[k].index = SiblingIndex(SubSeq(doc, 1, k))
    BY DEF IndexesFollowDocument
  <2> DEFINE d == SubSeq(doc, 1, k)
  <2>1. /\ k \in 1 .. Len(context_stack) /\ IsSeq(doc) /\ k \in 1 .. Len(doc)
        /\ Len(doc) \in Nat
    <3>1. k \in 1 .. Len(context_stack)  BY Sizes DEF VInv, FInv
    <3>2. QED  BY <3>1, Places DEF VInv, FInv
  <2>2. k \in Nat \ {0}  BY <2>1
  <2>3. IsSeq(d) /\ Len(d) = k /\ \A i \in 1 .. k : d[i] = doc[i]
    <3>1. doc \in Seq(Range(doc))  BY <2>1 DEF IsSeq
    <3>2. /\ d \in Seq(Range(doc)) /\ Len(d) = k
          /\ \A i \in 1 .. k : d[i] = doc[1 + i - 1]
      BY <2>1, <2>2, <3>1, SubSeqProperties
    <3>3. \A i \in 1 .. k : 1 + i - 1 = i  OBVIOUS
    <3> HIDE DEF d
    <3>4. QED  BY <3>2, <3>3, IsSeqOf
  <2> HIDE DEF d
  <2>4. SiblingIndex(d) = IF k = 1 THEN 0 ELSE Count(d[k - 1].children, d[k].tag)
    BY <2>2, <2>3, SiblingCount
  <2>5. d[k] = doc[k] /\ (k # 1 => d[k - 1] = doc[k - 1])  BY <2>2, <2>3
  <2>6. context_stack[k].index = IF k = 1 THEN 0 ELSE Count(doc[k - 1].children, doc[k].tag)
    BY <2>1 DEF VInv, Told, IndexesTold
  <2>7. QED  BY <2>4, <2>5, <2>6 DEF d
<1>2. Spec => []IndexesFollowDocument
  BY InitVInv, VInvStep, <1>1, PTL DEF Spec
<1>3. QED  BY <1>2, PathsFollow, PTL DEF ContextsFollowDocument

-----------------------------------------------------------------------------
(* The rules of an element that closes as its context see its ancestors,   *)
(* and no more than those, as they are.                                    *)
LEMMA AncestorsShown ==
  ASSUME IInv, Followed, status = "reading", Told, IsInjective(HashOf), RulesFit,
         NEW n, n = Len(context_stack), n > 0, Len(doc) = n,
         NEW v, NEW p, v.parent_stack = p, Len(p) = n - 1,
         \A k \in 1 .. n - 1 : p[k] = context_stack[k]
  PROVE  DV!ShowsAncestors(v)
<1>1. n \in Nat /\ Live \in {n - 1, n}
  <2>1. n \in Nat /\ (Live = n \/ Live = n - 1)  BY Places
  <2>2. QED  BY <2>1
<1>2. DV!Depth(v) = n - 1  BY DEF DV!Depth
<1>3. \A level : DV!Ancestor(v, level)
                   = IF n - 1 < level + 1 THEN <<>> ELSE <<p[n - 1 - level]>>
  BY DEF DV!Ancestor
<1>4. DV!Ancestor(v, n - 1) = <<>>  BY <1>1, <1>3
<1>5. ASSUME NEW level \in 0 .. n - 1 - 1
      PROVE  LET a  == doc[n - 1 - level]
                 nc == DV!Ancestor(v, level)
             IN /\ nc # <<>>
                /\ nc[1].attrs = a.attrs
                /\ nc[1].text = a.text
                /\ DV!Brief(nc[1].children) = DV!Brief(a.evaluated)
  <2> DEFINE k   == n - 1 - level
             ctx == context_stack[k]
  <2>1. /\ k \in 1 .. n - 1 /\ k \in 1 .. n /\ k + 1 \in 1 .. n /\ k \in Nat /\ k > 0
        /\ k \in 1 .. Live /\ ~(n - 1 < level + 1)
    BY <1>1
  <2>2. DV!Ancestor(v, level) = <<ctx>>
    <3>1. DV!Ancestor(v, level) = <<p[k]>>  BY <1>3, <2>1
    <3> HIDE DEF k
    <3>2. QED  BY <2>1, <3>1
  <2> HIDE DEF k
  <2>3. {"ATTRS", "TEXT"} \subseteq tree.nodes[IdOf(k)].needs
    BY <2>1, ParentPlace
  <2>4. NeedsAttrs(IdOf(k)) /\ NeedsText(IdOf(k))
    BY <2>3 DEF NeedsAttrs, NeedsText
  <2>5. ctx.attrs = doc[k].attrs  BY <2>1, <2>4 DEF Told, AttrsTold
  <2>6. ctx.text = doc[k].text  BY <2>1, <2>4 DEF Told, TextTold
  <2>7. DV!Brief(ctx.children) = DV!Brief(doc[k].evaluated)
    BY <2>1 DEF Told, ChildrenTold
  <2> HIDE DEF ctx
  <2>8. <<ctx>> # <<>> /\ <<ctx>>[1] = ctx  OBVIOUS
  <2>9. QED  BY <2>2, <2>5, <2>6, <2>7, <2>8 DEF k
<1>6. QED  BY <1>2, <1>4, <1>5 DEF DV!ShowsAncestors

(* What every view of the innermost context's element shows of it.         *)
LEMMA PlaceShown ==
  ASSUME IInv, Followed, status = "reading", Told, IsInjective(HashOf),
         NEW n, n = Len(context_stack), n > 0, Len(doc) = n
  PROVE  /\ tree \in Trees /\ n \in 1 .. n /\ DV!Last(doc) = doc[n]
         /\ tree.nodes[IdOf(n)].tag = doc[n].tag
         /\ tree.nodes[IdOf(n)].full_path = DV!PathOfDoc(doc, Len(doc))
         /\ context_stack[n].index = DV!SiblingIndex(doc)
<1>1. /\ tree \in Trees /\ IsSeq(doc) /\ n \in 1 .. n /\ n \in Nat \ {0}
      /\ IdOf(n) \in DeclaredAt(doc, n)
  <2>1. tree \in Trees /\ IsSeq(doc) /\ n \in Nat /\ n \in 1 .. n  BY Places
  <2>2. IdOf(n) \in DeclaredAt(doc, n)  BY <2>1, Places
  <2>3. QED  BY <2>1, <2>2
<1>2. doc # <<>>  BY <1>1
<1>3. Last(doc) = doc[n]  BY <1>1, <1>2, FrontAny
<1>4. tree.nodes[IdOf(n)].tag = doc[n].tag  BY <1>1, DeclaredBelow
<1>5. tree.nodes[IdOf(n)].full_path = PathOfDoc(doc, n)  BY <1>1 DEF DeclaredAt
<1>6. SiblingIndex(doc) = IF n = 1 THEN 0 ELSE Count(doc[n - 1].children, doc[n].tag)
  BY <1>1, SiblingCount
<1>7. context_stack[n].index = SiblingIndex(doc)
  BY <1>1, <1>6 DEF Told, IndexesTold
<1>8. QED  BY <1>1, <1>3, <1>4, <1>5, <1>7, SameWords

(* The view of an element that closes in streaming mode shows it.          *)
LEMMA StreamingShown ==
  ASSUME IInv, Followed, status = "reading", Told, IsInjective(HashOf), RulesFit, IsStreaming,
         NEW n, n = Len(context_stack), n > 0, Len(doc) = n, NEW p
  PROVE  DV!ShowsElement(StreamingViewOwned(context_stack[n], p), IdOf(n))
<1> DEFINE ctx   == context_stack[n]
           v     == StreamingViewOwned(ctx, p)
           node  == IdOf(n)
           needs == tree.nodes[node].needs
           e     == doc[n]
<1>1. /\ tree \in Trees /\ n \in 1 .. n /\ DV!Last(doc) = e
      /\ tree.nodes[node].tag = e.tag
      /\ tree.nodes[node].full_path = DV!PathOfDoc(doc, Len(doc))
      /\ ctx.index = DV!SiblingIndex(doc)
  BY PlaceShown
<1>2. n \in 1 .. Live  BY <1>1, Places
<1>3. ctx.descriptor_id = node  BY DEF IdOf
<1>4. /\ DV!NodeOf(v) = node
      /\ DV!TagOf(tree, v) = tree.nodes[node].tag
      /\ DV!PathOf(tree, v) = tree.nodes[node].full_path
      /\ DV!ElementIndex(v) = ctx.index
      /\ DV!AttrsOf(v) = ctx.attrs /\ DV!TextOf(v) = ctx.text
      /\ DV!ChildrenSummaries(v) = ctx.children
  <2> HIDE DEF ctx, node
  <2>1. /\ v.kind = "streaming" /\ v.ctx = ctx  BY DEF StreamingViewOwned
  <2> HIDE DEF v
  <2>2. ~DV!IsSubtree(v)  BY <2>1 DEF DV!IsSubtree
  <2>3. DV!NodeOf(v) = node  BY <1>3, <2>1, <2>2 DEF DV!NodeOf
  <2>4. QED
    BY <2>1, <2>2, <2>3 DEF DV!TagOf, DV!PathOf, DV!ElementIndex, DV!AttrsOf, DV!TextOf,
                            DV!ChildrenSummaries
<1>5. ~DV!IsCapture(needs)
  <2>1. ~IsCapture(needs)
    BY <1>1 DEF Told, CaptureTold, IsStreaming, IsCapturing
  <2>2. QED  BY <2>1, SameWords
<1>6. {"ATTRS", "CAPTURE"} \cap needs # {} => ctx.attrs = e.attrs /\ DV!Legible(e.attrs)
  <2>1. {"ATTRS", "CAPTURE"} \cap needs # {} => NeedsAttrs(node)
    BY DEF NeedsAttrs, IsCapture
  <2>2. QED  BY <1>1, <2>1 DEF Told, AttrsTold
<1>7. {"TEXT", "CAPTURE"} \cap needs # {} => ctx.text = e.text /\ DV!Legible(e.text)
  <2>1. {"TEXT", "CAPTURE"} \cap needs # {} => NeedsText(node)
    BY <1>5 DEF NeedsText, DV!IsCapture
  <2>2. QED  BY <1>2, <2>1 DEF Told, TextTold
<1>8. IF "CHILDREN" \in needs
      THEN ctx.children = e.evaluated
      ELSE DV!Brief(ctx.children) = DV!Brief(e.evaluated)
  BY <1>2 DEF Told, ChildrenTold
<1> HIDE DEF v, ctx, node, e
<1>9. DV!ShowsElement(v, node)
  BY <1>1, <1>4, <1>5, <1>6, <1>7, <1>8 DEF DV!ShowsElement
<1>10. QED  BY <1>9 DEF v, ctx, node

(* The view of a captured element shows it.                                *)
LEMMA SubtreeShown ==
  ASSUME IInv, Followed, status = "reading", Told, IsInjective(HashOf), RulesFit, IsCapturing,
         NEW n, n = Len(context_stack), n > 0, Len(doc) = n, NEW p
  PROVE  DV!ShowsElement(SubtreeView(Dom(doc[n]), IdOf(n), context_stack[n].index, p),
                         IdOf(n))
<1> DEFINE index == context_stack[n].index
           node  == IdOf(n)
           needs == tree.nodes[node].needs
           e     == doc[n]
           root  == Dom(e)
           v     == SubtreeView(root, node, index, p)
<1>1. /\ tree \in Trees /\ n \in 1 .. n /\ DV!Last(doc) = e
      /\ tree.nodes[node].full_path = DV!PathOfDoc(doc, Len(doc))
      /\ index = DV!SiblingIndex(doc)
  BY PlaceShown
<1>2. root.tag = e.tag /\ root.attrs = e.attrs /\ root.text = e.text  BY DEF Dom
<1>3. root = DV!Dom(e)  BY SameWords
<1>4. DV!IsCapture(needs) /\ NeedsAttrs(node)
  <2>1. IsCapture(needs)  BY <1>1 DEF Told, CaptureTold
  <2>2. QED  BY <2>1, SameWords DEF NeedsAttrs
<1>5. DV!Legible(e.attrs)  BY <1>1, <1>4 DEF Told, AttrsTold
<1>6. DV!Legible(e.text)  BY <1>1 DEF Told, CaptureTold
<1> HIDE DEF index, node, e, root
<1>7. /\ DV!NodeOf(v) = node
      /\ DV!TagOf(tree, v) = root.tag
      /\ DV!PathOf(tree, v) = tree.nodes[node].full_path
      /\ DV!ElementIndex(v) = index
      /\ DV!AttrsOf(v) = root.attrs /\ DV!TextOf(v) = root.text
      /\ DV!Subtree(v) = <<root>>
  <2>1. /\ v.kind = "subtree" /\ v.root = root /\ v.descriptor_id = node
        /\ v.index = index
    BY DEF SubtreeView
  <2> HIDE DEF v
  <2>2. DV!IsSubtree(v)  BY <2>1 DEF DV!IsSubtree
  <2>3. DV!NodeOf(v) = node  BY <2>1, <2>2 DEF DV!NodeOf
  <2>4. QED
    BY <2>1, <2>2, <2>3 DEF DV!TagOf, DV!PathOf, DV!ElementIndex, DV!AttrsOf, DV!TextOf,
                            DV!Subtree
<1> HIDE DEF v
<1>8. DV!ShowsElement(v, node)
  BY <1>1, <1>2, <1>3, <1>4, <1>5, <1>6, <1>7 DEF DV!ShowsElement
<1>9. QED  BY <1>8 DEF v, node, index, root, e

-----------------------------------------------------------------------------
(* The innermost context's element is one whose rules are to run.          *)
LEMMA ContextVisible ==
  ASSUME IInv, Followed, status = "reading", Told,
         NEW n, n = Len(context_stack), n > 0, Len(doc) = n
  PROVE  DV!Visible /\ IdOf(n) \in DV!Declared(Len(doc))
<1>1. /\ tree \in Trees /\ n \in Nat /\ n \in 1 .. n
      /\ \A k \in 1 .. n : IdOf(k) \in DeclaredAt(doc, k)
  BY Places
<1>2. IdOf(n) \in DV!Declared(n)  BY <1>1, SameDeclared
<1>3. ASSUME NEW k \in 1 .. n - 1, NEW m \in DV!Declared(k)
      PROVE  ~DV!IsCapture(tree.nodes[m].needs)
  <2>1. k \in 1 .. n /\ k # n  BY <1>1
  <2>2. m \in DeclaredAt(doc, k)  BY SameDeclared
  <2>3. m = IdOf(k)  BY <1>1, <2>1, <2>2, DeclaredOnce
  <2>4. ~IsCapture(tree.nodes[IdOf(k)].needs)  BY <2>1 DEF Told, CaptureTold
  <2>5. QED  BY <2>3, <2>4, SameWords
<1>4. QED  BY <1>2, <1>3 DEF DV!Visible

(* An element that is skipped is not.                                      *)
LEMMA SkippedInvisible ==
  ASSUME IInv, Followed, status = "reading", Told, skip_depth > 0
  PROVE  doc # <<>> /\ ~DV!Visible
<1> DEFINE n == Len(context_stack)
           m == Len(doc)
<1>1. n \in Nat /\ m \in Nat /\ m > n
  <2>1. /\ n \in Nat /\ m \in Nat /\ skip_depth \in Nat
        /\ IsStreaming => m = n + skip_depth
        /\ IsCapturing => skip_depth = 0
        /\ IsStreaming \/ IsCapturing
    BY Places
  <2>2. QED  BY <2>1
<1>2. m \in n + 1 .. m  BY <1>1
<1>3. DeclaredAt(doc, m) = {}  BY <1>2 DEF Told, SkippedTold
<1>4. doc # <<>>  BY <1>1
<1>5. QED  BY <1>3, <1>4, SameDeclared DEF DV!Visible

(* Nor is one inside of a captured element.                                *)
LEMMA CapturedInvisible ==
  ASSUME IInv, Followed, status = "reading", Told, IsCapturing, mode.depth # 1
  PROVE  doc # <<>> /\ ~DV!Visible
<1> DEFINE n == Len(context_stack)
           m == Len(doc)
<1>1. n \in Nat /\ m \in Nat /\ n > 0 /\ m > n
  <2>1. /\ n \in Nat /\ m \in Nat /\ n > 0 /\ mode.depth \in Nat \ {0}
        /\ m = n + (mode.depth - 1)
    BY Sizes
  <2>2. QED  BY <2>1
<1>2. n \in 1 .. n /\ n \in 1 .. m - 1  BY <1>1
<1>3. IdOf(n) \in DV!Declared(n)  BY <1>2, Places, SameDeclared
<1>4. DV!IsCapture(tree.nodes[IdOf(n)].needs)
  BY <1>2, SameWords DEF Told, CaptureTold
<1>5. doc # <<>>  BY <1>1
<1>6. QED  BY <1>2, <1>3, <1>4, <1>5 DEF DV!Visible

(* Running the rules of the innermost context on a view that shows its     *)
(* element is what DocumentValidation asks for.                            *)
LEMMA RulesRunValidates ==
  ASSUME IInv, IInv', Followed, status = "reading", Told, UNCHANGED <<tree, status>>,
         NEW n, n = Len(context_stack), n > 0, Len(doc) = n,
         NEW view, NEW text, RunRules(view, IdOf(n), context_stack[n], text),
         DV!ShowsElement(view, IdOf(n)), DV!ShowsAncestors(view)
  PROVE  DV!CloseObserved
<1> DEFINE produced == sent \o diag_buffer
           node == IdOf(n)
<1>1. doc # <<>> /\ context_stack # <<>> /\ n \in 1 .. n /\ n \in Nat
  <2>1. n \in Nat /\ n \in 1 .. n  BY Places
  <2>2. QED  BY <2>1
<1>2. DV!Visible /\ node \in DV!Declared(Len(doc))  BY ContextVisible
<1>3. PICK diags \in Evaluations(tree, node) :
        /\ BufferDiagnostics(diags)
        /\ doc' = Close(doc, <<ChildVerdict(doc, node, Passed(tree, node, diags))>>)
  BY <1>1, RulesRun
<1>4. observed' = <<view>>  BY <1>1, RulesRun
<1>5. Len(observed') = 1 /\ observed'[1] = view  BY <1>4
<1>6. node \in NodeIds(tree) /\ tree \in Trees  BY <1>1, Places
<1> HIDE DEF node
<1>7. diags \in Seq(Diagnostics)  BY <1>6, EvaluationsType
<1>8. produced' = produced \o diags /\ IsPrefix(sent, sent')
  BY <1>3, <1>7, BufferKeepsOrder DEF IInv, TypeOK
<1>9. IsPrefix(sent', produced')
  <2>1. OutputOK'  BY DEF IInv, TypeOK
  <2>2. sent' \in Seq(Diagnostics') /\ diag_buffer' \in Seq(Diagnostics')
    BY <2>1 DEF OutputOK
  <2>3. QED  BY <2>2, PrefixOfConcat
<1>10. /\ diags \in DV!Evaluations(tree, node)
       /\ doc' = DV!Close(doc, <<DV!ChildVerdict(doc, node, DV!Passed(tree, node, diags))>>)
       /\ DV!IsPrefix(sent, sent') /\ DV!IsPrefix(sent', produced')
  BY <1>3, <1>8, <1>9, SameWords
<1>11. DV!ShowsElement(observed'[1], node) /\ DV!ShowsAncestors(observed'[1])
  BY <1>5 DEF node
<1>12. QED
  BY <1>1, <1>2, <1>5, <1>8, <1>10, <1>11 DEF DV!CloseObserved

-----------------------------------------------------------------------------
(* An end tag closes an element, in sight of the rules or not.             *)
LEMMA HandleEndValidates ==
  ASSUME IsInjective(HashOf), RulesFit, IInv, IInv', Followed, status = "reading", Told,
         tree' = tree, HandleEnd
  PROVE  DV!CloseUnobserved \/ DV!CloseObserved
<1> DEFINE n == Len(context_stack)
<1>1. UNCHANGED status /\ UNCHANGED <<tree, status>>  BY DEF HandleEnd
<1>2. CASE SkipEnd \/ CaptureEnd
  <2>1. /\ doc' = Close(doc, <<>>) /\ observed' = <<>>
        /\ sent' = sent /\ diag_buffer' = diag_buffer
        /\ skip_depth > 0 \/ (IsCapturing /\ mode.depth # 1)
    BY <1>2 DEF SkipEnd, CaptureEnd, output
  <2>2. doc # <<>> /\ ~DV!Visible
    BY <2>1, SkippedInvisible, CapturedInvisible
  <2>3. doc' = DV!Close(doc, <<>>)  BY <2>1, SameWords
  <2>4. DV!CloseUnobserved
    BY <1>1, <2>1, <2>2, <2>3 DEF DV!CloseUnobserved
  <2>5. QED  BY <2>4
<1> HIDE DEF n
<1>3. CASE CloseStreaming
  <2> DEFINE ctx  == context_stack[n]
             p    == Front(context_stack)
             view == StreamingViewOwned(ctx, p)
             text == ctx.text
  <2>1. /\ n > 0 /\ Len(doc) = n /\ IsStreaming
        /\ RunRules(view, IdOf(n), ctx, text)
    BY <1>3, ClosesStreaming DEF n
  <2>2. Len(p) = n - 1 /\ \A k \in 1 .. n - 1 : p[k] = context_stack[k]
    <3>1. n \in Nat /\ context_stack \in Seq(NodeContexts)  BY Places DEF n, StacksOK
    <3>2. context_stack # <<>>  BY <2>1, <3>1 DEF n
    <3>3. QED  BY <3>1, <3>2, FrontLast DEF n
  <2> HIDE DEF p
  <2>3. DV!ShowsElement(view, IdOf(n))  BY <2>1, StreamingShown DEF n
  <2>4. view.parent_stack = p  BY DEF StreamingViewOwned
  <2> HIDE DEF view, text
  <2>5. DV!ShowsAncestors(view)  BY <2>1, <2>2, <2>4, AncestorsShown DEF n
  <2>6. DV!CloseObserved
    BY <1>1, <2>1, <2>3, <2>5, RulesRunValidates DEF n
  <2>7. QED  BY <2>6
<1>4. CASE CloseCapture
  <2> DEFINE ctx  == context_stack[n]
             p    == SubSeq(context_stack, 1, n - 1)
             root == Dom(doc[n])
             view == SubtreeView(root, IdOf(n), ctx.index, p)
             text == root.text
  <2>1. /\ n > 0 /\ Len(doc) = n /\ IsCapturing
        /\ RunRules(view, IdOf(n), ctx, text)
    BY <1>4, ClosesCapture DEF n
  <2>2. Len(p) = n - 1 /\ \A k \in 1 .. n - 1 : p[k] = context_stack[k]
    <3>1. n \in Nat /\ context_stack \in Seq(NodeContexts)  BY Places DEF n, StacksOK
    <3> DEFINE m == n - 1
    <3>2. m \in Int /\ \A i \in 1 .. m : context_stack[i] \in NodeContexts
      <4>1. \A i \in 1 .. n : context_stack[i] \in NodeContexts
        BY Places DEF n
      <4>2. QED  BY <2>1, <3>1, <4>1
    <3>3. m >= 0  BY <2>1, <3>1
    <3> HIDE DEF m
    <3>4. /\ Len(SubSeq(context_stack, 1, m)) = m
          /\ \A k \in 1 .. m : SubSeq(context_stack, 1, m)[k] = context_stack[1 + k - 1]
      BY <3>2, <3>3, SubSeqProperties
    <3>5. \A k \in 1 .. m : 1 + k - 1 = k  OBVIOUS
    <3>6. QED  BY <3>4, <3>5 DEF m
  <2> HIDE DEF p
  <2>3. DV!ShowsElement(view, IdOf(n))  BY <2>1, SubtreeShown DEF n
  <2>4. view.parent_stack = p  BY DEF SubtreeView
  <2> HIDE DEF view, text
  <2>5. DV!ShowsAncestors(view)  BY <2>1, <2>2, <2>4, AncestorsShown DEF n
  <2>6. DV!CloseObserved
    BY <1>1, <2>1, <2>3, <2>5, RulesRunValidates DEF n
  <2>7. QED  BY <2>6
<1>5. QED  BY <1>2, <1>3, <1>4 DEF HandleEnd

(* A start tag opens an element, or is refused.                            *)
LEMMA StartTagValidates ==
  ASSUME NEW tag \in TagsOf, NEW attrs \in AttrListsOf, StartTag(tag, attrs)
  PROVE  DV!OpenElement(tag, attrs) \/ DV!Reject
<1>1. /\ status = "reading" /\ tree' = tree
      /\ doc' = DV!Open(doc, tag, attrs)
      /\ observed' = <<>>
      /\ sent' = sent /\ diag_buffer' = diag_buffer
  BY SameWords DEF StartTag, ReadEvent, HandleStart, output
<1>2. /\ tag \in Tags \cup {Garbled} /\ attrs \in AttrLists
  BY DEF TagsOf, AttrListsOf
<1>3. status' = status \/ status' \in {"XmlParse", "Utf8", "CaptureOverflow"}
  <2>1. StartFails(tag, attrs) => status' \in {"XmlParse", "Utf8", "CaptureOverflow"}
    BY DEF StartFails, StartError, AttrError
  <2>2. QED
    BY <2>1 DEF StartTag, HandleStart, SkipStart, CaptureStart, OpenUndeclared,
                OpenDeclared
<1>4. CASE status' = status
  <2>1. DV!OpenElement(tag, attrs)  BY <1>1, <1>4 DEF DV!OpenElement
  <2>2. QED  BY <2>1
<1>5. CASE status' \in {"XmlParse", "Utf8", "CaptureOverflow"}
  <2>1. DV!Reject  BY <1>1, <1>2, <1>5 DEF DV!Reject
  <2>2. QED  BY <2>1
<1>6. QED  BY <1>3, <1>4, <1>5

(* So does a run of text with the text of an element.                      *)
LEMMA TextRunValidates ==
  ASSUME NEW piece \in TextsOf, TextRun(piece)
  PROVE  DV!Text(piece) \/ DV!Reject
<1>1. /\ status = "reading" /\ tree' = tree
      /\ doc' = DV!AddText(doc, piece)
      /\ observed' = <<>>
      /\ sent' = sent /\ diag_buffer' = diag_buffer
  BY SameWords DEF TextRun, ReadEvent, output
<1>2. piece \in Texts \cup {Garbled}  BY DEF TextsOf
<1>3. status' = status \/ status' \in {"XmlParse", "CaptureOverflow"}
  BY DEF TextRun, IgnoreText, TextFails, CaptureText, AppendText
<1>4. CASE status' = status
  <2>1. DV!Text(piece)  BY <1>1, <1>4 DEF DV!Text
  <2>2. QED  BY <2>1
<1>5. CASE status' \in {"XmlParse", "CaptureOverflow"}
  <2>1. DV!Reject  BY <1>1, <1>2, <1>5 DEF DV!Reject
  <2>2. QED  BY <2>1
<1>6. QED  BY <1>3, <1>4, <1>5

(* Every event is a step of DocumentValidation or leaves it as it is.      *)
LEMMA ValidationStep ==
  IsInjective(HashOf) /\ RulesFit /\ VInv /\ VInv' /\ [Next]_vars => [DV!Next]_DV!vars
<1> SUFFICES ASSUME IsInjective(HashOf), RulesFit, VInv, VInv', [Next]_vars
             PROVE  [DV!Next]_DV!vars
  OBVIOUS
<1>1. /\ IInv /\ IInv'
      /\ status = "reading" => Followed /\ Told
  BY DEF VInv, FInv
<1>2. ASSUME NEW tag \in TagsOf, NEW attrs \in AttrListsOf, StartTag(tag, attrs)
      PROVE  DV!Next
  <2>1. tag \in Tags \cup {Garbled} /\ attrs \in AttrLists
    BY DEF TagsOf, AttrListsOf
  <2>2. QED  BY <1>2, <2>1, StartTagValidates DEF DV!Next
<1>3. CASE EndTag
  BY <1>1, <1>3, HandleEndValidates DEF EndTag, ReadEvent, DV!Next
<1>4. CASE SelfClose
  BY <1>1, <1>4, HandleEndValidates DEF SelfClose, DV!Next
<1>5. ASSUME NEW piece \in TextsOf, TextRun(piece)
      PROVE  DV!Next
  <2>1. piece \in Texts \cup {Garbled}  BY DEF TextsOf
  <2>2. QED  BY <1>5, <2>1, TextRunValidates DEF DV!Next
<1>6. ASSUME NEW event \in OtherData, IgnoreOther(event)
      PROVE  DV!Next
  <2>1. DV!OtherText
    BY <1>6, SameWords DEF IgnoreOther, ReadEvent, DV!OtherText, output
  <2>2. QED  BY <2>1 DEF DV!Next
<1>7. CASE TokenizerError
  <2>1. DV!Reject
    BY <1>7 DEF TokenizerError, ReadEvent, DV!Reject, output
  <2>2. QED  BY <2>1 DEF DV!Next
<1>8. CASE Eof
  <2> DEFINE produced == sent \o diag_buffer
  <2>1. /\ status = "reading" /\ status' = "ok" /\ sent' = produced
        /\ diag_buffer' = <<>> /\ observed' = <<>> /\ UNCHANGED <<tree, doc>>
    BY <1>8 DEF Eof, FlushDiagnostics
  <2>2. produced \in Seq(Diagnostics)
    BY <1>1, ConcatProperties DEF IInv, TypeOK, OutputOK
  <2>3. produced' = produced
    <3> HIDE DEF produced
    <3>1. produced \o <<>> = produced  BY <2>2, ConcatEmptySeq
    <3>2. QED  BY <2>1, <3>1 DEF produced
  <2>4. DV!Accept  BY <2>1, <2>3 DEF DV!Accept
  <2>5. QED  BY <2>4 DEF DV!Next
<1>9. CASE UNCHANGED vars \/ Returned
  BY <1>9 DEF vars, Returned, output, DV!vars
<1>10. QED
  BY <1>2, <1>3, <1>4, <1>5, <1>6, <1>7, <1>8, <1>9 DEF Next

(* For every document, buffer size, memory limit and outcome of the rules, *)
(* and every tree whose declarations have no more rules than the word has  *)
(* bits: if no two tags have one hash, the rules of every declared element *)
(* run once, when it closes, on a view that is true of the document, and   *)
(* what they report is delivered in that order.                            *)
THEOREM Validates ==
  ASSUME IsInjective(HashOf), RulesFit
  PROVE  Spec => ValidatesDocument
<1>1. Spec => []VInv
  BY InitVInv, VInvStep, PTL DEF Spec
<1>2. QED
  BY <1>1, ValidationInit, ValidationStep, PTL DEF Spec, ValidatesDocument, DV!Spec

-----------------------------------------------------------------------------
(* The memory of a capture.  First the sum of the sizes, which is defined  *)
(* for any number of them.                                                 *)
LEMMA TotalDefined ==
  ASSUME NEW f, NEW n \in Nat
  PROVE  \E U : /\ Total(f, n) = U[n] /\ U[0] = 0
                /\ \A i \in 1 .. n : U[i] = U[i - 1] + f[i]
<1> DEFINE Step(g, i) == IF i = 0 THEN 0 ELSE g[i - 1] + f[i]
           T == {m \in Nat : \E g : g = [i \in 0 .. m |-> Step(g, i)]}
           upTo == CHOOSE g : g = [i \in 0 .. n |-> Step(g, i)]
<1>1. 0 \in T
  <2>1. [i \in 0 .. 0 |-> 0] = [i \in 0 .. 0 |-> Step([j \in 0 .. 0 |-> 0], i)]
    OBVIOUS
  <2>2. QED  BY <2>1
<1>2. ASSUME NEW m \in Nat, m \in T
      PROVE  m + 1 \in T
  <2>1. PICK g : g = [i \in 0 .. m |-> Step(g, i)]
    BY <1>2
  <2> DEFINE h == [i \in 0 .. m + 1 |-> IF i <= m THEN g[i] ELSE Step(g, m + 1)]
  <2>2. ASSUME NEW i \in 0 .. m + 1
        PROVE  Step(h, i) = Step(g, i)
    <3>1. CASE i = 0  BY <3>1
    <3>2. CASE i # 0
      <4>1. i - 1 \in 0 .. m + 1 /\ i - 1 <= m  BY <3>2
      <4>2. h[i - 1] = g[i - 1]  BY <4>1
      <4> HIDE DEF h
      <4>3. QED  BY <4>2
    <3>3. QED  BY <3>1, <3>2
  <2>3. ASSUME NEW i \in 0 .. m + 1
        PROVE  h[i] = Step(h, i)
    <3> HIDE DEF Step
    <3>1. CASE i <= m
      <4>1. i \in 0 .. m  BY <3>1
      <4>2. g[i] = Step(g, i)  BY <2>1, <4>1
      <4>3. QED  BY <2>2, <3>1, <4>2
    <3>2. CASE ~(i <= m)
      <4>1. i = m + 1  BY <3>2
      <4>2. QED  BY <2>2, <3>2, <4>1
    <3>3. QED  BY <3>1, <3>2
  <2>4. h = [i \in 0 .. m + 1 |-> h[i]]  OBVIOUS
  <2> HIDE DEF h, Step
  <2>5. h = [i \in 0 .. m + 1 |-> Step(h, i)]  BY <2>3, <2>4
  <2>6. QED  BY <2>5
<1>3. Nat \subseteq T
  <2> HIDE DEF T
  <2>1. QED  BY <1>1, <1>2, NaturalsByInduction
<1>4. upTo = [i \in 0 .. n |-> Step(upTo, i)]
  <2> HIDE DEF Step
  <2>1. \E g : g = [i \in 0 .. n |-> Step(g, i)]  BY <1>3
  <2>2. QED  BY <2>1
<1>5. Total(f, n) = upTo[n]
  BY DEF Total
<1> HIDE DEF upTo
<1>6. \A i \in 0 .. n : upTo[i] = Step(upTo, i)
  <2> HIDE DEF Step
  <2>1. QED  BY <1>4
<1>7. 0 \in 0 .. n /\ \A i \in 1 .. n : i \in 0 .. n /\ i # 0
  OBVIOUS
<1>8. upTo[0] = 0 /\ \A i \in 1 .. n : upTo[i] = upTo[i - 1] + f[i]
  BY <1>6, <1>7
<1>9. QED  BY <1>5, <1>8

(* Sums of the same sizes are the same.                                    *)
LEMMA SameTotals ==
  ASSUME NEW f, NEW g, NEW n \in Nat, \A i \in 1 .. n : f[i] = g[i],
         NEW U, U[0] = 0, \A i \in 1 .. n : U[i] = U[i - 1] + f[i],
         NEW V, V[0] = 0, \A i \in 1 .. n : V[i] = V[i - 1] + g[i]
  PROVE  U[n] = V[n]
<1> DEFINE T == {m \in Nat : m <= n => U[m] = V[m]}
<1>1. 0 \in T  OBVIOUS
<1>2. ASSUME NEW m \in Nat, m \in T
      PROVE  m + 1 \in T
  <2> SUFFICES ASSUME m + 1 <= n PROVE U[m + 1] = V[m + 1]
    OBVIOUS
  <2> DEFINE i == m + 1
  <2>1. i \in 1 .. n /\ i - 1 = m /\ m <= n  OBVIOUS
  <2>2. U[m] = V[m]  BY <1>2, <2>1
  <2> HIDE DEF i, T
  <2>3. U[i] = U[i - 1] + f[i] /\ V[i] = V[i - 1] + g[i] /\ f[i] = g[i]
    BY <2>1
  <2>4. QED  BY <2>1, <2>2, <2>3 DEF i
<1> HIDE DEF T
<1>3. Nat \subseteq T  BY <1>1, <1>2, NaturalsByInduction
<1>4. QED  BY <1>3 DEF T

(* One more size, none at all, and the kind of number it is.               *)
LEMMA TotalGrows ==
  ASSUME NEW f, NEW g, NEW n \in Nat, \A i \in 1 .. n : f[i] = g[i]
  PROVE  /\ Total(f, 0) = 0
         /\ Total(g, n) = Total(f, n)
         /\ Total(g, n + 1) = Total(f, n) + g[n + 1]
<1>1. Total(f, 0) = 0
  <2>1. PICK U : Total(f, 0) = U[0] /\ U[0] = 0  BY TotalDefined
  <2>2. QED  BY <2>1
<1>2. PICK U : /\ Total(f, n) = U[n] /\ U[0] = 0
               /\ \A i \in 1 .. n : U[i] = U[i - 1] + f[i]
  BY TotalDefined
<1>3. PICK V : /\ Total(g, n) = V[n] /\ V[0] = 0
               /\ \A i \in 1 .. n : V[i] = V[i - 1] + g[i]
  BY TotalDefined
<1>4. PICK W : /\ Total(g, n + 1) = W[n + 1] /\ W[0] = 0
               /\ \A i \in 1 .. n + 1 : W[i] = W[i - 1] + g[i]
  <2> DEFINE m == n + 1
  <2>1. m \in Nat  OBVIOUS
  <2> HIDE DEF m
  <2>2. \E W : /\ Total(g, m) = W[m] /\ W[0] = 0
               /\ \A i \in 1 .. m : W[i] = W[i - 1] + g[i]
    BY <2>1, TotalDefined
  <2>3. QED  BY <2>2 DEF m
<1>5. \A i \in 1 .. n : i \in 1 .. n + 1  OBVIOUS
<1>6. U[n] = V[n]  BY <1>2, <1>3, SameTotals
<1>7. U[n] = W[n]  BY <1>2, <1>4, <1>5, SameTotals
<1>8. W[n + 1] = W[n] + g[n + 1]
  <2>1. n + 1 \in 1 .. n + 1 /\ (n + 1) - 1 = n  OBVIOUS
  <2>2. QED  BY <1>4, <2>1
<1>9. QED  BY <1>1, <1>2, <1>3, <1>4, <1>6, <1>7, <1>8

(* A sum of natural numbers is one, and nothing if they are.               *)
LEMMA TotalNatural ==
  ASSUME NEW f, NEW n \in Nat, \A i \in 1 .. n : f[i] \in Nat
  PROVE  /\ Total(f, n) \in Nat
         /\ (\A i \in 1 .. n : f[i] = 0) => Total(f, n) = 0
<1>1. PICK U : /\ Total(f, n) = U[n] /\ U[0] = 0
               /\ \A i \in 1 .. n : U[i] = U[i - 1] + f[i]
  BY TotalDefined
<1> DEFINE T == {m \in Nat : m <= n =>
                   /\ U[m] \in Nat
                   /\ (\A i \in 1 .. n : f[i] = 0) => U[m] = 0}
<1>2. 0 \in T  BY <1>1
<1>3. ASSUME NEW m \in Nat, m \in T
      PROVE  m + 1 \in T
  <2> SUFFICES ASSUME m + 1 <= n
               PROVE  /\ U[m + 1] \in Nat
                      /\ (\A i \in 1 .. n : f[i] = 0) => U[m + 1] = 0
    OBVIOUS
  <2> DEFINE i == m + 1
  <2>1. i \in 1 .. n /\ i - 1 = m /\ m <= n  OBVIOUS
  <2>2. U[m] \in Nat /\ ((\A j \in 1 .. n : f[j] = 0) => U[m] = 0)  BY <1>3, <2>1
  <2> HIDE DEF i, T
  <2>3. U[i] = U[m] + f[i] /\ f[i] \in Nat  BY <1>1, <2>1
  <2>4. (\A j \in 1 .. n : f[j] = 0) => f[i] = 0  BY <2>1
  <2>5. QED  BY <2>2, <2>3, <2>4 DEF i
<1> HIDE DEF T
<1>4. Nat \subseteq T  BY <1>2, <1>3, NaturalsByInduction
<1>5. QED  BY <1>1, <1>4 DEF T
-----------------------------------------------------------------------------
(* What a captured element weighs grows with each thing read in it.        *)
LEMMA SizeGrows ==
  ASSUME IsSize, NEW x, IsElement(x), IsSeq(x.attrs)
  PROVE  /\ SizeOf(Dom(x)) \in Nat
         /\ \A y, piece :
              /\ y.tag = x.tag /\ y.attrs = x.attrs
              /\ y.text = Append(x.text, piece) /\ y.children = x.children
              => SizeOf(Dom(y)) = SizeOf(Dom(x)) + 1
         /\ \A y, z :
              /\ y.tag = x.tag /\ y.attrs = x.attrs
              /\ y.text = x.text /\ y.children = Append(x.children, z)
              => SizeOf(Dom(y)) = SizeOf(Dom(x)) + SizeOf(z)
<1>1. IsSeq(x.text) /\ IsSeq(x.children)  BY DEF IsElement
<1>2. \A piece, child : Grows(x.tag, x.attrs, x.text, x.children, piece, child)
  BY <1>1 DEF IsSize
<1>3. QED  BY <1>2 DEF Grows, Dom

(* An element that is opened weighs what it starts with.                   *)
LEMMA SizeOpened ==
  ASSUME IsSize, NEW tag, NEW attrs, IsSeq(attrs)
  PROVE  SizeOf(Dom(Element(tag, attrs))) = NodeBytes + AttrBytes * Len(attrs)
<1>1. IsSeq(<<>>)  BY EmptyIsSeq
<1>2. Grows(tag, attrs, <<>>, <<>>, 0, 0)  BY <1>1 DEF IsSize
<1> DEFINE x == Element(tag, attrs)
<1>3. Dom(x) = [tag |-> tag, attrs |-> attrs, text |-> <<>>, children |-> <<>>]
  BY DEF Dom, Element
<1>4. QED  BY <1>2, <1>3 DEF Grows

(* Which open elements of a document are in a capture or are one, and what *)
(* they weigh.                                                             *)
Captured(d, depth) ==
  \E c \in 1 .. depth : \E m \in DeclaredAt(d, c) : IsCapture(tree.nodes[m].needs)

Weight(d, i) == IF Captured(d, i) THEN SizeOf(Dom(d[i])) ELSE 0

SizeIn(d) == Total([i \in 1 .. Len(d) |-> Weight(d, i)], Len(d))

(* The property's words for it.                                            *)
LEMMA SameCaptured ==
  /\ \A depth : InCapture(depth) <=> Captured(doc, depth)
  /\ CapturedSize = SizeIn(doc)
<1>1. \A depth : InCapture(depth) <=> Captured(doc, depth)
  BY SameDeclared DEF InCapture, Captured
<1>2. QED  BY <1>1 DEF CapturedSize, SizeIn, Weight

(* They depend on the tags only, and what is below a capture is in it.     *)
LEMMA CapturedSame ==
  ASSUME NEW d, NEW e, NEW n \in Nat, \A i \in 1 .. n : d[i].tag = e[i].tag
  PROVE  \A i \in 0 .. n : Captured(d, i) <=> Captured(e, i)
<1> SUFFICES ASSUME NEW i \in 0 .. n PROVE Captured(d, i) <=> Captured(e, i)
  OBVIOUS
<1>1. ASSUME NEW c \in 1 .. i PROVE DeclaredAt(d, c) = DeclaredAt(e, c)
  <2>1. \A j \in 1 .. c : j \in 1 .. n  OBVIOUS
  <2>2. QED  BY <2>1, DeclaredSame
<1>2. QED  BY <1>1 DEF Captured

LEMMA CapturedBelow ==
  ASSUME NEW d, NEW i \in Nat, Captured(d, i)
  PROVE  Captured(d, i + 1)
BY DEF Captured

(* A start tag.                                                            *)
LEMMA SizeInOpen ==
  ASSUME IsSize, NEW d, IsSeq(d), \A i \in 1 .. Len(d) : IsElement(d[i]),
         NEW tag, NEW attrs, IsSeq(attrs)
  PROVE  LET e == Open(d, tag, attrs)
             n == Len(d)
         IN /\ n \in Nat /\ Len(e) = n + 1
            /\ \A i \in 0 .. n : Captured(e, i) <=> Captured(d, i)
            /\ Captured(e, n + 1) =>
                 SizeIn(e) = SizeIn(d) + (NodeBytes + AttrBytes * Len(attrs))
<1> DEFINE e == Open(d, tag, attrs)
           n == Len(d)
           f == [i \in 1 .. n |-> Weight(d, i)]
           g == [i \in 1 .. n + 1 |-> Weight(e, i)]
<1>1. /\ n \in Nat /\ Len(e) = n + 1
      /\ \A i \in 1 .. n : e[i] = d[i]
      /\ e[n + 1] = Element(tag, attrs)
  BY OpenElements
<1> HIDE DEF e
<1>2. \A i \in 1 .. n : e[i].tag = d[i].tag  BY <1>1
<1>3. \A i \in 0 .. n : Captured(e, i) <=> Captured(d, i)
  BY <1>1, <1>2, CapturedSame
<1>4. SizeIn(d) = Total(f, n) /\ SizeIn(e) = Total(g, n + 1)
  BY <1>1 DEF SizeIn
<1>5. \A i \in 1 .. n : f[i] = g[i]
  <2>1. ASSUME NEW i \in 1 .. n PROVE Weight(e, i) = Weight(d, i)
    <3>1. i \in 0 .. n  BY <1>1
    <3>2. QED  BY <1>1, <1>3, <3>1 DEF Weight
  <2>2. \A i \in 1 .. n : i \in 1 .. n + 1  BY <1>1
  <2>3. QED  BY <2>1, <2>2
<1>6. g[n + 1] = Weight(e, n + 1)  BY <1>1
<1> HIDE DEF f, g
<1>7. Total(g, n + 1) = Total(f, n) + g[n + 1]
  BY <1>1, <1>5, TotalGrows
<1>8. Captured(e, n + 1) => g[n + 1] = NodeBytes + AttrBytes * Len(attrs)
  BY <1>1, <1>6, SizeOpened DEF Weight
<1> HIDE DEF n
<1>9. QED  BY <1>1, <1>3, <1>4, <1>7, <1>8 DEF e, n

(* A piece of text.                                                        *)
LEMMA SizeInText ==
  ASSUME IsSize, NEW d, IsSeq(d), d # <<>>,
         \A i \in 1 .. Len(d) : IsElement(d[i]) /\ IsSeq(d[i].attrs),
         NEW piece, Captured(d, Len(d))
  PROVE  LET e == AddText(d, piece)
         IN /\ Captured(e, Len(e))
            /\ SizeIn(e) = SizeIn(d) + 1
<1> DEFINE e == AddText(d, piece)
           n == Len(d)
           m == n - 1
           f == [i \in 1 .. n |-> Weight(d, i)]
           g == [i \in 1 .. n |-> Weight(e, i)]
<1>1. /\ n \in Nat \ {0} /\ Len(e) = n
      /\ \A i \in 1 .. m : e[i] = d[i]
      /\ e[n].tag = d[n].tag /\ e[n].attrs = d[n].attrs
      /\ e[n].text = Append(d[n].text, piece) /\ e[n].children = d[n].children
  BY AddTextElements
<1> HIDE DEF e
<1>2. /\ m \in Nat /\ n = m + 1 /\ n \in 1 .. n
      /\ \A i \in 1 .. n : i \in 1 .. m \/ i = n
      /\ \A i \in 1 .. m : i \in 1 .. n
      /\ \A i \in 1 .. n : i \in 0 .. n
  BY <1>1
<1>3. \A i \in 0 .. n : Captured(e, i) <=> Captured(d, i)
  <2>1. \A i \in 1 .. n : e[i].tag = d[i].tag
    <3> HIDE DEF m, n
    <3>1. QED  BY <1>1, <1>2
  <2>2. QED  BY <1>1, <2>1, CapturedSame
<1>4. SizeIn(d) = Total(f, n) /\ SizeIn(e) = Total(g, n)
  BY <1>1 DEF SizeIn
<1>5. /\ \A i \in 1 .. n : f[i] \in Nat
      /\ \A i \in 1 .. m : f[i] = g[i]
      /\ g[n] = f[n] + 1
  <2>1. \A i \in 1 .. n : SizeOf(Dom(d[i])) \in Nat  BY SizeGrows
  <2>2. \A i \in 1 .. n : Weight(d, i) \in Nat  BY <2>1 DEF Weight
  <2>3. ASSUME NEW i \in 1 .. m PROVE Weight(d, i) = Weight(e, i)
    BY <1>1, <1>2, <1>3 DEF Weight
  <2>4. SizeOf(Dom(e[n])) = SizeOf(Dom(d[n])) + 1  BY <1>1, <1>2, SizeGrows
  <2>5. Weight(e, n) = Weight(d, n) + 1  BY <1>2, <1>3, <2>4 DEF Weight
  <2> HIDE DEF m, n
  <2>6. QED  BY <1>2, <2>2, <2>3, <2>5
<1> HIDE DEF f, g, m
<1>6. \A i \in 1 .. m : f[i] \in Nat  BY <1>2, <1>5
<1>7. Total(f, m) \in Nat  BY <1>2, <1>6, TotalNatural
<1> HIDE DEF n
<1>8. /\ Total(f, m + 1) = Total(f, m) + f[m + 1]
      /\ Total(g, m + 1) = Total(f, m) + g[m + 1]
  <2>1. m \in Nat  BY <1>2
  <2>2. \A i \in 1 .. m : f[i] = f[i] /\ f[i] = g[i]  BY <1>5
  <2>3. Total(f, m + 1) = Total(f, m) + f[m + 1]  BY <2>1, <2>2, TotalGrows
  <2>4. Total(g, m + 1) = Total(f, m) + g[m + 1]  BY <2>1, <2>2, TotalGrows
  <2>5. QED  BY <2>3, <2>4
<1>9. /\ Total(f, n) = Total(f, m) + f[n] /\ Total(g, n) = Total(f, m) + g[n]
      /\ f[n] \in Nat
  BY <1>2, <1>5, <1>8
<1>10. SizeIn(e) = SizeIn(d) + 1  BY <1>4, <1>5, <1>7, <1>9
<1>11. Captured(e, Len(e))  BY <1>1, <1>2, <1>3 DEF n
<1>12. QED  BY <1>10, <1>11 DEF e

(* Other character data.                                                   *)
LEMMA SizeInOther ==
  ASSUME NEW d, IsSeq(d), \A i \in 1 .. Len(d) : IsElement(d[i])
  PROVE  SizeIn(AddOther(d)) = SizeIn(d)
<1>1. CASE d = <<>>  BY <1>1 DEF AddOther
<1>2. CASE d # <<>>
  <2> DEFINE e == AddOther(d)
             n == Len(d)
  <2>1. /\ n \in Nat /\ Len(e) = n
        /\ \A i \in 1 .. n :
             /\ e[i].tag = d[i].tag /\ e[i].attrs = d[i].attrs
             /\ e[i].text = d[i].text /\ e[i].children = d[i].children
    BY <1>2, AddOtherElements
  <2> HIDE DEF e
  <2>2. \A i \in 0 .. n : Captured(e, i) <=> Captured(d, i)
    BY <2>1, CapturedSame
  <2>3. ASSUME NEW i \in 1 .. n PROVE Weight(e, i) = Weight(d, i)
    <3>1. i \in 0 .. n  BY <2>1
    <3>2. Dom(e[i]) = Dom(d[i])  BY <2>1 DEF Dom
    <3>3. QED  BY <2>2, <3>1, <3>2 DEF Weight
  <2>4. QED  BY <2>1, <2>3 DEF SizeIn, e
<1>3. QED  BY <1>1, <1>2

(* The end of an element inside of a captured one.                         *)
LEMMA SizeInClose ==
  ASSUME IsSize, NEW d, IsSeq(d),
         \A i \in 1 .. Len(d) : IsElement(d[i]) /\ IsSeq(d[i].attrs),
         Len(d) > 1, Captured(d, Len(d) - 1)
  PROVE  SizeIn(Close(d, <<>>)) = SizeIn(d)
<1> DEFINE e == Close(d, <<>>)
           n == Len(d)
           m == n - 1
           k == n - 2
           f == [i \in 1 .. n |-> Weight(d, i)]
           g == [i \in 1 .. m |-> Weight(e, i)]
<1>1. /\ n \in Nat /\ n > 1 /\ Len(e) = m
      /\ \A i \in 1 .. k : e[i] = d[i]
      /\ e[m].tag = d[m].tag /\ e[m].attrs = d[m].attrs /\ e[m].text = d[m].text
      /\ e[m].children = Append(d[m].children, Dom(d[n]))
  <2>1. d # <<>>  BY EmptyIsSeq
  <2>2. IsSeq(<<>>)  BY EmptyIsSeq
  <2>3. QED  BY <2>1, <2>2, CloseElements
<1> HIDE DEF e
<1>2. /\ k \in Nat /\ m = k + 1 /\ n = m + 1 /\ m \in Nat
      /\ m \in 1 .. m /\ m \in 1 .. n /\ n \in 1 .. n /\ m \in 0 .. m
      /\ \A i \in 1 .. m : i \in 1 .. k \/ i = m
      /\ \A i \in 1 .. k : i \in 1 .. m /\ i \in 1 .. n /\ i \in 0 .. m
  BY <1>1
<1>3. \A i \in 0 .. m : Captured(e, i) <=> Captured(d, i)
  <2>1. \A i \in 1 .. m : e[i].tag = d[i].tag
    <3> HIDE DEF m, n, k
    <3>1. QED  BY <1>1, <1>2
  <2>2. QED  BY <1>2, <2>1, CapturedSame
<1>4. SizeIn(d) = Total(f, n) /\ SizeIn(e) = Total(g, m)
  BY <1>1 DEF SizeIn
<1>5. Captured(d, n)
  <2>1. Captured(d, m + 1)  BY <1>2, CapturedBelow
  <2> HIDE DEF m, n
  <2>2. QED  BY <1>2, <2>1
<1>6. /\ \A i \in 1 .. n : f[i] \in Nat
      /\ \A i \in 1 .. k : f[i] = g[i]
      /\ g[m] = f[m] + f[n]
  <2>1. \A i \in 1 .. n : SizeOf(Dom(d[i])) \in Nat  BY SizeGrows
  <2>2. \A i \in 1 .. n : Weight(d, i) \in Nat  BY <2>1 DEF Weight
  <2>3. ASSUME NEW i \in 1 .. k PROVE Weight(d, i) = Weight(e, i)
    BY <1>1, <1>2, <1>3 DEF Weight
  <2>4. SizeOf(Dom(e[m])) = SizeOf(Dom(d[m])) + SizeOf(Dom(d[n]))
    <3> DEFINE x == d[m]
               y == e[m]
               z == Dom(d[n])
    <3>1. IsElement(x) /\ IsSeq(x.attrs)  BY <1>2
    <3>2. /\ y.tag = x.tag /\ y.attrs = x.attrs
          /\ y.text = x.text /\ y.children = Append(x.children, z)
      BY <1>1
    <3> HIDE DEF x, y, z
    <3>3. SizeOf(Dom(y)) = SizeOf(Dom(x)) + SizeOf(z)  BY <3>1, <3>2, SizeGrows
    <3>4. QED  BY <3>3 DEF x, y, z
  <2>5. Weight(e, m) = Weight(d, m) + Weight(d, n)
    BY <1>2, <1>3, <1>5, <2>4 DEF Weight
  <2> HIDE DEF m, n, k
  <2>6. QED  BY <1>2, <2>2, <2>3, <2>5
<1> HIDE DEF f, g, k
<1>7. \A i \in 1 .. k : f[i] \in Nat  BY <1>2, <1>6
<1>8. Total(f, k) \in Nat  BY <1>2, <1>7, TotalNatural
<1>9. /\ Total(f, k + 1) = Total(f, k) + f[k + 1]
      /\ Total(g, k + 1) = Total(f, k) + g[k + 1]
  BY <1>2, <1>6, TotalGrows
<1>10. Total(f, m + 1) = Total(f, m) + f[m + 1]
  <2> HIDE DEF m
  <2>1. QED  BY <1>2, TotalGrows
<1> HIDE DEF n, m
<1>11. /\ Total(f, m) = Total(f, k) + f[m] /\ Total(g, m) = Total(f, k) + g[m]
       /\ Total(f, n) = Total(f, m) + f[n]
       /\ f[m] \in Nat /\ f[n] \in Nat
  BY <1>2, <1>6, <1>9, <1>10
<1>12. SizeIn(e) = SizeIn(d)  BY <1>4, <1>6, <1>8, <1>11
<1>13. QED  BY <1>12 DEF e
-----------------------------------------------------------------------------
(* The parser is capturing where the document is captured: from the        *)
(* innermost context on.  In streaming mode nothing is.                    *)
LEMMA CaptureDepths ==
  ASSUME IInv, Followed, status = "reading", Told
  PROVE  /\ IsCapturing =>
              \A i \in Len(context_stack) .. Len(doc) : Captured(doc, i)
         /\ IsStreaming => \A i \in 0 .. Len(doc) : ~Captured(doc, i)
<1> DEFINE n == Len(context_stack)
<1>1. /\ tree \in Trees /\ n \in Nat /\ Len(doc) \in Nat /\ skip_depth \in Nat
      /\ IsStreaming => Len(doc) = n + skip_depth
      /\ IsCapturing => n > 0
      /\ ~(IsStreaming /\ IsCapturing)
      /\ \A k \in 1 .. n : IdOf(k) \in DeclaredAt(doc, k)
  BY Places
<1>2. /\ \A k \in 1 .. n :
           IsCapture(tree.nodes[IdOf(k)].needs) <=> IsCapturing /\ k = n
      /\ skip_depth > 0 => \A c \in n + 1 .. Len(doc) : DeclaredAt(doc, c) = {}
  BY DEF Told, CaptureTold, SkippedTold
<1>3. ASSUME IsCapturing, NEW i \in n .. Len(doc)
      PROVE  Captured(doc, i)
  <2>1. n \in 1 .. n /\ n \in 1 .. i  BY <1>1, <1>3
  <2>2. IsCapture(tree.nodes[IdOf(n)].needs) /\ IdOf(n) \in DeclaredAt(doc, n)
    BY <1>1, <1>2, <1>3, <2>1
  <2>3. QED  BY <2>1, <2>2 DEF Captured
<1>4. ASSUME IsStreaming, NEW i \in 0 .. Len(doc), NEW c \in 1 .. i,
             NEW m \in DeclaredAt(doc, c), IsCapture(tree.nodes[m].needs)
      PROVE  FALSE
  <2>1. CASE c <= n
    <3>1. c \in 1 .. n  BY <1>1, <2>1
    <3>2. m = IdOf(c)  BY <1>1, <3>1, DeclaredOnce
    <3>3. QED  BY <1>1, <1>2, <1>4, <3>1, <3>2
  <2>2. CASE ~(c <= n)
    <3>1. c \in n + 1 .. Len(doc) /\ skip_depth > 0  BY <1>1, <1>4, <2>2
    <3>2. QED  BY <1>2, <3>1
  <2>3. QED  BY <2>1, <2>2
<1>5. QED  BY <1>3, <1>4 DEF Captured

(* Before a capture nothing is held, and its start tag begins one.         *)
LEMMA CaptureBegins ==
  ASSUME IInv, Followed, status = "reading", Told, IsStreaming, skip_depth = 0,
         NEW tag, NEW attrs, Lookup(tag) # NoNode,
         IsCapture(tree.nodes[Lookup(tag)].needs)
  PROVE  /\ SizeIn(doc) = 0
         /\ Captured(Open(doc, tag, attrs), Len(doc) + 1)
<1> DEFINE n  == Len(context_stack)
           e  == Open(doc, tag, attrs)
           id == Lookup(tag)
           k  == n + 1
           f  == [i \in 1 .. n |-> Weight(doc, i)]
<1>1. /\ Len(doc) = n /\ n \in Nat /\ tree \in Trees /\ StacksOK /\ IsSeq(doc)
      /\ tree.nodes[id].full_path = [i \in 1 .. k |-> IF i = k THEN tag ELSE doc[i].tag]
      /\ \A i \in 1 .. Len(doc) : IsElement(doc[i])
  BY OpenedPath, Places
<1>2. id \in NodeIds(tree)  BY <1>1, LookupPath
<1>3. /\ \A i \in 1 .. n : e[i] = doc[i]
      /\ e[k] = Element(tag, attrs)
  BY <1>1, OpenElements
<1>4. id \in DeclaredAt(e, k)
  <2>1. ASSUME NEW i \in 1 .. k
        PROVE  e[i].tag = IF i = k THEN tag ELSE doc[i].tag
    <3>1. CASE i = k  BY <1>3, <3>1 DEF Element
    <3>2. CASE i # k
      <4>1. i \in 1 .. n  BY <1>1, <3>2
      <4> HIDE DEF k, e, n
      <4>2. QED  BY <1>3, <3>2, <4>1
    <3>3. QED  BY <3>1, <3>2
  <2> HIDE DEF e, k
  <2>2. PathOfDoc(e, k) = [i \in 1 .. k |-> IF i = k THEN tag ELSE doc[i].tag]
    BY <2>1 DEF PathOfDoc
  <2>3. QED  BY <1>1, <1>2, <2>2 DEF DeclaredAt
<1>5. Captured(e, k)
  <2>1. k \in 1 .. k  BY <1>1
  <2> HIDE DEF k, e
  <2>2. QED  BY <1>4, <2>1 DEF Captured
<1>6. SizeIn(doc) = Total(f, n)  BY <1>1 DEF SizeIn
<1>7. \A i \in 1 .. n : f[i] = 0
  <2>1. \A i \in 1 .. n : i \in 0 .. Len(doc)  BY <1>1
  <2>2. \A i \in 1 .. n : ~Captured(doc, i)  BY <2>1, CaptureDepths
  <2>3. QED  BY <2>2 DEF Weight
<1> HIDE DEF f
<1>8. Total(f, n) = 0
  <2>1. \A i \in 1 .. n : f[i] \in Nat  BY <1>7
  <2>2. QED  BY <1>1, <1>7, <2>1, TotalNatural
<1>9. QED  BY <1>1, <1>5, <1>6, <1>8

(* The invariant.  What the builder counts is what it holds, it is within  *)
(* the limit, and what ended a capture was not.                            *)
AttrsAreLists ==
  status = "reading" => \A i \in 1 .. Len(doc) : IsSeq(doc[i].attrs)

WithinLimit ==
  status = "reading" /\ IsCapturing =>
    /\ mode.builder.memory_usage = SizeIn(doc)
    /\ SizeIn(doc) <= tree.capture_memory_limit

OverLimit ==
  status = "CaptureOverflow" =>
    Captured(doc, Len(doc)) /\ SizeIn(doc) > tree.capture_memory_limit

MemoryTold == AttrsAreLists /\ WithinLimit /\ OverLimit

MInv == VInv /\ MemoryTold

(* No tree changes.                                                        *)
LEMMA SizesAfter ==
  ASSUME tree' = tree
  PROVE  /\ SizeIn(doc)' = SizeIn(doc')
         /\ Captured(doc, Len(doc))' <=> Captured(doc', Len(doc'))
<1>1. \A i : DeclaredAt(doc, i)' = DeclaredAt(doc', i)
  BY DEF DeclaredAt, NodeIds
<1>2. \A i : Captured(doc, i)' <=> Captured(doc', i)
  <2>1. \A i : Captured(doc, i)' <=>
          \E c \in 1 .. i : \E m \in DeclaredAt(doc', c) : IsCapture(tree.nodes[m].needs)
    BY <1>1 DEF Captured, IsCapture
  <2>2. QED  BY <2>1 DEF Captured
<1>3. Captured(doc, Len(doc))' <=> Captured(doc', Len(doc'))
  <2>1. Captured(doc, Len(doc))' <=>
          \E c \in 1 .. Len(doc') : \E m \in DeclaredAt(doc', c) :
             IsCapture(tree.nodes[m].needs)
    BY <1>1 DEF Captured, IsCapture
  <2>2. QED  BY <2>1 DEF Captured
<1>4. QED  BY <1>2, <1>3 DEF SizeIn, Weight, Dom

(* The attributes of open elements are lists: they stay as they came.      *)
LEMMA AttrsStayLists ==
  ASSUME IsSeq(doc), DocOK, \A i \in 1 .. Len(doc) : IsSeq(doc[i].attrs),
         \/ doc' = doc
         \/ \E tag, attrs : IsSeq(attrs) /\ doc' = Open(doc, tag, attrs)
         \/ \E piece : doc' = AddText(doc, piece)
         \/ doc' = AddOther(doc)
         \/ /\ doc # <<>>
            /\ \E childVerdicts : IsSeq(childVerdicts) /\ doc' = Close(doc, childVerdicts)
  PROVE  \A i \in 1 .. Len(doc') : IsSeq(doc'[i].attrs)
<1>1. Len(doc) \in Nat  BY LenProperties DEF IsSeq
<1>2. \A i \in 1 .. Len(doc) : IsElement(doc[i])  BY DEF DocOK
<1>3. \A i \in 1 .. Len(doc) : i <= Len(doc') => doc'[i].attrs = doc[i].attrs
  BY DocKept
<1>4. CASE \E tag, attrs : IsSeq(attrs) /\ doc' = Open(doc, tag, attrs)
  <2>1. PICK tag, attrs : IsSeq(attrs) /\ doc' = Open(doc, tag, attrs)  BY <1>4
  <2> DEFINE e == Open(doc, tag, attrs)
  <2>2. /\ Len(e) = Len(doc) + 1
        /\ \A i \in 1 .. Len(doc) : e[i] = doc[i]
        /\ e[Len(doc) + 1] = Element(tag, attrs)
    BY <1>2, OpenElements
  <2>3. doc' = e  BY <2>1
  <2> HIDE DEF e
  <2>4. \A i \in 1 .. Len(doc) + 1 : i \in 1 .. Len(doc) \/ i = Len(doc) + 1
    BY <1>1
  <2>5. IsSeq(e[Len(doc) + 1].attrs)  BY <2>1, <2>2 DEF Element
  <2>6. \A i \in 1 .. Len(doc) + 1 : IsSeq(e[i].attrs)  BY <2>2, <2>4, <2>5
  <2>7. QED  BY <2>2, <2>3, <2>6
<1>5. CASE Len(doc') \in 0 .. Len(doc)
  <2>1. \A i \in 1 .. Len(doc') : i \in 1 .. Len(doc) /\ i <= Len(doc')
    BY <1>1, <1>5
  <2>2. QED  BY <1>3, <2>1
<1>6. CASE doc' = doc  BY <1>6
<1>7. ASSUME NEW piece, doc' = AddText(doc, piece) PROVE Len(doc') \in 0 .. Len(doc)
  BY <1>1, <1>7, AddTextDoc
<1>8. CASE doc' = AddOther(doc)
  <2>1. Len(doc') \in 0 .. Len(doc)  BY <1>1, <1>8, AddOtherDoc
  <2>2. QED  BY <1>5, <2>1
<1>9. ASSUME doc # <<>>, NEW childVerdicts, doc' = Close(doc, childVerdicts)
      PROVE  Len(doc') \in 0 .. Len(doc)
  <2>1. Len(doc') = Len(doc) - 1  BY <1>9, CloseDoc
  <2>2. Len(doc) # 0  BY <1>9, EmptySeq DEF IsSeq
  <2>3. QED  BY <1>1, <2>1, <2>2
<1>10. QED  BY <1>4, <1>5, <1>6, <1>7, <1>8, <1>9
-----------------------------------------------------------------------------
(* The steps.  Outside of a capture the limit has nothing to say.          *)
LEMMA OutsideCapture ==
  ASSUME status' # "CaptureOverflow", ~IsCapturing' \/ status' # "reading"
  PROVE  WithinLimit' /\ OverLimit'
BY DEF WithinLimit, OverLimit

(* A start tag costs its node and its attributes.                          *)
LEMMA StartCosts ==
  ASSUME NEW builder, builder.memory_usage \in Nat, NEW tag, NEW attrs, IsSeq(attrs)
  PROVE  LET cost == NodeBytes + AttrBytes * Len(attrs)
             b    == StartElement(builder, tag, attrs)
         IN /\ cost \in Nat
            /\ b.memory_usage = builder.memory_usage + cost
            /\ b.memory_limit = builder.memory_limit
<1> DEFINE c == AttrBytes * Len(attrs)
<1>1. Len(attrs) \in Nat /\ NodeBytes \in Nat /\ AttrBytes \in Nat
  BY SizesAssumption, LenProperties DEF IsSeq
<1>2. c \in Nat  BY <1>1
<1>3. /\ StartElement(builder, tag, attrs).memory_usage
           = builder.memory_usage + NodeBytes + c
      /\ StartElement(builder, tag, attrs).memory_limit = builder.memory_limit
  BY DEF StartElement
<1> HIDE DEF c
<1>4. builder.memory_usage + NodeBytes + c = builder.memory_usage + (NodeBytes + c)
  BY <1>1, <1>2
<1>5. QED  BY <1>1, <1>2, <1>3, <1>4 DEF c

(* What is known of a capture before each event.                           *)
LEMMA InsideCapture ==
  ASSUME MInv, status = "reading"
  PROVE  /\ IInv /\ Followed /\ Told /\ IsSeq(doc) /\ Len(doc) \in Nat
         /\ \A i \in 1 .. Len(doc) : IsElement(doc[i]) /\ IsSeq(doc[i].attrs)
         /\ tree.capture_memory_limit \in Nat
         /\ IsStreaming \/ IsCapturing
         /\ ~(IsStreaming /\ IsCapturing)
         /\ IsCapturing =>
              /\ mode.builder.memory_usage \in Nat
              /\ mode.builder.memory_usage = SizeIn(doc)
              /\ mode.builder.memory_limit = tree.capture_memory_limit
              /\ SizeIn(doc) <= tree.capture_memory_limit
              /\ Captured(doc, Len(doc)) /\ doc # <<>>
              /\ skip_depth = 0
<1>1. IInv /\ Followed /\ Told  BY DEF MInv, VInv, FInv
<1>2. /\ tree \in Trees /\ IsSeq(doc) /\ Len(doc) \in Nat
      /\ Len(context_stack) \in Nat /\ Len(context_stack) <= Len(doc)
      /\ IsStreaming \/ IsCapturing
      /\ ~(IsStreaming /\ IsCapturing)
      /\ IsCapturing => Len(context_stack) > 0 /\ skip_depth = 0
      /\ \A i \in 1 .. Len(doc) : IsElement(doc[i])
  BY <1>1, Places
<1>3. tree.capture_memory_limit \in Nat
  <2>1. IsTree(tree)  BY <1>2, TreesAssumption
  <2>2. QED  BY <2>1 DEF IsTree
<1>4. \A i \in 1 .. Len(doc) : IsSeq(doc[i].attrs)
  BY DEF MInv, MemoryTold, AttrsAreLists
<1>5. ASSUME IsCapturing
      PROVE  /\ mode.builder.memory_usage \in Nat
             /\ mode.builder.memory_usage = SizeIn(doc)
             /\ mode.builder.memory_limit = tree.capture_memory_limit
             /\ SizeIn(doc) <= tree.capture_memory_limit
             /\ Captured(doc, Len(doc)) /\ doc # <<>>
  <2>1. IsBuilder(mode.builder)  BY <1>1, <1>5, Sizes
  <2>2. /\ mode.builder.memory_usage \in Nat
        /\ mode.builder.memory_limit = tree.capture_memory_limit
    <3> DEFINE b == mode.builder
    <3>1. b \in [stack : {b.stack}, memory_usage : Nat,
                 memory_limit : {tree.capture_memory_limit}]
      BY <2>1 DEF IsBuilder
    <3> HIDE DEF b
    <3>2. b.memory_usage \in Nat /\ b.memory_limit = tree.capture_memory_limit
      BY <3>1
    <3>3. QED  BY <3>2 DEF b
  <2>3. mode.builder.memory_usage = SizeIn(doc) /\ SizeIn(doc) <= tree.capture_memory_limit
    BY <1>5 DEF MInv, MemoryTold, WithinLimit
  <2>4. Len(doc) \in Len(context_stack) .. Len(doc)  BY <1>2
  <2>5. Captured(doc, Len(doc))  BY <1>1, <1>5, <2>4, CaptureDepths
  <2>6. doc # <<>>  BY <1>2, <1>5, EmptyIsSeq
  <2>7. QED  BY <2>2, <2>3, <2>5, <2>6
<1>6. QED  BY <1>1, <1>2, <1>3, <1>4, <1>5

(* handle_start.  An element that is added to the capture or begins one is *)
(* counted before the limit is checked.                                    *)
LEMMA HandleStartMemory ==
  ASSUME IsSize, MInv, status = "reading", tree' = tree,
         NEW tag, NEW attrs, IsSeq(attrs), HandleStart(tag, attrs)
  PROVE  WithinLimit' /\ OverLimit'
<1> DEFINE e     == Open(doc, tag, attrs)
           cost  == NodeBytes + AttrBytes * Len(attrs)
           limit == tree.capture_memory_limit
           inner == StartElement(mode.builder, tag, attrs)
           outer == CaptureRoot(tag, attrs)
<1>1. doc' = e  BY DEF HandleStart
<1>2. /\ SizeIn(doc)' = SizeIn(e)
      /\ Captured(doc, Len(doc))' <=> Captured(e, Len(e))
  BY <1>1, SizesAfter
<1>3. /\ Len(doc) \in Nat /\ Len(e) = Len(doc) + 1
      /\ \A i \in 0 .. Len(doc) : Captured(e, i) <=> Captured(doc, i)
      /\ Captured(e, Len(doc) + 1) => SizeIn(e) = SizeIn(doc) + cost
  BY InsideCapture, SizeInOpen
<1>4. ASSUME IsCapturing
      PROVE  /\ Captured(e, Len(e)) /\ inner.memory_usage = SizeIn(e)
             /\ inner.memory_limit = limit /\ SizeIn(e) \in Nat
  <2>1. Captured(doc, Len(doc)) /\ Len(doc) \in 0 .. Len(doc)
    BY <1>3, <1>4, InsideCapture
  <2>2. Captured(e, Len(doc))  BY <1>3, <2>1
  <2> HIDE DEF e
  <2>3. Captured(e, Len(doc) + 1)  BY <1>3, <2>2, CapturedBelow
  <2> HIDE DEF cost, inner
  <2>4. /\ cost \in Nat /\ inner.memory_usage = mode.builder.memory_usage + cost
        /\ inner.memory_limit = mode.builder.memory_limit
    BY <1>4, InsideCapture, StartCosts DEF cost, inner
  <2>5. QED  BY <1>3, <1>4, <2>3, <2>4, InsideCapture
<1>5. ASSUME IsStreaming, skip_depth = 0, Lookup(tag) # NoNode,
             IsCapture(tree.nodes[Lookup(tag)].needs)
      PROVE  /\ Captured(e, Len(e)) /\ outer.memory_usage = SizeIn(e)
             /\ outer.memory_limit = limit /\ SizeIn(e) \in Nat
  <2>1. IInv /\ Followed /\ Told  BY InsideCapture
  <2>2. SizeIn(doc) = 0 /\ Captured(e, Len(doc) + 1)
    BY <1>5, <2>1, CaptureBegins
  <2> DEFINE b == NewBuilder(limit)
  <2>3. b.memory_usage = 0 /\ b.memory_limit = limit  BY DEF NewBuilder
  <2>4. outer = StartElement(b, tag, attrs)  BY DEF CaptureRoot
  <2> HIDE DEF b, e, cost, outer
  <2>5. /\ cost \in Nat /\ outer.memory_usage = 0 + cost /\ outer.memory_limit = limit
    BY <2>3, <2>4, StartCosts DEF cost
  <2>6. QED  BY <1>3, <2>2, <2>5
<1> HIDE DEF e, cost, inner, outer
<1>6. ASSUME ~IsCapturing, UNCHANGED <<mode, status>>
      PROVE  WithinLimit' /\ OverLimit'
  <2>1. ~IsCapturing'  BY <1>6 DEF IsCapturing
  <2>2. QED  BY <1>6, <2>1, OutsideCapture
<1>7. CASE SkipStart
  <2>1. skip_depth > 0 /\ UNCHANGED <<mode, status>>  BY <1>7 DEF SkipStart
  <2>2. ~IsCapturing  BY <2>1, InsideCapture
  <2>3. QED  BY <1>6, <2>1, <2>2
<1>8. CASE StartFails(tag, attrs)
  <2>1. /\ skip_depth = 0 /\ StartError(tag, attrs) # "none"
        /\ status' = StartError(tag, attrs)
    BY <1>8 DEF StartFails
  <2>2. \A a : AttrError(a) # "CaptureOverflow" /\ AttrError(a) # "reading"
    BY DEF AttrError
  <2>3. status' # "reading"  BY <2>1, <2>2 DEF StartError
  <2>4. ASSUME status' = "CaptureOverflow"
        PROVE  Captured(e, Len(e)) /\ SizeIn(e) > limit
    <3>1. CASE IsCapturing
      <4>1. Overflows(inner)
        BY <2>1, <2>2, <2>4, <3>1 DEF StartError, inner
      <4>2. QED  BY <1>4, <3>1, <4>1 DEF Overflows
    <3>2. CASE ~IsCapturing
      <4>1. /\ Lookup(tag) # NoNode /\ IsCapture(tree.nodes[Lookup(tag)].needs)
            /\ Overflows(outer)
        BY <2>1, <2>2, <2>4, <3>2 DEF StartError, outer
      <4>2. IsStreaming  BY <3>2, InsideCapture
      <4>3. QED  BY <1>5, <2>1, <4>1, <4>2 DEF Overflows
    <3>3. QED  BY <3>1, <3>2
  <2>5. QED  BY <1>2, <2>3, <2>4 DEF WithinLimit, OverLimit
<1>9. CASE CaptureStart(tag, attrs)
  <2>1. /\ IsCapturing /\ StartError(tag, attrs) = "none" /\ status' = status
        /\ mode' = [mode EXCEPT !.builder = inner, !.depth = @ + 1]
    BY <1>9 DEF CaptureStart, inner
  <2>2. ~Overflows(inner)
    BY <2>1 DEF StartError, inner
  <2>3. mode \in [kind : {"Capturing"}, builder : {mode.builder}, depth : Nat,
                  descriptor_id : NodeIds(tree), context_stack_index : Nat]
    BY <2>1, InsideCapture DEF IInv, TypeOK, ModeOK, IsCapturing, Streaming
  <2>4. mode'.builder = inner  BY <2>1, <2>3
  <2>5. inner.memory_usage <= limit
    <3>1. inner.memory_usage \in Nat /\ inner.memory_limit = limit /\ limit \in Nat
      BY <1>4, <2>1, InsideCapture
    <3>2. QED  BY <2>2, <3>1 DEF Overflows
  <2>6. mode'.builder.memory_usage = SizeIn(doc)' /\ SizeIn(doc)' <= limit
    BY <1>2, <1>4, <2>1, <2>4, <2>5
  <2>7. QED  BY <2>1, <2>6 DEF WithinLimit, OverLimit
<1>10. CASE OpenUndeclared(tag, attrs)
  <2>1. IsStreaming /\ UNCHANGED <<mode, status>>  BY <1>10 DEF OpenUndeclared
  <2>2. ~IsCapturing  BY <2>1, InsideCapture
  <2>3. QED  BY <1>6, <2>1, <2>2
<1>11. CASE OpenDeclared(tag, attrs)
  <2> DEFINE id == Lookup(tag)
  <2>1. /\ skip_depth = 0 /\ IsStreaming /\ StartError(tag, attrs) = "none"
        /\ id # NoNode /\ status' = status
        /\ mode' = IF IsCapture(tree.nodes[id].needs)
                   THEN Capturing(outer, 1, id, Len(context_stack))
                   ELSE mode
    BY <1>11 DEF OpenDeclared, outer
  <2>2. ~IsCapturing  BY <2>1, InsideCapture
  <2>3. CASE ~IsCapture(tree.nodes[id].needs)
    BY <1>6, <2>1, <2>2, <2>3
  <2>4. CASE IsCapture(tree.nodes[id].needs)
    <3>1. ~Overflows(outer)
      <4>1. NeedsAttrs(id)  BY <2>4 DEF NeedsAttrs
      <4>2. QED  BY <2>1, <2>2, <2>4, <4>1 DEF StartError, outer
    <3>2. /\ outer.memory_usage = SizeIn(e) /\ outer.memory_limit = limit
          /\ SizeIn(e) \in Nat /\ limit \in Nat
      BY <1>5, <2>1, <2>4, InsideCapture
    <3>3. SizeIn(e) <= limit  BY <3>1, <3>2 DEF Overflows
    <3>4. mode'.builder = outer  BY <2>1, <2>4 DEF Capturing
    <3>5. mode'.builder.memory_usage = SizeIn(doc)' /\ SizeIn(doc)' <= limit
      BY <1>2, <3>2, <3>3, <3>4
    <3>6. QED  BY <2>1, <3>5 DEF WithinLimit, OverLimit
  <2>5. QED  BY <2>3, <2>4
<1>12. QED  BY <1>7, <1>8, <1>9, <1>10, <1>11 DEF HandleStart
(* handle_end.  What a capture has closed it still holds.                  *)
LEMMA HandleEndMemory ==
  ASSUME IsSize, MInv, status = "reading", tree' = tree, HandleEnd
  PROVE  WithinLimit' /\ OverLimit'
<1>1. status' = status  BY DEF HandleEnd
<1>2. ASSUME ~IsCapturing, mode' = mode
      PROVE  WithinLimit' /\ OverLimit'
  <2>1. ~IsCapturing'  BY <1>2 DEF IsCapturing
  <2>2. QED  BY <1>1, <2>1, OutsideCapture
<1>3. CASE SkipEnd
  <2>1. skip_depth > 0 /\ mode' = mode  BY <1>3 DEF SkipEnd
  <2>2. ~IsCapturing  BY <2>1, InsideCapture
  <2>3. QED  BY <1>2, <2>1, <2>2
<1>4. CASE CaptureEnd
  <2> DEFINE e == Close(doc, <<>>)
             b == EndElement(mode.builder)
             limit == tree.capture_memory_limit
  <2>1. /\ IsCapturing /\ mode.depth # 1 /\ doc' = e
        /\ mode' = [mode EXCEPT !.builder = b, !.depth = @ - 1]
    BY <1>4 DEF CaptureEnd
  <2>2. SizeIn(doc)' = SizeIn(e)  BY <2>1, SizesAfter
  <2>3. IInv /\ Followed /\ Told  BY InsideCapture
  <2>4. /\ Len(doc) > 1 /\ Captured(doc, Len(doc) - 1)
    <3>1. /\ mode.depth \in Nat \ {0} /\ Len(context_stack) \in Nat
          /\ Len(context_stack) > 0
          /\ Len(doc) = Len(context_stack) + (mode.depth - 1)
      BY <2>1, <2>3, Sizes
    <3>2. Len(doc) > 1 /\ Len(doc) - 1 \in Len(context_stack) .. Len(doc)
      BY <2>1, <3>1
    <3>3. QED  BY <2>1, <2>3, <3>2, CaptureDepths
  <2>5. SizeIn(e) = SizeIn(doc)  BY <2>4, InsideCapture, SizeInClose
  <2>6. b.memory_usage = mode.builder.memory_usage  BY DEF EndElement
  <2>7. mode'.builder = b
    <3>1. mode \in [kind : {"Capturing"}, builder : {mode.builder}, depth : Nat,
                    descriptor_id : NodeIds(tree), context_stack_index : Nat]
      BY <2>1, <2>3 DEF IInv, TypeOK, ModeOK, IsCapturing, Streaming
    <3> HIDE DEF b
    <3>2. QED  BY <2>1, <3>1
  <2> HIDE DEF b, e
  <2>8. mode'.builder.memory_usage = SizeIn(doc)' /\ SizeIn(doc)' <= limit
    BY <2>1, <2>2, <2>5, <2>6, <2>7, InsideCapture
  <2>9. QED  BY <1>1, <2>1, <2>8 DEF WithinLimit, OverLimit
<1>5. CASE CloseCapture \/ CloseStreaming
  <2>1. mode' = Streaming  BY <1>5, InsideCapture, ClosesAsRulesRun
  <2>2. ~IsCapturing'  BY <2>1 DEF IsCapturing, Streaming
  <2>3. QED  BY <1>1, <2>2, OutsideCapture
<1>6. QED  BY <1>3, <1>4, <1>5 DEF HandleEnd

(* The Text arm.  A piece of text in a capture is counted, then checked.   *)
LEMMA TextMemory ==
  ASSUME IsSize, MInv, status = "reading", tree' = tree,
         NEW piece, doc' = AddText(doc, piece),
         IgnoreText \/ TextFails(piece) \/ CaptureText(piece) \/ AppendText(piece)
  PROVE  WithinLimit' /\ OverLimit'
<1> DEFINE e     == AddText(doc, piece)
           b     == TextPiece(mode.builder, piece)
           limit == tree.capture_memory_limit
<1>1. /\ SizeIn(doc)' = SizeIn(e)
      /\ Captured(doc, Len(doc))' <=> Captured(e, Len(e))
  BY SizesAfter
<1>2. ASSUME IsCapturing
      PROVE  /\ Captured(e, Len(e)) /\ b.memory_usage = SizeIn(e)
             /\ b.memory_limit = limit /\ SizeIn(e) \in Nat
  <2>1. Captured(e, Len(e)) /\ SizeIn(e) = SizeIn(doc) + 1
    BY <1>2, InsideCapture, SizeInText
  <2>2. /\ b.memory_usage = mode.builder.memory_usage + 1
        /\ b.memory_limit = mode.builder.memory_limit
    BY DEF TextPiece
  <2> HIDE DEF b, e
  <2>3. QED  BY <1>2, <2>1, <2>2, InsideCapture
<1> HIDE DEF b, e
<1>3. ASSUME ~IsCapturing, mode' = mode, status' = status
      PROVE  WithinLimit' /\ OverLimit'
  <2>1. ~IsCapturing'  BY <1>3 DEF IsCapturing
  <2>2. QED  BY <1>3, <2>1, OutsideCapture
<1>4. CASE IgnoreText
  <2>1. ~TextWanted /\ UNCHANGED <<mode, status>>  BY <1>4 DEF IgnoreText
  <2>2. ~IsCapturing  BY <2>1, InsideCapture DEF TextWanted
  <2>3. QED  BY <1>3, <2>1, <2>2
<1>5. CASE TextFails(piece)
  <2>1. status' \in {"XmlParse", "CaptureOverflow"}  BY <1>5 DEF TextFails
  <2>2. ASSUME status' = "CaptureOverflow"
        PROVE  Captured(e, Len(e)) /\ SizeIn(e) > limit
    <3>1. IsCapturing /\ Overflows(b)  BY <1>5, <2>2 DEF TextFails, b
    <3>2. QED  BY <1>2, <3>1 DEF Overflows
  <2>3. QED  BY <1>1, <2>1, <2>2 DEF WithinLimit, OverLimit
<1>6. CASE CaptureText(piece)
  <2>1. /\ IsCapturing /\ ~Overflows(b) /\ status' = status
        /\ mode' = [mode EXCEPT !.builder = b]
    BY <1>6 DEF CaptureText, b
  <2>2. mode \in [kind : {"Capturing"}, builder : {mode.builder}, depth : Nat,
                  descriptor_id : NodeIds(tree), context_stack_index : Nat]
    BY <2>1, InsideCapture DEF IInv, TypeOK, ModeOK, IsCapturing, Streaming
  <2>3. mode'.builder = b  BY <2>1, <2>2
  <2>4. b.memory_usage <= limit
    <3>1. b.memory_usage \in Nat /\ b.memory_limit = limit /\ limit \in Nat
      BY <1>2, <2>1, InsideCapture
    <3>2. QED  BY <2>1, <3>1 DEF Overflows
  <2>5. mode'.builder.memory_usage = SizeIn(doc)' /\ SizeIn(doc)' <= limit
    BY <1>1, <1>2, <2>1, <2>3, <2>4
  <2>6. QED  BY <2>1, <2>5 DEF WithinLimit, OverLimit
<1>7. CASE AppendText(piece)
  <2>1. IsStreaming /\ UNCHANGED <<mode, status>>  BY <1>7 DEF AppendText
  <2>2. ~IsCapturing  BY <2>1, InsideCapture
  <2>3. QED  BY <1>3, <2>1, <2>2
<1>8. QED  BY <1>4, <1>5, <1>6, <1>7

(* MInv holds when parsing starts.                                         *)
LEMMA InitMInv == Init => MInv
<1> SUFFICES ASSUME Init PROVE MInv
  OBVIOUS
<1>1. VInv  BY InitVInv
<1>2. /\ 1 .. Len(doc) = {} /\ ~IsCapturing /\ status \in {"reading", "Utf8"}
  BY EmptyIsSeq DEF Init, IsCapturing, Streaming
<1>3. QED
  BY <1>1, <1>2 DEF MInv, MemoryTold, AttrsAreLists, WithinLimit, OverLimit

(* Every event preserves MInv.                                             *)
LEMMA MInvStep ==
  ASSUME IsSize
  PROVE  MInv /\ [Next]_vars => MInv'
<1> SUFFICES ASSUME MInv, [Next]_vars PROVE MInv'
  OBVIOUS
<1>1. VInv'  BY VInvStep DEF MInv
<1> SUFFICES AttrsAreLists' /\ WithinLimit' /\ OverLimit'
  BY <1>1 DEF MInv, MemoryTold
<1>2. ReadEvent => status = "reading" /\ tree' = tree  BY DEF ReadEvent
<1>3. status = "reading" =>
        /\ IsSeq(doc) /\ DocOK /\ \A i \in 1 .. Len(doc) : IsSeq(doc[i].attrs)
  BY InsideCapture DEF DocOK
<1>4. ASSUME status = "reading", \A i \in 1 .. Len(doc') : IsSeq(doc'[i].attrs)
      PROVE  AttrsAreLists'
  BY <1>4 DEF AttrsAreLists
<1>5. ASSUME status = "reading", tree' = tree, HandleEnd
      PROVE  AttrsAreLists' /\ WithinLimit' /\ OverLimit'
  <2>1. doc # <<>> /\ \E childVerdicts : IsSeq(childVerdicts) /\ doc' = Close(doc, childVerdicts)
    <3>1. CASE SkipEnd \/ CaptureEnd
      <4>1. doc' = Close(doc, <<>>)  BY <3>1 DEF SkipEnd, CaptureEnd
      <4>2. doc # <<>>
        <5>1. CASE CaptureEnd  BY <1>5, <5>1, InsideCapture DEF CaptureEnd
        <5>2. CASE SkipEnd
          <6>1. /\ skip_depth > 0 /\ ~IsCapturing
            BY <1>5, <5>2, InsideCapture DEF SkipEnd
          <6>2. /\ Len(doc) = Len(context_stack) + skip_depth
                /\ Len(context_stack) \in Nat /\ skip_depth \in Nat
            BY <1>5, <6>1, InsideCapture, Places
          <6>3. Len(doc) # 0  BY <6>1, <6>2
          <6>4. QED  BY <6>3, EmptyIsSeq
        <5>3. QED  BY <3>1, <5>1, <5>2
      <4>3. QED  BY <4>1, <4>2, EmptyIsSeq
    <3>2. CASE CloseStreaming \/ CloseCapture
      <4>1. IInv  BY <1>5, InsideCapture
      <4>2. /\ context_stack # <<>> /\ Len(doc) = Len(context_stack)
            /\ \E view, node, ctx, text : RunRules(view, node, ctx, text)
        BY <1>5, <3>2, <4>1, ClosesAsRulesRun
      <4>3. Len(context_stack) \in Nat \ {0} /\ \E v : doc' = Close(doc, <<v>>)
        BY <4>1, <4>2, RulesRun
      <4>4. PICK v : doc' = Close(doc, <<v>>)  BY <4>3
      <4>5. <<v>> \in Seq({v})  OBVIOUS
      <4>6. IsSeq(<<v>>)  BY <4>5, IsSeqOf
      <4>7. doc # <<>>  BY <4>2, <4>3, EmptyIsSeq
      <4>8. QED  BY <4>4, <4>6, <4>7
    <3>3. QED  BY <1>5, <3>1, <3>2 DEF HandleEnd
  <2>2. AttrsAreLists'  BY <1>3, <1>4, <1>5, <2>1, AttrsStayLists
  <2>3. QED  BY <1>5, <2>2, HandleEndMemory
<1>6. ASSUME NEW tag \in TagsOf, NEW attrs \in AttrListsOf, StartTag(tag, attrs)
      PROVE  AttrsAreLists' /\ WithinLimit' /\ OverLimit'
  <2>1. /\ ReadEvent /\ HandleStart(tag, attrs) /\ doc' = Open(doc, tag, attrs)
    BY <1>6 DEF StartTag, HandleStart
  <2>2. IsSeq(attrs)
    <3>1. attrs \in Seq(Attrs \cup Illegible)
      BY AttrListsAssumption DEF AttrListsOf
    <3>2. QED  BY <3>1, IsSeqOf
  <2>3. AttrsAreLists'  BY <1>2, <1>3, <1>4, <2>1, <2>2, AttrsStayLists
  <2>4. QED  BY <1>2, <2>1, <2>2, <2>3, HandleStartMemory
<1>7. CASE EndTag
  BY <1>2, <1>5, <1>7 DEF EndTag
<1>8. CASE SelfClose
  BY <1>5, <1>8 DEF SelfClose
<1>9. ASSUME NEW piece \in TextsOf, TextRun(piece)
      PROVE  AttrsAreLists' /\ WithinLimit' /\ OverLimit'
  <2>1. /\ ReadEvent /\ doc' = AddText(doc, piece)
        /\ IgnoreText \/ TextFails(piece) \/ CaptureText(piece) \/ AppendText(piece)
    BY <1>9 DEF TextRun
  <2>2. AttrsAreLists'  BY <1>2, <1>3, <1>4, <2>1, AttrsStayLists
  <2>3. QED  BY <1>2, <2>1, <2>2, TextMemory
<1>10. ASSUME NEW event \in OtherData, IgnoreOther(event)
       PROVE  AttrsAreLists' /\ WithinLimit' /\ OverLimit'
  <2>1. ReadEvent /\ doc' = AddOther(doc) /\ UNCHANGED <<mode, status>>
    BY <1>10 DEF IgnoreOther
  <2>2. AttrsAreLists'  BY <1>2, <1>3, <1>4, <2>1, AttrsStayLists
  <2>3. SizeIn(doc)' = SizeIn(doc)
    BY <1>2, <2>1, SizesAfter, SizeInOther, InsideCapture
  <2>4. WithinLimit'
    BY <1>2, <2>1, <2>3 DEF MInv, MemoryTold, WithinLimit, IsCapturing
  <2>5. OverLimit'  BY <1>2, <2>1 DEF OverLimit
  <2>6. QED  BY <2>2, <2>4, <2>5
<1>11. CASE TokenizerError \/ Eof
  BY <1>11 DEF TokenizerError, Eof, AttrsAreLists, WithinLimit, OverLimit
<1>12. CASE UNCHANGED vars
  <2>1. UNCHANGED <<tree, doc, mode, status>>  BY <1>12 DEF vars
  <2>2. /\ SizeIn(doc)' = SizeIn(doc)
        /\ Captured(doc, Len(doc))' <=> Captured(doc, Len(doc))
    BY <2>1, SizesAfter
  <2>3. AttrsAreLists'
    BY <2>1 DEF MInv, MemoryTold, AttrsAreLists, IsSeq
  <2>4. WithinLimit' /\ OverLimit'
    BY <2>1, <2>2 DEF MInv, MemoryTold, WithinLimit, OverLimit, IsCapturing
  <2>5. QED  BY <2>3, <2>4
<1>13. QED
  BY <1>6, <1>7, <1>8, <1>9, <1>10, <1>11, <1>12 DEF Next, Returned

(* For every tree and document, and whatever a node is taken to cost that  *)
(* grows as IsSize says: a capture that goes on holds no more than         *)
(* capture_limit, counting what it has closed and read so far, and one     *)
(* that is given up had just gone over it.                                 *)
THEOREM CaptureBounded ==
  ASSUME IsSize
  PROVE  Spec => []CaptureBudget
<1>1. MInv => CaptureBudget
  <2> SUFFICES ASSUME MInv PROVE CaptureBudget
    OBVIOUS
  <2>1. ASSUME status = "reading", Captured(doc, Len(doc))
        PROVE  SizeIn(doc) <= tree.capture_memory_limit
    <3>1. CASE IsCapturing
      BY <2>1, <3>1 DEF MInv, MemoryTold, WithinLimit
    <3>2. CASE IsStreaming
      <4>1. Len(doc) \in 0 .. Len(doc)  BY <2>1, InsideCapture
      <4>2. QED  BY <2>1, <3>2, <4>1, InsideCapture, CaptureDepths
    <3>3. QED  BY <2>1, <3>1, <3>2, InsideCapture
  <2>2. QED
    BY <2>1, SameCaptured DEF MInv, MemoryTold, OverLimit, CaptureBudget
<1>2. MInv /\ [Next]_vars => MInv'  BY MInvStep
<1>3. QED  BY InitMInv, <1>1, <1>2, PTL DEF Spec
=============================================================================
