--------------------------- MODULE ContextProofs ---------------------------
(***************************************************************************)
(* What the parser keeps of the document is true of the document: context  *)
(* k is the k-th open element, the builder holds the captured subtree node *)
(* by node, and the pools stay within the depth of the declared tree.      *)
(* FInv is inductive; one lemma for each thing an event can do.            *)
(***************************************************************************)
EXTENDS ParserProofs, FiniteSetTheorems

(* An open element is known by its fields; what it has closed and read is  *)
(* a sequence.                                                             *)
IsElement(e) ==
  /\ e \in [tag : {e.tag}, attrs : {e.attrs}, text : {e.text}, children : {e.children},
            evaluated : {e.evaluated}, content : {e.content}]
  /\ IsSeq(e.text) /\ IsSeq(e.children) /\ IsSeq(e.evaluated)

DocOK == \A i \in 1 .. Len(doc) : IsElement(doc[i])

-----------------------------------------------------------------------------
(* What each event of the tokenizer does to the open elements.  A start    *)
(* tag adds one and leaves the others as they are.                         *)
LEMMA OpenElements ==
  ASSUME NEW d, IsSeq(d), \A i \in 1 .. Len(d) : IsElement(d[i]), NEW tag, NEW attrs
  PROVE  LET r == Open(d, tag, attrs)
         IN /\ Len(r) = Len(d) + 1 /\ Len(d) \in Nat
            /\ \A i \in 1 .. Len(d) : r[i] = d[i]
            /\ r[Len(d) + 1] = Element(tag, attrs)
            /\ \A i \in 1 .. Len(d) + 1 : IsElement(r[i])
<1> DEFINE r == Open(d, tag, attrs)
<1>1. /\ Len(r) = Len(d) + 1 /\ Len(d) \in Nat
      /\ \A i \in 1 .. Len(d) : r[i] = d[i]
      /\ r[Len(d) + 1] = Element(tag, attrs)
  BY AppendAny DEF Open
<1>2. IsElement(Element(tag, attrs))
  <2>1. IsSeq(<<>>)  BY EmptyIsSeq
  <2>2. QED  BY <2>1 DEF IsElement, Element
<1> HIDE DEF r
<1>3. \A i \in 1 .. Len(d) + 1 : i \in 1 .. Len(d) \/ i = Len(d) + 1
  BY <1>1
<1>4. \A i \in 1 .. Len(d) + 1 : IsElement(r[i])
  BY <1>1, <1>2, <1>3
<1>5. QED  BY <1>1, <1>4 DEF r

(* Character data changes the innermost open element only: of what rules   *)
(* can see, its text, and only if it comes as text.                        *)
LEMMA AddTextElements ==
  ASSUME NEW d, IsSeq(d), d # <<>>, \A i \in 1 .. Len(d) : IsElement(d[i]), NEW piece
  PROVE  LET r == AddText(d, piece)
             n == Len(d)
         IN /\ n \in Nat \ {0} /\ Len(r) = n
            /\ \A i \in 1 .. n - 1 : r[i] = d[i]
            /\ r[n].tag = d[n].tag /\ r[n].attrs = d[n].attrs
            /\ r[n].text = Append(d[n].text, piece)
            /\ r[n].children = d[n].children /\ r[n].evaluated = d[n].evaluated
            /\ \A i \in 1 .. n : IsElement(r[i])
<1> DEFINE r == AddText(d, piece)
           n == Len(d)
           e == [d[n] EXCEPT !.text = Append(@, piece), !.content = @ + 1]
<1>1. n \in Nat \ {0} /\ n \in 1 .. n  BY FrontAny
<1>2. r = [d EXCEPT ![n] = e]  BY DEF AddText
<1>3. IsElement(d[n])  BY <1>1
<1>4. /\ e.tag = d[n].tag /\ e.attrs = d[n].attrs
      /\ e.text = Append(d[n].text, piece)
      /\ e.children = d[n].children /\ e.evaluated = d[n].evaluated
      /\ IsElement(e)
  <2>1. IsSeq(Append(d[n].text, piece))  BY <1>3, AppendAny DEF IsElement
  <2> DEFINE x == d[n]
             text == Append(x.text, piece)
  <2>2. IsElement(x) /\ IsSeq(text)  BY <1>3, <2>1
  <2>3. e = [x EXCEPT !.text = text, !.content = @ + 1]  OBVIOUS
  <2> HIDE DEF x, text, e
  <2>4. /\ e.tag = x.tag /\ e.attrs = x.attrs /\ e.text = text
        /\ e.children = x.children /\ e.evaluated = x.evaluated
        /\ e \in [tag : {e.tag}, attrs : {e.attrs}, text : {e.text},
                  children : {e.children}, evaluated : {e.evaluated},
                  content : {e.content}]
    BY <2>2, <2>3 DEF IsElement
  <2>5. IsElement(e)  BY <2>2, <2>4 DEF IsElement
  <2>6. QED  BY <2>4, <2>5 DEF x, text
<1> HIDE DEF r, e
<1>5. /\ Len(r) = n /\ \A i \in 1 .. n : r[i] = IF i = n THEN e ELSE d[i]
  BY <1>1, <1>2, ExceptAny
<1>6. r[n] = e /\ \A i \in 1 .. n - 1 : r[i] = d[i]  BY <1>1, <1>5
<1>7. \A i \in 1 .. n : IsElement(r[i])
  <2> HIDE DEF n
  <2>1. QED  BY <1>4, <1>5 DEF n
<1>8. QED  BY <1>1, <1>4, <1>5, <1>6, <1>7 DEF r

(* Other character data changes nothing that rules can see.                *)
LEMMA AddOtherElements ==
  ASSUME NEW d, IsSeq(d), d # <<>>, \A i \in 1 .. Len(d) : IsElement(d[i])
  PROVE  LET r == AddOther(d)
             n == Len(d)
         IN /\ n \in Nat \ {0} /\ Len(r) = n
            /\ \A i \in 1 .. n :
                 /\ r[i].tag = d[i].tag /\ r[i].attrs = d[i].attrs
                 /\ r[i].text = d[i].text /\ r[i].children = d[i].children
                 /\ r[i].evaluated = d[i].evaluated
                 /\ IsElement(r[i])
<1> DEFINE r == AddOther(d)
           n == Len(d)
           e == [d[n] EXCEPT !.content = @ + 1]
<1>1. n \in Nat \ {0} /\ n \in 1 .. n  BY FrontAny
<1>2. r = [d EXCEPT ![n] = e]  BY DEF AddOther
<1>3. IsElement(d[n])  BY <1>1
<1>4. /\ e.tag = d[n].tag /\ e.attrs = d[n].attrs /\ e.text = d[n].text
      /\ e.children = d[n].children /\ e.evaluated = d[n].evaluated
      /\ IsElement(e)
  <2> DEFINE x == d[n]
  <2>1. e = [x EXCEPT !.content = @ + 1] /\ IsElement(x)  BY <1>3
  <2> HIDE DEF x, e
  <2>2. /\ e.tag = x.tag /\ e.attrs = x.attrs /\ e.text = x.text
        /\ e.children = x.children /\ e.evaluated = x.evaluated
        /\ e \in [tag : {e.tag}, attrs : {e.attrs}, text : {e.text},
                  children : {e.children}, evaluated : {e.evaluated},
                  content : {e.content}]
    BY <2>1 DEF IsElement
  <2>3. QED  BY <2>1, <2>2 DEF IsElement, x
<1> HIDE DEF r, e
<1>5. /\ Len(r) = n /\ \A i \in 1 .. n : r[i] = IF i = n THEN e ELSE d[i]
  BY <1>1, <1>2, ExceptAny
<1>6. \A i \in 1 .. n : IsElement(d[i])  OBVIOUS
<1>7. QED
  <2> HIDE DEF n
  <2>1. /\ n \in Nat \ {0} /\ Len(r) = n
        /\ \A i \in 1 .. n :
             /\ r[i].tag = d[i].tag /\ r[i].attrs = d[i].attrs
             /\ r[i].text = d[i].text /\ r[i].children = d[i].children
             /\ r[i].evaluated = d[i].evaluated
             /\ IsElement(r[i])
    BY <1>1, <1>4, <1>5, <1>6
  <2>2. QED  BY <2>1 DEF r, n

(* An end tag moves the innermost open element under its parent.           *)
LEMMA CloseElements ==
  ASSUME NEW d, IsSeq(d), d # <<>>, \A i \in 1 .. Len(d) : IsElement(d[i]),
         NEW childVerdicts, IsSeq(childVerdicts)
  PROVE  LET r == Close(d, childVerdicts)
             n == Len(d)
         IN /\ n \in Nat \ {0} /\ Len(r) = n - 1
            /\ \A i \in 1 .. n - 2 : r[i] = d[i]
            /\ n > 1 =>
                 /\ r[n - 1].tag = d[n - 1].tag /\ r[n - 1].attrs = d[n - 1].attrs
                 /\ r[n - 1].text = d[n - 1].text
                 /\ r[n - 1].children = Append(d[n - 1].children, Dom(d[n]))
                 /\ r[n - 1].evaluated = d[n - 1].evaluated \o childVerdicts
            /\ \A i \in 1 .. n - 1 : IsElement(r[i])
<1> DEFINE r == Close(d, childVerdicts)
           n == Len(d)
<1>1. /\ n \in Nat \ {0} /\ IsSeq(Front(d)) /\ Len(Front(d)) = n - 1
      /\ \A i \in 1 .. n - 1 : Front(d)[i] = d[i]
      /\ Last(d) = d[n]
  BY FrontAny
<1>2. Len(r) = n - 1  BY CloseDoc
<1>3. CASE n = 1
  <2>1. 1 .. n - 2 = {} /\ 1 .. n - 1 = {} /\ ~(n > 1)  BY <1>3
  <2> HIDE DEF r, n
  <2>2. QED  BY <1>1, <1>2, <2>1 DEF r, n
<1>4. CASE n # 1
  <2> DEFINE rest == Front(d)
             m    == n - 1
             x    == d[m]
             children  == Append(x.children, Dom(d[n]))
             evaluated == x.evaluated \o childVerdicts
             e    == [x EXCEPT !.children = children, !.evaluated = evaluated]
  <2>1. m \in 1 .. n /\ m \in 1 .. m /\ m \in Nat  BY <1>1, <1>4
  <2>2. rest[m] = x /\ IsElement(x)  BY <1>1, <2>1
  <2>3. r = [rest EXCEPT ![m] = e]
    <3>1. r = [rest EXCEPT ![Len(rest)].children = Append(@, Dom(Last(d))),
                           ![Len(rest)].evaluated = @ \o childVerdicts]
      BY <1>4 DEF Close
    <3>2. Len(rest) = m  BY <1>1
    <3> HIDE DEF m, rest, r
    <3>3. rest[m] = d[m]  BY <2>2
    <3>4. QED  BY <1>1, <3>1, <3>2, <3>3, <2>1
  <2>4. IsSeq(children) /\ IsSeq(evaluated)
    <3>1. IsSeq(children)  BY <2>2, AppendAny DEF IsElement
    <3>2. IsSeq(evaluated)
      <4> HIDE DEF x
      <4>1. QED  BY <2>2, ConcatAny DEF IsElement
    <3>3. QED  BY <3>1, <3>2
  <2> HIDE DEF x, children, evaluated
  <2>5. /\ e.tag = x.tag /\ e.attrs = x.attrs /\ e.text = x.text
        /\ e.children = children /\ e.evaluated = evaluated
        /\ e \in [tag : {e.tag}, attrs : {e.attrs}, text : {e.text},
                  children : {e.children}, evaluated : {e.evaluated},
                  content : {e.content}]
    BY <2>2 DEF IsElement
  <2>6. IsElement(e)  BY <2>2, <2>4, <2>5 DEF IsElement
  <2>7. \A i \in 1 .. m : r[i] = IF i = m THEN e ELSE rest[i]
    <3> HIDE DEF e, rest, m
    <3>1. m = Len(rest) /\ IsSeq(rest)  BY <1>1 DEF m, rest
    <3>2. m \in 1 .. Len(rest)  BY <2>1, <3>1
    <3>3. QED  BY <2>3, <3>1, <3>2, ExceptAny
  <2> HIDE DEF e, r
  <2>8. r[m] = e /\ \A i \in 1 .. n - 2 : i \in 1 .. m /\ i # m /\ r[i] = d[i]
    BY <1>1, <2>1, <2>7
  <2>9. \A i \in 1 .. m : IsElement(r[i])
    <3>1. \A i \in 1 .. m : IsElement(d[i]) /\ rest[i] = d[i]  BY <1>1
    <3> HIDE DEF m, rest
    <3>2. QED  BY <2>6, <2>7, <3>1
  <2>10. QED  BY <1>1, <1>2, <2>5, <2>8, <2>9 DEF r, x, children, evaluated
<1>5. QED  BY <1>3, <1>4
-----------------------------------------------------------------------------
(* The tree: a node that is found is below the node it was looked up from, *)
(* at that node's path with its own tag added.                             *)
LEMMA TreePaths ==
  ASSUME tree \in Trees
  PROVE  /\ NodeIds(tree) = 1 .. Len(tree.nodes) /\ Len(tree.nodes) \in Nat
         /\ \A n \in NodeIds(tree) :
              /\ Len(tree.nodes[n].full_path) \in Nat
              /\ \E S : tree.nodes[n].tag \in S /\ tree.nodes[n].full_path \in Seq(S)
         /\ tree.nodes[Root].full_path = <<tree.nodes[Root].tag>>
         /\ \A n \in NodeIds(tree) : tree.nodes[n].parent_id # NoNode =>
              /\ tree.nodes[n].parent_id \in NodeIds(tree)
              /\ tree.nodes[n].full_path
                   = Append(tree.nodes[tree.nodes[n].parent_id].full_path, tree.nodes[n].tag)
         /\ \A m, n \in NodeIds(tree) :
              tree.nodes[m].full_path = tree.nodes[n].full_path => m = n
<1>1. IsTree(tree)  BY TreesAssumption
<1> DEFINE tags == {tree.nodes[n].tag : n \in NodeIds(tree)}
           S == [tag : tags, full_path : Seq(tags), rules : Seq(SUBSET NodeNeeds),
                 parent_id : {NoNode} \cup NodeIds(tree),
                 needs : SUBSET NodeNeeds, summary_needs : SUBSET NodeNeeds]
<1>2. tree.nodes \in Seq(S)  BY <1>1 DEF IsTree
<1>3. /\ Len(tree.nodes) \in Nat /\ NodeIds(tree) = 1 .. Len(tree.nodes)
      /\ \A n \in NodeIds(tree) : tree.nodes[n] \in S
  <2> HIDE DEF S
  <2> QED  BY <1>2, LenProperties, ElementOfSeq DEF NodeIds
<1>4. \A n \in NodeIds(tree) :
         tree.nodes[n].tag \in tags /\ tree.nodes[n].full_path \in Seq(tags)
  BY <1>3
<1> HIDE DEF tags, S
<1>5. \A n \in NodeIds(tree) : Len(tree.nodes[n].full_path) \in Nat
  BY <1>4, LenProperties
<1>6. IsPlaced(tree)  BY <1>1 DEF IsTree
<1>7. \A n \in NodeIds(tree) : tree.nodes[n].parent_id # NoNode => n # Root
  BY <1>6 DEF IsPlaced
<1>8. QED  BY <1>3, <1>4, <1>5, <1>6, <1>7 DEF IsPlaced

(* The deepest declaration exists, and none is deeper.                     *)
LEMMA DeepestPath ==
  ASSUME tree \in Trees
  PROVE  /\ LongestPath(tree) \in Nat
         /\ \A n \in NodeIds(tree) : Len(tree.nodes[n].full_path) <= LongestPath(tree)
<1> DEFINE Deep(n) == Len(tree.nodes[n].full_path)
           N == Len(tree.nodes)
           D == {Deep(n) : n \in NodeIds(tree)}
           T == {m \in Nat : \E b \in Nat : \A n \in NodeIds(tree) : n <= m => Deep(n) <= b}
<1>1. /\ NodeIds(tree) = 1 .. N /\ N \in Nat /\ Root \in NodeIds(tree)
      /\ \A n \in NodeIds(tree) : Deep(n) \in Nat
  BY TreePaths, TreeFacts
<1> HIDE DEF Deep
<1>2. 0 \in T
  <2>1. \A n \in NodeIds(tree) : ~(n <= 0)  BY <1>1
  <2>2. QED  BY <2>1
<1>3. ASSUME NEW m \in Nat, m \in T
      PROVE  m + 1 \in T
  <2>1. PICK b \in Nat : \A n \in NodeIds(tree) : n <= m => Deep(n) <= b
    BY <1>3
  <2>2. CASE m + 1 \in NodeIds(tree)
    <3> DEFINE c == b + Deep(m + 1)
    <3>1. c \in Nat /\ b <= c /\ Deep(m + 1) <= c  BY <1>1, <2>2
    <3>2. ASSUME NEW n \in NodeIds(tree), n <= m + 1
          PROVE  Deep(n) <= c
      <4>1. n <= m \/ n = m + 1  BY <1>1, <3>2
      <4>2. Deep(n) \in Nat  BY <1>1
      <4> HIDE DEF c
      <4>3. QED  BY <2>1, <3>1, <4>1, <4>2
    <3> HIDE DEF c
    <3>3. QED  BY <3>1, <3>2
  <2>3. CASE m + 1 \notin NodeIds(tree)
    <3>1. \A n \in NodeIds(tree) : n <= m + 1 => n <= m  BY <1>1, <2>3
    <3>2. QED  BY <2>1, <3>1
  <2>4. QED  BY <2>2, <2>3
<1>4. Nat \subseteq T
  <2> HIDE DEF T
  <2>1. QED  BY <1>2, <1>3, NaturalsByInduction
<1>5. PICK b \in Nat : \A n \in NodeIds(tree) : n <= N => Deep(n) <= b
  BY <1>1, <1>4
<1>6. \A d \in D : d \in Nat /\ d <= b  BY <1>1, <1>5
<1>7. D # {} /\ D \in SUBSET Nat  BY <1>1
<1> HIDE DEF N, T
<1>8. \E d \in D : \A e \in D : e <= d
  <2> HIDE DEF D
  <2>1. QED  BY <1>6, <1>7, GreatestNatural
<1>9. \E d \in D : \A n \in NodeIds(tree) : Deep(n) <= d
  BY <1>8
<1>10. /\ LongestPath(tree) \in D
       /\ \A n \in NodeIds(tree) : Deep(n) <= LongestPath(tree)
  BY <1>9 DEF LongestPath, Deep
<1>11. QED  BY <1>7, <1>10 DEF Deep

(* handle_start finds a node by the innermost declared element and a tag.  *)
LEMMA LookupPath ==
  ASSUME tree \in Trees, StacksOK, NEW tag, Lookup(tag) # NoNode
  PROVE  LET id == Lookup(tag)
         IN /\ id \in NodeIds(tree) /\ tree.nodes[id].tag = tag
            /\ descriptor_stack = <<>> => tree.nodes[id].full_path = <<tag>>
            /\ descriptor_stack # <<>> =>
                 /\ tree.nodes[id].parent_id = Last(descriptor_stack)
                 /\ tree.nodes[id].full_path
                      = Append(tree.nodes[Last(descriptor_stack)].full_path, tag)
<1>1. CASE descriptor_stack = <<>>
  BY <1>1, TreeFacts, TreePaths DEF Lookup, RootIfTagged
<1>2. CASE descriptor_stack # <<>>
  <2> DEFINE top == Last(descriptor_stack)
             found == {c \in NodeIds(tree) : /\ top # NoNode
                                             /\ tree.nodes[c].parent_id = top
                                             /\ tree.nodes[c].tag = tag}
  <2>1. Lookup(tag) = IF found = {} THEN NoNode ELSE CHOOSE c \in found : TRUE
    BY <1>2 DEF Lookup, ChildOf
  <2>2. Lookup(tag) \in found  BY <2>1
  <2>3. QED  BY <1>2, <2>2, TreePaths
<1>3. QED  BY <1>1, <1>2
-----------------------------------------------------------------------------
(* What is kept of the document while it is read.                          *)
PathsFollowed ==
  \A k \in 1 .. Len(context_stack) :
     tree.nodes[context_stack[k].descriptor_id].full_path = PathOfDoc(doc, k)

BuilderFollowed ==
  IsCapturing =>
    \A j \in 1 .. Len(mode.builder.stack) :
       mode.builder.stack[j] = Dom(doc[mode.context_stack_index + j])

Followed == DocOK /\ PathsFollowed /\ BuilderFollowed

(* Only a captured element leaves its context in the pool, and the next    *)
(* declared one takes it out again.                                        *)
PoolInv == PoolsBounded /\ (IsCapturing => ctx_pool = <<>>)

FInv == IInv /\ PoolInv /\ (status = "reading" => Followed)

(* The sizes and types that the lemmas below start from.                   *)
LEMMA Sizes ==
  ASSUME IInv
  PROVE  /\ tree \in Trees /\ StacksOK
         /\ Len(context_stack) \in Nat /\ DOMAIN context_stack = 1 .. Len(context_stack)
         /\ Len(doc) \in Nat /\ IsSeq(doc)
         /\ \A k \in 1 .. Len(context_stack) : context_stack[k] \in NodeContexts
         /\ skip_depth \in Nat
         /\ IsStreaming \/ IsCapturing
         /\ IsStreaming => ~IsCapturing
         /\ status = "reading" /\ IsStreaming => Len(doc) = Len(context_stack) + skip_depth
         /\ IsCapturing =>
              /\ IsBuilder(mode.builder) /\ IsSeq(mode.builder.stack)
              /\ mode.depth \in Nat \ {0} /\ Len(mode.builder.stack) = mode.depth
              /\ mode.context_stack_index = Len(context_stack) - 1
              /\ Len(context_stack) > 0 /\ skip_depth = 0
              /\ status = "reading" => Len(doc) = Len(context_stack) + (mode.depth - 1)
<1>1. TypeOK /\ StackInv  BY DEF IInv
<1>2. /\ tree \in Trees /\ StacksOK /\ IsSeq(doc) /\ skip_depth \in Nat /\ ModeOK
  BY <1>1 DEF TypeOK
<1>3. /\ Len(context_stack) \in Nat /\ DOMAIN context_stack = 1 .. Len(context_stack)
      /\ \A k \in 1 .. Len(context_stack) : context_stack[k] \in NodeContexts
  BY <1>2, LenProperties, ElementOfSeq DEF StacksOK
<1>4. Len(doc) \in Nat  BY <1>2, LenProperties DEF IsSeq
<1>5. (IsStreaming \/ IsCapturing) /\ (IsStreaming => ~IsCapturing)
  BY <1>2 DEF ModeOK, IsStreaming, IsCapturing, Streaming
<1>6. ASSUME status = "reading", IsStreaming
      PROVE  Len(doc) = Len(context_stack) + skip_depth
  BY <1>1, <1>2, <1>3, <1>5, <1>6 DEF StackInv, Accounted
<1>7. ASSUME IsCapturing
      PROVE  /\ IsBuilder(mode.builder) /\ IsSeq(mode.builder.stack)
             /\ mode.depth \in Nat \ {0} /\ Len(mode.builder.stack) = mode.depth
             /\ mode.context_stack_index = Len(context_stack) - 1
             /\ Len(context_stack) > 0 /\ skip_depth = 0
             /\ status = "reading" => Len(doc) = Len(context_stack) + (mode.depth - 1)
  <2>1. IsBuilder(mode.builder) /\ mode.depth \in Nat
    BY <1>2, <1>7 DEF ModeOK, IsCapturing, Streaming
  <2>2. /\ context_stack # <<>> /\ mode.depth > 0 /\ skip_depth = 0
        /\ Len(mode.builder.stack) = mode.depth
        /\ mode.context_stack_index = Len(context_stack) - 1
    BY <1>1, <1>7 DEF StackInv, CaptureOnTop
  <2>3. Len(context_stack) > 0  BY <1>2, <1>3, <2>2, EmptySeq DEF StacksOK
  <2>4. status = "reading" => Len(doc) = Len(context_stack) + (mode.depth - 1)
    BY <1>1, <1>3, <1>7, <2>1, <2>2 DEF StackInv, Accounted
  <2>5. QED  BY <2>1, <2>2, <2>3, <2>4 DEF IsBuilder
<1>8. QED  BY <1>2, <1>3, <1>4, <1>5, <1>6, <1>7

(* Contexts that stay, of elements that keep their tags, still follow.     *)
LEMMA PathsKept ==
  ASSUME PathsFollowed, tree' = tree,
         Len(context_stack) \in Nat, Len(context_stack)' \in 0 .. Len(context_stack),
         \A k \in 1 .. Len(context_stack)' :
            context_stack'[k].descriptor_id = context_stack[k].descriptor_id,
         \A i \in 1 .. Len(context_stack)' : doc'[i].tag = doc[i].tag
  PROVE  PathsFollowed'
<1> SUFFICES ASSUME NEW k \in 1 .. Len(context_stack')
             PROVE  tree.nodes[context_stack'[k].descriptor_id].full_path
                      = PathOfDoc(doc', k)
  BY DEF PathsFollowed
<1>1. k \in 1 .. Len(context_stack) /\ \A i \in 1 .. k : i \in 1 .. Len(context_stack')
  OBVIOUS
<1>2. PathOfDoc(doc', k) = PathOfDoc(doc, k)  BY <1>1 DEF PathOfDoc
<1>3. QED  BY <1>1, <1>2 DEF PathsFollowed

(* In streaming mode, an element that is not declared or the text in it    *)
(* leaves the declared elements alone.                                     *)
LEMMA UnseenStep ==
  ASSUME IInv, Followed, IInv', IsStreaming', UNCHANGED <<tree, context_stack>>,
         DocOK', \A i \in 1 .. Len(context_stack) : doc'[i].tag = doc[i].tag
  PROVE  Followed'
<1>1. BuilderFollowed'  BY Sizes DEF BuilderFollowed, IsStreaming, IsCapturing
<1>2. Len(context_stack) \in Nat  BY Sizes
<1>3. PathsFollowed'  BY <1>2, PathsKept DEF Followed
<1>4. QED  BY <1>1, <1>3 DEF Followed
(* Every event leaves well-formed open elements, and no open element ever  *)
(* changes its tag or its attributes.                                      *)
LEMMA DocKept ==
  ASSUME IsSeq(doc), DocOK,
         \/ doc' = doc
         \/ \E tag, attrs : doc' = Open(doc, tag, attrs)
         \/ \E piece : doc' = AddText(doc, piece)
         \/ doc' = AddOther(doc)
         \/ /\ doc # <<>>
            /\ \E childVerdicts : IsSeq(childVerdicts) /\ doc' = Close(doc, childVerdicts)
  PROVE  /\ DocOK'
         /\ \A i \in 1 .. Len(doc) : i <= Len(doc') =>
              doc'[i].tag = doc[i].tag /\ doc'[i].attrs = doc[i].attrs
<1>1. \A i \in 1 .. Len(doc) : IsElement(doc[i])  BY DEF DocOK
<1>2. CASE doc' = doc
  <2>1. DocOK'  BY <1>2 DEF DocOK, IsElement
  <2>2. QED  BY <1>2, <2>1
<1>3. ASSUME NEW tag, NEW attrs, doc' = Open(doc, tag, attrs)
      PROVE  /\ DocOK'
             /\ \A i \in 1 .. Len(doc) : doc'[i].tag = doc[i].tag /\ doc'[i].attrs = doc[i].attrs
  <2> DEFINE r == Open(doc, tag, attrs)
  <2>1. /\ Len(r) = Len(doc) + 1
        /\ \A i \in 1 .. Len(doc) : r[i] = doc[i]
        /\ \A i \in 1 .. Len(doc) + 1 : IsElement(r[i])
    BY <1>1, OpenElements
  <2>2. doc' = r  BY <1>3
  <2> HIDE DEF r
  <2>3. QED  BY <2>1, <2>2 DEF DocOK, IsElement
<1>4. ASSUME NEW piece, doc' = AddText(doc, piece), doc # <<>>
      PROVE  /\ DocOK'
             /\ \A i \in 1 .. Len(doc) : doc'[i].tag = doc[i].tag /\ doc'[i].attrs = doc[i].attrs
  <2> DEFINE r == AddText(doc, piece)
             n == Len(doc)
  <2>1. /\ n \in Nat \ {0} /\ Len(r) = n
        /\ \A i \in 1 .. n - 1 : r[i] = doc[i]
        /\ r[n].tag = doc[n].tag /\ r[n].attrs = doc[n].attrs
        /\ \A i \in 1 .. n : IsElement(r[i])
    BY <1>1, <1>4, AddTextElements
  <2>2. doc' = r  BY <1>4
  <2> HIDE DEF r, n
  <2>3. \A i \in 1 .. n : i \in 1 .. n - 1 \/ i = n  BY <2>1
  <2>4. \A i \in 1 .. n : r[i].tag = doc[i].tag /\ r[i].attrs = doc[i].attrs
    BY <2>1, <2>3
  <2>5. QED  BY <2>1, <2>2, <2>4 DEF DocOK, IsElement, n
<1>5. ASSUME doc' = AddOther(doc), doc # <<>>
      PROVE  /\ DocOK'
             /\ \A i \in 1 .. Len(doc) : doc'[i].tag = doc[i].tag /\ doc'[i].attrs = doc[i].attrs
  <2> DEFINE r == AddOther(doc)
             n == Len(doc)
  <2>1. /\ Len(r) = n
        /\ \A i \in 1 .. n : r[i].tag = doc[i].tag /\ r[i].attrs = doc[i].attrs
                             /\ IsElement(r[i])
    BY <1>1, <1>5, AddOtherElements
  <2>2. doc' = r  BY <1>5
  <2> HIDE DEF r
  <2>3. QED  BY <2>1, <2>2 DEF DocOK, IsElement
<1>6. ASSUME NEW childVerdicts, IsSeq(childVerdicts), doc' = Close(doc, childVerdicts), doc # <<>>
      PROVE  /\ DocOK'
             /\ \A i \in 1 .. Len(doc) : i <= Len(doc') =>
                  doc'[i].tag = doc[i].tag /\ doc'[i].attrs = doc[i].attrs
  <2> DEFINE r == Close(doc, childVerdicts)
             n == Len(doc)
  <2>1. /\ n \in Nat \ {0} /\ Len(r) = n - 1
        /\ \A i \in 1 .. n - 2 : r[i] = doc[i]
        /\ n > 1 => r[n - 1].tag = doc[n - 1].tag /\ r[n - 1].attrs = doc[n - 1].attrs
        /\ \A i \in 1 .. n - 1 : IsElement(r[i])
    BY <1>1, <1>6, CloseElements
  <2>2. doc' = r  BY <1>6
  <2> HIDE DEF r, n
  <2>3. \A i \in 1 .. n - 1 : i \in 1 .. n - 2 \/ (n > 1 /\ i = n - 1)  BY <2>1
  <2>4. \A i \in 1 .. n - 1 : r[i].tag = doc[i].tag /\ r[i].attrs = doc[i].attrs
    BY <2>1, <2>3
  <2>5. \A i \in 1 .. n : i <= Len(r) => i \in 1 .. n - 1  BY <2>1
  <2>6. QED  BY <2>1, <2>2, <2>4, <2>5 DEF DocOK, IsElement, n
<1>7. ASSUME doc = <<>>
      PROVE  /\ \A piece : AddText(doc, piece) = doc
             /\ AddOther(doc) = doc
  BY <1>7 DEF AddText, AddOther
<1>8. QED  BY <1>2, <1>3, <1>4, <1>5, <1>6, <1>7

-----------------------------------------------------------------------------
(* The builder's stack while capturing: StartElement pushes the node of    *)
(* the element just opened,                                                *)
LEMMA CaptureStartFollows ==
  ASSUME IInv, Followed, IInv', status = "reading", UNCHANGED <<tree, context_stack>>,
         NEW tag, NEW attrs, doc' = Open(doc, tag, attrs), CaptureStart(tag, attrs)
  PROVE  Followed'
<1> DEFINE b == mode.builder
           n == Len(doc)
           c == mode.context_stack_index
           k == mode.depth
<1>1. /\ IsCapturing /\ mode' = [mode EXCEPT !.builder = StartElement(b, tag, attrs),
                                             !.depth = k + 1]
  BY DEF CaptureStart
<1>2. /\ IsSeq(b.stack) /\ k \in Nat \ {0} /\ Len(b.stack) = k
      /\ c \in Nat /\ n \in Nat /\ n = c + k /\ c = Len(context_stack) - 1
  BY <1>1, Sizes
<1>3. mode' = [mode EXCEPT !.builder = StartElement(b, tag, attrs), !.depth = k + 1]
      /\ mode'.context_stack_index = c
      /\ mode'.builder.stack = Append(b.stack, BuildNode(tag, attrs))
  <2>1. mode \in [kind : {"Capturing"}, builder : {mode.builder}, depth : Nat,
                  descriptor_id : NodeIds(tree), context_stack_index : Nat]
    BY <1>1 DEF IInv, TypeOK, ModeOK, IsCapturing, Streaming
  <2>2. QED  BY <1>1, <2>1 DEF StartElement
<1>4. /\ Len(doc') = n + 1
      /\ \A i \in 1 .. n : doc'[i] = doc[i]
      /\ doc'[n + 1] = Element(tag, attrs)
      /\ DocOK'
  <2>1. IsSeq(doc) /\ \A i \in 1 .. Len(doc) : IsElement(doc[i])
    BY Sizes DEF Followed, DocOK
  <2>2. LET r == Open(doc, tag, attrs)
        IN /\ Len(r) = n + 1
           /\ \A i \in 1 .. n : r[i] = doc[i]
           /\ r[n + 1] = Element(tag, attrs)
    BY <2>1, OpenElements
  <2>3. DocOK'  BY Sizes, DocKept DEF Followed
  <2>4. QED  BY <2>2, <2>3
<1> HIDE DEF n, c, k, b
<1>5. /\ Len(mode'.builder.stack) = k + 1
      /\ \A j \in 1 .. k : mode'.builder.stack[j] = b.stack[j]
      /\ mode'.builder.stack[k + 1] = BuildNode(tag, attrs)
  BY <1>2, <1>3, AppendAny
<1>6. BuilderFollowed'
  <2> SUFFICES ASSUME NEW j \in 1 .. k + 1
               PROVE  mode'.builder.stack[j] = Dom(doc'[c + j])
    BY <1>3, <1>5 DEF BuilderFollowed
  <2>1. CASE j \in 1 .. k
    <3>1. c + j \in 1 .. n  BY <1>2, <2>1
    <3>2. b.stack[j] = Dom(doc[c + j])
      BY <1>1, <1>2, <2>1 DEF Followed, BuilderFollowed, b, c
    <3>3. QED  BY <1>4, <1>5, <2>1, <3>1, <3>2
  <2>2. CASE j = k + 1
    <3>1. c + j = n + 1  BY <1>2, <2>2
    <3>2. Dom(Element(tag, attrs)) = BuildNode(tag, attrs)
      BY DEF Dom, Element, BuildNode
    <3>3. QED  BY <1>4, <1>5, <2>2, <3>1, <3>2
  <2>3. QED  BY <1>2, <2>1, <2>2
<1>7. PathsFollowed'
  <2>1. \A i \in 1 .. Len(context_stack) : i \in 1 .. n  BY <1>2
  <2>2. Len(context_stack) \in Nat  BY Sizes
  <2>3. QED  BY <1>4, <2>1, <2>2, PathsKept DEF Followed
<1>8. QED  BY <1>4, <1>6, <1>7 DEF Followed
(* EndElement moves the top node under the one below it, as the document   *)
(* does with the element that closes,                                      *)
LEMMA CaptureEndFollows ==
  ASSUME IInv, Followed, IInv', status = "reading", UNCHANGED <<tree, context_stack>>,
         CaptureEnd
  PROVE  Followed'
<1> DEFINE b == mode.builder
           n == Len(doc)
           c == mode.context_stack_index
           k == mode.depth
           rest == Front(b.stack)
           node == Last(b.stack)
<1>1. /\ IsCapturing /\ mode' = [mode EXCEPT !.builder = EndElement(b), !.depth = k - 1]
      /\ k # 1 /\ doc' = Close(doc, <<>>)
  BY DEF CaptureEnd
<1>2. /\ IsSeq(b.stack) /\ k \in Nat \ {0} /\ Len(b.stack) = k
      /\ c \in Nat /\ n \in Nat /\ n = c + k /\ c = Len(context_stack) - 1
      /\ \A j \in 1 .. k : IsBuildNode(b.stack[j])
  <2>1. /\ IsSeq(b.stack) /\ k \in Nat \ {0} /\ Len(b.stack) = k
        /\ c \in Nat /\ n \in Nat /\ n = c + k /\ c = Len(context_stack) - 1
    BY <1>1, Sizes
  <2>2. IsBuilder(b)  BY <1>1, Sizes
  <2> HIDE DEF b, n, c, k
  <2>3. \A j \in 1 .. k : IsBuildNode(b.stack[j])
    BY <2>1, <2>2 DEF IsBuilder
  <2>4. QED  BY <2>1, <2>3
<1>3. /\ IsSeq(rest) /\ Len(rest) = k - 1
      /\ \A j \in 1 .. k - 1 : rest[j] = b.stack[j]
      /\ node = b.stack[k]
  <2>1. b.stack # <<>>  BY <1>2, EmptyIsSeq
  <2>2. QED  BY <1>2, <2>1, FrontAny
<1> DEFINE e == [rest[k - 1] EXCEPT !.children = Append(@, node)]
<1>4. /\ mode'.context_stack_index = c
      /\ mode'.builder.stack = [rest EXCEPT ![k - 1] = e]
  <2>1. mode \in [kind : {"Capturing"}, builder : {mode.builder}, depth : Nat,
                  descriptor_id : NodeIds(tree), context_stack_index : Nat]
    BY <1>1 DEF IInv, TypeOK, ModeOK, IsCapturing, Streaming
  <2>2. mode'.context_stack_index = c /\ mode'.builder = EndElement(b)
    BY <1>1, <2>1
  <2>3. rest # <<>>  BY <1>1, <1>2, <1>3, EmptyIsSeq
  <2>4. EndElement(b).stack = [rest EXCEPT ![Len(rest)].children = Append(@, node)]
    BY <2>3 DEF EndElement
  <2> HIDE DEF rest, node
  <2>5. [rest EXCEPT ![Len(rest)].children = Append(@, node)] = [rest EXCEPT ![k - 1] = e]
    BY <1>3
  <2>6. QED  BY <2>2, <2>4, <2>5 DEF rest, node
<1>5. /\ Len(doc') = n - 1
      /\ \A i \in 1 .. n - 2 : doc'[i] = doc[i]
      /\ /\ doc'[n - 1].tag = doc[n - 1].tag /\ doc'[n - 1].attrs = doc[n - 1].attrs
         /\ doc'[n - 1].text = doc[n - 1].text
         /\ doc'[n - 1].children = Append(doc[n - 1].children, Dom(doc[n]))
      /\ DocOK' /\ \A i \in 1 .. n - 1 : doc'[i].tag = doc[i].tag
  <2>1. IsSeq(doc) /\ (\A i \in 1 .. n : IsElement(doc[i])) /\ IsSeq(<<>>)
    BY Sizes, EmptyIsSeq DEF Followed, DocOK
  <2>2. doc # <<>> /\ n > 1  BY <1>1, <1>2, EmptyIsSeq
  <2>3. LET r == Close(doc, <<>>)
        IN /\ Len(r) = n - 1
           /\ \A i \in 1 .. n - 2 : r[i] = doc[i]
           /\ /\ r[n - 1].tag = doc[n - 1].tag /\ r[n - 1].attrs = doc[n - 1].attrs
              /\ r[n - 1].text = doc[n - 1].text
              /\ r[n - 1].children = Append(doc[n - 1].children, Dom(doc[n]))
    BY <2>1, <2>2, CloseElements
  <2>4. DocOK' /\ \A i \in 1 .. n : i <= Len(doc') => doc'[i].tag = doc[i].tag
    BY <1>1, <2>1, <2>2, DocKept DEF Followed
  <2> DEFINE r == Close(doc, <<>>)
  <2>5. doc' = r  BY <1>1
  <2> HIDE DEF r
  <2>6. \A i \in 1 .. n - 1 : i \in 1 .. n /\ i <= n - 1  BY <1>2
  <2>7. QED  BY <2>3, <2>4, <2>5, <2>6 DEF r
<1> HIDE DEF n, c, k, b, rest, node, e
<1>6. k - 1 \in 1 .. k - 1 /\ k - 1 \in 1 .. Len(rest)
  BY <1>1, <1>2, <1>3 DEF k
<1>7. /\ Len(mode'.builder.stack) = k - 1
      /\ \A j \in 1 .. k - 1 : mode'.builder.stack[j] = IF j = k - 1 THEN e ELSE rest[j]
  BY <1>3, <1>4, <1>6, ExceptAny
<1>8. \A j \in 1 .. k : b.stack[j] = Dom(doc[c + j])
  BY <1>1, <1>2 DEF Followed, BuilderFollowed, b, c
<1>9. ASSUME NEW j \in 1 .. k - 1
      PROVE  mode'.builder.stack[j] = Dom(doc'[c + j])
  <2>1. CASE j # k - 1
    <3>1. c + j \in 1 .. n - 2 /\ j \in 1 .. k  BY <1>2, <2>1
    <3>2. QED  BY <1>3, <1>5, <1>7, <1>8, <2>1, <3>1
  <2>2. CASE j = k - 1
    <3>1. c + j = n - 1 /\ c + k = n /\ j \in 1 .. k /\ k \in 1 .. k  BY <1>2, <2>2
    <3>2. rest[j] = Dom(doc[n - 1]) /\ node = Dom(doc[n])
      BY <1>3, <1>8, <3>1
    <3>3. e = [Dom(doc[n - 1]) EXCEPT !.children = Append(@, Dom(doc[n]))]
      BY <2>2, <3>2 DEF e
    <3>4. e = Dom(doc'[n - 1])
      BY <1>5, <3>3 DEF Dom
    <3>5. QED  BY <1>7, <2>2, <3>1, <3>4
  <2>3. QED  BY <2>1, <2>2
<1>10. BuilderFollowed'
  BY <1>4, <1>7, <1>9 DEF BuilderFollowed
<1>11. PathsFollowed'
  <2>1. \A i \in 1 .. Len(context_stack) : i \in 1 .. n - 1  BY <1>1, <1>2 DEF k
  <2>2. Len(context_stack) \in Nat  BY Sizes
  <2>3. QED  BY <1>5, <2>1, <2>2, PathsKept DEF Followed
<1>12. QED  BY <1>5, <1>10, <1>11 DEF Followed

(* text is appended to the top node,                                       *)
LEMMA CaptureTextFollows ==
  ASSUME IInv, Followed, IInv', status = "reading", UNCHANGED <<tree, context_stack>>,
         NEW piece, doc' = AddText(doc, piece), CaptureText(piece)
  PROVE  Followed'
<1> DEFINE b == mode.builder
           n == Len(doc)
           c == mode.context_stack_index
           k == mode.depth
           e == [b.stack[k] EXCEPT !.text = Append(@, piece)]
<1>1. IsCapturing /\ mode' = [mode EXCEPT !.builder = TextPiece(b, piece)]
  BY DEF CaptureText
<1>2. /\ IsSeq(b.stack) /\ k \in Nat \ {0} /\ Len(b.stack) = k
      /\ c \in Nat /\ n \in Nat /\ n = c + k /\ c = Len(context_stack) - 1
  BY <1>1, Sizes
<1>3. /\ mode'.context_stack_index = c
      /\ mode'.builder.stack = [b.stack EXCEPT ![k] = e]
  <2>1. mode \in [kind : {"Capturing"}, builder : {mode.builder}, depth : Nat,
                  descriptor_id : NodeIds(tree), context_stack_index : Nat]
    BY <1>1 DEF IInv, TypeOK, ModeOK, IsCapturing, Streaming
  <2>2. mode'.context_stack_index = c /\ mode'.builder = TextPiece(b, piece)
    BY <1>1, <2>1
  <2> HIDE DEF b, k
  <2>3. TextPiece(b, piece).stack = [b.stack EXCEPT ![k] = e]
    BY <1>2 DEF TextPiece
  <2>4. QED  BY <2>2, <2>3
<1>4. /\ Len(doc') = n
      /\ \A i \in 1 .. n - 1 : doc'[i] = doc[i]
      /\ doc'[n].tag = doc[n].tag /\ doc'[n].attrs = doc[n].attrs
      /\ doc'[n].text = Append(doc[n].text, piece)
      /\ doc'[n].children = doc[n].children
      /\ DocOK' /\ \A i \in 1 .. n : doc'[i].tag = doc[i].tag
  <2>1. IsSeq(doc) /\ \A i \in 1 .. n : IsElement(doc[i])
    BY Sizes DEF Followed, DocOK
  <2>2. doc # <<>>
    <3> HIDE DEF c, k
    <3>1. n > 0  BY <1>2
    <3>2. QED  BY <3>1, EmptyIsSeq
  <2>3. LET r == AddText(doc, piece)
        IN /\ Len(r) = n
           /\ \A i \in 1 .. n - 1 : r[i] = doc[i]
           /\ r[n].tag = doc[n].tag /\ r[n].attrs = doc[n].attrs
           /\ r[n].text = Append(doc[n].text, piece)
           /\ r[n].children = doc[n].children
    BY <2>1, <2>2, AddTextElements
  <2>4. DocOK' /\ \A i \in 1 .. n : i <= Len(doc') => doc'[i].tag = doc[i].tag
    BY <2>1, DocKept DEF Followed
  <2> DEFINE r == AddText(doc, piece)
  <2>5. doc' = r  OBVIOUS
  <2> HIDE DEF r
  <2>6. \A i \in 1 .. n : i <= n  BY <1>2
  <2>7. QED  BY <2>3, <2>4, <2>5, <2>6 DEF r
<1> HIDE DEF n, c, k, b, e
<1>5. /\ Len(mode'.builder.stack) = k
      /\ \A j \in 1 .. k : mode'.builder.stack[j] = IF j = k THEN e ELSE b.stack[j]
  <2>1. k \in 1 .. Len(b.stack)  BY <1>2
  <2>2. QED  BY <1>2, <1>3, <2>1, ExceptAny
<1>6. \A j \in 1 .. k : b.stack[j] = Dom(doc[c + j])
  BY <1>1, <1>2 DEF Followed, BuilderFollowed, b, c
<1>7. ASSUME NEW j \in 1 .. k
      PROVE  mode'.builder.stack[j] = Dom(doc'[c + j])
  <2>1. CASE j # k
    <3>1. c + j \in 1 .. n - 1  BY <1>2, <2>1
    <3>2. QED  BY <1>4, <1>5, <1>6, <2>1, <3>1
  <2>2. CASE j = k
    <3>1. c + j = n  BY <1>2, <2>2
    <3>2. e = [Dom(doc[n]) EXCEPT !.text = Append(@, piece)]
      BY <1>6, <2>2, <3>1 DEF e
    <3>3. e = Dom(doc'[n])  BY <1>4, <3>2 DEF Dom
    <3>4. QED  BY <1>5, <2>2, <3>1, <3>3
  <2>3. QED  BY <2>1, <2>2
<1>8. BuilderFollowed'
  BY <1>3, <1>5, <1>7 DEF BuilderFollowed
<1>9. PathsFollowed'
  <2>1. \A i \in 1 .. Len(context_stack) : i \in 1 .. n  BY <1>2
  <2>2. Len(context_stack) \in Nat  BY Sizes
  <2>3. QED  BY <1>4, <2>1, <2>2, PathsKept DEF Followed
<1>10. QED  BY <1>4, <1>8, <1>9 DEF Followed

(* and what is no text leaves it alone.                                    *)
LEMMA OtherFollows ==
  ASSUME IInv, Followed, IInv', status = "reading", doc' = AddOther(doc),
         UNCHANGED <<tree, context_stack, mode>>
  PROVE  Followed'
<1>1. IsSeq(doc) /\ \A i \in 1 .. Len(doc) : IsElement(doc[i])
  BY Sizes DEF Followed, DocOK
<1>2. DocOK'  BY <1>1, DocKept DEF Followed
<1>3. \A i \in 1 .. Len(doc) : doc'[i].tag = doc[i].tag /\ Dom(doc'[i]) = Dom(doc[i])
  <2>1. CASE doc = <<>>  BY <2>1 DEF AddOther
  <2>2. CASE doc # <<>>
    <3>1. LET r == AddOther(doc)
          IN \A i \in 1 .. Len(doc) :
               /\ r[i].tag = doc[i].tag /\ r[i].attrs = doc[i].attrs
               /\ r[i].text = doc[i].text /\ r[i].children = doc[i].children
      BY <1>1, <2>2, AddOtherElements
    <3> DEFINE r == AddOther(doc)
    <3>2. doc' = r  OBVIOUS
    <3> HIDE DEF r
    <3>3. QED  BY <3>1, <3>2 DEF Dom, r
  <2>3. QED  BY <2>1, <2>2
<1>4. /\ Len(context_stack) \in Nat /\ Len(doc) \in Nat
      /\ \A i \in 1 .. Len(context_stack) : i \in 1 .. Len(doc)
  <2>1. /\ Len(context_stack) \in Nat /\ Len(doc) \in Nat /\ skip_depth \in Nat
        /\ IsStreaming => Len(doc) = Len(context_stack) + skip_depth
        /\ IsCapturing => /\ mode.depth \in Nat \ {0}
                          /\ Len(doc) = Len(context_stack) + (mode.depth - 1)
        /\ IsStreaming \/ IsCapturing
    BY Sizes
  <2>2. Len(context_stack) <= Len(doc)  BY <2>1
  <2>3. QED  BY <2>1, <2>2
<1>5. PathsFollowed'  BY <1>3, <1>4, PathsKept DEF Followed
<1>6. BuilderFollowed'
  <2> SUFFICES ASSUME IsCapturing, NEW j \in 1 .. Len(mode.builder.stack)
               PROVE  mode.builder.stack[j] = Dom(doc'[mode.context_stack_index + j])
    BY DEF BuilderFollowed, IsCapturing
  <2>1. mode.context_stack_index + j \in 1 .. Len(doc)
    <3>1. /\ mode.depth \in Nat \ {0} /\ Len(mode.builder.stack) = mode.depth
          /\ mode.context_stack_index = Len(context_stack) - 1 /\ Len(context_stack) > 0
          /\ Len(doc) = Len(context_stack) + (mode.depth - 1)
      BY Sizes
    <3>2. QED  BY <1>4, <3>1
  <2>2. mode.builder.stack[j] = Dom(doc[mode.context_stack_index + j])
    BY DEF Followed, BuilderFollowed
  <2>3. QED  BY <1>3, <2>1, <2>2
<1>7. QED  BY <1>2, <1>5, <1>6 DEF Followed

-----------------------------------------------------------------------------
(* The handlers of declared elements.  Opening one puts its context on top *)
(* at its path, takes a context and a map out of the pools, and starts the *)
(* builder with its node if it is a capture.                               *)
LEMMA OpenedContext ==
  ASSUME IInv, NEW tag, NEW attrs, OpenDeclared(tag, attrs)
  PROVE  LET n   == Len(context_stack)
             id  == Lookup(tag)
             ctx == context_stack'[n + 1]
         IN /\ IsStreaming /\ skip_depth = 0 /\ id # NoNode /\ status' = status
            /\ Len(context_stack') = n + 1
            /\ \A k \in 1 .. n : context_stack'[k] = context_stack[k]
            /\ ctx.descriptor_id = id
            /\ ctx.attrs = IF NeedsAttrs(id) THEN attrs ELSE <<>>
            /\ ctx.text = <<>> /\ ctx.children = <<>>
            /\ ctx.index = SiblingIndexOf(tag)
            /\ ctx_pool' = Acquired(ctx_pool)
            /\ sibling_counters' = Append(CountSibling(tag), NoCounts)
            /\ sibling_pool' = FreshCounters.pool
            /\ IF IsCapture(tree.nodes[id].needs)
               THEN mode' = Capturing(CaptureRoot(tag, attrs), 1, id, n)
               ELSE mode' = mode
<1> DEFINE n     == Len(context_stack)
           id    == Lookup(tag)
           kept  == IF NeedsAttrs(id) THEN attrs ELSE <<>>
           index == SiblingIndexOf(tag)
           new   == Acquire(ctx_pool, id, kept, index)
<1>1. /\ IsStreaming /\ skip_depth = 0 /\ id # NoNode /\ status' = status
      /\ context_stack' = Append(context_stack, new)
      /\ ctx_pool' = Acquired(ctx_pool)
      /\ sibling_counters' = Append(CountSibling(tag), FreshCounters.map)
      /\ sibling_pool' = FreshCounters.pool
      /\ mode' = IF IsCapture(tree.nodes[id].needs)
                 THEN Capturing(CaptureRoot(tag, attrs), 1, id, n)
                 ELSE mode
  BY DEF OpenDeclared
<1>2. FreshCounters.map = NoCounts  BY DEF FreshCounters
<1>3. /\ IsSeq(context_stack) /\ n \in Nat
      /\ ctx_pool \in Seq(NodeContexts)
  BY Sizes, IsSeqOf DEF StacksOK
<1> HIDE DEF id, kept, index
<1>4. /\ new.descriptor_id = id /\ new.attrs = kept /\ new.text = <<>>
      /\ new.children = <<>> /\ new.index = index
  <2>1. CASE ctx_pool = <<>>  BY <2>1 DEF Acquire, Context
  <2>2. CASE ctx_pool # <<>>
    <3>1. Last(ctx_pool) \in NodeContexts  BY <1>3, <2>2, FrontLast
    <3>2. QED  BY <2>2, <3>1 DEF Acquire, NodeContexts
  <2>3. QED  BY <2>1, <2>2
<1> HIDE DEF new
<1>5. /\ Len(context_stack') = n + 1
      /\ \A k \in 1 .. n : context_stack'[k] = context_stack[k]
      /\ context_stack'[n + 1] = new
  BY <1>1, <1>3, AppendAny
<1>6. QED  BY <1>1, <1>2, <1>4, <1>5 DEF id, kept, index

(* The path of the element looked up is that of the element opened.        *)
LEMMA OpenedPath ==
  ASSUME IInv, Followed, status = "reading", IsStreaming, skip_depth = 0,
         NEW tag, Lookup(tag) # NoNode
  PROVE  LET n == Len(context_stack)
         IN /\ Len(doc) = n /\ n \in Nat
            /\ tree.nodes[Lookup(tag)].full_path
                 = [i \in 1 .. n + 1 |-> IF i = n + 1 THEN tag ELSE doc[i].tag]
<1> DEFINE n    == Len(context_stack)
           id   == Lookup(tag)
           top  == Last(descriptor_stack)
           path == [i \in 1 .. n + 1 |-> IF i = n + 1 THEN tag ELSE doc[i].tag]
<1>1. /\ tree \in Trees /\ StacksOK /\ n \in Nat /\ Len(doc) = n
      /\ DOMAIN context_stack = 1 .. n
  BY Sizes
<1>2. /\ Len(descriptor_stack) = n
      /\ \A k \in 1 .. n : descriptor_stack[k] = context_stack[k].descriptor_id
  BY <1>1 DEF IInv, StackInv, StacksAligned
<1>3. /\ id \in NodeIds(tree)
      /\ descriptor_stack = <<>> => tree.nodes[id].full_path = <<tag>>
      /\ descriptor_stack # <<>> =>
           tree.nodes[id].full_path = Append(tree.nodes[top].full_path, tag)
  BY <1>1, LookupPath
<1>4. descriptor_stack \in Seq(NodeIds(tree))  BY <1>1 DEF StacksOK
<1> HIDE DEF id
<1>5. CASE descriptor_stack = <<>>
  <2>1. n = 0  BY <1>2, <1>5, EmptySeq
  <2>2. path = <<tag>>  BY <2>1
  <2>3. QED  BY <1>1, <1>3, <1>5, <2>2 DEF id
<1>6. CASE descriptor_stack # <<>>
  <2>1. n \in 1 .. n /\ top = descriptor_stack[n]
    <3>1. n # 0  BY <1>2, <1>4, <1>6, EmptySeq
    <3>2. top = descriptor_stack[n]  BY <1>2, <1>4, <1>6, FrontLast
    <3>3. QED  BY <1>1, <3>1, <3>2
  <2>2. tree.nodes[top].full_path = PathOfDoc(doc, n)
    BY <1>2, <2>1 DEF Followed, PathsFollowed
  <2> DEFINE s == [i \in 1 .. n |-> doc[i].tag]
             T == {doc[i].tag : i \in 1 .. n} \cup {tag}
  <2>3. s \in Seq(T) /\ tag \in T /\ Len(s) = n
    <3>1. s \in [1 .. n -> T]  OBVIOUS
    <3> HIDE DEF T, s
    <3>2. s \in Seq(T)  BY <1>1, <3>1
    <3>3. DOMAIN s = 1 .. n  BY <3>1
    <3>4. QED  BY <1>1, <3>2, <3>3, LenProperties DEF T
  <2> HIDE DEF T
  <2>4. Append(s, tag) = path
    <3>1. /\ Append(s, tag) \in Seq(T) /\ Len(Append(s, tag)) = n + 1
          /\ \A i \in 1 .. n : Append(s, tag)[i] = doc[i].tag
          /\ Append(s, tag)[n + 1] = tag
      BY <2>3, AppendProperties
    <3> DEFINE a == Append(s, tag)
    <3>2. a \in [1 .. n + 1 -> T]  BY <3>1, LenProperties
    <3>3. \A i \in 1 .. n + 1 : a[i] = path[i]  BY <1>1, <3>1
    <3> HIDE DEF a
    <3>4. a = path  BY <3>2, <3>3
    <3>5. QED  BY <3>4 DEF a
  <2>5. QED  BY <1>1, <1>3, <1>6, <2>2, <2>4 DEF id, PathOfDoc
<1>7. QED  BY <1>5, <1>6

(* So a new context follows the document, and a new builder holds the node *)
(* of the element just opened.                                             *)
LEMMA OpenDeclaredFollows ==
  ASSUME IInv, Followed, IInv', status = "reading", tree' = tree,
         NEW tag, NEW attrs, doc' = Open(doc, tag, attrs), OpenDeclared(tag, attrs)
  PROVE  Followed'
<1> DEFINE n  == Len(context_stack)
           id == Lookup(tag)
<1>1. /\ IsStreaming /\ skip_depth = 0 /\ id # NoNode
      /\ Len(context_stack') = n + 1
      /\ \A k \in 1 .. n : context_stack'[k] = context_stack[k]
      /\ context_stack'[n + 1].descriptor_id = id
      /\ IF IsCapture(tree.nodes[id].needs)
         THEN mode' = Capturing(CaptureRoot(tag, attrs), 1, id, n)
         ELSE mode' = mode
  BY OpenedContext
<1>2. /\ Len(doc) = n /\ n \in Nat
      /\ tree.nodes[id].full_path
           = [i \in 1 .. n + 1 |-> IF i = n + 1 THEN tag ELSE doc[i].tag]
  BY <1>1, OpenedPath
<1>3. /\ Len(doc') = n + 1
      /\ \A i \in 1 .. n : doc'[i] = doc[i]
      /\ doc'[n + 1] = Element(tag, attrs)
      /\ DocOK'
  <2>1. IsSeq(doc) /\ \A i \in 1 .. Len(doc) : IsElement(doc[i])
    BY Sizes DEF Followed, DocOK
  <2>2. LET r == Open(doc, tag, attrs)
        IN /\ Len(r) = Len(doc) + 1
           /\ \A i \in 1 .. Len(doc) : r[i] = doc[i]
           /\ r[Len(doc) + 1] = Element(tag, attrs)
    BY <2>1, OpenElements
  <2>3. DocOK'  BY Sizes, DocKept DEF Followed
  <2>4. QED  BY <1>2, <2>2, <2>3
<1> HIDE DEF n, id
<1>4. doc'[n + 1].tag = tag /\ Dom(doc'[n + 1]) = BuildNode(tag, attrs)
  BY <1>3 DEF Element, Dom, BuildNode
<1>5. PathsFollowed'
  <2> SUFFICES ASSUME NEW k \in 1 .. n + 1
               PROVE  tree.nodes[context_stack'[k].descriptor_id].full_path
                        = PathOfDoc(doc', k)
    BY <1>1 DEF PathsFollowed
  <2>1. CASE k \in 1 .. n
    <3>1. \A i \in 1 .. k : i \in 1 .. n  BY <1>2, <2>1
    <3>2. PathOfDoc(doc', k) = PathOfDoc(doc, k)  BY <1>3, <3>1 DEF PathOfDoc
    <3>3. tree.nodes[context_stack[k].descriptor_id].full_path = PathOfDoc(doc, k)
      BY <2>1 DEF Followed, PathsFollowed, n
    <3>4. QED  BY <1>1, <2>1, <3>2, <3>3
  <2>2. CASE k = n + 1
    <3>1. \A i \in 1 .. n + 1 : i # n + 1 => i \in 1 .. n  BY <1>2
    <3>2. PathOfDoc(doc', n + 1)
            = [i \in 1 .. n + 1 |-> IF i = n + 1 THEN tag ELSE doc[i].tag]
      BY <1>3, <1>4, <3>1 DEF PathOfDoc
    <3>3. QED  BY <1>1, <1>2, <2>2, <3>2
  <2>3. QED  BY <1>2, <2>1, <2>2
<1>6. BuilderFollowed'
  <2>1. CASE IsCapture(tree.nodes[id].needs)
    <3>1. /\ mode'.context_stack_index = n
          /\ mode'.builder.stack = Append(<<>>, BuildNode(tag, attrs))
      BY <1>1, <2>1 DEF Capturing, CaptureRoot, NewBuilder, StartElement
    <3>2. Append(<<>>, BuildNode(tag, attrs)) = <<BuildNode(tag, attrs)>>
      <4> DEFINE x == BuildNode(tag, attrs)
      <4> HIDE DEF x
      <4>1. Append(<<>>, x) = <<x>>  OBVIOUS
      <4>2. QED  BY <4>1 DEF x
    <3>3. /\ Len(mode'.builder.stack) = 1
          /\ mode'.builder.stack[1] = BuildNode(tag, attrs)
      BY <3>1, <3>2
    <3>4. \A j \in 1 .. Len(mode'.builder.stack) : j = 1 /\ n + j = n + 1
      BY <1>2, <3>3
    <3>5. QED  BY <1>4, <3>1, <3>3, <3>4 DEF BuilderFollowed
  <2>2. CASE ~IsCapture(tree.nodes[id].needs)
    <3>1. mode'.kind = "Streaming"  BY <1>1, <2>2 DEF IsStreaming
    <3>2. QED  BY <3>1 DEF BuilderFollowed, IsCapturing
  <2>3. QED  BY <2>1, <2>2
<1>7. QED  BY <1>3, <1>5, <1>6 DEF Followed

(* Opening never needs more maps than the declared tree is deep: the       *)
(* element opened is as deep as its declaration, and a map comes from the  *)
(* pool as long as there is one.                                           *)
LEMMA OpenDeclaredPools ==
  ASSUME IInv, PoolInv, Followed, status = "reading", tree' = tree,
         NEW tag, NEW attrs, OpenDeclared(tag, attrs)
  PROVE  PoolInv'
<1> DEFINE n == Len(context_stack)
           p == Len(sibling_pool)
           L == LongestPath(tree)
<1>1. /\ IsStreaming /\ skip_depth = 0 /\ Lookup(tag) # NoNode
      /\ ctx_pool' = Acquired(ctx_pool)
      /\ sibling_counters' = Append(CountSibling(tag), NoCounts)
      /\ sibling_pool' = FreshCounters.pool
  BY OpenedContext
<1>2. /\ n \in Nat
      /\ tree.nodes[Lookup(tag)].full_path
           = [i \in 1 .. n + 1 |-> IF i = n + 1 THEN tag ELSE doc[i].tag]
  BY <1>1, OpenedPath
<1>3. n + 1 <= L /\ L \in Nat
  <2>1. /\ L \in Nat
        /\ Len(tree.nodes[Lookup(tag)].full_path) <= L
        /\ \E S : tree.nodes[Lookup(tag)].full_path \in Seq(S)
    BY <1>1, Sizes, LookupPath, DeepestPath, TreePaths
  <2> DEFINE path == tree.nodes[Lookup(tag)].full_path
  <2>2. DOMAIN path = 1 .. n + 1  BY <1>2
  <2> HIDE DEF path, L
  <2>3. Len(path) = n + 1  BY <1>2, <2>1, <2>2, LenProperties DEF path
  <2>4. QED  BY <2>1, <2>3 DEF path
<1>4. /\ sibling_counters \in Seq([Hashes -> Nat]) /\ Len(sibling_counters) = n
      /\ sibling_pool \in Seq([Hashes -> Nat]) /\ ctx_pool \in Seq(NodeContexts)
      /\ p \in Nat /\ n + p <= L /\ Len(ctx_pool) <= 1
  BY Sizes, LenProperties
     DEF IInv, StackInv, StacksAligned, StacksOK, PoolInv, PoolsBounded
<1>5. Len(sibling_counters') = n + 1
  <2>1. IsSeq(CountSibling(tag)) /\ Len(CountSibling(tag)) = n
    <3>1. CASE sibling_counters = <<>>
      BY <1>4, <3>1, IsSeqOf DEF CountSibling
    <3>2. CASE sibling_counters # <<>>
      <4> DEFINE c == sibling_counters
                 i == Len(c)
                 e == [c[i] EXCEPT ![HashOf[tag]] = @ + 1]
      <4>1. IsSeq(c) /\ i = n  BY <1>4, IsSeqOf
      <4>2. i \in 1 .. i  BY <3>2, <4>1, FrontAny
      <4>3. CountSibling(tag) = [c EXCEPT ![i] = e]  BY <3>2 DEF CountSibling
      <4>4. IsSeq(c) /\ i \in 1 .. Len(c) /\ i = Len(c) /\ i = n
        BY <4>1, <4>2
      <4> HIDE DEF c, i, e, n
      <4>5. IsSeq([c EXCEPT ![i] = e]) /\ Len([c EXCEPT ![i] = e]) = Len(c)
        BY <4>4, ExceptAny
      <4>6. QED  BY <4>3, <4>4, <4>5
    <3>3. QED  BY <3>1, <3>2
  <2> DEFINE c == CountSibling(tag)
             z == NoCounts
  <2>2. sibling_counters' = Append(c, z)  BY <1>1
  <2> HIDE DEF c, z
  <2>3. Len(c) = n /\ IsSeq(c)  BY <2>1 DEF c
  <2>4. QED  BY <2>2, <2>3, AppendAny
<1>6. Len(sibling_pool') = IF p = 0 THEN 0 ELSE p - 1
  <2>1. CASE sibling_pool = <<>>
    BY <1>1, <2>1, EmptySeq DEF FreshCounters
  <2>2. CASE sibling_pool # <<>>
    <3> DEFINE C == [Hashes -> Nat]
    <3>1. sibling_pool \in Seq(C)  BY <1>4
    <3> HIDE DEF C
    <3>2. p # 0 /\ Len(Front(sibling_pool)) = p - 1
      BY <2>2, <3>1, EmptySeq, FrontLast
    <3>3. QED  BY <1>1, <2>2, <3>2 DEF FreshCounters
  <2>3. QED  BY <2>1, <2>2
<1>7. ctx_pool' = <<>>
  <2>1. CASE ctx_pool = <<>>  BY <1>1, <2>1 DEF Acquired
  <2>2. CASE ctx_pool # <<>>
    <3>1. /\ ctx_pool' = Front(ctx_pool) /\ Front(ctx_pool) \in Seq(NodeContexts)
          /\ Len(Front(ctx_pool)) = Len(ctx_pool) - 1
      BY <1>1, <1>4, <2>2, FrontLast DEF Acquired
    <3>2. Len(ctx_pool) \in Nat /\ Len(ctx_pool) # 0
      BY <1>4, <2>2, EmptySeq
    <3>3. Len(Front(ctx_pool)) = 0  BY <1>4, <3>1, <3>2
    <3>4. QED  BY <3>1, <3>3, EmptySeq
  <2>3. QED  BY <2>1, <2>2
<1>8. LongestPath(tree)' = L
  BY DEF LongestPath, NodeIds
<1> HIDE DEF n, p, L
<1>9. Len(sibling_counters') + Len(sibling_pool') <= L
  BY <1>2, <1>3, <1>4, <1>5, <1>6
<1>10. Len(ctx_pool') <= 1  BY <1>7, EmptySeq
<1>11. QED  BY <1>7, <1>8, <1>9, <1>10 DEF PoolInv, PoolsBounded

(* Text in streaming mode changes no path and no capture.                  *)
LEMMA AppendTextFollows ==
  ASSUME IInv, Followed, IInv', status = "reading", tree' = tree,
         NEW piece, doc' = AddText(doc, piece), AppendText(piece)
  PROVE  Followed'
<1> DEFINE n == Len(context_stack)
           d == [context_stack[n] EXCEPT !.text = Append(@, piece)]
<1>1. /\ IsStreaming /\ mode' = mode /\ context_stack # <<>>
      /\ context_stack' = [context_stack EXCEPT ![n] = d]
  BY DEF AppendText, TextWanted, IsStreaming, IsCapturing
<1>2. /\ n \in 1 .. n /\ IsSeq(context_stack)
      /\ context_stack[n] \in NodeContexts
  BY <1>1, Sizes, IsSeqOf, EmptySeq DEF StacksOK
<1>3. d.descriptor_id = context_stack[n].descriptor_id
  BY <1>2 DEF NodeContexts
<1> HIDE DEF d
<1>4. /\ Len(context_stack') = n
      /\ \A k \in 1 .. n : context_stack'[k].descriptor_id
                            = context_stack[k].descriptor_id
  BY <1>1, <1>2, <1>3, ExceptAny
<1>5. Len(doc) = n + skip_depth /\ skip_depth \in Nat /\ n \in Nat
      /\ IsSeq(doc) /\ \A i \in 1 .. Len(doc) : IsElement(doc[i])
  BY <1>1, Sizes DEF Followed, DocOK
<1>6. DocOK' /\ \A i \in 1 .. Len(doc) : i <= Len(doc') => doc'[i].tag = doc[i].tag
  BY <1>5, DocKept DEF Followed
<1>7. Len(doc') = Len(doc)  BY <1>5, AddTextDoc
<1>8. PathsFollowed'
  <2>1. \A i \in 1 .. n : i \in 1 .. Len(doc) /\ i <= Len(doc')
    BY <1>5, <1>7
  <2>2. QED  BY <1>4, <1>5, <1>6, <2>1, PathsKept DEF Followed
<1>9. BuilderFollowed'
  BY <1>1 DEF BuilderFollowed, IsStreaming, IsCapturing
<1>10. QED  BY <1>6, <1>8, <1>9 DEF Followed

(* Handing a summary to the parent adds it to the parent's children and    *)
(* changes nothing else of any context.                                    *)
LEMMA PushedSummary ==
  ASSUME NEW stack \in Seq(NodeContexts), NEW summary
  PROVE  LET r == PushToParent(stack, summary)
             m == Len(stack)
         IN /\ Len(r) = m /\ m \in Nat
            /\ \A k \in 1 .. m :
                 /\ r[k].descriptor_id = stack[k].descriptor_id
                 /\ r[k].attrs = stack[k].attrs /\ r[k].text = stack[k].text
                 /\ r[k].index = stack[k].index
                 /\ r[k].children = IF k = m THEN Append(stack[k].children, summary)
                                            ELSE stack[k].children
<1> DEFINE r == PushToParent(stack, summary)
           m == Len(stack)
<1>1. m \in Nat /\ \A k \in 1 .. m : stack[k] \in NodeContexts
  BY LenProperties, ElementOfSeq
<1>2. CASE stack = <<>>
  <2>1. r = stack  BY <1>2 DEF PushToParent
  <2>2. m = 0  BY <1>2, EmptySeq
  <2>3. 1 .. m = {}  BY <2>2
  <2> HIDE DEF r, m
  <2>4. /\ Len(r) = m /\ m \in Nat
        /\ \A k \in 1 .. m :
             /\ r[k].descriptor_id = stack[k].descriptor_id
             /\ r[k].attrs = stack[k].attrs /\ r[k].text = stack[k].text
             /\ r[k].index = stack[k].index
             /\ r[k].children = IF k = m THEN Append(stack[k].children, summary)
                                        ELSE stack[k].children
    BY <1>1, <2>1, <2>3 DEF m
  <2>5. QED  BY <2>4 DEF r, m
<1>3. CASE stack # <<>>
  <2> DEFINE c == stack[m]
             children == Append(c.children, summary)
             d == [c EXCEPT !.children = children]
  <2>1. m \in 1 .. m /\ c \in NodeContexts  BY <1>1, <1>3, EmptySeq
  <2>2. r = [stack EXCEPT ![m] = d]  BY <1>3 DEF PushToParent
  <2> HIDE DEF children
  <2>3. /\ d.descriptor_id = c.descriptor_id /\ d.attrs = c.attrs
        /\ d.text = c.text /\ d.index = c.index /\ d.children = children
    BY <2>1 DEF NodeContexts
  <2> HIDE DEF d, r
  <2>4. Len(r) = m /\ \A k \in 1 .. m : r[k] = IF k = m THEN d ELSE stack[k]
    BY <2>1, <2>2, ExceptAny, IsSeqOf
  <2> HIDE DEF m
  <2>5. /\ Len(r) = m /\ m \in Nat
        /\ \A k \in 1 .. m :
             /\ r[k].descriptor_id = stack[k].descriptor_id
             /\ r[k].attrs = stack[k].attrs /\ r[k].text = stack[k].text
             /\ r[k].index = stack[k].index
             /\ r[k].children = IF k = m THEN Append(stack[k].children, summary)
                                        ELSE stack[k].children
    BY <1>1, <2>3, <2>4 DEF children
  <2>6. QED  BY <2>5 DEF r, m
<1>4. QED  BY <1>2, <1>3

(* Running the rules pops one entry of each stack, hands the summary to    *)
(* the context below and the map to the pool, and closes the element.      *)
LEMMA RulesRun ==
  ASSUME IInv, context_stack # <<>>,
         NEW view, NEW node, NEW ctx, NEW text, RunRules(view, node, ctx, text)
  PROVE  LET n == Len(context_stack)
         IN /\ n \in Nat \ {0} /\ Len(context_stack') = n - 1
            /\ \A k \in 1 .. n - 1 :
                 /\ context_stack'[k].descriptor_id = context_stack[k].descriptor_id
                 /\ context_stack'[k].attrs = context_stack[k].attrs
                 /\ context_stack'[k].text = context_stack[k].text
                 /\ context_stack'[k].index = context_stack[k].index
            /\ \A k \in 1 .. n - 2 :
                 context_stack'[k].children = context_stack[k].children
            /\ Len(sibling_counters) = n /\ Len(sibling_counters') = n - 1
            /\ \A k \in 1 .. n - 1 : sibling_counters'[k] = sibling_counters[k]
            /\ Len(sibling_pool) \in Nat /\ Len(sibling_pool') = Len(sibling_pool) + 1
            /\ observed' = <<view>>
            /\ \E diags \in Evaluations(tree, node) :
                 LET passed == Passed(tree, node, diags)
                 IN /\ BufferDiagnostics(diags)
                    /\ doc' = Close(doc, <<ChildVerdict(doc, node, passed)>>)
                    /\ n > 1 =>
                         context_stack'[n - 1].children
                           = Append(context_stack[n - 1].children,
                                    Summary(node, ctx.attrs, text, ctx.index,
                                            Packed(passed)))
<1> DEFINE n == Len(context_stack)
<1>1. PICK diags \in Evaluations(tree, node) :
        LET passed == Passed(tree, node, diags)
        IN /\ BufferDiagnostics(diags)
           /\ context_stack' =
                PushToParent(Front(context_stack),
                             Summary(node, ctx.attrs, text, ctx.index, Packed(passed)))
           /\ sibling_counters' = Front(sibling_counters)
           /\ sibling_pool' = Recycle(sibling_pool, sibling_counters)
           /\ observed' = <<view>>
           /\ doc' = Close(doc, <<ChildVerdict(doc, node, passed)>>)
  BY DEF RunRules
<1> DEFINE rest    == Front(context_stack)
           summary == Summary(node, ctx.attrs, text, ctx.index,
                              Packed(Passed(tree, node, diags)))
<1>2. /\ n \in Nat \ {0} /\ rest \in Seq(NodeContexts) /\ Len(rest) = n - 1
      /\ \A k \in 1 .. n - 1 : rest[k] = context_stack[k]
  BY Sizes, FrontLast, EmptySeq DEF StacksOK
<1>3. context_stack' = PushToParent(rest, summary)  BY <1>1
<1> HIDE DEF rest, summary
<1>4. /\ Len(context_stack') = Len(rest)
      /\ \A k \in 1 .. Len(rest) :
           /\ context_stack'[k].descriptor_id = rest[k].descriptor_id
           /\ context_stack'[k].attrs = rest[k].attrs
           /\ context_stack'[k].text = rest[k].text
           /\ context_stack'[k].index = rest[k].index
           /\ context_stack'[k].children
                = IF k = Len(rest) THEN Append(rest[k].children, summary)
                                   ELSE rest[k].children
  <2> DEFINE r == PushToParent(rest, summary)
  <2> HIDE DEF n
  <2>1. rest \in Seq(NodeContexts)  BY <1>2
  <2>2. /\ Len(r) = Len(rest)
        /\ \A k \in 1 .. Len(rest) :
             /\ r[k].descriptor_id = rest[k].descriptor_id
             /\ r[k].attrs = rest[k].attrs
             /\ r[k].text = rest[k].text
             /\ r[k].index = rest[k].index
             /\ r[k].children = IF k = Len(rest) THEN Append(rest[k].children, summary)
                                                ELSE rest[k].children
    BY <2>1, PushedSummary
  <2>3. context_stack' = r  BY <1>3
  <2> HIDE DEF r
  <2>4. QED  BY <2>2, <2>3
<1>5. /\ Len(sibling_counters) = n /\ Len(sibling_counters') = n - 1
      /\ \A k \in 1 .. n - 1 : sibling_counters'[k] = sibling_counters[k]
      /\ Len(sibling_pool) \in Nat /\ Len(sibling_pool') = Len(sibling_pool) + 1
  <2> DEFINE C == [Hashes -> Nat]
  <2>1. sibling_counters \in Seq(C) /\ sibling_pool \in Seq(C)
        /\ Len(sibling_counters) = n
    BY Sizes DEF StacksOK, IInv, StackInv, StacksAligned
  <2> HIDE DEF C
  <2>2. sibling_counters # <<>>  BY <1>2, <2>1, EmptySeq
  <2>3. /\ Len(Front(sibling_counters)) = n - 1 /\ Last(sibling_counters) \in C
        /\ \A k \in 1 .. n - 1 : Front(sibling_counters)[k] = sibling_counters[k]
    BY <2>1, <2>2, FrontLast
  <2>4. Len(sibling_pool') = Len(sibling_pool) + 1 /\ Len(sibling_pool) \in Nat
    BY <1>1, <2>1, <2>2, <2>3, AppendProperties, LenProperties DEF Recycle
  <2>5. QED  BY <1>1, <2>1, <2>3, <2>4
<1>6. \A k \in 1 .. n - 1 :
         /\ context_stack'[k].descriptor_id = context_stack[k].descriptor_id
         /\ context_stack'[k].attrs = context_stack[k].attrs
         /\ context_stack'[k].text = context_stack[k].text
         /\ context_stack'[k].index = context_stack[k].index
  BY <1>2, <1>4
<1>7. \A k \in 1 .. n - 2 : context_stack'[k].children = context_stack[k].children
  <2>1. \A k \in 1 .. n - 2 : k \in 1 .. n - 1 /\ k # n - 1  BY <1>2
  <2>2. QED  BY <1>2, <1>4, <2>1
<1>8. n > 1 => context_stack'[n - 1].children
                 = Append(context_stack[n - 1].children, summary)
  <2>1. n > 1 => n - 1 \in 1 .. n - 1  BY <1>2
  <2>2. QED  BY <1>2, <1>4, <2>1
<1>9. QED  BY <1>1, <1>2, <1>4, <1>5, <1>6, <1>7, <1>8 DEF summary

(* In streaming mode, or at the end of a capture, the contexts left on the *)
(* stack follow the elements left open, and the builder is gone.           *)
LEMMA RulesRunFollows ==
  ASSUME IInv, Followed, IInv', status = "reading", tree' = tree, mode' = Streaming,
         context_stack # <<>>, Len(doc) = Len(context_stack),
         NEW view, NEW node, NEW ctx, NEW text, RunRules(view, node, ctx, text)
  PROVE  Followed'
<1> DEFINE n == Len(context_stack)
<1>1. /\ n \in Nat \ {0} /\ Len(context_stack') = n - 1
      /\ \A k \in 1 .. n - 1 :
           context_stack'[k].descriptor_id = context_stack[k].descriptor_id
      /\ \E childVerdict : doc' = Close(doc, <<childVerdict>>)
  BY RulesRun
<1>2. PICK childVerdict : doc' = Close(doc, <<childVerdict>>)  BY <1>1
<1>3. /\ IsSeq(doc) /\ Len(doc) = n /\ doc # <<>> /\ IsSeq(<<childVerdict>>)
      /\ \A i \in 1 .. Len(doc) : IsElement(doc[i])
  <2>1. <<childVerdict>> \in Seq({childVerdict})  OBVIOUS
  <2>2. IsSeq(<<childVerdict>>)  BY <2>1, IsSeqOf
  <2>3. doc # <<>>  BY <1>1, EmptyIsSeq
  <2>4. QED  BY <2>2, <2>3, Sizes DEF Followed, DocOK
<1>4. DocOK' /\ \A i \in 1 .. Len(doc) : i <= Len(doc') => doc'[i].tag = doc[i].tag
  BY <1>2, <1>3, DocKept DEF Followed
<1>5. Len(doc') = n - 1  BY <1>2, <1>3, CloseDoc
<1>6. PathsFollowed'
  <2>1. \A i \in 1 .. n - 1 : i \in 1 .. Len(doc) /\ i <= Len(doc')
    BY <1>1, <1>3, <1>5
  <2>2. n - 1 \in 0 .. n  BY <1>1
  <2>3. QED  BY <1>1, <1>4, <2>1, <2>2, PathsKept DEF Followed
<1>7. BuilderFollowed'
  BY DEF BuilderFollowed, IsCapturing, Streaming
<1>8. QED  BY <1>4, <1>6, <1>7 DEF Followed

(* Both ways of closing a declared element come to that.                   *)
LEMMA ClosesAsRulesRun ==
  ASSUME IInv, status = "reading", CloseStreaming \/ CloseCapture
  PROVE  /\ context_stack # <<>> /\ Len(doc) = Len(context_stack)
         /\ mode' = Streaming
         /\ \E view, node, ctx, text : RunRules(view, node, ctx, text)
<1>1. CASE CloseStreaming
  <2>1. /\ IsStreaming /\ skip_depth = 0 /\ context_stack # <<>> /\ mode' = mode
        /\ \E view, node, ctx, text : RunRules(view, node, ctx, text)
    BY <1>1 DEF CloseStreaming
  <2>2. mode = Streaming
    BY <2>1 DEF IInv, TypeOK, ModeOK, IsStreaming
  <2>3. Len(doc) = Len(context_stack) + 0 /\ Len(context_stack) \in Nat
    BY <2>1, Sizes
  <2>4. QED  BY <2>1, <2>2, <2>3
<1>2. CASE CloseCapture
  <2>1. /\ IsCapturing /\ mode.depth = 1 /\ mode' = Streaming
        /\ \E view, node, ctx, text : RunRules(view, node, ctx, text)
    BY <1>2 DEF CloseCapture
  <2>2. /\ Len(context_stack) \in Nat /\ Len(context_stack) > 0
        /\ Len(doc) = Len(context_stack) + (mode.depth - 1)
    BY <2>1, Sizes
  <2>3. context_stack # <<>>
    BY <2>2, EmptySeq
  <2>4. Len(doc) = Len(context_stack)  BY <2>1, <2>2
  <2>5. QED  BY <2>1, <2>3, <2>4
<1>3. QED  BY <1>1, <1>2

(* Closing gives the pool a map for the one that leaves the stack, and a   *)
(* context only at the end of a capture, when the pool was empty.          *)
LEMMA ClosePools ==
  ASSUME IInv, PoolInv, status = "reading", tree' = tree, CloseStreaming \/ CloseCapture
  PROVE  PoolInv'
<1>1. PICK view, node, ctx, text : RunRules(view, node, ctx, text)
  BY ClosesAsRulesRun
<1>2. /\ Len(sibling_counters) = Len(context_stack) /\ Len(context_stack) \in Nat \ {0}
      /\ Len(sibling_counters') = Len(context_stack) - 1
      /\ Len(sibling_pool) \in Nat /\ Len(sibling_pool') = Len(sibling_pool) + 1
  BY <1>1, ClosesAsRulesRun, RulesRun
<1>3. /\ Len(sibling_counters) + Len(sibling_pool) <= LongestPath(tree)
      /\ Len(ctx_pool) <= 1
      /\ LongestPath(tree)' = LongestPath(tree)
  BY DEF PoolInv, PoolsBounded, LongestPath, NodeIds
<1>4. Len(sibling_counters') + Len(sibling_pool') <= LongestPath(tree)
  BY <1>2, <1>3
<1>5. Len(ctx_pool') <= 1
  <2>1. CASE CloseStreaming  BY <1>3, <2>1 DEF CloseStreaming
  <2>2. CASE CloseCapture
    <3>1. ctx_pool = <<>> /\ \E e : ctx_pool' = Append(ctx_pool, e)
      BY <2>2 DEF CloseCapture, PoolInv, Release
    <3>2. PICK e : ctx_pool' = Append(<<>>, e)  BY <3>1
    <3>3. Len(Append(<<>>, e)) = 1  BY EmptyIsSeq, AppendAny
    <3>4. QED  BY <3>2, <3>3
  <2>3. QED  BY <2>1, <2>2
<1>6. ~IsCapturing'
  BY ClosesAsRulesRun DEF IsCapturing, Streaming
<1>7. QED  BY <1>3, <1>4, <1>5, <1>6 DEF PoolInv, PoolsBounded

-----------------------------------------------------------------------------
(* The handlers as wholes.  Where the stacks stay, so do the pools.        *)
LEMMA PoolsKept ==
  ASSUME PoolInv, UNCHANGED <<tree, stacks>>, mode'.kind = mode.kind
  PROVE  PoolInv'
BY DEF PoolInv, PoolsBounded, LongestPath, NodeIds, IsCapturing, stacks

(* handle_start.                                                           *)
LEMMA HandleStartFollows ==
  ASSUME IInv, PoolInv, Followed, IInv', status = "reading", tree' = tree,
         NEW tag, NEW attrs, HandleStart(tag, attrs)
  PROVE  PoolInv' /\ (status' = "reading" => Followed')
<1>1. doc' = Open(doc, tag, attrs)  BY DEF HandleStart
<1>2. /\ DocOK'
      /\ IsSeq(doc) /\ \A i \in 1 .. Len(doc) : i <= Len(doc') => doc'[i].tag = doc[i].tag
  BY <1>1, Sizes, DocKept DEF Followed
<1>3. ASSUME IsStreaming, UNCHANGED <<stacks, mode>>
      PROVE  PoolInv' /\ Followed'
  <2>1. /\ Len(context_stack) \in Nat /\ skip_depth \in Nat
        /\ Len(doc) = Len(context_stack) + skip_depth /\ Len(doc') = Len(doc) + 1
    BY <1>1, <1>2, <1>3, Sizes, OpenDoc
  <2>2. \A i \in 1 .. Len(context_stack) : i \in 1 .. Len(doc) /\ i <= Len(doc')
    BY <2>1
  <2>3. IsStreaming' /\ context_stack' = context_stack
    BY <1>3 DEF IsStreaming, stacks
  <2>4. Followed'  BY <1>2, <2>2, <2>3, UnseenStep
  <2>5. QED  BY <1>3, <2>4, PoolsKept
<1>4. CASE SkipStart
  <2>1. skip_depth # 0 /\ skip_depth \in Nat /\ UNCHANGED <<stacks, mode>>
    BY <1>4, Sizes DEF SkipStart
  <2>2. IsStreaming  BY <2>1, Sizes
  <2>3. QED  BY <1>3, <2>1, <2>2
<1>5. CASE StartFails(tag, attrs)
  <2>1. status' # "reading" /\ UNCHANGED <<stacks, mode>>
    BY <1>5 DEF StartFails, StartError, AttrError
  <2>2. QED  BY <2>1, PoolsKept
<1>6. CASE CaptureStart(tag, attrs)
  <2>1. Followed'
    BY <1>1, <1>6, CaptureStartFollows DEF CaptureStart, stacks
  <2>2. mode \in [kind : {"Capturing"}, builder : {mode.builder}, depth : Nat,
                  descriptor_id : NodeIds(tree), context_stack_index : Nat]
    BY <1>6 DEF IInv, TypeOK, ModeOK, CaptureStart, IsCapturing, Streaming
  <2>3. mode'.kind = mode.kind /\ UNCHANGED stacks
    BY <1>6, <2>2 DEF CaptureStart
  <2>4. QED  BY <2>1, <2>3, PoolsKept
<1>7. CASE OpenUndeclared(tag, attrs)
  BY <1>3, <1>7 DEF OpenUndeclared
<1>8. CASE OpenDeclared(tag, attrs)
  BY <1>1, <1>8, OpenDeclaredFollows, OpenDeclaredPools
<1>9. QED  BY <1>4, <1>5, <1>6, <1>7, <1>8 DEF HandleStart

(* handle_end.                                                             *)
LEMMA HandleEndFollows ==
  ASSUME IInv, PoolInv, Followed, IInv', status = "reading", tree' = tree, HandleEnd
  PROVE  PoolInv' /\ Followed'
<1>1. CASE SkipEnd
  <2>1. /\ skip_depth \in Nat /\ skip_depth > 0 /\ doc' = Close(doc, <<>>)
        /\ UNCHANGED <<stacks, mode>>
    BY <1>1, Sizes DEF SkipEnd
  <2>2. /\ IsStreaming /\ IsSeq(doc) /\ Len(doc) = Len(context_stack) + skip_depth
        /\ Len(context_stack) \in Nat
    BY <2>1, Sizes
  <2>3. doc # <<>>
    <3>1. Len(doc) # 0  BY <2>1, <2>2
    <3>2. QED  BY <3>1, EmptyIsSeq
  <2>4. Len(doc') = Len(doc) - 1  BY <2>1, <2>2, <2>3, CloseDoc
  <2>5. /\ DocOK'
        /\ \A i \in 1 .. Len(doc) : i <= Len(doc') => doc'[i].tag = doc[i].tag
    BY <2>1, <2>2, <2>3, EmptyIsSeq, DocKept DEF Followed
  <2>6. \A i \in 1 .. Len(context_stack) : i \in 1 .. Len(doc) /\ i <= Len(doc')
    BY <2>1, <2>2, <2>4
  <2>7. IsStreaming' /\ context_stack' = context_stack
    BY <2>1, <2>2 DEF IsStreaming, stacks
  <2>8. Followed'  BY <2>5, <2>6, <2>7, UnseenStep
  <2>9. QED  BY <2>1, <2>8, PoolsKept
<1>2. CASE CaptureEnd
  <2>1. Followed'
    BY <1>2, CaptureEndFollows DEF CaptureEnd, stacks
  <2>2. mode \in [kind : {"Capturing"}, builder : {mode.builder}, depth : Nat,
                  descriptor_id : NodeIds(tree), context_stack_index : Nat]
    BY <1>2 DEF IInv, TypeOK, ModeOK, CaptureEnd, IsCapturing, Streaming
  <2>3. mode'.kind = mode.kind /\ UNCHANGED stacks
    BY <1>2, <2>2 DEF CaptureEnd
  <2>4. QED  BY <2>1, <2>3, PoolsKept
<1>3. CASE CloseCapture \/ CloseStreaming
  BY <1>3, ClosesAsRulesRun, RulesRunFollows, ClosePools
<1>4. QED  BY <1>1, <1>2, <1>3 DEF HandleEnd

(* The Text arm of the event loop.                                         *)
LEMMA TextFollows ==
  ASSUME IInv, PoolInv, Followed, IInv', status = "reading", UNCHANGED <<tree, skip_depth>>,
         NEW piece, doc' = AddText(doc, piece),
         IgnoreText \/ TextFails(piece) \/ CaptureText(piece) \/ AppendText(piece)
  PROVE  PoolInv' /\ (status' = "reading" => Followed')
<1>1. CASE IgnoreText
  <2>1. ~TextWanted /\ UNCHANGED <<stacks, mode>>  BY <1>1 DEF IgnoreText
  <2>2. IsStreaming  BY <2>1, Sizes DEF TextWanted
  <2>3. /\ IsSeq(doc) /\ Len(context_stack) \in Nat /\ skip_depth \in Nat
        /\ Len(doc) = Len(context_stack) + skip_depth /\ Len(doc') = Len(doc)
    BY <2>2, Sizes, AddTextDoc
  <2>4. /\ DocOK'
        /\ \A i \in 1 .. Len(doc) : i <= Len(doc') => doc'[i].tag = doc[i].tag
    BY <2>3, DocKept DEF Followed
  <2>5. \A i \in 1 .. Len(context_stack) : i \in 1 .. Len(doc) /\ i <= Len(doc')
    BY <2>3
  <2>6. IsStreaming' /\ context_stack' = context_stack
    BY <2>1, <2>2 DEF IsStreaming, stacks
  <2>7. Followed'  BY <2>4, <2>5, <2>6, UnseenStep
  <2>8. QED  BY <2>1, <2>7, PoolsKept
<1>2. CASE TextFails(piece)
  <2>1. status' # "reading" /\ UNCHANGED <<stacks, mode>>
    BY <1>2 DEF TextFails
  <2>2. QED  BY <2>1, PoolsKept
<1>3. CASE CaptureText(piece)
  <2>1. Followed'
    BY <1>3, CaptureTextFollows DEF CaptureText, stacks
  <2>2. mode \in [kind : {"Capturing"}, builder : {mode.builder}, depth : Nat,
                  descriptor_id : NodeIds(tree), context_stack_index : Nat]
    BY <1>3 DEF IInv, TypeOK, ModeOK, CaptureText, IsCapturing, Streaming
  <2>3. mode'.kind = mode.kind /\ UNCHANGED stacks
    BY <1>3, <2>2 DEF CaptureText
  <2>4. QED  BY <2>1, <2>3, PoolsKept
<1>4. CASE AppendText(piece)
  <2>1. Followed'  BY <1>4, AppendTextFollows
  <2>2. /\ UNCHANGED <<descriptor_stack, sibling_counters, sibling_pool, ctx_pool, mode>>
    BY <1>4 DEF AppendText
  <2>3. PoolInv'
    BY <2>2 DEF PoolInv, PoolsBounded, LongestPath, NodeIds, IsCapturing
  <2>4. QED  BY <2>1, <2>3
<1>5. QED  BY <1>1, <1>2, <1>3, <1>4

-----------------------------------------------------------------------------
(* FInv holds when parsing starts.                                         *)
LEMMA InitFInv == Init => FInv
<1> SUFFICES ASSUME Init PROVE FInv
  OBVIOUS
<1>1. IInv /\ tree \in Trees  BY InitIInv DEF Init
<1>2. PoolInv
  <2>1. LongestPath(tree) \in Nat  BY <1>1, DeepestPath
  <2>2. QED  BY <2>1, EmptyIsSeq DEF Init, PoolInv, PoolsBounded, IsCapturing, Streaming
<1>3. Followed
  <2>1. 1 .. Len(doc) = {} /\ 1 .. Len(context_stack) = {}
    BY EmptyIsSeq DEF Init
  <2>2. ~IsCapturing  BY DEF Init, IsCapturing, Streaming
  <2>3. QED  BY <2>1, <2>2 DEF Followed, DocOK, PathsFollowed, BuilderFollowed
<1>4. QED  BY <1>1, <1>2, <1>3 DEF FInv

(* Every event preserves FInv.                                             *)
LEMMA FInvStep == FInv /\ [Next]_vars => FInv'
<1> SUFFICES ASSUME FInv, [Next]_vars PROVE FInv'
  OBVIOUS
<1>1. IInv /\ IInv' /\ PoolInv  BY IInvStep DEF FInv
<1> SUFFICES PoolInv' /\ (status' = "reading" => Followed')
  BY <1>1 DEF FInv
<1>2. ReadEvent => status = "reading" /\ tree' = tree /\ Followed
  BY DEF ReadEvent, FInv
<1>3. ASSUME NEW tag \in TagsOf, NEW attrs \in AttrListsOf, StartTag(tag, attrs)
      PROVE  PoolInv' /\ (status' = "reading" => Followed')
  BY <1>1, <1>2, <1>3, HandleStartFollows DEF StartTag
<1>4. CASE EndTag
  BY <1>1, <1>2, <1>4, HandleEndFollows DEF EndTag
<1>5. CASE SelfClose
  BY <1>1, <1>5, HandleEndFollows DEF SelfClose, FInv
<1>6. ASSUME NEW piece \in TextsOf, TextRun(piece)
      PROVE  PoolInv' /\ (status' = "reading" => Followed')
  BY <1>1, <1>2, <1>6, TextFollows DEF TextRun
<1>7. ASSUME NEW event \in OtherData, IgnoreOther(event)
      PROVE  PoolInv' /\ (status' = "reading" => Followed')
  <2>1. Followed'
    BY <1>1, <1>2, <1>7, OtherFollows DEF IgnoreOther, stacks
  <2>2. PoolInv'
    BY <1>1, <1>2, <1>7, PoolsKept DEF IgnoreOther
  <2>3. QED  BY <2>1, <2>2
<1>8. CASE TokenizerError
  BY <1>1, <1>2, <1>8, PoolsKept DEF TokenizerError
<1>9. CASE Eof
  BY <1>1, <1>9, PoolsKept DEF Eof
<1>10. CASE UNCHANGED vars
  <2>1. UNCHANGED <<tree, stacks, mode, doc, context_stack, status>>
    BY <1>10 DEF vars, stacks
  <2>2. PoolInv'  BY <1>1, <2>1, PoolsKept
  <2>3. Followed => Followed'
    BY <2>1 DEF Followed, DocOK, IsElement, PathsFollowed, PathOfDoc, BuilderFollowed,
                IsCapturing
  <2>4. QED  BY <2>1, <2>2, <2>3 DEF FInv
<1>11. QED
  BY <1>3, <1>4, <1>5, <1>6, <1>7, <1>8, <1>9, <1>10 DEF Next, Returned

-----------------------------------------------------------------------------
(* However long the document and wherever it ends, the maps and contexts   *)
(* kept for reuse never outnumber what the deepest declared path needs.    *)
THEOREM PoolsStayBounded == Spec => []PoolsBounded
<1>1. FInv => PoolsBounded  BY DEF FInv, PoolInv
<1>2. QED  BY InitFInv, FInvStep, <1>1, PTL DEF Spec

(* For every tree and document: the declaration that an open context       *)
(* stands for is the one at the path of its element.                       *)
THEOREM PathsFollow == Spec => []PathsFollowDocument
<1>1. FInv => PathsFollowDocument
  <2> SUFFICES ASSUME FInv, status = "reading", NEW k \in DOMAIN context_stack
               PROVE  tree.nodes[context_stack[k].descriptor_id].full_path
                        = PathOfDoc(doc, k)
    BY DEF PathsFollowDocument
  <2>1. k \in 1 .. Len(context_stack)  BY Sizes DEF FInv
  <2>2. QED  BY <2>1 DEF FInv, Followed, PathsFollowed
<1>2. QED  BY InitFInv, FInvStep, <1>1, PTL DEF Spec

(* For every tree and document: what the builder holds of a captured       *)
(* element, level by level, is what has been read of it so far.            *)
THEOREM CaptureFollows == Spec => []CaptureFollowsDocument
<1>1. FInv => CaptureFollowsDocument
  <2> SUFFICES ASSUME FInv, status = "reading", IsCapturing,
                      NEW j \in DOMAIN mode.builder.stack
               PROVE  mode.builder.stack[j] = Dom(doc[mode.context_stack_index + j])
    BY DEF CaptureFollowsDocument
  <2>1. j \in 1 .. Len(mode.builder.stack)
    BY Sizes, LenProperties DEF FInv, IsSeq
  <2>2. QED  BY <2>1 DEF FInv, Followed, BuilderFollowed
<1>2. QED  BY InitFInv, FInvStep, <1>1, PTL DEF Spec
=============================================================================
