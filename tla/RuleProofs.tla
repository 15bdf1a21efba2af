----------------------------- MODULE RuleProofs -----------------------------
(***************************************************************************)
(* The loop over the rules of an element does what RuleEvaluation says,    *)
(* for every captured element, list of rules, width of the word and size   *)
(* of the buffer.  The inductive invariant, RInv, adds to the properties   *)
(* that the nodes on the iterator's stack are side by side, that the       *)
(* answer to a query tells whether its rule passes, and what has been      *)
(* buffered and set of the rules before the current one.                   *)
(***************************************************************************)
EXTENDS RuleEvaluation, SequenceFacts

Reported == [node : Nat, rule : Nat]

Inputs ==
  /\ root \in Roots /\ rules \in RuleLists /\ earlier \in Buffers
  /\ overflow_checks \in BOOLEAN
  /\ sent \in Seq(Reported) /\ diag_buffer \in Seq(Reported)

(* No node on the stack is above another; the next of the document is on   *)
(* top.                                                                    *)
InOrder(s) == \A i, j \in DOMAIN s : i < j => LeftOf(s[j], s[i])
StackInOrder == InOrder(stack)

AtARule ==
  /\ stage # "next rule" => index < Len(rules)
  /\ stage # "buffer" => diags = <<>>

AnswerTold ==
  stage = "buffer" => /\ Diagnosis = <<>> <=> Passes(index + 1)
                      /\ \A i \in DOMAIN diags : diags[i].rule = index + 1

Reached == IF stage = "buffer" THEN index + 1 ELSE index

(* What the rules up to the current one have reported, of which the        *)
(* current one has yet to buffer diags.                                    *)
ToldOf(mine) ==
  /\ mine \in Seq([node : {1}, rule : DOMAIN rules])
  /\ sent \o diag_buffer = earlier \o mine
  /\ \A i, j \in DOMAIN mine : i < j => mine[i].rule <= mine[j].rule
  /\ \A i \in DOMAIN mine : mine[i].rule <= Reached
  /\ \A k \in 1 .. index : Passes(k) <=> \A i \in DOMAIN mine : mine[i].rule # k
  /\ stage = "buffer" =>
       (Passes(index + 1) <=> diags = <<>> /\ \A i \in DOMAIN mine : mine[i].rule # index + 1)

Mine ==
  LET all == sent \o diag_buffer IN SubSeq(all, Len(earlier) + 1, Len(all))

BufferedSoFar ==
  /\ ToldOf(Mine)
  /\ Len(diag_buffer) = Len(sent \o diag_buffer) % DiagBuffer

SetSoFar ==
  /\ rule_results = {(j - 1) % Width : j \in {k \in 1 .. index : Passes(k)}}
  /\ overflow_checks => \A k \in 1 .. index : Passes(k) => k <= Width
  /\ stage = "panic" => overflow_checks /\ index >= Width /\ Passes(index + 1)

RInv ==
  /\ Inputs /\ TypeOK /\ StackInOrder /\ WalksDepthFirst
  /\ AtARule /\ AnswerTold /\ BufferedSoFar /\ SetSoFar

-----------------------------------------------------------------------------
Numbers == [p \in DOMAIN root |-> root[p].children]

(* The nodes of a captured element are positions, and the element is one.  *)
LEMMA RootNodes ==
  ASSUME root \in Roots
  PROVE  /\ IsNested(Numbers) /\ DOMAIN root \subseteq Positions /\ <<>> \in DOMAIN root
         /\ Descendants \subseteq Positions
         /\ \A p \in DOMAIN root :
               /\ root[p].children \in Nat
               /\ \A i \in 1 .. root[p].children : Append(p, i) \in DOMAIN root
<1>1. IsDom(root)  BY RootsAssumption
<1>2. DOMAIN Numbers = DOMAIN root /\ IsNested(Numbers)
  BY <1>1 DEF IsDom, Numbers
<1>3. \A p \in DOMAIN root : Numbers[p] = root[p].children  BY DEF Numbers
<1>4. QED  BY <1>2, <1>3 DEF IsNested, Descendants

(* What next() pushes: the children, the last one first.                   *)
LEMMA PushedChildren ==
  ASSUME root \in Roots, NEW t \in DOMAIN root
  PROVE  LET n == root[t].children
         IN /\ n \in Nat
            /\ Pushed(t) \in Seq(Descendants) /\ Len(Pushed(t)) = n
            /\ \A i \in 1 .. n : /\ n - i + 1 \in 1 .. n
                                 /\ Pushed(t)[i] = Append(t, n - i + 1)
            /\ \A i, j \in 1 .. n : i < j => LeftOf(Pushed(t)[j], Pushed(t)[i])
<1> DEFINE n == root[t].children
<1>1. n \in Nat /\ t \in Positions
  BY RootNodes
<1>2. ASSUME NEW i \in 1 .. n
      PROVE  Append(t, i) \in Descendants
  <2>1. Append(t, i) \in DOMAIN root  BY RootNodes
  <2>2. i \in Nat \ {0}  BY <1>1
  <2>3. Append(t, i) # <<>>  BY <1>1, <2>2, AppendProperties DEF Positions
  <2>4. QED  BY <2>1, <2>3 DEF Descendants
<1>3. /\ ChildrenOf(t) \in Seq(Descendants) /\ Len(ChildrenOf(t)) = n
      /\ \A i \in 1 .. n : ChildrenOf(t)[i] = Append(t, i)
  <2>1. ChildrenOf(t) \in [1 .. n -> Descendants]  BY <1>2 DEF ChildrenOf
  <2>2. ChildrenOf(t) \in Seq(Descendants)  BY <1>1, <2>1, SeqDef
  <2>3. DOMAIN ChildrenOf(t) = 1 .. n  BY DEF ChildrenOf
  <2>4. Len(ChildrenOf(t)) = n
    <3>1. Len(ChildrenOf(t)) \in Nat /\ 1 .. Len(ChildrenOf(t)) = 1 .. n
      BY <2>2, <2>3, LenProperties
    <3> HIDE DEF n
    <3>2. QED  BY <1>1, <3>1
  <2>5. QED  BY <2>2, <2>4 DEF ChildrenOf
<1>4. /\ DOMAIN Pushed(t) = 1 .. n
      /\ \A i \in 1 .. n : Pushed(t)[i] = ChildrenOf(t)[n - i + 1]
  <2> HIDE DEF n
  <2>1. QED  BY <1>1, <1>3 DEF Pushed, Reverse
<1> HIDE DEF n
<1>5. \A i \in 1 .. n : /\ n - i + 1 \in 1 .. n
                        /\ Pushed(t)[i] = Append(t, n - i + 1)
  BY <1>1, <1>3, <1>4
<1>6. Pushed(t) \in Seq(Descendants) /\ Len(Pushed(t)) = n
  <2>1. Pushed(t) \in [1 .. n -> Descendants]
    <3>1. Pushed(t) = [i \in 1 .. n |-> ChildrenOf(t)[n - i + 1]]
      BY <1>3 DEF Pushed, Reverse
    <3>2. \A i \in 1 .. n : ChildrenOf(t)[n - i + 1] \in Descendants
      BY <1>2, <1>3, <1>5
    <3>3. QED  BY <3>1, <3>2
  <2>2. Pushed(t) \in Seq(Descendants)  BY <1>1, <2>1, SeqDef
  <2>3. Len(Pushed(t)) \in Nat /\ 1 .. Len(Pushed(t)) = 1 .. n
    BY <1>4, <2>2, LenProperties
  <2>4. QED  BY <1>1, <2>2, <2>3
<1>7. ASSUME NEW i \in 1 .. n, NEW j \in 1 .. n, i < j
      PROVE  LeftOf(Pushed(t)[j], Pushed(t)[i])
  <2>1. n - j + 1 \in Nat \ {0} /\ n - i + 1 \in Nat \ {0} /\ n - j + 1 < n - i + 1
    BY <1>1, <1>7
  <2>2. LeftOf(Append(t, n - j + 1), Append(t, n - i + 1))
    BY <1>1, <2>1, SiblingsApart
  <2>3. QED  BY <1>5, <2>2
<1>8. QED  BY <1>1, <1>5, <1>6, <1>7 DEF n

(* What is below a node is what is within the children it pushes.          *)
LEMMA WithinPushed ==
  ASSUME root \in Roots, NEW t \in DOMAIN root, NEW q \in DOMAIN root
  PROVE  (\E i \in 1 .. Len(Pushed(t)) : Within(q, Pushed(t)[i])) <=> Within(q, t) /\ q # t
<1> DEFINE n == root[t].children
<1>1. /\ n \in Nat /\ Len(Pushed(t)) = n
      /\ \A i \in 1 .. n : /\ n - i + 1 \in 1 .. n
                           /\ Pushed(t)[i] = Append(t, n - i + 1)
  BY PushedChildren
<1>2. t \in Positions /\ q \in Positions /\ IsNested(Numbers)  BY RootNodes
<1>3. ASSUME Within(q, t), q # t
      PROVE  \E i \in 1 .. n : Within(q, Pushed(t)[i])
  <2>1. PICK c \in 1 .. n : Within(q, Append(t, c))
    <3>1. t \in DOMAIN Numbers /\ q \in DOMAIN Numbers /\ Numbers[t] = n
      BY DEF Numbers
    <3>2. QED  BY <1>2, <1>3, <3>1, PartToward
  <2> HIDE DEF n
  <2>2. n - c + 1 \in 1 .. n /\ n - (n - c + 1) + 1 = c  BY <1>1
  <2>3. Pushed(t)[n - c + 1] = Append(t, c)  BY <1>1, <2>2
  <2>4. QED  BY <2>1, <2>2, <2>3
<1>4. ASSUME NEW i \in 1 .. n, Within(q, Pushed(t)[i])
      PROVE  Within(q, t) /\ q # t
  <2> DEFINE c == n - i + 1
  <2>1. c \in 1 .. n /\ Pushed(t)[i] = Append(t, c)  BY <1>1
  <2>2. c \in Nat \ {0}  BY <1>1, <2>1
  <2>3. Within(q, Append(t, c))  BY <1>4, <2>1
  <2> HIDE DEF c
  <2>4. QED  BY <1>2, <2>2, <2>3, WithinFacts
<1>5. QED  BY <1>1, <1>3, <1>4

-----------------------------------------------------------------------------
(* One step of the iterator: it yields the node on top, which comes before *)
(* all that is left, and leaves the rest, side by side and in order.       *)
LEMMA AdvanceStack ==
  ASSUME Inputs, stack \in Seq(Descendants), StackInOrder, stack # <<>>,
         stack' = Front(stack) \o Pushed(Last(stack)), root' = root
  PROVE  /\ Last(stack) \in Ahead
         /\ stack' \in Seq(Descendants) /\ StackInOrder'
         /\ Ahead' = Ahead \ {Last(stack)}
         /\ \A q \in Ahead \ {Last(stack)} : StartsBefore(Last(stack), q)
<1> DEFINE t == Last(stack)  f == Front(stack)  p == Pushed(t)
           m == Len(stack) - 1  n == Len(p)
<1>1. /\ root \in Roots /\ Descendants \subseteq DOMAIN root
      /\ Descendants \subseteq Positions
  BY RootNodes DEF Inputs, Descendants
<1>2. /\ m \in Nat /\ Len(stack) = m + 1 /\ DOMAIN stack = 1 .. m + 1
      /\ f \in Seq(Descendants) /\ Len(f) = m
      /\ \A i \in 1 .. m : f[i] = stack[i]
      /\ t \in Descendants /\ t = stack[m + 1]
  <2>1. Len(stack) \in Nat \ {0} /\ DOMAIN stack = 1 .. Len(stack)
    BY EmptySeq, LenProperties
  <2>2. /\ f \in Seq(Descendants) /\ Len(f) = m
        /\ \A i \in 1 .. m : f[i] = stack[i]
        /\ t \in Descendants /\ t = stack[Len(stack)]
    BY FrontLast
  <2> HIDE DEF f, t
  <2>3. m \in Nat /\ Len(stack) = m + 1  BY <2>1
  <2>4. QED  BY <2>1, <2>2, <2>3
<1>3. t \in DOMAIN root /\ t \in Positions  BY <1>1, <1>2
<1>4. /\ n \in Nat /\ p \in Seq(Descendants)
      /\ \A i, j \in 1 .. n : i < j => LeftOf(p[j], p[i])
      /\ \A q \in DOMAIN root :
           (\E i \in 1 .. n : Within(q, p[i])) <=> Within(q, t) /\ q # t
  BY <1>1, <1>3, PushedChildren, WithinPushed
<1>5. /\ stack' \in Seq(Descendants) /\ DOMAIN stack' = 1 .. m + n
      /\ \A i \in 1 .. m + n : stack'[i] = IF i <= m THEN stack[i] ELSE p[i - m]
  <2> HIDE DEF m, n, f, p
  <2>1. stack' = f \o p  BY DEF f, p
  <2>2. /\ f \o p \in Seq(Descendants) /\ Len(f \o p) = m + n
        /\ \A i \in 1 .. m + n : (f \o p)[i] = IF i <= m THEN f[i] ELSE p[i - m]
    <3>1. /\ f \o p \in Seq(Descendants) /\ Len(f \o p) = Len(f) + Len(p)
          /\ \A i \in 1 .. Len(f) + Len(p) :
                (f \o p)[i] = IF i <= Len(f) THEN f[i] ELSE p[i - Len(f)]
      <4>1. f \in Seq(Descendants) /\ p \in Seq(Descendants)  BY <1>2, <1>4
      <4>2. QED  BY <4>1, ConcatProperties
    <3>2. Len(f) = m /\ Len(p) = n  BY <1>2 DEF n
    <3>3. QED  BY <3>1, <3>2
  <2>3. DOMAIN (f \o p) = 1 .. m + n  BY <2>2, LenProperties
  <2>4. \A i \in 1 .. m + n : i <= m => i \in 1 .. m  BY <1>2, <1>4
  <2>5. QED  BY <1>2, <2>1, <2>2, <2>3, <2>4
<1> HIDE DEF t, f, p, m, n
<1>6. \A i \in 1 .. m : /\ i \in DOMAIN stack /\ stack[i] \in Descendants
                        /\ LeftOf(t, stack[i])
  <2> TAKE i \in 1 .. m
  <2>1. i \in 1 .. Len(stack) /\ m + 1 \in 1 .. Len(stack) /\ i < m + 1  BY <1>2
  <2>2. QED  BY <1>2, <2>1, ElementOfSeq DEF StackInOrder, InOrder
<1>7. \A i \in 1 .. n : p[i] \in Descendants /\ Within(p[i], t)
  <2> TAKE i \in 1 .. n
  <2>1. p[i] \in Descendants  BY <1>4, ElementOfSeq DEF n
  <2>2. Within(p[i], p[i])  BY <1>1, <2>1, WithinFacts
  <2>3. QED  BY <1>1, <1>4, <2>1, <2>2
<1>8. \A i \in 1 .. m, j \in 1 .. n : LeftOf(p[j], stack[i])
  <2> TAKE i \in 1 .. m, j \in 1 .. n
  <2>1. /\ LeftOf(t, stack[i]) /\ Within(p[j], t) /\ Within(stack[i], stack[i])
        /\ p[j] \in Positions /\ stack[i] \in Positions
    BY <1>1, <1>6, <1>7, WithinFacts
  <2>2. QED  BY <1>3, <2>1, BelowApart
<1>9. StackInOrder'
  <2> SUFFICES ASSUME NEW i \in 1 .. m + n, NEW j \in 1 .. m + n, i < j
               PROVE  LeftOf(stack'[j], stack'[i])
    BY <1>5 DEF StackInOrder, InOrder
  <2>1. CASE j <= m
    <3>1. i \in 1 .. m /\ j \in 1 .. m /\ i <= m  BY <1>2, <1>4, <2>1
    <3>2. LeftOf(stack[j], stack[i])  BY <1>6, <3>1 DEF StackInOrder, InOrder
    <3>3. QED  BY <1>5, <2>1, <3>1, <3>2
  <2>2. CASE i <= m /\ ~(j <= m)
    <3>1. i \in 1 .. m /\ j - m \in 1 .. n  BY <1>2, <1>4, <2>2
    <3>2. QED  BY <1>5, <1>8, <2>2, <3>1
  <2>3. CASE ~(i <= m) /\ ~(j <= m)
    <3>1. i - m \in 1 .. n /\ j - m \in 1 .. n /\ i - m < j - m
      BY <1>2, <1>4, <2>3
    <3>2. QED  BY <1>4, <1>5, <2>3, <3>1
  <2>4. QED  BY <1>2, <1>4, <2>1, <2>2, <2>3
<1>10. \A q \in Descendants : q \in Ahead' <=> q \in Ahead /\ q # t
  <2> TAKE q \in Descendants
  <2>1. q \in DOMAIN root /\ q \in Positions  BY <1>1
  <2>2. q \in Ahead' <=> \E i \in 1 .. m + n : Within(q, stack'[i])
    BY <1>5 DEF Ahead, Descendants, Within
  <2>3. q \in Ahead <=> \E i \in 1 .. m + 1 : Within(q, stack[i])
    BY <1>2 DEF Ahead
  <2>4. ASSUME NEW i \in 1 .. m, Within(q, stack[i])
        PROVE  q \in Ahead' /\ q \in Ahead /\ q # t
    <3>1. i \in 1 .. m + n /\ i \in 1 .. m + 1 /\ i <= m  BY <1>2, <1>4
    <3>2. Within(q, stack'[i])  BY <1>5, <2>4, <3>1
    <3>3. ~Within(t, stack[i])  BY <1>1, <1>3, <1>6, ApartNotWithin
    <3>4. QED  BY <2>2, <2>3, <2>4, <3>1, <3>2, <3>3
  <2>5. ASSUME NEW i \in 1 .. n, Within(q, p[i])
        PROVE  q \in Ahead' /\ q \in Ahead /\ q # t
    <3>1. m + i \in 1 .. m + n /\ ~(m + i <= m) /\ m + i - m = i /\ m + 1 \in 1 .. m + 1
      BY <1>2, <1>4
    <3>2. stack'[m + i] = p[i]
      <4> DEFINE j == m + i
      <4>1. j \in 1 .. m + n /\ ~(j <= m) /\ j - m = i  BY <1>2, <1>4, <3>1
      <4> HIDE DEF j
      <4>2. stack'[j] = p[i]  BY <1>5, <4>1
      <4>3. QED  BY <4>2 DEF j
    <3>3. Within(q, t) /\ q # t  BY <1>4, <2>1, <2>5
    <3>4. QED  BY <1>2, <2>2, <2>3, <2>5, <3>1, <3>2, <3>3
  <2>6. ASSUME q \in Ahead'
        PROVE  q \in Ahead /\ q # t
    <3>1. PICK i \in 1 .. m + n : Within(q, stack'[i])  BY <2>2, <2>6
    <3>2. CASE i <= m
      <4>1. i \in 1 .. m  BY <1>2, <1>4, <3>2
      <4>2. QED  BY <1>5, <2>4, <3>1, <3>2, <4>1
    <3>3. CASE ~(i <= m)
      <4>1. i - m \in 1 .. n  BY <1>2, <1>4, <3>3
      <4>2. QED  BY <1>5, <2>5, <3>1, <3>3, <4>1
    <3>4. QED  BY <3>2, <3>3
  <2>7. ASSUME q \in Ahead, q # t
        PROVE  q \in Ahead'
    <3>1. PICK i \in 1 .. m + 1 : Within(q, stack[i])  BY <2>3, <2>7
    <3>2. CASE i = m + 1
      <4>1. \E j \in 1 .. n : Within(q, p[j])  BY <1>2, <1>4, <2>1, <2>7, <3>1, <3>2
      <4>2. QED  BY <2>5, <4>1
    <3>3. CASE i # m + 1
      <4>1. i \in 1 .. m  BY <1>2, <3>3
      <4>2. QED  BY <2>4, <3>1, <4>1
    <3>4. QED  BY <3>2, <3>3
  <2>8. QED  BY <2>6, <2>7
<1>11. Ahead' = Ahead \ {t}
  <2>1. Ahead \subseteq Descendants /\ Ahead' \subseteq Descendants
    BY DEF Ahead, Descendants
  <2>2. QED  BY <1>10, <2>1
<1>12. t \in Ahead
  <2>1. m + 1 \in DOMAIN stack /\ Within(t, stack[m + 1])
    BY <1>2, <1>3, WithinFacts
  <2>2. QED  BY <1>2, <2>1 DEF Ahead
<1>13. ASSUME NEW q \in Ahead, q # t
       PROVE  StartsBefore(t, q)
  <2>1. PICK i \in 1 .. m + 1 : Within(q, stack[i])  BY <1>2 DEF Ahead
  <2>2. q \in Positions  BY <1>1 DEF Ahead
  <2>3. CASE i = m + 1
    BY <1>2, <1>13, <2>1, <2>3 DEF StartsBefore
  <2>4. CASE i # m + 1
    <3>1. i \in 1 .. m  BY <1>2, <2>4
    <3>2. /\ LeftOf(t, stack[i]) /\ stack[i] \in Positions /\ Within(t, t)
      BY <1>1, <1>3, <1>6, <3>1, WithinFacts
    <3>3. LeftOf(t, q)  BY <1>3, <2>1, <2>2, <3>2, BelowApart
    <3>4. QED  BY <1>13, <3>3 DEF StartsBefore
  <2>5. QED  BY <2>3, <2>4
<1>14. QED  BY <1>5, <1>9, <1>11, <1>12, <1>13 DEF t

(* A query starts with everything below the element ahead of it.           *)
LEMMA StartOfWalk ==
  ASSUME Inputs, stack' = Pushed(<<>>), root' = root
  PROVE  stack' \in Seq(Descendants) /\ StackInOrder' /\ Ahead' = Descendants
<1> DEFINE p == Pushed(<<>>)  n == Len(p)
<1>1. root \in Roots /\ <<>> \in DOMAIN root /\ Descendants \subseteq DOMAIN root
      /\ Descendants \subseteq Positions
  BY RootNodes DEF Inputs, Descendants
<1>2. /\ p \in Seq(Descendants) /\ DOMAIN p = 1 .. n
      /\ \A i, j \in 1 .. n : i < j => LeftOf(p[j], p[i])
      /\ \A q \in DOMAIN root :
           (\E i \in 1 .. n : Within(q, p[i])) <=> Within(q, <<>>) /\ q # <<>>
  BY <1>1, PushedChildren, WithinPushed, LenProperties
<1>3. stack' = p  OBVIOUS
<1> HIDE DEF p, n
<1>4. StackInOrder'  BY <1>2, <1>3 DEF StackInOrder, InOrder
<1>5. \A q \in Descendants : \E i \in 1 .. n : Within(q, p[i])
  BY <1>1, <1>2, WithinFacts DEF Descendants
<1>6. Ahead' = Descendants
  <2>1. \A q \in Descendants : q \in Ahead' <=> \E i \in 1 .. n : Within(q, p[i])
    <3> TAKE q \in Descendants
    <3>1. q \in Ahead' <=> \E i \in DOMAIN stack' : Within(q, stack'[i])
      BY DEF Ahead, Descendants, Within
    <3>2. QED  BY <1>2, <1>3, <3>1
  <2>2. Ahead' \subseteq Descendants  BY DEF Ahead, Descendants
  <2>3. QED  BY <1>5, <2>1, <2>2
<1>7. QED  BY <1>2, <1>3, <1>4, <1>6

(* What a step of the query leaves alone.                                  *)
LEMMA SameInputs ==
  ASSUME UNCHANGED input
  PROVE  /\ root' = root /\ rules' = rules /\ overflow_checks' = overflow_checks
         /\ earlier' = earlier
BY DEF input

(* The iterator's step, and the comparison with its tag, keep the walk in  *)
(* the order of the document.                                              *)
LEMMA AdvanceWalk ==
  ASSUME RInv, Advance
  PROVE  TypeOK' /\ StackInOrder' /\ WalksDepthFirst'
<1> DEFINE t == Last(stack)
<1>1. /\ Inputs /\ TypeOK /\ StackInOrder /\ stack \in Seq(Descendants)
      /\ found \in Seq(Descendants)
      /\ \A v \in Visited, q \in Ahead : StartsBefore(v, q)
      /\ Range(found) = {v \in Visited : root[v].tag = Wanted}
      /\ \A i, j \in DOMAIN found : i < j => StartsBefore(found[i], found[j])
  BY DEF RInv, TypeOK, WalksDepthFirst, Advance
<1>2. /\ stack # <<>> /\ (Query = "find" => found = <<>>)
      /\ stack' = Front(stack) \o Pushed(t)
      /\ found' = IF root[t].tag = Wanted THEN Append(found, t) ELSE found
      /\ stage' = stage /\ index' = index /\ diags' = diags
      /\ diag_buffer' = diag_buffer /\ rule_results' = rule_results
      /\ root' = root /\ rules' = rules
  BY SameInputs DEF Advance, Answered
<1>3. /\ t \in Ahead /\ stack' \in Seq(Descendants) /\ StackInOrder'
      /\ Ahead' = Ahead \ {t} /\ \A q \in Ahead \ {t} : StartsBefore(t, q)
  BY <1>1, <1>2, AdvanceStack
<1>4. /\ t \in Descendants /\ Ahead \subseteq Descendants
      /\ Descendants' = Descendants /\ Visited' = Visited \cup {t}
  <2>1. Ahead \subseteq Descendants  BY DEF Ahead
  <2>2. Descendants' = Descendants  BY <1>2 DEF Descendants
  <2>3. QED  BY <1>3, <2>1, <2>2 DEF Visited
<1> HIDE DEF t
<1>5. \A v \in Visited', q \in Ahead' : StartsBefore(v, q)
  BY <1>1, <1>3, <1>4
<1>6. /\ found' \in Seq(Descendants)
      /\ Range(found') = {v \in Visited' : root[v].tag = Wanted}
      /\ \A i, j \in DOMAIN found' : i < j => StartsBefore(found'[i], found'[j])
      /\ Query = "find" => Len(found') <= 1
  <2>1. CASE root[t].tag # Wanted
    <3>1. found' = found  BY <1>2, <2>1
    <3>2. Query = "find" => Len(found) <= 1  BY <1>2, EmptySeq
    <3>3. QED  BY <1>1, <1>4, <2>1, <3>1, <3>2
  <2>2. CASE root[t].tag = Wanted
    <3> DEFINE n == Len(found)
    <3>1. found' = Append(found, t)  BY <1>2, <2>2
    <3>2. /\ n \in Nat /\ DOMAIN found = 1 .. n
          /\ found' \in Seq(Descendants) /\ DOMAIN found' = 1 .. n + 1
          /\ Len(found') = n + 1
          /\ \A i \in 1 .. n : found'[i] = found[i]
          /\ found'[n + 1] = t
      <4>1. found' \in Seq(Descendants) /\ Len(found') = n + 1
        BY <1>1, <1>4, <3>1, AppendProperties
      <4>2. QED  BY <1>1, <1>4, <3>1, <4>1, AppendProperties, LenProperties
    <3>3. Range(found') = Range(found) \cup {t}
      BY <1>1, <1>4, <3>1, AppendKeeps
    <3>4. Range(found') = {v \in Visited' : root[v].tag = Wanted}
      BY <1>1, <1>4, <2>2, <3>3
    <3>5. \A i \in 1 .. n : StartsBefore(found[i], t)
      <4>1. \A i \in 1 .. n : found[i] \in Visited
        BY <1>1, <3>2 DEF Range
      <4>2. QED  BY <1>1, <1>3, <4>1
    <3>6. Query = "find" => n = 0  BY <1>2, EmptySeq
    <3> HIDE DEF n
    <3>7. ASSUME NEW i \in 1 .. n + 1, NEW j \in 1 .. n + 1, i < j
          PROVE  StartsBefore(found'[i], found'[j])
      <4>1. i \in 1 .. n /\ (j \in 1 .. n \/ j = n + 1)  BY <3>2, <3>7
      <4>2. CASE j \in 1 .. n  BY <1>1, <3>2, <3>7, <4>1, <4>2
      <4>3. CASE j = n + 1  BY <3>2, <3>5, <4>1, <4>3
      <4>4. QED  BY <4>1, <4>2, <4>3
    <3>8. QED  BY <3>2, <3>4, <3>6, <3>7
  <2>3. QED  BY <2>1, <2>2
<1>7. Query' = Query /\ Wanted' = Wanted  BY <1>2 DEF Query, Wanted
<1>8. WalksDepthFirst'
  BY <1>2, <1>5, <1>6, <1>7 DEF WalksDepthFirst
<1>9. TypeOK'
  BY <1>1, <1>2, <1>3, <1>4, <1>6 DEF TypeOK
<1>10. QED  BY <1>3, <1>8, <1>9

(* A query begins: nothing is visited, nothing found.                      *)
LEMMA EvaluateWalk ==
  ASSUME RInv, Evaluate
  PROVE  TypeOK' /\ StackInOrder' /\ WalksDepthFirst'
<1>1. /\ Inputs /\ TypeOK /\ stack' = Pushed(<<>>) /\ found' = <<>> /\ stage' = "query"
      /\ index' = index /\ diags' = diags
      /\ diag_buffer' = diag_buffer /\ rule_results' = rule_results
      /\ root' = root /\ rules' = rules
  BY SameInputs DEF RInv, Evaluate
<1>2. stack' \in Seq(Descendants) /\ StackInOrder' /\ Ahead' = Descendants
  BY <1>1, StartOfWalk
<1>3. Descendants' = Descendants  BY <1>1 DEF Descendants
<1>4. Visited' = {}  BY <1>2, <1>3 DEF Visited
<1>5. found' \in Seq(Descendants) /\ Len(found') = 0 /\ DOMAIN found' = {}
  <2>1. found' \in Seq(Descendants) /\ Len(found') = 0  BY <1>1, EmptySeq
  <2>2. DOMAIN found' = 1 .. 0  BY <2>1, LenProperties
  <2>3. QED  BY <2>1, <2>2
<1>6. Range(found') = {}  BY <1>5 DEF Range
<1>7. WalksDepthFirst'
  BY <1>4, <1>5, <1>6 DEF WalksDepthFirst
<1>8. TypeOK'
  BY <1>1, <1>2, <1>3, <1>5 DEF TypeOK
<1>9. QED  BY <1>2, <1>7, <1>8

(* When the query is answered, the answer tells whether the rule passes.   *)
LEMMA AnswerIsTrue ==
  ASSUME RInv, Answer
  PROVE  /\ TypeOK' /\ AnswerTold'
         /\ Diagnosis = <<>> <=> Passes(index + 1)
<1>1. /\ Inputs /\ TypeOK /\ index < Len(rules) /\ found \in Seq(Descendants)
      /\ Range(found) = {v \in Visited : root[v].tag = Wanted}
      /\ Query = "find" => Len(found) <= 1
      /\ stack = <<>> \/ (Query = "find" /\ found # <<>>)
      /\ diags' = Diagnosis /\ stage' = "buffer"
      /\ stack' = stack /\ found' = found /\ index' = index
      /\ diag_buffer' = diag_buffer /\ rule_results' = rule_results
      /\ root' = root /\ rules' = rules
  BY SameInputs DEF RInv, TypeOK, WalksDepthFirst, AtARule, Answer, Answered
<1>2. /\ index \in Nat /\ index + 1 \in DOMAIN rules
      /\ Query \in {"find", "find_all"}
  <2>1. rules \in Seq({"find", "find_all"} \X Tags)
    BY <1>1, RuleListsAssumption DEF Inputs
  <2>2. Len(rules) \in Nat /\ DOMAIN rules = 1 .. Len(rules)
    BY <2>1, LenProperties
  <2>3. index \in Nat /\ index + 1 \in 1 .. Len(rules)
    <3>1. index \in 0 .. Len(rules)  BY <1>1 DEF TypeOK
    <3>2. QED  BY <1>1, <2>2, <3>1
  <2>4. rules[index + 1] \in {"find", "find_all"} \X Tags
    BY <2>1, <2>3, ElementOfSeq
  <2>5. QED  BY <2>2, <2>3, <2>4 DEF Query
<1>3. found = <<>> <=> Range(found) = {}
  <2>1. /\ DOMAIN found = 1 .. Len(found) /\ Len(found) \in Nat
        /\ found # <<>> => Len(found) \in Nat \ {0}
        /\ found = <<>> => Len(found) = 0
    BY <1>1, LenProperties, EmptySeq
  <2>2. CASE found = <<>>
    <3>1. DOMAIN found = {}  BY <2>1, <2>2
    <3>2. QED  BY <2>2, <3>1 DEF Range
  <2>3. CASE found # <<>>
    <3>1. 1 \in DOMAIN found  BY <2>1, <2>3
    <3>2. QED  BY <2>3, <3>1 DEF Range
  <2>4. QED  BY <2>2, <2>3
<1>4. stack = <<>> => Visited = Descendants
  <2> SUFFICES ASSUME stack = <<>> PROVE Ahead = {}
    BY DEF Visited
  <2>1. DOMAIN stack = {}
    <3>1. stack \in Seq({}) /\ Len(stack) = 0  BY EmptySeq
    <3>2. DOMAIN stack = 1 .. 0  BY <3>1, LenProperties
    <3>3. QED  BY <3>2
  <2>2. QED  BY <2>1 DEF Ahead
<1>5. found = <<>> <=> ~\E q \in Descendants : root[q].tag = Wanted
  <2>1. Visited \subseteq Descendants  BY DEF Visited
  <2>2. QED  BY <1>1, <1>3, <1>4, <2>1
<1>6. Passes(index + 1) <=> (Query = "find" <=> found # <<>>)
  BY <1>5 DEF Passes, Query, Wanted
<1>7. /\ Diagnosis = <<>> <=> Passes(index + 1)
      /\ Diagnosis \in Seq([node : {1}, rule : DOMAIN rules])
      /\ \A i \in DOMAIN Diagnosis : Diagnosis[i].rule = index + 1
  <2> DEFINE d == [node |-> 1, rule |-> index + 1]
             D == [node : {1}, rule : DOMAIN rules]
  <2>1. d \in D /\ d.rule = index + 1  BY <1>2
  <2> HIDE DEF d, D
  <2>2. <<>> \in Seq(D) /\ \A i \in DOMAIN <<>> : FALSE
    <3>1. <<>> \in Seq(D) /\ Len(<<>>) = 0  BY EmptySeq
    <3>2. DOMAIN <<>> = 1 .. 0
      <4>1. DOMAIN <<>> = 1 .. Len(<<>>)  BY <3>1, LenProperties
      <4>2. QED  BY <3>1, <4>1
    <3>3. QED  BY <3>1, <3>2
  <2>3. CASE Query = "find" /\ found = <<>>
    <3>1. Diagnosis = <<d>>  BY <2>3 DEF Diagnosis, d
    <3>2. <<d>> \in Seq(D) /\ DOMAIN <<d>> = {1} /\ <<d>>[1] = d /\ <<d>> # <<>>
      BY <2>1
    <3>3. ~Passes(index + 1)  BY <1>6, <2>3
    <3>4. QED  BY <2>1, <3>1, <3>2, <3>3 DEF D
  <2>4. CASE Query = "find" /\ found # <<>>
    <3>1. Diagnosis = <<>>  BY <2>4 DEF Diagnosis
    <3>2. Passes(index + 1)  BY <1>6, <2>4
    <3>3. QED  BY <2>2, <3>1, <3>2 DEF D
  <2>5. CASE Query # "find"
    <3> DEFINE n == Len(found)
    <3>1. n \in Nat /\ DOMAIN found = 1 .. n /\ (found = <<>> <=> n = 0)
      BY <1>1, LenProperties, EmptySeq
    <3>2. Diagnosis = [i \in 1 .. n |-> d]  BY <2>5, <3>1 DEF Diagnosis, d
    <3> HIDE DEF n
    <3>3. [i \in 1 .. n |-> d] \in [1 .. n -> D]  BY <2>1
    <3>4. Diagnosis \in Seq(D)  BY <3>1, <3>2, <3>3, SeqDef
    <3>5. DOMAIN Diagnosis = 1 .. n  BY <3>2
    <3>6. Diagnosis = <<>> <=> n = 0
      <4>1. Len(Diagnosis) \in Nat /\ 1 .. Len(Diagnosis) = 1 .. n
        BY <3>4, <3>5, LenProperties
      <4>2. Len(Diagnosis) = n  BY <3>1, <4>1
      <4>3. Diagnosis = <<>> <=> Len(Diagnosis) = 0  BY <3>4, EmptySeq
      <4>4. QED  BY <4>2, <4>3
    <3>7. Passes(index + 1) <=> n = 0  BY <1>6, <2>5, <3>1
    <3>8. \A i \in DOMAIN Diagnosis : Diagnosis[i].rule = index + 1
      BY <2>1, <3>2
    <3>9. QED  BY <3>4, <3>6, <3>7, <3>8 DEF D
  <2>6. QED  BY <2>3, <2>4, <2>5
<1>8. Diagnosis' = Diagnosis /\ (Passes(index + 1))' = Passes(index + 1)
  BY <1>1 DEF Diagnosis, Query, Passes, Descendants
<1>9. AnswerTold'
  BY <1>1, <1>7, <1>8 DEF AnswerTold
<1>10. TypeOK'
  BY <1>1, <1>7 DEF TypeOK, Descendants
<1>11. QED  BY <1>7, <1>9, <1>10

-----------------------------------------------------------------------------
(* What is buffered stays in the types of the buffer.                      *)
LEMMA ReportsTyped ==
  ASSUME Inputs, TypeOK
  PROVE  /\ index \in Nat /\ Len(rules) \in Nat /\ DOMAIN rules = 1 .. Len(rules)
         /\ index <= Len(rules) /\ earlier \in Seq(Reported)
         /\ [node : {1}, rule : DOMAIN rules] \subseteq Reported
         /\ \A m : m \in Seq([node : {1}, rule : DOMAIN rules]) => m \in Seq(Reported)
<1>1. rules \in Seq({"find", "find_all"} \X Tags)
  BY RuleListsAssumption DEF Inputs
<1>2. Len(rules) \in Nat /\ DOMAIN rules = 1 .. Len(rules)
  BY <1>1, LenProperties
<1>3. index \in 0 .. Len(rules)  BY DEF TypeOK
<1>4. index \in Nat /\ index <= Len(rules)  BY <1>2, <1>3
<1>5. earlier \in Seq(Reported)  BY BuffersAssumption DEF Inputs, Reported
<1>6. [node : {1}, rule : DOMAIN rules] \subseteq Reported
  BY <1>2 DEF Reported
<1>7. QED  BY <1>2, <1>4, <1>5, <1>6, SeqMonotonic

(* Whether a rule passes is a matter of the captured element alone.        *)
LEMMA PassesKept ==
  ASSUME UNCHANGED input
  PROVE  /\ \A k : Passes(k)' <=> Passes(k)
         /\ index' = index => ((Passes(index + 1))' <=> Passes(index + 1))
         /\ index' = index /\ found' = found => Diagnosis' = Diagnosis
BY SameInputs DEF Passes, Descendants, Diagnosis, Query

(* A step that neither buffers nor sends leaves what was buffered.         *)
LEMMA MineKept ==
  ASSUME UNCHANGED <<input, diag_buffer, sent>>
  PROVE  /\ Mine' = Mine /\ sent' \o diag_buffer' = sent \o diag_buffer
         /\ diag_buffer' = diag_buffer
BY SameInputs DEF Mine

(* Before a query is answered nothing changes of what was buffered or set. *)
LEMMA QuietTold ==
  ASSUME RInv, Evaluate \/ Advance
  PROVE  Inputs' /\ AtARule' /\ AnswerTold' /\ BufferedSoFar' /\ SetSoFar'
<1>1. /\ Inputs /\ TypeOK /\ AtARule /\ BufferedSoFar /\ SetSoFar
      /\ ToldOf(Mine) /\ Len(diag_buffer) = Len(sent \o diag_buffer) % DiagBuffer
      /\ UNCHANGED <<input, diag_buffer, sent>>
      /\ index' = index /\ diags' = diags /\ rule_results' = rule_results
      /\ stage \in {"next rule", "query"} /\ stage' = "query"
  BY DEF RInv, Evaluate, Advance, BufferedSoFar
<1>2. /\ root' = root /\ rules' = rules /\ overflow_checks' = overflow_checks
      /\ earlier' = earlier /\ sent' = sent /\ diag_buffer' = diag_buffer
      /\ \A k : Passes(k)' <=> Passes(k)
      /\ Mine' = Mine /\ sent' \o diag_buffer' = sent \o diag_buffer
  BY <1>1, SameInputs, PassesKept, MineKept
<1>3. index < Len(rules)
  <2>1. CASE Evaluate  BY <2>1 DEF Evaluate
  <2>2. CASE Advance  BY <1>1, <2>2 DEF Advance, AtARule
  <2>3. QED  BY <2>1, <2>2
<1>4. Inputs'  BY <1>1, <1>2 DEF Inputs
<1>5. AtARule'  BY <1>1, <1>2, <1>3 DEF AtARule
<1>6. AnswerTold'  BY <1>1 DEF AnswerTold
<1>7. ToldOf(Mine)'
  BY <1>1, <1>2 DEF ToldOf, Reached
<1>8. BufferedSoFar'
  BY <1>1, <1>2, <1>7 DEF BufferedSoFar
<1>9. SetSoFar'
  BY <1>1, <1>2 DEF SetSoFar
<1>10. QED  BY <1>4, <1>5, <1>6, <1>8, <1>9

(* The answer is kept to be buffered.                                      *)
LEMMA AnswerKept ==
  ASSUME RInv, Answer
  PROVE  Inputs' /\ AtARule' /\ BufferedSoFar' /\ SetSoFar'
<1>1. /\ Inputs /\ TypeOK /\ AtARule /\ BufferedSoFar /\ SetSoFar
      /\ ToldOf(Mine) /\ Len(diag_buffer) = Len(sent \o diag_buffer) % DiagBuffer
      /\ UNCHANGED <<input, diag_buffer, sent>>
      /\ index' = index /\ diags' = Diagnosis /\ rule_results' = rule_results
      /\ stage = "query" /\ stage' = "buffer"
  BY DEF RInv, Answer, BufferedSoFar
<1>2. /\ root' = root /\ rules' = rules /\ overflow_checks' = overflow_checks
      /\ earlier' = earlier /\ sent' = sent /\ diag_buffer' = diag_buffer
      /\ \A k : Passes(k)' <=> Passes(k)
      /\ Mine' = Mine /\ sent' \o diag_buffer' = sent \o diag_buffer
  BY <1>1, SameInputs, PassesKept, MineKept
<1>3. index < Len(rules) /\ index \in Nat  BY <1>1, ReportsTyped DEF AtARule
<1>4. Diagnosis = <<>> <=> Passes(index + 1)  BY AnswerIsTrue
<1>5. Inputs'  BY <1>1, <1>2 DEF Inputs
<1>6. AtARule'  BY <1>1, <1>2, <1>3 DEF AtARule
<1>7. \A i \in DOMAIN Mine : /\ Mine[i].rule \in Nat
                             /\ Mine[i].rule <= index
                             /\ Mine[i].rule <= index + 1 /\ Mine[i].rule # index + 1
  <2> TAKE i \in DOMAIN Mine
  <2>1. Mine \in Seq(Reported)  BY <1>1, ReportsTyped DEF ToldOf
  <2>2. Mine[i] \in Reported
    BY <2>1, LenProperties, ElementOfSeq
  <2>3. Mine[i].rule \in Nat  BY <2>2 DEF Reported
  <2>4. Mine[i].rule <= index  BY <1>1 DEF ToldOf, Reached
  <2>5. QED  BY <1>3, <2>3, <2>4
<1>8. ToldOf(Mine)'
  BY <1>1, <1>2, <1>4, <1>7 DEF ToldOf, Reached
<1>9. BufferedSoFar'
  BY <1>1, <1>2, <1>8 DEF BufferedSoFar
<1>10. SetSoFar'
  BY <1>1, <1>2 DEF SetSoFar
<1>11. QED  BY <1>5, <1>6, <1>9, <1>10

(* buffer_diagnostic: what is buffered grows at its end by the diagnostic, *)
(* and the buffer is emptied into the channel when it is full.             *)
LEMMA BufferStep ==
  ASSUME Inputs, Len(diag_buffer) < DiagBuffer,
         Len(diag_buffer) = Len(sent \o diag_buffer) % DiagBuffer,
         NEW d \in Reported, d = Head(diags), BufferDiagnostic
  PROVE  /\ sent' \in Seq(Reported) /\ diag_buffer' \in Seq(Reported)
         /\ sent' \o diag_buffer' = Append(sent \o diag_buffer, d)
         /\ Len(diag_buffer') < DiagBuffer
         /\ Len(diag_buffer') = Len(sent' \o diag_buffer') % DiagBuffer
<1> DEFINE all == sent \o diag_buffer  b == Append(diag_buffer, d)
           m == Len(diag_buffer)  n == Len(all)
<1>1. /\ sent \in Seq(Reported) /\ diag_buffer \in Seq(Reported)
      /\ all \in Seq(Reported) /\ m \in Nat /\ n \in Nat
      /\ b \in Seq(Reported) /\ Len(b) = m + 1
      /\ DiagBuffer \in Nat \ {0}
  BY BuffersAssumption, LenProperties, ConcatProperties, AppendProperties DEF Inputs
<1>2. sent \o b = Append(all, d) /\ Len(Append(all, d)) = n + 1
  <2> DEFINE e == <<d>>
  <2>1. e \in Seq(Reported)  OBVIOUS
  <2> HIDE DEF e
  <2>2. (sent \o diag_buffer) \o e = sent \o (diag_buffer \o e)
    <3> HIDE DEF all, b, m, n
    <3>1. sent \in Seq(Reported) /\ diag_buffer \in Seq(Reported)  BY <1>1
    <3>2. QED  BY <2>1, <3>1, ConcatAssociative, SMTT(40)
  <2>3. b = diag_buffer \o e /\ Append(all, d) = all \o e
    BY <1>1, AppendIsConcat DEF e
  <2>4. Len(Append(all, d)) = n + 1  BY <1>1, AppendProperties
  <2>5. QED  BY <2>2, <2>3, <2>4
<1>3. (n + 1) % DiagBuffer = IF m + 1 = DiagBuffer THEN 0 ELSE m + 1
  <2>1. m = n % DiagBuffer  OBVIOUS
  <2> HIDE DEF m, n
  <2>2. QED  BY <1>1, <2>1, NextRemainder
<1>4. IF Len(b) >= DiagBuffer
      THEN sent' = sent \o b /\ diag_buffer' = <<>>
      ELSE diag_buffer' = b /\ sent' = sent
  BY DEF BufferDiagnostic, IsFull
<1>5. m < DiagBuffer  OBVIOUS
<1> HIDE DEF all, b, m, n
<1>6. CASE m + 1 = DiagBuffer
  <2>1. sent' = sent \o b /\ diag_buffer' = <<>>
    BY <1>1, <1>4, <1>6
  <2>2. sent' \in Seq(Reported)  BY <1>1, <2>1, ConcatProperties
  <2>3. /\ diag_buffer' \in Seq(Reported) /\ Len(diag_buffer') = 0
    BY <2>1, EmptySeq
  <2>4. sent' \o diag_buffer' = Append(all, d)
    BY <1>2, <2>1, <2>2, ConcatEmptySeq
  <2>5. Len(sent' \o diag_buffer') % DiagBuffer = 0
    BY <1>2, <1>3, <1>6, <2>4
  <2>6. QED  BY <1>1, <2>2, <2>3, <2>4, <2>5 DEF all
<1>7. CASE m + 1 # DiagBuffer
  <2>1. diag_buffer' = b /\ sent' = sent /\ m + 1 < DiagBuffer
    <3>1. m + 1 < DiagBuffer  BY <1>1, <1>5, <1>7
    <3>2. QED  BY <1>1, <1>4, <3>1
  <2>2. sent' \o diag_buffer' = Append(all, d)  BY <1>2, <2>1
  <2>3. Len(sent' \o diag_buffer') % DiagBuffer = m + 1
    BY <1>2, <1>3, <1>7, <2>2
  <2>4. QED  BY <1>1, <2>1, <2>2, <2>3 DEF all
<1>8. QED  BY <1>6, <1>7

(* Buffering one of the diagnostics the rule returned.                     *)
LEMMA DiagnosticBuffered ==
  ASSUME RInv, BufferDiagnostic
  PROVE  RInv'
<1> DEFINE D == [node : {1}, rule : DOMAIN rules]
           m == Mine
<1>1. /\ Inputs /\ TypeOK /\ StackInOrder /\ AtARule /\ AnswerTold
      /\ ToldOf(m) /\ SetSoFar /\ diags \in Seq(D) /\ diags # <<>>
      /\ Len(diag_buffer) = Len(sent \o diag_buffer) % DiagBuffer
      /\ Len(diag_buffer) < DiagBuffer
      /\ stage = "buffer" /\ stage' = stage /\ diags' = Tail(diags)
      /\ stack' = stack /\ found' = found /\ index' = index
      /\ rule_results' = rule_results /\ UNCHANGED input
  BY DEF RInv, BufferDiagnostic, BufferedSoFar, TypeOK
<1>2. /\ root' = root /\ rules' = rules /\ overflow_checks' = overflow_checks
      /\ earlier' = earlier /\ Diagnosis' = Diagnosis
      /\ \A k : Passes(k)' <=> Passes(k)
      /\ (Passes(index + 1))' <=> Passes(index + 1)
  BY <1>1, SameInputs, PassesKept
<1>3. /\ index \in Nat /\ index < Len(rules) /\ Len(rules) \in Nat
      /\ DOMAIN rules = 1 .. Len(rules) /\ earlier \in Seq(Reported)
      /\ D \subseteq Reported /\ m \in Seq(D) /\ m \in Seq(Reported)
  BY <1>1, ReportsTyped DEF AtARule, ToldOf
<1>4. PICK d : d = Head(diags)  OBVIOUS
<1>5. /\ d \in D /\ d.rule = index + 1
      /\ diags' \in Seq(D)
      /\ \A i \in DOMAIN diags' : diags'[i].rule = index + 1
  <2>1. /\ d = diags[1] /\ d \in D /\ diags' \in Seq(D)
        /\ Len(diags') = Len(diags) - 1 /\ Len(diags) \in Nat \ {0}
        /\ DOMAIN diags = 1 .. Len(diags) /\ DOMAIN diags' = 1 .. Len(diags')
        /\ \A i \in 1 .. Len(diags') : diags'[i] = diags[i + 1]
    <3>1. Head(diags) = diags[1] /\ Head(diags) \in D /\ Tail(diags) \in Seq(D)
      <4> HIDE DEF D, m
      <4>1. diags \in Seq(D) /\ diags # <<>>  BY <1>1
      <4>2. Head(diags) = diags[1]  BY <4>1
      <4>3. Head(diags) \in D /\ Tail(diags) \in Seq(D)  BY <4>1, HeadTailProperties
      <4>4. QED  BY <4>2, <4>3
    <3>2. /\ Len(Tail(diags)) = Len(diags) - 1
          /\ \A i \in 1 .. Len(Tail(diags)) : Tail(diags)[i] = diags[i + 1]
      BY <1>1, HeadTailProperties
    <3>3. Len(diags) \in Nat \ {0} /\ DOMAIN diags = 1 .. Len(diags)
          /\ DOMAIN Tail(diags) = 1 .. Len(Tail(diags))
      BY <1>1, <3>1, EmptySeq, LenProperties
    <3>4. QED  BY <1>1, <1>4, <3>1, <3>2, <3>3
  <2>2. \A i \in 1 .. Len(diags) : diags[i].rule = index + 1
    BY <1>1, <2>1 DEF AnswerTold
  <2>3. 1 \in 1 .. Len(diags) /\ \A i \in 1 .. Len(diags') : i + 1 \in 1 .. Len(diags)
    BY <2>1
  <2>4. QED  BY <2>1, <2>2, <2>3
<1>6. /\ sent' \in Seq(Reported) /\ diag_buffer' \in Seq(Reported)
      /\ sent' \o diag_buffer' = Append(sent \o diag_buffer, d)
      /\ Len(diag_buffer') < DiagBuffer
      /\ Len(diag_buffer') = Len(sent' \o diag_buffer') % DiagBuffer
  BY <1>1, <1>3, <1>4, <1>5, BufferStep
<1> HIDE DEF m, D
<1> DEFINE a == Append(m, d)
<1>7. /\ a \in Seq(D) /\ a \in Seq(Reported)
      /\ sent' \o diag_buffer' = earlier \o a
  <2>1. a \in Seq(D) /\ a \in Seq(Reported)  BY <1>3, <1>5, AppendProperties
  <2> DEFINE e == <<d>>
  <2>2. d \in Reported /\ e \in Seq(Reported)  BY <1>3, <1>5
  <2>3. sent \o diag_buffer = earlier \o m  BY <1>1 DEF ToldOf
  <2>4. a = m \o e  BY <1>3, <2>2, AppendIsConcat
  <2>5. earlier \o m \in Seq(Reported)  BY <1>3, ConcatProperties
  <2>6. Append(earlier \o m, d) = (earlier \o m) \o e
    BY <2>2, <2>5, AppendIsConcat
  <2> HIDE DEF a, e
  <2>7. (earlier \o m) \o e = earlier \o (m \o e)
    BY <1>3, <2>2, ConcatAssociative
  <2>8. QED  BY <1>6, <2>1, <2>3, <2>4, <2>6, <2>7
<1>8. Mine' = a
  <2>1. SubSeq(earlier \o a, Len(earlier) + 1, Len(earlier \o a)) = a
    BY <1>3, <1>7, SuffixOfConcat
  <2> HIDE DEF a
  <2>2. Mine' = SubSeq(sent' \o diag_buffer', Len(earlier') + 1, Len(sent' \o diag_buffer'))
    BY DEF Mine
  <2>3. QED  BY <1>2, <1>7, <2>1, <2>2
<1> DEFINE n == Len(m)
<1>9. /\ n \in Nat /\ DOMAIN m = 1 .. n /\ DOMAIN a = 1 .. n + 1
      /\ \A i \in 1 .. n : a[i] = m[i]
      /\ a[n + 1] = d
      /\ \A i \in 1 .. n : m[i].rule \in Nat /\ m[i].rule <= index + 1
      /\ \A i, j \in 1 .. n : i < j => m[i].rule <= m[j].rule
  <2>1. n \in Nat /\ DOMAIN m = 1 .. n  BY <1>3, LenProperties
  <2>2. /\ Len(a) = n + 1 /\ \A i \in 1 .. n : a[i] = m[i]
        /\ a[n + 1] = d /\ DOMAIN a = 1 .. n + 1
    <3>1. Len(a) = n + 1 /\ (\A i \in 1 .. n : a[i] = m[i]) /\ a[n + 1] = d
      BY <1>3, <1>5, AppendProperties
    <3>2. DOMAIN a = 1 .. Len(a)  BY <1>7, LenProperties
    <3>3. QED  BY <3>1, <3>2
  <2>3. \A i \in 1 .. n : m[i].rule \in Nat
    BY <1>3, ElementOfSeq DEF Reported
  <2>4. \A i \in 1 .. n : m[i].rule <= index + 1
    BY <1>1, <2>1 DEF ToldOf, Reached
  <2>5. \A i, j \in 1 .. n : i < j => m[i].rule <= m[j].rule
    BY <1>1, <2>1 DEF ToldOf
  <2>6. QED  BY <2>1, <2>2, <2>3, <2>4, <2>5
<1> HIDE DEF a, n
<1>10. ASSUME NEW i \in 1 .. n + 1, NEW j \in 1 .. n + 1, i < j
       PROVE  a[i].rule <= a[j].rule
  <2>1. i \in 1 .. n /\ (j \in 1 .. n \/ j = n + 1)  BY <1>9, <1>10
  <2>2. CASE j \in 1 .. n  BY <1>9, <1>10, <2>1, <2>2
  <2>3. CASE j = n + 1  BY <1>5, <1>9, <2>1, <2>3
  <2>4. QED  BY <2>1, <2>2, <2>3
<1>11. \A i \in 1 .. n + 1 : a[i].rule <= index + 1
  <2> TAKE i \in 1 .. n + 1
  <2>1. i \in 1 .. n \/ i = n + 1  BY <1>9
  <2>2. index + 1 <= index + 1  BY <1>3
  <2>3. QED  BY <1>5, <1>9, <2>1, <2>2
<1>12. ASSUME NEW k \in 1 .. index
       PROVE  Passes(k) <=> \A i \in 1 .. n + 1 : a[i].rule # k
  <2>1. Passes(k) <=> \A i \in 1 .. n : m[i].rule # k  BY <1>1, <1>9 DEF ToldOf
  <2>2. index + 1 # k  BY <1>3
  <2>3. \A i \in 1 .. n + 1 : i \in 1 .. n \/ i = n + 1  BY <1>9
  <2>4. \A i \in 1 .. n : i \in 1 .. n + 1  BY <1>9
  <2>5. QED  BY <1>5, <1>9, <2>1, <2>2, <2>3, <2>4
<1>13. ~Passes(index + 1) /\ a[n + 1].rule = index + 1 /\ n + 1 \in 1 .. n + 1
  BY <1>1, <1>5, <1>9 DEF ToldOf
<1>14. ToldOf(Mine)'
  <2>1. DOMAIN rules' = DOMAIN rules  BY <1>2
  <2>2. DOMAIN Mine' = 1 .. n + 1  BY <1>8, <1>9
  <2>3. Mine' \in Seq([node : {1}, rule : DOMAIN rules'])
    BY <1>7, <1>8, <2>1 DEF D
  <2>4. sent' \o diag_buffer' = earlier' \o Mine'
    BY <1>2, <1>7, <1>8
  <2>5. Reached' = index + 1  BY <1>1 DEF Reached
  <2>6. \A i \in 1 .. n + 1 : Mine'[i].rule <= Reached'
    BY <1>8, <1>11, <2>5
  <2>7. \A i, j \in 1 .. n + 1 : i < j => Mine'[i].rule <= Mine'[j].rule
    BY <1>8, <1>10
  <2>8. \A k \in 1 .. index : Passes(k)' <=> \A i \in 1 .. n + 1 : Mine'[i].rule # k
    BY <1>2, <1>8, <1>12
  <2>9. ~(Passes(index + 1))' /\ ~\A i \in 1 .. n + 1 : Mine'[i].rule # index + 1
    BY <1>2, <1>8, <1>13
  <2>10. QED
    BY <1>1, <1>2, <2>2, <2>3, <2>4, <2>6, <2>7, <2>8, <2>9 DEF ToldOf
<1>15. BufferedSoFar'
  BY <1>6, <1>14 DEF BufferedSoFar
<1>16. Inputs'  BY <1>1, <1>2, <1>6 DEF Inputs
<1>17. TypeOK'
  BY <1>1, <1>2, <1>5, <1>6 DEF TypeOK, Descendants, D
<1>18. StackInOrder'  BY <1>1 DEF StackInOrder, InOrder
<1>19. WalksDepthFirst'  BY <1>1 DEF WalksDepthFirst
<1>20. AtARule'  BY <1>1, <1>2 DEF AtARule
<1>21. AnswerTold'
  BY <1>1, <1>2, <1>5 DEF AnswerTold
<1>22. SetSoFar'
  BY <1>1, <1>2 DEF SetSoFar
<1>23. QED
  BY <1>15, <1>16, <1>17, <1>18, <1>19, <1>20, <1>21, <1>22 DEF RInv

(* The current rule is done, or its bit cannot be set.                     *)
LEMMA RuleDoneStep ==
  ASSUME RInv, RuleDone
  PROVE  RInv'
<1> DEFINE m == Mine
           passed == Diagnosis = <<>>
           Passing(n) == {k \in 1 .. n : Passes(k)}
<1>1. /\ Inputs /\ TypeOK /\ StackInOrder /\ AtARule /\ AnswerTold /\ BufferedSoFar
      /\ ToldOf(m) /\ SetSoFar /\ stage = "buffer" /\ diags = <<>>
      /\ stack' = stack /\ found' = found /\ diags' = diags
      /\ diag_buffer' = diag_buffer /\ sent' = sent /\ UNCHANGED input
      /\ Len(diag_buffer) = Len(sent \o diag_buffer) % DiagBuffer
  BY DEF RInv, RuleDone, BufferedSoFar
<1>2. /\ root' = root /\ rules' = rules /\ overflow_checks' = overflow_checks
      /\ earlier' = earlier /\ Mine' = m
      /\ \A k : Passes(k)' <=> Passes(k)
  BY <1>1, SameInputs, PassesKept, MineKept
<1>3. /\ index \in Nat /\ index < Len(rules) /\ Len(rules) \in Nat
      /\ m \in Seq(Reported)
  BY <1>1, ReportsTyped DEF AtARule, ToldOf
<1>4. /\ passed <=> Passes(index + 1)
      /\ Passes(index + 1) <=> \A i \in DOMAIN m : m[i].rule # index + 1
      /\ \A i \in DOMAIN m : m[i].rule \in Nat /\ m[i].rule <= index + 1
  <2>1. \A i \in DOMAIN m : m[i].rule \in Nat
    <3> HIDE DEF m
    <3>1. DOMAIN m = 1 .. Len(m)  BY <1>3, LenProperties
    <3>2. \A i \in DOMAIN m : m[i] \in Reported  BY <1>3, <3>1, ElementOfSeq
    <3>3. QED  BY <3>2 DEF Reported
  <2>2. QED  BY <1>1, <2>1 DEF AnswerTold, ToldOf, Reached
<1>5. Inputs'  BY <1>1, <1>2 DEF Inputs
<1>6. StackInOrder'  BY <1>1 DEF StackInOrder, InOrder
<1>7. WalksDepthFirst' /\ AnswerTold'
  <2>1. stage' \in {"panic", "next rule"}  BY DEF RuleDone
  <2>2. QED  BY <2>1 DEF WalksDepthFirst, AnswerTold
<1> HIDE DEF m
<1>8. CASE passed /\ index >= Width /\ overflow_checks
  <2>1. stage' = "panic" /\ index' = index /\ rule_results' = rule_results
    BY <1>8 DEF RuleDone
  <2>2. \A i \in DOMAIN m : m[i].rule <= index
    BY <1>3, <1>4, <1>8
  <2>3. ToldOf(Mine)'
    <3>1. Reached' = index  BY <2>1 DEF Reached
    <3>2. QED  BY <1>1, <1>2, <2>1, <2>2, <3>1 DEF ToldOf, m
  <2>4. BufferedSoFar'  BY <1>1, <2>3 DEF BufferedSoFar
  <2>5. SetSoFar'
    <3>1. (Passes(index + 1))'  BY <1>1, <1>4, <1>8, <2>1, PassesKept
    <3>2. QED  BY <1>1, <1>2, <1>8, <2>1, <3>1 DEF SetSoFar
  <2>6. AtARule'  BY <1>1, <1>2, <1>3, <2>1 DEF AtARule
  <2>7. TypeOK'  BY <1>1, <1>2, <2>1 DEF TypeOK, Descendants
  <2>8. QED  BY <1>5, <1>6, <1>7, <2>4, <2>5, <2>6, <2>7 DEF RInv
<1>9. CASE ~(passed /\ index >= Width /\ overflow_checks)
  <2>1. /\ stage' = "next rule" /\ index' = index + 1
        /\ rule_results' = Set(rule_results, index, passed)
    BY <1>9 DEF RuleDone
  <2>2. \A k \in 1 .. index + 1 : Passes(k) <=> \A i \in DOMAIN m : m[i].rule # k
    <3> TAKE k \in 1 .. index + 1
    <3>1. k \in 1 .. index \/ k = index + 1  BY <1>3
    <3>2. CASE k \in 1 .. index  BY <1>1, <3>2 DEF ToldOf, m
    <3>3. CASE k = index + 1  BY <1>4, <3>3
    <3>4. QED  BY <3>1, <3>2, <3>3
  <2>3. ToldOf(Mine)'
    <3>1. Reached' = index + 1  BY <2>1 DEF Reached
    <3>2. \A k \in 1 .. index' : Passes(k)' <=> \A i \in DOMAIN Mine' : Mine'[i].rule # k
      BY <1>2, <2>1, <2>2
    <3>3. \A i \in DOMAIN Mine' : Mine'[i].rule <= Reached'
      BY <1>2, <1>4, <3>1
    <3>4. QED  BY <1>1, <1>2, <2>1, <3>2, <3>3 DEF ToldOf, m
  <2>4. BufferedSoFar'  BY <1>1, <2>3 DEF BufferedSoFar
  <2>5. /\ index % Width \in 0 .. Width - 1 /\ (index + 1) - 1 = index
        /\ Width \in Nat \ {0}
    <3>1. Width \in Nat \ {0} /\ index \in Nat  BY <1>3, WidthAssumption
    <3>2. index % Width \in 0 .. Width - 1  BY <3>1, SmallRemainder
    <3>3. (index + 1) - 1 = index  BY <3>1
    <3>4. QED  BY <3>1, <3>2, <3>3
  <2>6. Passing(index + 1) = IF passed THEN Passing(index) \cup {index + 1} ELSE Passing(index)
    <3>1. 1 .. index + 1 = (1 .. index) \cup {index + 1}  BY <1>3
    <3>2. QED  BY <1>4, <3>1
  <2>7. rule_results = {(j - 1) % Width : j \in Passing(index)}
    BY <1>1 DEF SetSoFar
  <2>8. rule_results' = {(j - 1) % Width : j \in Passing(index + 1)}
    <3> HIDE DEF passed, Passing
    <3>1. CASE passed
      <4>1. rule_results' = rule_results \cup {index % Width}
        BY <2>1, <3>1 DEF Set
      <4>2. Passing(index + 1) = Passing(index) \cup {index + 1}  BY <2>6, <3>1
      <4>3. {(j - 1) % Width : j \in Passing(index) \cup {index + 1}} =
               {(j - 1) % Width : j \in Passing(index)} \cup {((index + 1) - 1) % Width}
        OBVIOUS
      <4>4. QED  BY <2>5, <2>7, <4>1, <4>2, <4>3
    <3>2. CASE ~passed
      BY <2>1, <2>6, <2>7, <3>2 DEF Set
    <3>3. QED  BY <3>1, <3>2
  <2>9. SetSoFar'
    <3>1. {k \in 1 .. index' : Passes(k)'} = Passing(index + 1)
      BY <1>2, <2>1
    <3>2. ASSUME overflow_checks, NEW k \in 1 .. index + 1, Passes(k)
          PROVE  k <= Width
      <4>1. k \in 1 .. index \/ k = index + 1  BY <1>3
      <4>2. CASE k \in 1 .. index  BY <1>1, <3>2, <4>2 DEF SetSoFar
      <4>3. CASE k = index + 1
        <5>1. ~(index >= Width)  BY <1>4, <1>9, <3>2, <4>3
        <5>2. QED  BY <1>3, <2>5, <4>3, <5>1
      <4>4. QED  BY <4>1, <4>2, <4>3
    <3>3. overflow_checks' => \A k \in 1 .. index' : Passes(k)' => k <= Width
      BY <1>2, <2>1, <3>2
    <3> HIDE DEF Passing
    <3>4. rule_results' = {(j - 1) % Width : j \in {k \in 1 .. index' : Passes(k)'}}
      BY <2>8, <3>1
    <3>5. QED  BY <2>1, <3>3, <3>4 DEF SetSoFar
  <2>10. AtARule'  BY <1>1, <2>1 DEF AtARule
  <2>11. TypeOK'
    <3>1. index' \in 0 .. Len(rules')
      <4>1. index + 1 \in 0 .. Len(rules)  BY <1>3
      <4>2. QED  BY <1>2, <2>1, <4>1
    <3>2. rule_results' \subseteq 0 .. Width - 1
      <4> HIDE DEF passed
      <4>1. QED  BY <1>1, <2>1, <2>5 DEF TypeOK, Set
    <3>3. QED  BY <1>1, <1>2, <2>1, <3>1, <3>2 DEF TypeOK, Descendants
  <2>12. QED  BY <1>5, <1>6, <1>7, <2>4, <2>9, <2>10, <2>11 DEF RInv
<1>10. QED  BY <1>8, <1>9

(* The loop starts with nothing reported and no bit set.                   *)
LEMMA InitRInv == Init => RInv
<1> SUFFICES ASSUME Init PROVE RInv
  OBVIOUS
<1> DEFINE D == [node : {1}, rule : DOMAIN rules]
<1>1. /\ root \in Roots /\ rules \in RuleLists /\ earlier \in Buffers
      /\ overflow_checks \in BOOLEAN /\ index = 0 /\ stack = <<>> /\ found = <<>>
      /\ diags = <<>> /\ diag_buffer = earlier /\ sent = <<>>
      /\ rule_results = {} /\ stage = "next rule"
  BY DEF Init, Empty
<1>2. /\ earlier \in Seq(Reported) /\ Len(earlier) < DiagBuffer
      /\ DiagBuffer \in Nat \ {0} /\ Len(earlier) \in Nat
  <2>1. earlier \in Seq(Reported)  BY <1>1, BuffersAssumption DEF Reported
  <2>2. QED  BY <1>1, <2>1, BuffersAssumption, LenProperties
<1>3. Len(rules) \in Nat
  BY <1>1, RuleListsAssumption, LenProperties
<1>4. \A S : <<>> \in Seq(S) /\ DOMAIN <<>> = {}
  <2> TAKE S
  <2>1. <<>> \in Seq(S) /\ Len(<<>>) = 0  BY EmptySeq
  <2>2. DOMAIN <<>> = 1 .. Len(<<>>)  BY <2>1, LenProperties
  <2>3. QED  BY <2>1, <2>2
<1>5. Inputs  BY <1>1, <1>2, <1>4 DEF Inputs
<1>6. TypeOK
  <2>1. 0 \in 0 .. Len(rules)  BY <1>3
  <2>2. QED  BY <1>1, <1>2, <1>4, <2>1 DEF TypeOK
<1>7. StackInOrder  BY <1>1, <1>4 DEF StackInOrder, InOrder
<1>8. WalksDepthFirst /\ AtARule /\ AnswerTold
  BY <1>1 DEF WalksDepthFirst, AtARule, AnswerTold
<1>9. sent \o diag_buffer = earlier \o <<>> /\ sent \o diag_buffer = earlier
  BY <1>1, <1>2, ConcatEmptySeq
<1>10. Mine = <<>>
  <2>1. <<>> \in Seq(Reported)  BY <1>4
  <2>2. SubSeq(earlier \o <<>>, Len(earlier) + 1, Len(earlier \o <<>>)) = <<>>
    BY <1>2, <2>1, SuffixOfConcat
  <2>3. QED  BY <1>9, <2>2 DEF Mine
<1>11. ToldOf(<<>>)
  <2>1. <<>> \in Seq(D) /\ DOMAIN <<>> = {}  BY <1>4
  <2>2. \A k \in 1 .. index : FALSE
    <3>1. \A k \in 1 .. 0 : FALSE  OBVIOUS
    <3>2. QED  BY <1>1, <3>1
  <2>3. sent \o diag_buffer = earlier \o <<>>  BY <1>9
  <2>4. stage # "buffer"  BY <1>1
  <2>5. QED  BY <2>1, <2>2, <2>3, <2>4 DEF ToldOf
<1>12. BufferedSoFar
  <2>1. Len(earlier) % DiagBuffer = Len(earlier)  BY <1>2, SmallRemainder
  <2>2. QED  BY <1>1, <1>9, <1>10, <1>11, <2>1 DEF BufferedSoFar
<1>13. SetSoFar
  <2>1. 1 .. 0 = {}  OBVIOUS
  <2>2. QED  BY <1>1, <2>1 DEF SetSoFar
<1>14. QED
  BY <1>5, <1>6, <1>7, <1>8, <1>12, <1>13 DEF RInv

(* Every step keeps the invariant.                                         *)
LEMMA RInvStep == RInv /\ [Next]_vars => RInv'
<1> SUFFICES ASSUME RInv, [Next]_vars PROVE RInv'
  OBVIOUS
<1>1. CASE Evaluate
  BY <1>1, EvaluateWalk, QuietTold DEF RInv
<1>2. CASE Advance
  BY <1>2, AdvanceWalk, QuietTold DEF RInv
<1>3. CASE Answer
  <2>1. TypeOK' /\ AnswerTold' /\ Inputs' /\ AtARule' /\ BufferedSoFar' /\ SetSoFar'
    BY <1>3, AnswerIsTrue, AnswerKept
  <2>2. StackInOrder'  BY <1>3 DEF RInv, Answer, StackInOrder, InOrder
  <2>3. WalksDepthFirst'  BY <1>3 DEF Answer, WalksDepthFirst
  <2>4. QED  BY <2>1, <2>2, <2>3 DEF RInv
<1>4. CASE BufferDiagnostic  BY <1>4, DiagnosticBuffered
<1>5. CASE RuleDone  BY <1>5, RuleDoneStep
<1>6. CASE UNCHANGED vars
  <2>1. /\ UNCHANGED input /\ index' = index /\ stack' = stack /\ found' = found
        /\ diags' = diags /\ diag_buffer' = diag_buffer /\ sent' = sent
        /\ rule_results' = rule_results /\ stage' = stage
    BY <1>6 DEF vars
  <2>2. /\ root' = root /\ rules' = rules /\ overflow_checks' = overflow_checks
        /\ earlier' = earlier
    BY <2>1, SameInputs
  <2>3. /\ \A k : Passes(k)' <=> Passes(k)
        /\ (Passes(index + 1))' <=> Passes(index + 1)
        /\ Diagnosis' = Diagnosis /\ Mine' = Mine
        /\ sent' \o diag_buffer' = sent \o diag_buffer
    BY <2>1, PassesKept, MineKept
  <2>4. Inputs' /\ TypeOK' /\ AtARule'
    BY <2>1, <2>2 DEF RInv, Inputs, TypeOK, AtARule, Descendants
  <2>5. StackInOrder'  BY <2>1 DEF RInv, StackInOrder, InOrder
  <2>6. WalksDepthFirst'
    <3>1. Visited' = Visited /\ Ahead' = Ahead /\ Query' = Query /\ Wanted' = Wanted
      BY <2>1, <2>2 DEF Visited, Ahead, Descendants, Query, Wanted, Within
    <3>2. QED  BY <2>1, <2>2, <3>1 DEF RInv, WalksDepthFirst
  <2>7. AnswerTold'  BY <2>1, <2>2, <2>3 DEF RInv, AnswerTold
  <2>8. ToldOf(Mine)'
    BY <2>1, <2>2, <2>3 DEF RInv, BufferedSoFar, ToldOf, Reached
  <2>9. BufferedSoFar'
    BY <2>1, <2>3, <2>8 DEF RInv, BufferedSoFar
  <2>10. SetSoFar'
    BY <2>1, <2>2, <2>3 DEF RInv, SetSoFar
  <2>11. QED
    BY <2>4, <2>5, <2>6, <2>7, <2>9, <2>10 DEF RInv
<1>7. QED
  BY <1>1, <1>2, <1>3, <1>4, <1>5, <1>6 DEF Next, Over

(* RInv holds throughout the loop over the rules of an element.            *)
LEMMA RuleLoop == Spec => []RInv
BY InitRInv, RInvStep, PTL DEF Spec

(* For every captured element, list of rules, width and buffer size the    *)
(* nodes on the stack and found are nodes below the element, the buffer    *)
(* never fills, and only bits of the word are set.                         *)
THEOREM TypeCorrect == Spec => []TypeOK
<1>1. RInv => TypeOK  BY DEF RInv
<1>2. QED  BY <1>1, RuleLoop, PTL

(* A query visits the nodes of any element in the order of the document,   *)
(* and finds the first match or all of them, in that order.                *)
THEOREM QueriesWalk == Spec => []WalksDepthFirst
<1>1. RInv => WalksDepthFirst  BY DEF RInv
<1>2. QED  BY <1>1, RuleLoop, PTL

(* For every width and number of rules the word tells, when all rules are  *)
(* done, exactly which residues of the width a passing rule has: of the    *)
(* first Width rules each its own; and a build that checks overflow stops  *)
(* at the first rule beyond them that passes.                              *)
THEOREM ResultsTold == Spec => []ResultsPacked
<1>1. ASSUME RInv
      PROVE  ResultsPacked
  <2> DEFINE n == Len(rules)  W == Width
  <2>1. /\ Inputs /\ TypeOK /\ SetSoFar /\ n \in Nat /\ DOMAIN rules = 1 .. n
    BY <1>1, ReportsTyped DEF RInv
  <2>2. W \in Nat \ {0}  BY WidthAssumption
  <2>3. stage = "panic" => overflow_checks /\ index >= Width /\ Passes(index + 1)
    BY <2>1 DEF SetSoFar
  <2>4. SUFFICES ASSUME index = n
                 PROVE  /\ \A k \in 1 .. n : Get(rule_results, k - 1) <=> PassesModulo(k)
                        /\ AllPassed(rule_results, n) <=> \A k \in 1 .. n : PassesModulo(k)
    BY <2>3 DEF ResultsPacked
  <2>5. rule_results = {(j - 1) % W : j \in {k \in 1 .. n : Passes(k)}}
    BY <2>1, <2>4 DEF SetSoFar
  <2>6. \A k : (k - 1) % W \in rule_results <=> PassesModulo(k)
    <3> TAKE k
    <3> DEFINE x == (k - 1) % W
    <3>1. PassesModulo(k) <=> \E j \in 1 .. n : (j - 1) % W = x /\ Passes(j)
      BY <2>1 DEF PassesModulo
    <3> HIDE DEF x, n, W
    <3>2. QED  BY <2>5, <3>1 DEF x
  <2>7. \A k \in 1 .. n : /\ (k - 1) % W \in 0 .. W - 1
                          /\ k <= W => (k - 1) % W = k - 1
    <3> TAKE k \in 1 .. n
    <3> DEFINE x == k - 1
    <3>1. x \in Nat /\ (k <= W => x < W)  BY <2>1, <2>2
    <3> HIDE DEF x
    <3>2. x % W \in 0 .. W - 1 /\ (x < W => x % W = x)
      BY <2>2, <3>1, SmallRemainder
    <3>3. QED  BY <3>1, <3>2 DEF x
  <2> HIDE DEF n, W
  <2>8. \A k \in 1 .. n : Get(rule_results, k - 1) <=> PassesModulo(k)
    BY <2>6 DEF Get, W
  <2>9. AllPassed(rule_results, n) <=> \A k \in 1 .. n : PassesModulo(k)
    <3>1. CASE n >= W
      <4>1. Mask(n) = 0 .. W - 1  BY <3>1 DEF Mask, W
      <4>2. ASSUME NEW b \in 0 .. W - 1
            PROVE  b + 1 \in 1 .. n /\ ((b + 1) - 1) % W = b
        <5> DEFINE k == b + 1
        <5>1. k \in 1 .. n /\ k <= W /\ k - 1 = b  BY <2>1, <2>2, <3>1
        <5> HIDE DEF k
        <5>2. (k - 1) % W = b  BY <2>7, <5>1
        <5>3. QED  BY <5>1, <5>2 DEF k
      <4>3. ASSUME \A k \in 1 .. n : PassesModulo(k), NEW b \in 0 .. W - 1
            PROVE  b \in rule_results
        <5>1. PassesModulo(b + 1)  BY <4>2, <4>3
        <5>2. ((b + 1) - 1) % W \in rule_results  BY <2>6, <5>1
        <5>3. QED  BY <4>2, <5>2
      <4>4. ASSUME 0 .. W - 1 \subseteq rule_results, NEW k \in 1 .. n
            PROVE  PassesModulo(k)
        BY <2>6, <2>7, <4>4
      <4>5. QED  BY <4>1, <4>3, <4>4 DEF AllPassed
    <3>2. CASE ~(n >= W)
      <4>1. Mask(n) = 0 .. n - 1  BY <3>2 DEF Mask, W
      <4>2. \A k \in 1 .. n : k <= W /\ k - 1 \in 0 .. n - 1
        BY <2>1, <2>2, <3>2
      <4>3. \A k \in 1 .. n : k - 1 \in rule_results <=> PassesModulo(k)
        BY <2>6, <2>7, <4>2
      <4>4. ASSUME \A k \in 1 .. n : PassesModulo(k), NEW b \in 0 .. n - 1
            PROVE  b \in rule_results
        <5>1. b + 1 \in 1 .. n /\ (b + 1) - 1 = b  BY <2>1
        <5>2. QED  BY <4>3, <4>4, <5>1
      <4>5. ASSUME 0 .. n - 1 \subseteq rule_results, NEW k \in 1 .. n
            PROVE  PassesModulo(k)
        BY <4>2, <4>3, <4>5
      <4>6. QED  BY <4>1, <4>4, <4>5 DEF AllPassed
    <3>3. QED  BY <3>1, <3>2
  <2>10. QED  BY <2>8, <2>9 DEF n
<1>2. QED  BY <1>1, RuleLoop, PTL

(* For any element, rules and buffer the loop leaves what Parser says it   *)
(* does in one step: the diagnostics after the earlier ones, in the order  *)
(* of the rules; the rules that reported none are those that pass; and     *)
(* what is unsent is what does not fill a buffer.                          *)
THEOREM LoopIsOneStep == Spec => []AsOneStep
<1>1. ASSUME RInv
      PROVE  AsOneStep
  <2> SUFFICES ASSUME index = Len(rules) PROVE AsOneStep
    BY DEF AsOneStep
  <2> DEFINE descriptor == [nodes |-> <<[rules |-> rules]>>]
             all == sent \o diag_buffer
  <2>1. /\ Inputs /\ TypeOK /\ ToldOf(Mine) /\ AtARule
        /\ Len(diag_buffer) = Len(all) % DiagBuffer
    BY <1>1 DEF RInv, BufferedSoFar
  <2>2. /\ DOMAIN rules = 1 .. Len(rules) /\ Len(rules) \in Nat
        /\ earlier \in Seq(Reported) /\ Mine \in Seq(Reported)
    BY <2>1, ReportsTyped DEF ToldOf
  <2>3. IsPrefix(earlier, all)
    <3>1. all = earlier \o Mine  BY <2>1 DEF ToldOf
    <3>2. IsPrefix(earlier, earlier \o Mine)  BY <2>2, PrefixOfConcat
    <3>3. QED  BY <3>1, <3>2
  <2>4. \A i, j \in DOMAIN Mine : i < j => Mine[i].rule <= Mine[j].rule
    BY <2>1 DEF ToldOf
  <2>5. Passed(descriptor, 1, Mine) = {k - 1 : k \in {r \in DOMAIN rules : Passes(r)}}
    <3>1. \A k \in DOMAIN rules : Passes(k) <=> \A i \in DOMAIN Mine : Mine[i].rule # k
      BY <2>1, <2>2 DEF ToldOf
    <3>2. descriptor.nodes[1].rules = rules  OBVIOUS
    <3> HIDE DEF descriptor
    <3>3. Passed(descriptor, 1, Mine) =
            {k - 1 : k \in {r \in DOMAIN rules :
                              \A i \in DOMAIN Mine : Mine[i].rule # r}}
      BY <3>2 DEF Passed
    <3>4. {r \in DOMAIN rules : Passes(r)}
            = {r \in DOMAIN rules : \A i \in DOMAIN Mine : Mine[i].rule # r}
      BY <3>1
    <3>5. QED  BY <3>3, <3>4
  <2>6. rule_results = Packed(Passed(descriptor, 1, Mine))
    <3>1. rule_results = {(j - 1) % Width : j \in {k \in 1 .. Len(rules) : Passes(k)}}
      BY <1>1 DEF RInv, SetSoFar
    <3> DEFINE passing == {r \in DOMAIN rules : Passes(r)}
    <3>2. passing = {k \in 1 .. Len(rules) : Passes(k)}  BY <2>2
    <3> HIDE DEF passing
    <3>3. Packed({k - 1 : k \in passing}) = {(j - 1) % Width : j \in passing}
      BY DEF Packed
    <3>4. QED  BY <2>5, <3>1, <3>2, <3>3 DEF passing
  <2>7. QED
    BY <2>1, <2>3, <2>4, <2>5, <2>6 DEF AsOneStep, Mine
<1>2. QED  BY <1>1, RuleLoop, PTL
=============================================================================
