------------------------- MODULE TreeBuilderProofs -------------------------
(***************************************************************************)
(* The tree builder, for all tags, rules and chains of calls: the cursor   *)
(* is the path to the current node, build() rejects what its documentation *)
(* says, judged by the paths, and every node keeps what is read of it.     *)
(* The same for build_tree!: its chain of calls is one of the builder's,   *)
(* and builds the declarations as they are written.                        *)
(***************************************************************************)
EXTENDS BuildTreeMacro, SequenceFacts, FiniteSetTheorems

Declarations ==
  [tag : Tags, full_path : Seq(Tags), is_capture : BOOLEAN,
   rules : Seq(RuleNeeds), parent_index : Nat]

(* The first declaration is the root; every other one follows its parent   *)
(* and is at the parent's path with its own tag added.                     *)
ParentsFirst ==
  /\ Root \in DOMAIN declarations
  /\ declarations[Root].parent_index = NoNode
  /\ declarations[Root].full_path = <<declarations[Root].tag>>
  /\ \A i \in DOMAIN declarations \ {Root} :
       LET d == declarations[i]
       IN /\ d.parent_index \in 1 .. i - 1
          /\ d.full_path = Append(declarations[d.parent_index].full_path, d.tag)

(* What build() returned is its verdict on the declarations as they are.   *)
Verdict ==
  built \notin {"no", "panic"} =>
    built = IF BuildError(declarations) = "none" THEN "tree"
            ELSE BuildError(declarations)

BInv == TypeOK /\ CursorIsPath /\ ParentsFirst /\ Verdict

-----------------------------------------------------------------------------
(* The declarations are numbered from 1 and the cursor names some of them. *)
LEMMA DeclarationFacts ==
  ASSUME TypeOK, CursorIsPath
  PROVE  /\ declarations \in Seq(Declarations)
         /\ Len(declarations) \in Nat /\ DOMAIN declarations = 1 .. Len(declarations)
         /\ \A i \in DOMAIN declarations : declarations[i] \in Declarations
         /\ parent_stack \in Seq(DOMAIN declarations)
         /\ Len(parent_stack) \in Nat \ {0}
         /\ DOMAIN parent_stack = 1 .. Len(parent_stack)
         /\ \A k \in DOMAIN parent_stack : parent_stack[k] \in DOMAIN declarations
         /\ Current = parent_stack[Len(parent_stack)]
         /\ Current \in DOMAIN declarations
<1>1. /\ declarations \in Seq(Declarations) /\ parent_stack \in Seq(DOMAIN declarations)
      /\ parent_stack # <<>>
  BY DEF TypeOK, CursorIsPath, Declarations
<1>2. /\ Len(declarations) \in Nat /\ DOMAIN declarations = 1 .. Len(declarations)
      /\ \A i \in 1 .. Len(declarations) : declarations[i] \in Declarations
  BY <1>1, LenProperties, ElementOfSeq
<1>3. /\ Len(parent_stack) \in Nat \ {0} /\ DOMAIN parent_stack = 1 .. Len(parent_stack)
      /\ \A k \in 1 .. Len(parent_stack) : parent_stack[k] \in DOMAIN declarations
  BY <1>1, LenProperties, ElementOfSeq, EmptySeq
<1>4. Current = parent_stack[Len(parent_stack)]  BY DEF Current, Last
<1>5. Len(parent_stack) \in 1 .. Len(parent_stack)  BY <1>3
<1>6. QED  BY <1>1, <1>2, <1>3, <1>4, <1>5

(* Initially there is the root, and the cursor is there.                   *)
LEMMA InitBInv == Init => BInv
<1> SUFFICES ASSUME Init PROVE BInv
  OBVIOUS
<1>1. PICK tag \in Tags : declarations = <<Declaration(tag, <<>>, NoNode)>>
  BY DEF Init
<1>2. Append(<<>>, tag) = <<tag>>  OBVIOUS
<1> DEFINE d == Declaration(tag, <<>>, NoNode)
<1>3. /\ d \in Declarations /\ d.full_path = <<tag>> /\ d.tag = tag
      /\ d.parent_index = NoNode
  BY <1>1, <1>2 DEF Declaration, Declarations, NoNode
<1> HIDE DEF d
<1>4. /\ declarations = <<d>> /\ declarations \in Seq(Declarations)
      /\ DOMAIN declarations = {1} /\ declarations[1] = d
  BY <1>1, <1>3 DEF d
<1>5. /\ parent_stack = <<Root>> /\ parent_stack \in Seq(DOMAIN declarations)
      /\ DOMAIN parent_stack = {1} /\ parent_stack[1] = 1 /\ parent_stack # <<>>
  BY <1>4 DEF Init, Root
<1>6. TypeOK  BY <1>4, <1>5, LimitsAssumption DEF Init, TypeOK, Declarations
<1>7. <<tag>> = [i \in 1 .. 1 |-> declarations[parent_stack[i]].tag]
  <2>1. /\ [i \in 1 .. 1 |-> declarations[parent_stack[i]].tag] \in Seq({tag})
        /\ <<tag>> \in Seq({tag})
    BY <1>3, <1>4, <1>5
  <2>2. QED  BY <1>3, <1>4, <1>5, <2>1
<1>8. CursorIsPath  BY <1>3, <1>4, <1>5, <1>7 DEF CursorIsPath, Root
<1>9. ParentsFirst  BY <1>3, <1>4 DEF ParentsFirst, Root
<1>10. Verdict  BY DEF Init, Verdict
<1>11. QED  BY <1>6, <1>8, <1>9, <1>10 DEF BInv

(* A call that changes the mode or the rules of the current node leaves    *)
(* its place in the tree alone.                                            *)
LEMMA SamePlaces ==
  ASSUME BInv, NEW d \in Declarations,
         d.tag = declarations[Current].tag,
         d.full_path = declarations[Current].full_path,
         d.parent_index = declarations[Current].parent_index,
         declarations' = [declarations EXCEPT ![Current] = d],
         built = "no",
         UNCHANGED <<parent_stack, capture_memory_limit, built>>
  PROVE  BInv'
<1>1. /\ declarations \in Seq(Declarations) /\ Current \in DOMAIN declarations
      /\ DOMAIN declarations = 1 .. Len(declarations)
      /\ parent_stack \in Seq(DOMAIN declarations)
      /\ DOMAIN parent_stack = 1 .. Len(parent_stack)
      /\ \A k \in DOMAIN parent_stack : parent_stack[k] \in DOMAIN declarations
  BY DeclarationFacts DEF BInv
<1>2. declarations' \in Seq(Declarations) /\ DOMAIN declarations' = DOMAIN declarations
  <2>1. /\ [declarations EXCEPT ![Current] = d] \in Seq(Declarations)
        /\ DOMAIN [declarations EXCEPT ![Current] = d] = DOMAIN declarations
    BY <1>1, ExceptSeq
  <2>2. QED  BY <2>1
<1>3. \A i \in DOMAIN declarations :
         /\ declarations'[i].tag = declarations[i].tag
         /\ declarations'[i].full_path = declarations[i].full_path
         /\ declarations'[i].parent_index = declarations[i].parent_index
  BY <1>1
<1>4. TypeOK'  BY <1>1, <1>2 DEF BInv, TypeOK, Declarations
<1>5. CursorIsPath'
  <2>1. \A k \in DOMAIN parent_stack :
           [i \in 1 .. k |-> declarations'[parent_stack[i]].tag]
             = [i \in 1 .. k |-> declarations[parent_stack[i]].tag]
    <3> SUFFICES ASSUME NEW k \in DOMAIN parent_stack, NEW i \in 1 .. k
                 PROVE  declarations'[parent_stack[i]].tag = declarations[parent_stack[i]].tag
      OBVIOUS
    <3>1. i \in DOMAIN parent_stack
      <4>1. Len(parent_stack) \in Nat  BY <1>1, LenProperties
      <4>2. QED  BY <1>1, <4>1
    <3>2. QED  BY <1>1, <1>3, <3>1
  <2>2. QED  BY <1>1, <1>3, <2>1 DEF BInv, CursorIsPath
<1>6. ParentsFirst'
  <2>1. \A i \in DOMAIN declarations \ {Root} :
           declarations[i].parent_index \in DOMAIN declarations
    <3> SUFFICES ASSUME NEW i \in DOMAIN declarations \ {Root}
                 PROVE  declarations[i].parent_index \in DOMAIN declarations
      OBVIOUS
    <3>1. declarations[i].parent_index \in 1 .. i - 1 /\ i \in 1 .. Len(declarations)
      BY <1>1 DEF BInv, ParentsFirst
    <3>2. Len(declarations) \in Nat  BY <1>1, LenProperties
    <3>3. QED  BY <1>1, <3>1, <3>2
  <2>2. ASSUME NEW i \in DOMAIN declarations \ {Root}
        PROVE  /\ declarations'[i].parent_index \in 1 .. i - 1
               /\ declarations'[i].full_path
                    = Append(declarations'[declarations'[i].parent_index].full_path,
                             declarations'[i].tag)
    <3>1. /\ declarations[i].parent_index \in 1 .. i - 1
          /\ declarations[i].full_path
               = Append(declarations[declarations[i].parent_index].full_path,
                        declarations[i].tag)
      BY DEF BInv, ParentsFirst
    <3>2. QED  BY <1>3, <2>1, <3>1
  <2>3. /\ Root \in DOMAIN declarations'
        /\ declarations'[Root].parent_index = NoNode
        /\ declarations'[Root].full_path = <<declarations'[Root].tag>>
    BY <1>2, <1>3 DEF BInv, ParentsFirst
  <2>4. QED  BY <1>2, <2>2, <2>3 DEF ParentsFirst
<1>7. Verdict'  BY DEF Verdict
<1>8. QED  BY <1>4, <1>5, <1>6, <1>7 DEF BInv

(* streaming(), capture_subtree() and rule() keep the node's place.        *)
LEMMA SamePlacesSteps ==
  ASSUME BInv, built = "no",
         \/ \E capture \in BOOLEAN : AccessMode(capture)
         \/ \E needs \in RuleNeeds : AddRule(needs)
  PROVE  BInv'
<1>1. Current \in DOMAIN declarations /\ declarations[Current] \in Declarations
  BY DeclarationFacts DEF BInv
<1>2. ASSUME NEW capture \in BOOLEAN, AccessMode(capture)
      PROVE  BInv'
  <2> DEFINE d == [declarations[Current] EXCEPT !.is_capture = capture]
  <2>1. /\ d \in Declarations /\ d.tag = declarations[Current].tag
        /\ d.full_path = declarations[Current].full_path
        /\ d.parent_index = declarations[Current].parent_index
    BY <1>1 DEF Declarations
  <2>2. declarations' = [declarations EXCEPT ![Current] = d]
    BY <1>2 DEF AccessMode
  <2> HIDE DEF d
  <2>3. QED  BY <1>2, <2>1, <2>2, SamePlaces DEF AccessMode
<1>3. ASSUME NEW needs \in RuleNeeds, AddRule(needs)
      PROVE  BInv'
  <2> DEFINE d == [declarations[Current] EXCEPT !.rules = Append(@, needs)]
  <2>1. declarations[Current].rules \in Seq(RuleNeeds)  BY <1>1 DEF Declarations
  <2>2. Append(declarations[Current].rules, needs) \in Seq(RuleNeeds)
    BY <2>1, AppendProperties
  <2>3. /\ d \in Declarations /\ d.tag = declarations[Current].tag
        /\ d.full_path = declarations[Current].full_path
        /\ d.parent_index = declarations[Current].parent_index
    BY <1>1, <2>2 DEF Declarations
  <2>4. declarations' = [declarations EXCEPT ![Current] = d]
    BY <1>3 DEF AddRule
  <2> HIDE DEF d
  <2>5. QED  BY <1>3, <2>3, <2>4, SamePlaces DEF AddRule
<1>4. QED  BY <1>2, <1>3

(* node() declares a child of the current node and moves the cursor to it. *)
LEMMA NodeStep ==
  ASSUME BInv, built = "no", NEW tag \in Tags, Node(tag)
  PROVE  BInv'
<1> DEFINE path  == declarations[Current].full_path
           d     == Declaration(tag, path, Current)
           n     == Len(declarations)
           k     == Len(parent_stack)
<1>1. /\ declarations \in Seq(Declarations) /\ Current \in DOMAIN declarations
      /\ n \in Nat /\ DOMAIN declarations = 1 .. n
      /\ \A i \in DOMAIN declarations : declarations[i] \in Declarations
      /\ parent_stack \in Seq(DOMAIN declarations)
      /\ k \in Nat \ {0} /\ DOMAIN parent_stack = 1 .. k
      /\ \A j \in DOMAIN parent_stack : parent_stack[j] \in DOMAIN declarations
      /\ Current = parent_stack[k]
  BY DeclarationFacts DEF BInv
<1>2. path \in Seq(Tags) /\ Append(path, tag) \in Seq(Tags)
  <2>1. path \in Seq(Tags)  BY <1>1 DEF Declarations
  <2>2. QED  BY <2>1, AppendProperties
<1>3. /\ d \in Declarations /\ d.tag = tag /\ d.full_path = Append(path, tag)
      /\ d.parent_index = Current
  <2>1. Current \in Nat /\ <<>> \in Seq(RuleNeeds)  BY <1>1, EmptySeq
  <2> HIDE DEF path
  <2>2. QED  BY <1>2, <2>1 DEF Declaration, Declarations
<1> HIDE DEF d, n, k
<1>4. /\ declarations' = Append(declarations, d)
      /\ parent_stack' = Append(parent_stack, n + 1)
      /\ UNCHANGED <<capture_memory_limit, built>>
  BY DEF Node, ChildIndex, d, n
<1>5. /\ declarations' \in Seq(Declarations) /\ DOMAIN declarations' = 1 .. n + 1
      /\ \A i \in 1 .. n : declarations'[i] = declarations[i]
      /\ declarations'[n + 1] = d
  <2>1. declarations' \in Seq(Declarations) /\ Len(declarations') = n + 1
    BY <1>1, <1>3, <1>4, AppendProperties DEF n
  <2>2. QED  BY <1>1, <1>3, <1>4, <2>1, AppendProperties, LenProperties DEF n
<1>6. DOMAIN declarations \subseteq DOMAIN declarations' /\ n + 1 \in DOMAIN declarations'
  BY <1>1, <1>5
<1>7. /\ parent_stack' \in Seq(DOMAIN declarations') /\ DOMAIN parent_stack' = 1 .. k + 1
      /\ \A j \in 1 .. k : parent_stack'[j] = parent_stack[j]
      /\ parent_stack'[k + 1] = n + 1 /\ parent_stack' # <<>>
  <2>1. parent_stack \in Seq(DOMAIN declarations')  BY <1>1, <1>6, SeqMonotonic
  <2>2. /\ parent_stack' \in Seq(DOMAIN declarations') /\ Len(parent_stack') = k + 1
        /\ \A j \in 1 .. k : parent_stack'[j] = parent_stack[j]
        /\ parent_stack'[k + 1] = n + 1
    BY <1>4, <1>6, <2>1, AppendProperties DEF k
  <2>3. Len(parent_stack') # 0  BY <1>1, <2>2
  <2>4. QED  BY <2>2, <2>3, LenProperties, EmptySeq
<1>8. TypeOK'  BY <1>4, <1>5, <1>7 DEF BInv, TypeOK, Declarations
<1>9. \A j \in 1 .. k : declarations'[parent_stack'[j]] = declarations[parent_stack[j]]
  BY <1>1, <1>5, <1>7
<1>10. path = [i \in 1 .. k |-> declarations[parent_stack[i]].tag]
  <2>1. k \in DOMAIN parent_stack /\ path = declarations[parent_stack[k]].full_path
    BY <1>1 DEF path
  <2>2. \A j \in DOMAIN parent_stack :
           declarations[parent_stack[j]].full_path
             = [i \in 1 .. j |-> declarations[parent_stack[i]].tag]
    BY DEF BInv, CursorIsPath
  <2> HIDE DEF path
  <2>3. QED  BY <2>1, <2>2
<1>11. ASSUME NEW j \in 1 .. k + 1
       PROVE  /\ declarations'[parent_stack'[j]].full_path
                   = [i \in 1 .. j |-> declarations'[parent_stack'[i]].tag]
              /\ j > 1 => declarations'[parent_stack'[j]].parent_index = parent_stack'[j - 1]
  <2>1. CASE j \in 1 .. k
    <3>1. \A i \in 1 .. j : i \in 1 .. k  BY <1>1, <2>1
    <3>2. [i \in 1 .. j |-> declarations'[parent_stack'[i]].tag]
            = [i \in 1 .. j |-> declarations[parent_stack[i]].tag]
      BY <1>9, <3>1
    <3>3. j > 1 => j - 1 \in 1 .. k  BY <1>1, <2>1
    <3>4. QED  BY <1>1, <1>7, <1>9, <2>1, <3>2, <3>3 DEF BInv, CursorIsPath
  <2>2. CASE j = k + 1
    <3>1. declarations'[parent_stack'[j]] = d  BY <1>5, <1>7, <2>2
    <3>2. k \in 1 .. k /\ j - 1 = k  BY <1>1, <2>2
    <3>3. d.parent_index = parent_stack'[j - 1]
      BY <1>1, <1>3, <1>7, <3>2
    <3>4. Append(path, tag) = [i \in 1 .. j |-> declarations'[parent_stack'[i]].tag]
      <4> DEFINE q == [i \in 1 .. j |-> declarations'[parent_stack'[i]].tag]
                 p == Append(path, tag)
      <4>1. /\ Len(path) = k /\ \A i \in 1 .. k : path[i] = declarations[parent_stack[i]].tag
        <5>1. DOMAIN path = 1 .. k /\ DOMAIN path = 1 .. Len(path) /\ Len(path) \in Nat
          BY <1>2, <1>10, LenProperties
        <5>2. Len(path) = k  BY <1>1, <5>1
        <5>3. QED  BY <1>10, <5>2
      <4>2. /\ p \in Seq(Tags) /\ Len(p) = k + 1 /\ p[k + 1] = tag
            /\ \A i \in 1 .. k : p[i] = path[i]
        BY <1>2, <4>1, AppendProperties
      <4>3. \A i \in 1 .. k + 1 : i \in 1 .. k \/ i = k + 1  BY <1>1
      <4>4. \A i \in 1 .. k + 1 : p[i] = declarations'[parent_stack'[i]].tag
        <5> HIDE DEF p, path
        <5>1. QED  BY <1>3, <1>9, <2>2, <3>1, <4>1, <4>2, <4>3
      <4>5. p = [i \in 1 .. k + 1 |-> p[i]]
        <5> HIDE DEF p
        <5>1. QED  BY <4>2, LenProperties
      <4> HIDE DEF p
      <4>6. p = q  BY <2>2, <4>4, <4>5
      <4>7. QED  BY <4>6 DEF p
    <3> HIDE DEF path
    <3>5. QED  BY <1>3, <3>1, <3>3, <3>4
  <2>3. QED  BY <1>1, <2>1, <2>2
<1>12. CursorIsPath'
  <2>1. parent_stack'[1] = Root
    <3>1. 1 \in 1 .. k  BY <1>1
    <3>2. QED  BY <1>7, <3>1 DEF BInv, CursorIsPath
  <2>2. QED  BY <1>7, <1>11, <2>1 DEF CursorIsPath
<1>13. ParentsFirst'
  <2>1. Root \in 1 .. n  BY <1>1 DEF BInv, ParentsFirst
  <2>2. ASSUME NEW i \in (1 .. n + 1) \ {Root}
        PROVE  /\ declarations'[i].parent_index \in 1 .. i - 1
               /\ declarations'[i].full_path
                    = Append(declarations'[declarations'[i].parent_index].full_path,
                             declarations'[i].tag)
    <3>1. CASE i \in 1 .. n
      <4>1. /\ declarations[i].parent_index \in 1 .. i - 1
            /\ declarations[i].full_path
                 = Append(declarations[declarations[i].parent_index].full_path,
                          declarations[i].tag)
        BY <1>1, <3>1 DEF BInv, ParentsFirst
      <4>2. declarations[i].parent_index \in 1 .. n  BY <1>1, <3>1, <4>1
      <4>3. QED  BY <1>5, <3>1, <4>1, <4>2
    <3>2. CASE i = n + 1
      <4>1. Current \in 1 .. i - 1 /\ Current \in 1 .. n  BY <1>1, <3>2
      <4>2. QED  BY <1>3, <1>5, <3>2, <4>1
    <3>3. QED  BY <1>1, <3>1, <3>2
  <2>3. QED  BY <1>5, <1>6, <2>1, <2>2 DEF BInv, ParentsFirst
<1>14. Verdict'  BY <1>4 DEF Verdict
<1>15. QED  BY <1>8, <1>12, <1>13, <1>14 DEF BInv
(* done() drops the last node of the cursor, never the root.               *)
LEMMA DoneStep ==
  ASSUME BInv, built = "no", Done
  PROVE  BInv'
<1> DEFINE k == Len(parent_stack)
<1>1. /\ parent_stack \in Seq(DOMAIN declarations)
      /\ k \in Nat \ {0} /\ DOMAIN parent_stack = 1 .. k
  BY DeclarationFacts DEF BInv
<1>2. /\ parent_stack' = Front(parent_stack) /\ k # 1
      /\ UNCHANGED <<declarations, capture_memory_limit, built>>
  BY DEF Done, AtRoot
<1>3. /\ Front(parent_stack) \in Seq(DOMAIN declarations)
      /\ Len(Front(parent_stack)) = k - 1
      /\ \A i \in 1 .. k - 1 : Front(parent_stack)[i] = parent_stack[i]
  <2>1. parent_stack # <<>>  BY <1>1, EmptySeq
  <2>2. QED  BY <1>1, <2>1, FrontLast
<1> HIDE DEF k
<1>4. /\ parent_stack' \in Seq(DOMAIN declarations)
      /\ DOMAIN parent_stack' = 1 .. k - 1
      /\ \A i \in 1 .. k - 1 : parent_stack'[i] = parent_stack[i]
      /\ parent_stack' # <<>>
  <2>1. Len(parent_stack') # 0  BY <1>1, <1>2, <1>3
  <2>2. QED  BY <1>2, <1>3, <2>1, LenProperties, EmptySeq
<1>5. TypeOK'  BY <1>2, <1>4 DEF BInv, TypeOK
<1>6. ASSUME NEW j \in 1 .. k - 1
      PROVE  /\ declarations[parent_stack'[j]].full_path
                  = [i \in 1 .. j |-> declarations[parent_stack'[i]].tag]
             /\ j > 1 => declarations[parent_stack'[j]].parent_index = parent_stack'[j - 1]
  <2>1. j \in DOMAIN parent_stack /\ \A i \in 1 .. j : i \in 1 .. k - 1
    BY <1>1
  <2>2. [i \in 1 .. j |-> declarations[parent_stack'[i]].tag]
          = [i \in 1 .. j |-> declarations[parent_stack[i]].tag]
    BY <1>4, <2>1
  <2>3. j > 1 => j - 1 \in 1 .. k - 1  BY <1>1
  <2>4. /\ declarations[parent_stack[j]].full_path
             = [i \in 1 .. j |-> declarations[parent_stack[i]].tag]
        /\ j > 1 => declarations[parent_stack[j]].parent_index = parent_stack[j - 1]
    BY <2>1 DEF BInv, CursorIsPath
  <2>5. QED  BY <1>4, <2>2, <2>3, <2>4
<1>7. CursorIsPath'
  <2>1. parent_stack'[1] = Root
    <3>1. 1 \in 1 .. k - 1  BY <1>1, <1>2 DEF k
    <3>2. QED  BY <1>4, <3>1 DEF BInv, CursorIsPath
  <2>2. QED  BY <1>2, <1>4, <1>6, <2>1 DEF CursorIsPath
<1>8. ParentsFirst' /\ Verdict'  BY <1>2 DEF BInv, ParentsFirst, Verdict
<1>9. QED  BY <1>5, <1>7, <1>8 DEF BInv

(* What build() can return.                                                *)
LEMMA BuildErrorNames ==
  ASSUME declarations # <<>>
  PROVE  BuildError(declarations)
           \in {"none", "DuplicatePath", "IncompatibleAccessMode", "NestedCapture"}
BY DEF BuildError

(* Every call of a chain keeps the invariant.                              *)
LEMMA BInvStep == BInv /\ [Next]_vars => BInv'
<1> SUFFICES ASSUME BInv, [Next]_vars PROVE BInv'
  OBVIOUS
<1>1. ASSUME UNCHANGED vars PROVE BInv'
  BY <1>1 DEF BInv, TypeOK, CursorIsPath, ParentsFirst, Verdict, vars
<1>2. ASSUME built = "no",
             \/ \E capture \in BOOLEAN : AccessMode(capture)
             \/ \E needs \in RuleNeeds : AddRule(needs)
      PROVE BInv'
  BY <1>2, SamePlacesSteps
<1>3. ASSUME built = "no", NEW tag \in Tags, Node(tag) PROVE BInv'
  BY <1>3, NodeStep
<1>4. ASSUME built = "no", Done PROVE BInv'
  BY <1>4, DoneStep
<1>5. ASSUME built = "no", DoneOnRoot PROVE BInv'
  BY <1>5 DEF BInv, TypeOK, CursorIsPath, ParentsFirst, Verdict, DoneOnRoot
<1>6. ASSUME built = "no", NEW bytes \in Limits, CaptureLimit(bytes) PROVE BInv'
  <2>1. bytes \in Nat  BY LimitsAssumption
  <2>2. QED
    BY <1>6, <2>1 DEF BInv, TypeOK, CursorIsPath, ParentsFirst, Verdict, CaptureLimit
<1>7. ASSUME built = "no", BuildTree PROVE BInv'
  <2>1. TypeOK'
    <3>1. declarations # <<>>  BY DEF BInv, ParentsFirst
    <3>2. QED  BY <1>7, <3>1, BuildErrorNames DEF BInv, TypeOK, BuildTree
  <2>2. Verdict'  BY <1>7 DEF Verdict, BuildTree
  <2>3. CursorIsPath' /\ ParentsFirst'
    BY <1>7 DEF BInv, CursorIsPath, ParentsFirst, BuildTree
  <2>4. QED  BY <2>1, <2>2, <2>3 DEF BInv
<1>8. QED
  BY <1>1, <1>2, <1>3, <1>4, <1>5, <1>6, <1>7 DEF Next, Consumed

LEMMA AlwaysBInv == Spec => []BInv
<1>1. QED  BY InitBInv, BInvStep, PTL DEF Spec
(* The type of the builder's state, of the whole chain.                    *)
THEOREM TypeCorrect == Spec => []TypeOK
<1>1. BInv => TypeOK  BY DEF BInv
<1>2. QED  BY <1>1, AlwaysBInv, PTL

(* Wherever node() and done() moved the cursor, it is the path to the      *)
(* current node.                                                           *)
THEOREM CursorFollows == Spec => []CursorIsPath
<1>1. BInv => CursorIsPath  BY DEF BInv
<1>2. QED  BY <1>1, AlwaysBInv, PTL

-----------------------------------------------------------------------------
(* The ancestors of a declaration: the walk along parent_index follows     *)
(* lower and lower numbers, so the function that collects them exists.     *)
LEMMA AncestorsDefined ==
  ASSUME NEW decls, NEW n \in Nat, n = Len(decls),
         \A i \in 1 .. n : \/ decls[i].parent_index = NoNode
                           \/ decls[i].parent_index \in 1 .. i - 1
  PROVE  LET Above == ProperAncestors(decls)
         IN \A i \in 0 .. n :
              Above[i] = IF i = NoNode \/ decls[i].parent_index = NoNode THEN {}
                         ELSE {decls[i].parent_index} \cup Above[decls[i].parent_index]
<1> DEFINE Step(g, i) ==
             IF i = NoNode \/ decls[i].parent_index = NoNode THEN {}
             ELSE {decls[i].parent_index} \cup g[decls[i].parent_index]
           T == {m \in Nat : m <= n => \E g : g = [i \in 0 .. m |-> Step(g, i)]}
<1>1. 0 \in T
  <2>1. [i \in {0} |-> {}] = [i \in 0 .. 0 |-> Step([j \in {0} |-> {}], i)]
    BY DEF NoNode
  <2>2. QED  BY <2>1
<1>2. ASSUME NEW m \in Nat, m \in T
      PROVE  m + 1 \in T
  <2> SUFFICES ASSUME m + 1 <= n
               PROVE  \E h : h = [i \in 0 .. m + 1 |-> Step(h, i)]
    OBVIOUS
  <2>1. m <= n  OBVIOUS
  <2>2. PICK g : g = [i \in 0 .. m |-> Step(g, i)]
    BY <1>2, <2>1
  <2> DEFINE h == [i \in 0 .. m + 1 |-> IF i <= m THEN g[i] ELSE Step(g, m + 1)]
  <2>3. ASSUME NEW i \in 0 .. m + 1
        PROVE  Step(h, i) = Step(g, i)
    <3>1. CASE i = NoNode \/ decls[i].parent_index = NoNode  BY <3>1
    <3>2. CASE i # NoNode /\ decls[i].parent_index # NoNode
      <4>1. i \in 1 .. n  BY <3>2 DEF NoNode
      <4>2. decls[i].parent_index \in 1 .. i - 1  BY <3>2, <4>1
      <4>3. decls[i].parent_index \in 0 .. m + 1 /\ decls[i].parent_index <= m
        BY <4>2
      <4>4. h[decls[i].parent_index] = g[decls[i].parent_index]  BY <4>3
      <4> HIDE DEF h
      <4>5. QED  BY <4>4
    <3>3. QED  BY <3>1, <3>2
  <2>4. ASSUME NEW i \in 0 .. m + 1
        PROVE  h[i] = Step(h, i)
    <3> HIDE DEF Step
    <3>1. CASE i <= m
      <4>1. i \in 0 .. m  BY <3>1
      <4>2. g[i] = Step(g, i)  BY <2>2, <4>1
      <4>3. QED  BY <2>3, <3>1, <4>2
    <3>2. CASE ~(i <= m)
      <4>1. i = m + 1  BY <3>2
      <4>2. QED  BY <2>3, <3>2, <4>1
    <3>3. QED  BY <3>1, <3>2
  <2>5. h = [i \in 0 .. m + 1 |-> h[i]]  OBVIOUS
  <2> HIDE DEF h, Step
  <2>6. h = [i \in 0 .. m + 1 |-> Step(h, i)]  BY <2>4, <2>5
  <2>7. QED  BY <2>6
<1>3. Nat \subseteq T
  <2> HIDE DEF T
  <2>1. QED  BY <1>1, <1>2, NaturalsByInduction
<1>4. n \in T  BY <1>3
<1>5. PICK g : g = [i \in 0 .. n |-> Step(g, i)]
  BY <1>4
<1>6. ProperAncestors(decls) = CHOOSE f : f = [i \in 0 .. n |-> Step(f, i)]
  BY DEF ProperAncestors
<1> HIDE DEF Step
<1>7. ProperAncestors(decls) = [i \in 0 .. n |-> Step(ProperAncestors(decls), i)]
  BY <1>5, <1>6
<1>8. QED  BY <1>7 DEF Step
(* The strict prefixes of an extended path are the prefixes of the path.   *)
LEMMA StrictPrefixOfAppend ==
  ASSUME NEW S, NEW s \in Seq(S), NEW t \in Seq(S), NEW e \in S
  PROVE  IsStrictPrefix(s, Append(t, e)) <=> s = t \/ IsStrictPrefix(s, t)
<1> DEFINE u == Append(t, e)
           m == Len(s)
           n == Len(t)
<1>1. /\ m \in Nat /\ n \in Nat
      /\ u \in Seq(S) /\ Len(u) = n + 1
      /\ \A i \in 1 .. n : u[i] = t[i]
  BY LenProperties, AppendProperties
<1>2. ASSUME NEW w \in Seq(S)
      PROVE  IsPrefix(s, w) <=> m <= Len(w) /\ \A i \in 1 .. m : s[i] = w[i]
  BY <1>2, PrefixElements
<1> HIDE DEF u, m, n
<1>3. IsPrefix(s, u) /\ s # u <=> IsPrefix(s, t)
  <2>1. CASE m <= n
    <3>1. \A i \in 1 .. m : i \in 1 .. n /\ u[i] = t[i]  BY <1>1, <2>1
    <3>2. s # u  BY <1>1, <2>1 DEF m
    <3>3. m <= Len(u) /\ m <= Len(t)  BY <1>1, <2>1 DEF n
    <3>4. QED  BY <1>1, <1>2, <3>1, <3>2, <3>3
  <2>2. CASE m = n + 1
    <3>1. ~(m <= Len(t)) /\ m <= Len(u)  BY <1>1, <2>2 DEF n
    <3>2. IsPrefix(s, u) => s = u
      <4> SUFFICES ASSUME IsPrefix(s, u) PROVE s = u
        OBVIOUS
      <4>1. Len(s) = Len(u) /\ \A i \in 1 .. Len(s) : s[i] = u[i]
        BY <1>1, <1>2, <2>2 DEF m
      <4>2. QED  BY <1>1, <4>1, SeqEqual
    <3>3. QED  BY <1>2, <3>1, <3>2
  <2>3. CASE ~(m <= n + 1)
    <3>1. ~(m <= Len(t)) /\ ~(m <= Len(u))  BY <1>1, <2>3 DEF n
    <3>2. QED  BY <1>1, <1>2, <3>1
  <2>4. QED  BY <1>1, <2>1, <2>2, <2>3
<1>4. IsPrefix(t, t)
  <2>1. n <= Len(t)  BY <1>1 DEF n
  <2>2. QED  BY <2>1, PrefixElements DEF n
<1>5. QED  BY <1>3, <1>4 DEF IsStrictPrefix, u
(* A declared path is not empty, and what follows the root is its parent's *)
(* path with the tag added.                                                *)
LEMMA PathFacts ==
  ASSUME BInv, NEW i \in DOMAIN declarations
  PROVE  /\ i \in Nat /\ declarations[i].tag \in Tags
         /\ declarations[i].full_path \in Seq(Tags) \ {<<>>}
         /\ i = Root => /\ declarations[i].parent_index = NoNode
                        /\ declarations[i].full_path = Append(<<>>, declarations[i].tag)
         /\ i # Root => /\ declarations[i].parent_index \in DOMAIN declarations
                        /\ declarations[i].parent_index \in 1 .. i - 1
                        /\ declarations[i].full_path
                             = Append(declarations[declarations[i].parent_index].full_path,
                                      declarations[i].tag)
<1>1. /\ Len(declarations) \in Nat /\ DOMAIN declarations = 1 .. Len(declarations)
      /\ \A j \in DOMAIN declarations : declarations[j] \in Declarations
  BY DeclarationFacts DEF BInv
<1>2. /\ i \in Nat /\ declarations[i].tag \in Tags
      /\ declarations[i].full_path \in Seq(Tags)
  BY <1>1 DEF Declarations
<1>3. ASSUME i = Root
      PROVE  /\ declarations[i].parent_index = NoNode
             /\ declarations[i].full_path = Append(<<>>, declarations[i].tag)
             /\ declarations[i].full_path # <<>>
  BY <1>3 DEF BInv, ParentsFirst
<1>4. ASSUME i # Root
      PROVE  /\ declarations[i].parent_index \in DOMAIN declarations
             /\ declarations[i].parent_index \in 1 .. i - 1
             /\ declarations[i].full_path
                  = Append(declarations[declarations[i].parent_index].full_path,
                           declarations[i].tag)
             /\ declarations[i].full_path # <<>>
  <2>1. /\ declarations[i].parent_index \in 1 .. i - 1
        /\ declarations[i].full_path
             = Append(declarations[declarations[i].parent_index].full_path,
                      declarations[i].tag)
    BY <1>4 DEF BInv, ParentsFirst
  <2>2. declarations[i].parent_index \in DOMAIN declarations  BY <1>1, <2>1
  <2>3. declarations[declarations[i].parent_index].full_path \in Seq(Tags)
    BY <1>1, <2>2 DEF Declarations
  <2> DEFINE p == declarations[declarations[i].parent_index].full_path
  <2>4. Len(Append(p, declarations[i].tag)) # 0
    <3> HIDE DEF p
    <3>1. p \in Seq(Tags)  BY <2>3 DEF p
    <3>2. QED  BY <1>2, <3>1, AppendProperties, LenProperties
  <2> HIDE DEF p
  <2>5. Append(p, declarations[i].tag) # <<>>  BY <2>4
  <2>6. QED  BY <2>1, <2>2, <2>5 DEF p
<1>5. QED  BY <1>2, <1>3, <1>4

(* The declarations above another one are at the strict prefixes of its    *)
(* path, and have a child; if no path is declared twice, they are all the  *)
(* declarations at its strict prefixes.                                    *)
LEMMA AncestorsByPath ==
  ASSUME BInv, NEW i \in DOMAIN declarations
  PROVE  /\ \A a \in ProperAncestors(declarations)[i] :
              /\ a \in DOMAIN declarations /\ HasDeclaredChild(declarations, a)
              /\ IsStrictPrefix(declarations[a].full_path, declarations[i].full_path)
         /\ ~HasDuplicatePath(declarations) =>
              \A a \in DOMAIN declarations :
                 IsStrictPrefix(declarations[a].full_path, declarations[i].full_path)
                   => a \in ProperAncestors(declarations)[i]
<1> DEFINE n == Len(declarations)
           Above == ProperAncestors(declarations)
           Path(j) == declarations[j].full_path
           Sound(j) == \A a \in Above[j] :
                          /\ a \in DOMAIN declarations /\ HasDeclaredChild(declarations, a)
                          /\ IsStrictPrefix(Path(a), Path(j))
           Complete(j) == ~HasDuplicatePath(declarations) =>
                             \A a \in DOMAIN declarations :
                                IsStrictPrefix(Path(a), Path(j)) => a \in Above[j]
           T == {m \in Nat : \A j \in DOMAIN declarations :
                                j <= m => Sound(j) /\ Complete(j)}
<1>1. n \in Nat /\ DOMAIN declarations = 1 .. n
  BY DeclarationFacts DEF BInv
<1>2. \A j \in 1 .. n :
         Above[j] = IF declarations[j].parent_index = NoNode THEN {}
                    ELSE {declarations[j].parent_index} \cup Above[declarations[j].parent_index]
  <2>1. \A j \in 1 .. n : \/ declarations[j].parent_index = NoNode
                         \/ declarations[j].parent_index \in 1 .. j - 1
    BY <1>1, PathFacts
  <2>2. \A j \in 0 .. n :
           Above[j] = IF j = NoNode \/ declarations[j].parent_index = NoNode THEN {}
                      ELSE {declarations[j].parent_index}
                             \cup Above[declarations[j].parent_index]
    BY <1>1, <2>1, AncestorsDefined
  <2> HIDE DEF Above
  <2>3. \A j \in 1 .. n : j \in 0 .. n /\ j # NoNode  BY <1>1 DEF NoNode
  <2>4. QED  BY <2>2, <2>3
<1> HIDE DEF n, Above
<1>3. 0 \in T  BY <1>1
<1>4. ASSUME NEW m \in Nat, m \in T
      PROVE  m + 1 \in T
  <2> SUFFICES ASSUME NEW j \in DOMAIN declarations, j <= m + 1
               PROVE  Sound(j) /\ Complete(j)
    OBVIOUS
  <2>1. CASE j = Root
    <3>1. Above[j] = {} /\ Path(j) = Append(<<>>, declarations[j].tag)
      BY <1>1, <1>2, <2>1, PathFacts
    <3>2. ASSUME NEW a \in DOMAIN declarations
          PROVE  ~IsStrictPrefix(Path(a), Path(j))
      <4>1. Path(a) \in Seq(Tags) \ {<<>>} /\ declarations[j].tag \in Tags
        BY PathFacts
      <4>2. ~IsStrictPrefix(Path(a), <<>>)
        <5> SUFFICES ASSUME IsPrefix(Path(a), <<>>) PROVE FALSE
          BY DEF IsStrictPrefix
        <5>1. Len(Path(a)) <= 0  BY DEF IsPrefix
        <5>2. Len(Path(a)) = 0  BY <4>1, <5>1, LenProperties
        <5>3. QED  BY <4>1, <5>2, EmptySeq
      <4>3. <<>> \in Seq(Tags)  BY EmptySeq
      <4> DEFINE path == Path(a)
                 tag  == declarations[j].tag
      <4>4. Path(j) = Append(<<>>, tag)  BY <3>1
      <4>5. ~IsStrictPrefix(path, Append(<<>>, tag))
        <5>1. path \in Seq(Tags) /\ path # <<>> /\ tag \in Tags
              /\ ~IsStrictPrefix(path, <<>>)
          BY <4>1, <4>2
        <5> HIDE DEF path, tag
        <5>2. QED  BY <4>3, <5>1, StrictPrefixOfAppend
      <4>6. QED  BY <4>4, <4>5
    <3>3. QED  BY <3>1, <3>2
  <2>2. CASE j # Root
    <3> DEFINE p == declarations[j].parent_index
    <3>1. /\ p \in DOMAIN declarations /\ p \in 1 .. j - 1 /\ j \in Nat
          /\ Path(j) = Append(Path(p), declarations[j].tag)
          /\ declarations[j].tag \in Tags /\ Path(p) \in Seq(Tags)
      BY <2>2, PathFacts
    <3>2. HasDeclaredChild(declarations, p)  BY DEF HasDeclaredChild
    <3>3. p # NoNode /\ p <= m  BY <3>1 DEF NoNode
    <3>4. Above[j] = {p} \cup Above[p]  BY <1>1, <1>2, <3>3
    <3> HIDE DEF p
    <3>5. Sound(p) /\ Complete(p)  BY <1>4, <3>1, <3>3
    <3>6. ASSUME NEW a \in DOMAIN declarations
          PROVE  IsStrictPrefix(Path(a), Path(j))
                   <=> Path(a) = Path(p) \/ IsStrictPrefix(Path(a), Path(p))
      <4>1. Path(a) \in Seq(Tags)  BY PathFacts
      <4> HIDE DEF Path
      <4>2. QED  BY <3>1, <4>1, StrictPrefixOfAppend
    <3>7. Sound(j)
      <4> HIDE DEF Path
      <4>1. QED  BY <3>1, <3>2, <3>4, <3>5, <3>6
    <3>8. ASSUME ~HasDuplicatePath(declarations), NEW a \in DOMAIN declarations,
                 Path(a) = Path(p)
          PROVE  a = p
      <4>1. ~(a < p) /\ ~(p < a)  BY <3>1, <3>8 DEF HasDuplicatePath
      <4>2. a \in Nat /\ p \in Nat  BY <3>1, PathFacts
      <4>3. QED  BY <4>1, <4>2
    <3>9. Complete(j)
      <4> HIDE DEF Path
      <4>1. QED  BY <3>4, <3>5, <3>6, <3>8
    <3>10. QED  BY <3>7, <3>9
  <2>3. QED  BY <2>1, <2>2
<1>5. Nat \subseteq T
  <2> HIDE DEF T
  <2>1. QED  BY <1>3, <1>4, NaturalsByInduction
<1>6. i \in T /\ i <= i  BY <1>1, <1>5
<1>7. Sound(i) /\ Complete(i)  BY <1>6
<1>8. QED  BY <1>7 DEF Above

(* There are fewer paths than declarations exactly when two declarations   *)
(* have the same.                                                          *)
LEMMA DuplicatesCounted ==
  ASSUME BInv
  PROVE  HasDuplicatePath(declarations) <=> Cardinality(Paths) < Len(declarations)
<1> DEFINE n == Len(declarations)
           S == 1 .. n
           f == [i \in S |-> declarations[i].full_path]
<1>1. n \in Nat /\ DOMAIN declarations = S
  BY DeclarationFacts DEF BInv
<1>2. IsFiniteSet(S) /\ Cardinality(S) = n
  <2>1. 1 \in Int /\ n \in Int /\ (IF 1 > n THEN 0 ELSE n - 1 + 1) = n  BY <1>1
  <2> HIDE DEF n
  <2>2. QED  BY <2>1, FS_Interval
<1>3. f \in Surjection(S, Paths)
  BY <1>1 DEF Surjection, Paths
<1>4. /\ IsFiniteSet(Paths) /\ Cardinality(Paths) <= n
      /\ Cardinality(Paths) = n <=> f \in Injection(S, Paths)
  <2> HIDE DEF f, S
  <2>1. QED  BY <1>2, <1>3, FS_Surjection
<1>5. Cardinality(Paths) \in Nat  BY <1>4, FS_CardinalityType
<1>6. f \in [S -> Paths] /\ \A i \in S : f[i] = declarations[i].full_path
  BY <1>3 DEF Surjection
<1>7. f \in Injection(S, Paths)
        <=> \A i, j \in S : declarations[i].full_path = declarations[j].full_path => i = j
  <2> HIDE DEF f, S
  <2>1. QED  BY <1>6 DEF Injection, IsInjective
<1>8. HasDuplicatePath(declarations)
        <=> ~\A i, j \in S : declarations[i].full_path = declarations[j].full_path => i = j
  <2>1. \A i, j \in S : i < j \/ j < i \/ i = j  BY <1>1
  <2>2. \A i, j \in S : i < j => i # j  BY <1>1
  <2> HIDE DEF S
  <2>3. QED  BY <1>1, <2>1, <2>2 DEF HasDuplicatePath
<1> HIDE DEF f, n, S
<1>9. QED  BY <1>1, <1>4, <1>5, <1>7, <1>8 DEF n

(* The verdict of build() is what the paths say.                           *)
LEMMA VerdictByPath == BInv => Accepts
<1> SUFFICES ASSUME BInv, built \notin {"no", "panic"}
             PROVE  LET repeated == Cardinality(Paths) < Len(declarations)
                    IN /\ built = "DuplicatePath" <=> repeated
                       /\ built = "IncompatibleAccessMode" <=> ~repeated /\ RuleWithoutCapture
                       /\ built = "NestedCapture"
                            <=> ~repeated /\ ~RuleWithoutCapture /\ CaptureInCapture
                       /\ built = "tree"
                            <=> ~repeated /\ ~RuleWithoutCapture /\ ~CaptureInCapture
  BY DEF Accepts
<1> DEFINE repeated == Cardinality(Paths) < Len(declarations)
<1>1. declarations # <<>>  BY DEF BInv, ParentsFirst
<1>2. built = IF BuildError(declarations) = "none" THEN "tree" ELSE BuildError(declarations)
  BY DEF BInv, Verdict
<1>3. HasDuplicatePath(declarations) <=> repeated  BY DuplicatesCounted
<1>4. ASSUME HasNestedCapture(declarations) PROVE CaptureInCapture
  <2>2. PICK i \in DOMAIN declarations :
          /\ declarations[i].is_capture
          /\ \E a \in ProperAncestors(declarations)[i] : declarations[a].is_capture
    BY <1>4 DEF HasNestedCapture
  <2>3. PICK a \in ProperAncestors(declarations)[i] : declarations[a].is_capture
    BY <2>2
  <2>4. /\ a \in DOMAIN declarations
        /\ IsStrictPrefix(declarations[a].full_path, declarations[i].full_path)
    BY <2>3, AncestorsByPath
  <2>5. QED  BY <2>2, <2>3, <2>4 DEF CaptureInCapture
<1>5. ASSUME ~HasDuplicatePath(declarations), CaptureInCapture
      PROVE  HasNestedCapture(declarations)
  <2>2. PICK i, j \in DOMAIN declarations :
          /\ declarations[i].is_capture /\ declarations[j].is_capture
          /\ IsStrictPrefix(declarations[i].full_path, declarations[j].full_path)
    BY <1>5 DEF CaptureInCapture
  <2>3. i \in ProperAncestors(declarations)[j]
    BY <1>5, <2>2, AncestorsByPath
  <2>4. QED  BY <2>2, <2>3 DEF HasNestedCapture
<1>6. ASSUME RuleWithoutCapture PROVE HasIncompatibleRule(declarations)
  BY <1>6 DEF RuleWithoutCapture, HasIncompatibleRule, IsCapture
<1>7. ASSUME ~HasDuplicatePath(declarations), HasIncompatibleRule(declarations)
      PROVE  RuleWithoutCapture
  <2>1. PICK i \in DOMAIN declarations :
          /\ ~declarations[i].is_capture
          /\ \E r \in DOMAIN declarations[i].rules : "CAPTURE" \in declarations[i].rules[r]
    BY <1>7 DEF HasIncompatibleRule, IsCapture
  <2>2. ASSUME NEW j \in DOMAIN declarations, declarations[j].is_capture
        PROVE  declarations[j].full_path # declarations[i].full_path
    <3>1. i \in Nat /\ j \in Nat /\ i # j  BY <2>1, <2>2, PathFacts
    <3>2. i < j \/ j < i  BY <3>1
    <3>3. QED  BY <1>7, <3>2 DEF HasDuplicatePath
  <2>3. QED  BY <2>1, <2>2 DEF RuleWithoutCapture
<1> HIDE DEF repeated
<1>8. /\ built = "DuplicatePath" <=> HasDuplicatePath(declarations)
      /\ built = "IncompatibleAccessMode"
           <=> ~HasDuplicatePath(declarations) /\ HasIncompatibleRule(declarations)
      /\ built = "NestedCapture"
           <=> /\ ~HasDuplicatePath(declarations) /\ ~HasIncompatibleRule(declarations)
               /\ HasNestedCapture(declarations)
      /\ built = "tree"
           <=> /\ ~HasDuplicatePath(declarations) /\ ~HasIncompatibleRule(declarations)
               /\ ~HasNestedCapture(declarations)
  BY <1>1, <1>2 DEF BuildError
<1>9. QED  BY <1>3, <1>4, <1>5, <1>6, <1>7, <1>8 DEF repeated

(* build() returns an error exactly when a declared path occurs twice, a   *)
(* rule needs the subtree of a node that is not captured, or a capture is  *)
(* inside a capture, however deep: each with the error of its name, the    *)
(* first of these that applies.                                            *)
THEOREM Accepted == Spec => []Accepts
<1>1. QED  BY VerdictByPath, AlwaysBInv, PTL

(* A tree keeps, at every node, all that its rules, the rules below it and *)
(* the rules of its parent read.                                           *)
LEMMA NeedsOfTree == BInv => NeedsCovered
<1> SUFFICES ASSUME BInv, built = "tree", NEW n \in NodeIds(Tree)
             PROVE  LET node == Tree.nodes[n]
                    IN /\ \A r \in DOMAIN node.rules : node.rules[r] \subseteq node.needs
                       /\ "CAPTURE" \in node.needs <=> declarations[n].is_capture
                       /\ \A m \in NodeIds(Tree) :
                            IsStrictPrefix(node.full_path, Tree.nodes[m].full_path)
                              => {"ATTRS", "TEXT"} \subseteq node.needs
                       /\ \A m \in NodeIds(Tree) :
                            /\ Tree.nodes[m].full_path = Front(node.full_path)
                            /\ \E r \in DOMAIN Tree.nodes[m].rules :
                                 "CHILDREN" \in Tree.nodes[m].rules[r]
                            => node.summary_needs = AllNeeds
  BY DEF NeedsCovered
<1>1. /\ NodeIds(Tree) = DOMAIN declarations
      /\ \A m \in DOMAIN declarations :
            /\ Tree.nodes[m].full_path = declarations[m].full_path
            /\ Tree.nodes[m].rules = declarations[m].rules
            /\ Tree.nodes[m].needs = Needs(declarations, m)
            /\ Tree.nodes[m].summary_needs = SummaryNeeds(declarations, m)
  BY DEF NodeIds, Tree, Build
<1>2. declarations # <<>>  BY DEF BInv, ParentsFirst
<1>3. BuildError(declarations) = "none"
  BY <1>2, BuildErrorNames DEF BInv, Verdict
<1>4. ~HasDuplicatePath(declarations) /\ ~HasIncompatibleRule(declarations)
  BY <1>2, <1>3 DEF BuildError
<1>5. \A m \in DOMAIN declarations : \A r \in DOMAIN declarations[m].rules :
         declarations[m].rules[r] \subseteq Needs(declarations, m)
  BY DEF Needs
<1>6. "CAPTURE" \in Needs(declarations, n) <=> declarations[n].is_capture
  BY <1>1, <1>4 DEF Needs, HasIncompatibleRule, IsCapture
<1>7. ASSUME NEW m \in DOMAIN declarations,
             IsStrictPrefix(declarations[n].full_path, declarations[m].full_path)
      PROVE  {"ATTRS", "TEXT"} \subseteq Needs(declarations, n)
  <2>1. n \in ProperAncestors(declarations)[m]  BY <1>1, <1>4, <1>7, AncestorsByPath
  <2>2. HasDeclaredChild(declarations, n)  BY <2>1, AncestorsByPath
  <2>3. QED  BY <2>2 DEF Needs
<1>8. ASSUME NEW m \in DOMAIN declarations, NEW r \in DOMAIN declarations[m].rules,
             declarations[m].full_path = Front(declarations[n].full_path),
             "CHILDREN" \in declarations[m].rules[r]
      PROVE  SummaryNeeds(declarations, n) = AllNeeds
  <2>1. declarations[m].full_path \in Seq(Tags) \ {<<>>} /\ declarations[n].tag \in Tags
    BY <1>1, PathFacts
  <2>2. n # Root
    <3>1. Front(Append(<<>>, declarations[n].tag)) = <<>>
      BY <2>1, EmptySeq, FrontOfAppend
    <3>2. QED  BY <1>1, <1>8, <2>1, <3>1, PathFacts
  <2> DEFINE p == declarations[n].parent_index
  <2>3. /\ p \in DOMAIN declarations
        /\ declarations[n].full_path = Append(declarations[p].full_path, declarations[n].tag)
    BY <1>1, <2>2, PathFacts
  <2>4. /\ declarations[p].full_path \in Seq(Tags) /\ m \in Nat /\ p \in Nat /\ p # NoNode
    <3> HIDE DEF p
    <3>1. p \in 1 .. Len(declarations)  BY <2>3, DeclarationFacts DEF BInv
    <3>2. QED  BY <2>3, <3>1, PathFacts DEF NoNode
  <2>5. declarations[m].full_path = declarations[p].full_path
    <3> HIDE DEF p
    <3>1. QED  BY <1>8, <2>1, <2>3, <2>4, FrontOfAppend
  <2> HIDE DEF p
  <2>6. m = p
    <3>1. ~(m < p) /\ ~(p < m)  BY <1>4, <2>3, <2>5 DEF HasDuplicatePath
    <3>2. QED  BY <2>4, <3>1
  <2>7. "CHILDREN" \in Needs(declarations, p)  BY <1>5, <1>8, <2>6
  <2>8. QED  BY <2>4, <2>7 DEF SummaryNeeds, p
<1>9. QED  BY <1>1, <1>5, <1>6, <1>7, <1>8

(* Nothing a rule asks for is left out of what the parser keeps.           *)
THEOREM AllNeedsCovered == Spec => []NeedsCovered
<1>1. QED  BY NeedsOfTree, AlwaysBInv, PTL
(* The nodes of the tree are the declarations, with what they need.        *)
LEMMA NodesOfTree ==
  ASSUME BInv
  PROVE  /\ NodeIds(Tree) = DOMAIN declarations
         /\ \A n \in DOMAIN declarations :
              /\ Tree.nodes[n].tag = declarations[n].tag
              /\ Tree.nodes[n].full_path = declarations[n].full_path
              /\ Tree.nodes[n].rules = declarations[n].rules
              /\ Tree.nodes[n].parent_id = declarations[n].parent_index
              /\ Tree.nodes[n].needs = Needs(declarations, n)
              /\ Tree.nodes[n].summary_needs = SummaryNeeds(declarations, n)
BY DEF NodeIds, Tree, Build

(* Every declared path is made of declared tags.                           *)
LEMMA PathsOfDeclaredTags ==
  ASSUME BInv, NEW n \in DOMAIN declarations
  PROVE  declarations[n].full_path \in Seq({declarations[i].tag : i \in DOMAIN declarations})
<1> DEFINE tags == {declarations[i].tag : i \in DOMAIN declarations}
           T == {m \in Nat : \A i \in DOMAIN declarations :
                                i <= m => declarations[i].full_path \in Seq(tags)}
<1>1. 0 \in T
  <2>1. \A i \in DOMAIN declarations : ~(i <= 0)  BY DeclarationFacts DEF BInv
  <2>2. QED  BY <2>1
<1>2. ASSUME NEW m \in Nat, m \in T
      PROVE  m + 1 \in T
  <2> SUFFICES ASSUME NEW i \in DOMAIN declarations, i <= m + 1
               PROVE  declarations[i].full_path \in Seq(tags)
    OBVIOUS
  <2>1. declarations[i].tag \in tags  OBVIOUS
  <2>2. CASE i = Root
    <3>1. declarations[i].full_path = Append(<<>>, declarations[i].tag)
      BY <2>2, PathFacts
    <3> HIDE DEF tags
    <3>2. <<>> \in Seq(tags)  BY EmptySeq
    <3>3. QED  BY <2>1, <3>1, <3>2, AppendProperties
  <2>3. CASE i # Root
    <3> DEFINE p == declarations[i].parent_index
    <3>1. /\ p \in DOMAIN declarations /\ p \in 1 .. i - 1 /\ i \in Nat
          /\ declarations[i].full_path = Append(declarations[p].full_path, declarations[i].tag)
      BY <2>3, PathFacts
    <3>2. declarations[p].full_path \in Seq(tags)
      <4>1. p <= m  BY <3>1
      <4> HIDE DEF p, tags
      <4>2. QED  BY <1>2, <3>1, <4>1
    <3> HIDE DEF p, tags
    <3>3. QED  BY <2>1, <3>1, <3>2, AppendProperties
  <2>4. QED  BY <2>2, <2>3
<1>3. Nat \subseteq T
  <2> HIDE DEF T
  <2>1. QED  BY <1>1, <1>2, NaturalsByInduction
<1>4. n \in T /\ n <= n  BY <1>3, PathFacts
<1>5. QED  BY <1>4

(* Two declarations at one path are one, once build() returned a tree.     *)
LEMMA PathsDistinct ==
  ASSUME BInv, built = "tree", NEW m \in DOMAIN declarations, NEW n \in DOMAIN declarations,
         declarations[m].full_path = declarations[n].full_path
  PROVE  m = n
<1>1. declarations # <<>>  BY DEF BInv, ParentsFirst
<1>2. BuildError(declarations) = "none"
  BY <1>1, BuildErrorNames DEF BInv, Verdict
<1>3. ~HasDuplicatePath(declarations)  BY <1>1, <1>2 DEF BuildError
<1>4. ~(m < n) /\ ~(n < m)  BY <1>3 DEF HasDuplicatePath
<1>5. m \in Nat /\ n \in Nat  BY PathFacts
<1>6. QED  BY <1>4, <1>5

(* What the parser takes for granted of a tree, build() makes sure of.     *)
LEMMA TreeForParser == BInv => BuildsTree
<1> SUFFICES ASSUME BInv, built = "tree" PROVE IsTree(Tree)
  BY DEF BuildsTree
<1>1. /\ declarations \in Seq(Declarations) /\ Len(declarations) \in Nat
      /\ DOMAIN declarations = 1 .. Len(declarations)
      /\ \A n \in DOMAIN declarations : declarations[n] \in Declarations
      /\ Root \in DOMAIN declarations
  BY DeclarationFacts DEF BInv, ParentsFirst
<1>2. Tree.capture_memory_limit \in Nat  BY DEF Tree, Build, BInv, TypeOK
<1> DEFINE tags == {Tree.nodes[n].tag : n \in NodeIds(Tree)}
           Nodes == [tag : tags, full_path : Seq(tags), rules : Seq(SUBSET NodeNeeds),
                     parent_id : {NoNode} \cup NodeIds(Tree), needs : SUBSET NodeNeeds,
                     summary_needs : SUBSET NodeNeeds]
<1>3. tags = {declarations[i].tag : i \in DOMAIN declarations}
  BY NodesOfTree
<1>4. ASSUME NEW n \in DOMAIN declarations
      PROVE  Tree.nodes[n] \in Nodes
  <2>1. Tree.nodes[n] = [tag           |-> declarations[n].tag,
                         full_path     |-> declarations[n].full_path,
                         rules         |-> declarations[n].rules,
                         parent_id     |-> declarations[n].parent_index,
                         needs         |-> Needs(declarations, n),
                         summary_needs |-> SummaryNeeds(declarations, n)]
    BY DEF Tree, Build
  <2>2. declarations[n].tag \in tags /\ declarations[n].full_path \in Seq(tags)
    BY <1>3, PathsOfDeclaredTags
  <2>3. declarations[n].rules \in Seq(SUBSET NodeNeeds)
    <3>1. declarations[n].rules \in Seq(RuleNeeds)  BY <1>1 DEF Declarations
    <3>2. QED  BY <3>1, RuleNeedsAssumption, SeqMonotonic
  <2>4. declarations[n].parent_index \in {NoNode} \cup NodeIds(Tree)
    BY PathFacts, NodesOfTree
  <2>5. Needs(declarations, n) \in SUBSET NodeNeeds
    <3> DEFINE rules == declarations[n].rules
    <3>1. \A r \in DOMAIN rules : rules[r] \subseteq NodeNeeds
      <4> HIDE DEF rules
      <4>1. rules \in Seq(SUBSET NodeNeeds)  BY <2>3 DEF rules
      <4>2. \A r \in DOMAIN rules : rules[r] \in SUBSET NodeNeeds
        BY <4>1, ElementOfSeq, LenProperties
      <4>3. QED  BY <4>2
    <3>2. UNION {rules[r] : r \in DOMAIN rules} \subseteq NodeNeeds  BY <3>1
    <3>3. QED  BY <3>2 DEF Needs, NodeNeeds
  <2>6. SummaryNeeds(declarations, n) \in SUBSET NodeNeeds
    BY DEF SummaryNeeds, AllNeeds
  <2> HIDE DEF tags
  <2>7. QED  BY <2>1, <2>2, <2>3, <2>4, <2>5, <2>6
<1>5. Tree.nodes \in Seq(Nodes)
  <2>1. Tree.nodes = [n \in 1 .. Len(declarations) |-> Tree.nodes[n]]
    BY <1>1 DEF Tree, Build
  <2>2. \A n \in 1 .. Len(declarations) : Tree.nodes[n] \in Nodes
    BY <1>1, <1>4
  <2> DEFINE f == Tree.nodes
  <2> HIDE DEF Nodes, f
  <2>3. f \in [1 .. Len(declarations) -> Nodes]  BY <2>1, <2>2 DEF f
  <2>4. f \in Seq(Nodes)  BY <1>1, <2>3, SeqDef
  <2>5. QED  BY <2>4 DEF f
<1>6. IsPlaced(Tree)
  <2>1. /\ Tree.nodes[Root].parent_id = NoNode
        /\ Tree.nodes[Root].full_path = <<Tree.nodes[Root].tag>>
    BY <1>1, NodesOfTree DEF BInv, ParentsFirst
  <2>2. ASSUME NEW n \in NodeIds(Tree) \ {Root}
        PROVE  /\ Tree.nodes[n].parent_id \in NodeIds(Tree)
               /\ Tree.nodes[n].full_path
                    = Append(Tree.nodes[Tree.nodes[n].parent_id].full_path, Tree.nodes[n].tag)
    BY NodesOfTree, PathFacts, ZenonT(60)
  <2>3. \A m, n \in NodeIds(Tree) :
           Tree.nodes[m].full_path = Tree.nodes[n].full_path => m = n
    BY NodesOfTree, PathsDistinct
  <2>4. QED  BY <2>1, <2>2, <2>3 DEF IsPlaced
<1>7. KeepsForOthers(Tree)
  <2> SUFFICES ASSUME NEW n \in NodeIds(Tree) \ {Root}
               PROVE  /\ {"ATTRS", "TEXT"} \subseteq Tree.nodes[Tree.nodes[n].parent_id].needs
                      /\ "CHILDREN" \in Tree.nodes[Tree.nodes[n].parent_id].needs
                           => Tree.nodes[n].summary_needs = AllNeeds
    BY DEF KeepsForOthers
  <2> DEFINE p == declarations[n].parent_index
  <2>1. /\ n \in DOMAIN declarations /\ p \in DOMAIN declarations /\ p \in 1 .. n - 1
        /\ Tree.nodes[n].parent_id = p /\ Tree.nodes[p].needs = Needs(declarations, p)
        /\ Tree.nodes[n].summary_needs = SummaryNeeds(declarations, n)
    BY NodesOfTree, PathFacts
  <2>2. HasDeclaredChild(declarations, p)  BY <2>1 DEF HasDeclaredChild
  <2>3. {"ATTRS", "TEXT"} \subseteq Needs(declarations, p)  BY <2>2 DEF Needs
  <2>4. "CHILDREN" \in Needs(declarations, p) => SummaryNeeds(declarations, n) = AllNeeds
    BY <2>1 DEF SummaryNeeds, NoNode
  <2>5. QED  BY <2>1, <2>3, <2>4
<1>8. QED  BY <1>1, <1>2, <1>5, <1>6, <1>7, NodesOfTree DEF IsTree

(* The parser's assumption on its trees holds of every tree build()        *)
(* returns, so the theorems about Parser apply to what a program declares. *)
THEOREM TreeAsAssumed == Spec => []BuildsTree
<1>1. QED  BY TreeForParser, AlwaysBInv, PTL

-----------------------------------------------------------------------------
(* A finite set with distinct keys can be listed in the order of its keys. *)
LEMMA Listed ==
  ASSUME NEW D, NEW key \in [D -> Nat], IsInjective(key),
         NEW S \in SUBSET D, IsFiniteSet(S)
  PROVE  \E s \in [1 .. Cardinality(S) -> S] :
            \A i, j \in 1 .. Cardinality(S) : i < j => key[s[i]] < key[s[j]]
<1> DEFINE Lists(n, C) ==
             {s \in [1 .. n -> C] : \A i, j \in 1 .. n : i < j => key[s[i]] < key[s[j]]}
           T == {n \in Nat : \A C \in SUBSET D :
                   IsFiniteSet(C) /\ Cardinality(C) = n => Lists(n, C) # {}}
<1>1. 0 \in T
  <2> SUFFICES ASSUME NEW C \in SUBSET D PROVE Lists(0, C) # {}
    OBVIOUS
  <2>1. [i \in 1 .. 0 |-> 0] \in Lists(0, C)
    <3>1. 1 .. 0 = {}  OBVIOUS
    <3>2. QED  BY <3>1
  <2> HIDE DEF Lists
  <2>2. QED  BY <2>1
<1>2. ASSUME NEW n \in Nat, n \in T
      PROVE  n + 1 \in T
  <2> SUFFICES ASSUME NEW C \in SUBSET D, IsFiniteSet(C), Cardinality(C) = n + 1
               PROVE  Lists(n + 1, C) # {}
    OBVIOUS
  <2>1. PICK first \in C : \A c \in C \ {first} : key[first] < key[c]
    <3> DEFINE K == {key[c] : c \in C}
    <3>1. C # {}  BY FS_EmptySet
    <3>2. K \in SUBSET Nat /\ K # {}  BY <3>1
    <3> HIDE DEF K
    <3>3. PICK k \in K : \A m \in K : k <= m
      BY <3>2, LeastNatural
    <3>4. PICK first \in C : k = key[first]  BY DEF K
    <3>5. ASSUME NEW c \in C \ {first} PROVE key[first] < key[c]
      <4>1. key[c] # key[first]  BY DEF IsInjective
      <4>2. k <= key[c] /\ key[c] \in Nat /\ key[first] \in Nat  BY <3>3 DEF K
      <4>3. QED  BY <3>4, <4>1, <4>2
    <3>6. QED  BY <3>5
  <2> DEFINE B == C \ {first}
  <2>2. B \in SUBSET D /\ IsFiniteSet(B) /\ Cardinality(B) = n
    BY FS_RemoveElement, FS_CardinalityType
  <2>3. PICK s \in Lists(n, B) : TRUE
    <3> HIDE DEF B, Lists
    <3>1. QED  BY <1>2, <2>2
  <2> DEFINE t == [i \in 1 .. n + 1 |-> IF i = 1 THEN first ELSE s[i - 1]]
  <2>4. \A i \in 1 .. n + 1 : i = 1 \/ i - 1 \in 1 .. n  OBVIOUS
  <2>5. \A i \in 1 .. n : s[i] \in B  OBVIOUS
  <2>6. t \in [1 .. n + 1 -> C]  BY <2>4, <2>5
  <2>7. ASSUME NEW i \in 1 .. n + 1, NEW j \in 1 .. n + 1, i < j
        PROVE  key[t[i]] < key[t[j]]
    <3>1. j - 1 \in 1 .. n /\ j # 1  BY <2>7
    <3>2. CASE i = 1
      <4>1. key[first] < key[s[j - 1]]  BY <2>1, <2>5, <3>1
      <4>2. t[i] = first /\ t[j] = s[j - 1]  BY <3>1, <3>2
      <4> HIDE DEF t
      <4>3. QED  BY <4>1, <4>2
    <3>3. CASE i # 1
      <4>1. i - 1 \in 1 .. n /\ i - 1 < j - 1  BY <2>4, <2>7, <3>3
      <4>2. key[s[i - 1]] < key[s[j - 1]]  BY <2>3, <3>1, <4>1
      <4>3. t[i] = s[i - 1] /\ t[j] = s[j - 1]  BY <3>1, <3>3
      <4> HIDE DEF t
      <4>4. QED  BY <4>2, <4>3
    <3>4. QED  BY <3>2, <3>3
  <2> HIDE DEF t
  <2>8. t \in Lists(n + 1, C)  BY <2>6, <2>7
  <2> HIDE DEF Lists
  <2>9. QED  BY <2>8
<1>3. Nat \subseteq T
  <2> HIDE DEF T
  <2>1. QED  BY <1>1, <1>2, NaturalsByInduction
<1> DEFINE n == Cardinality(S)
<1>4. n \in Nat  BY FS_CardinalityType
<1> HIDE DEF n
<1>5. n \in T  BY <1>3, <1>4
<1>6. Lists(n, S) # {}
  <2> HIDE DEF Lists
  <2>1. QED  BY <1>5 DEF n
<1>7. QED  BY <1>6 DEF n

(* Binary search in a sorted list of children finds the one with the tag   *)
(* wherever it is, and finds nothing when there is none.                   *)
LEMMA SearchFinds ==
  ASSUME NEW tree, NEW parent, NEW tag \in Tags,
         NEW c, c = ChildrenSorted(tree, parent), NEW n \in Nat, n = Len(c),
         \A i \in 1 .. n : tree.nodes[c[i]].tag \in Tags,
         \A i, j \in 1 .. n : i < j => Before(tree.nodes[c[i]].tag, tree.nodes[c[j]].tag)
  PROVE  LET P == {i \in 1 .. n : tree.nodes[c[i]].tag = tag}
         IN /\ P = {} => BinarySearch(tree, parent, tag) = NoNode
            /\ \A i \in P : BinarySearch(tree, parent, tag) = c[i]
<1> DEFINE W == (1 .. n + 1) \X (0 .. n)
           P == {i \in 1 .. n : tree.nodes[c[i]].tag = tag}
           k[i \in 1 .. n] == TagOrder[tree.nodes[c[i]].tag]
           F(lo, hi) == IF \E i \in P : lo <= i /\ i <= hi
                        THEN c[CHOOSE i \in P : TRUE] ELSE NoNode
           Step(f, lo, hi) ==
             LET mid == (lo + hi) \div 2
             IN IF lo > hi THEN NoNode
                ELSE IF tree.nodes[c[mid]].tag = tag THEN c[mid]
                ELSE IF Before(tree.nodes[c[mid]].tag, tag) THEN f[<<mid + 1, hi>>]
                ELSE f[<<lo, mid - 1>>]
           G == [w \in W |-> F(w[1], w[2])]
           Search == CHOOSE f : f = [w \in W |-> Step(f, w[1], w[2])]
<1>1. /\ \A i \in 1 .. n : k[i] \in Nat
      /\ \A i, j \in 1 .. n : i < j => k[i] < k[j]
      /\ TagOrder[tag] \in Nat
      /\ \A i \in 1 .. n : tree.nodes[c[i]].tag = tag <=> k[i] = TagOrder[tag]
      /\ \A i \in 1 .. n : Before(tree.nodes[c[i]].tag, tag) <=> k[i] < TagOrder[tag]
  BY TagOrderAssumption DEF Before, IsInjective
<1>2. \A i \in P : i \in 1 .. n /\ k[i] = TagOrder[tag]  BY <1>1
<1> HIDE DEF k
<1>3. \A i, j \in P : i = j
  <2> SUFFICES ASSUME NEW i \in P, NEW j \in P, i # j PROVE FALSE
    OBVIOUS
  <2>1. i < j \/ j < i  OBVIOUS
  <2>2. QED  BY <1>1, <1>2, <2>1
<1>4. ASSUME NEW lo \in 1 .. n + 1, NEW hi \in 0 .. n, lo <= hi
      PROVE  LET mid == (lo + hi) \div 2
             IN mid \in 1 .. n /\ lo <= mid /\ mid <= hi
  BY <1>4
<1>5. ASSUME NEW lo \in 1 .. n + 1, NEW hi \in 0 .. n
      PROVE  F(lo, hi) = Step(G, lo, hi)
  <2> DEFINE mid == (lo + hi) \div 2
  <2>1. CASE lo > hi
    <3>1. \A i \in P : ~(lo <= i /\ i <= hi)  BY <2>1
    <3>2. QED  BY <2>1, <3>1
  <2>2. CASE ~(lo > hi)
    <3>1. lo <= hi  BY <2>2
    <3>2. mid \in 1 .. n /\ lo <= mid /\ mid <= hi  BY <1>4, <3>1
    <3> HIDE DEF mid
    <3>3. mid + 1 \in 1 .. n + 1 /\ mid - 1 \in 0 .. n  BY <3>2
    <3>4. G[<<mid + 1, hi>>] = F(mid + 1, hi) /\ G[<<lo, mid - 1>>] = F(lo, mid - 1)
      <4> HIDE DEF F
      <4>1. QED  BY <3>3
    <3>5. Step(G, lo, hi) = IF tree.nodes[c[mid]].tag = tag THEN c[mid]
                            ELSE IF Before(tree.nodes[c[mid]].tag, tag) THEN F(mid + 1, hi)
                            ELSE F(lo, mid - 1)
      <4> HIDE DEF F, G
      <4>1. QED  BY <2>2, <3>4 DEF mid
    <3> HIDE DEF Step, G
    <3>6. CASE tree.nodes[c[mid]].tag = tag
      <4>1. mid \in P  BY <3>2, <3>6
      <4>2. (CHOOSE i \in P : TRUE) = mid  BY <1>3, <4>1
      <4>3. F(lo, hi) = c[mid]  BY <3>2, <4>1, <4>2
      <4>4. QED  BY <3>5, <3>6, <4>3
    <3>7. CASE tree.nodes[c[mid]].tag # tag /\ Before(tree.nodes[c[mid]].tag, tag)
      <4>1. k[mid] < TagOrder[tag]  BY <1>1, <3>2, <3>7
      <4>2. ASSUME NEW i \in P PROVE mid + 1 <= i
        <5>1. i \in 1 .. n /\ k[i] = TagOrder[tag]  BY <1>2
        <5>2. ~(i < mid) /\ i # mid  BY <1>1, <3>2, <4>1, <5>1
        <5>3. QED  BY <3>2, <5>1, <5>2
      <4>3. \A i \in P : lo <= i /\ i <= hi <=> mid + 1 <= i /\ i <= hi
        BY <3>2, <4>2
      <4>4. F(lo, hi) = F(mid + 1, hi)  BY <4>3
      <4> HIDE DEF F
      <4>5. QED  BY <3>5, <3>7, <4>4
    <3>8. CASE tree.nodes[c[mid]].tag # tag /\ ~Before(tree.nodes[c[mid]].tag, tag)
      <4>1. TagOrder[tag] < k[mid]  BY <1>1, <3>2, <3>8
      <4>2. ASSUME NEW i \in P PROVE i <= mid - 1
        <5>1. i \in 1 .. n /\ k[i] = TagOrder[tag]  BY <1>2
        <5>2. ~(mid < i) /\ i # mid  BY <1>1, <3>2, <4>1, <5>1
        <5>3. QED  BY <3>2, <5>1, <5>2
      <4>3. \A i \in P : lo <= i /\ i <= hi <=> lo <= i /\ i <= mid - 1
        BY <3>2, <4>2
      <4>4. F(lo, hi) = F(lo, mid - 1)  BY <4>3
      <4> HIDE DEF F
      <4>5. QED  BY <3>5, <3>8, <4>4
    <3>9. QED  BY <3>6, <3>7, <3>8
  <2>3. QED  BY <2>1, <2>2
<1> HIDE DEF F
<1>6. G = [w \in W |-> Step(G, w[1], w[2])]
  <2>1. \A w \in W : w[1] \in 1 .. n + 1 /\ w[2] \in 0 .. n  OBVIOUS
  <2> HIDE DEF Step, W
  <2>2. QED  BY <1>5, <2>1
<1>7. BinarySearch(tree, parent, tag) = Search[<<1, n>>]
  BY DEF BinarySearch
<1> HIDE DEF G, W
<1>8. Search = [w \in W |-> Step(Search, w[1], w[2])]
  <2> HIDE DEF Step
  <2>1. QED  BY <1>6
<1> HIDE DEF Search
<1>9. ASSUME NEW lo \in 1 .. n + 1, NEW hi \in 0 .. n
      PROVE  Search[<<lo, hi>>] = Step(Search, lo, hi)
  <2>1. <<lo, hi>> \in W  BY DEF W
  <2> DEFINE w == <<lo, hi>>
  <2>2. w[1] = lo /\ w[2] = hi  OBVIOUS
  <2> HIDE DEF Step, w
  <2>3. Search[w] = Step(Search, w[1], w[2])  BY <1>8, <2>1 DEF w
  <2>4. QED  BY <2>2, <2>3 DEF w
<1> DEFINE T == {m \in Nat : \A lo \in 1 .. n + 1, hi \in 0 .. n :
                                hi - lo < m => Search[<<lo, hi>>] = F(lo, hi)}
<1>10. 0 \in T
  <2> SUFFICES ASSUME NEW lo \in 1 .. n + 1, NEW hi \in 0 .. n, hi - lo < 0
               PROVE  Search[<<lo, hi>>] = F(lo, hi)
    OBVIOUS
  <2>1. lo > hi  OBVIOUS
  <2>2. F(lo, hi) = NoNode  BY <2>1, <1>2 DEF F
  <2>3. QED  BY <1>9, <2>1, <2>2
<1>11. ASSUME NEW m \in Nat, m \in T
       PROVE  m + 1 \in T
  <2> SUFFICES ASSUME NEW lo \in 1 .. n + 1, NEW hi \in 0 .. n, hi - lo < m + 1
               PROVE  Step(Search, lo, hi) = Step(G, lo, hi)
    <3> HIDE DEF Step
    <3>1. QED  BY <1>5, <1>9
  <2>1. CASE lo > hi  BY <2>1
  <2>2. CASE ~(lo > hi)
    <3> DEFINE mid == (lo + hi) \div 2
    <3>1. mid \in 1 .. n /\ lo <= mid /\ mid <= hi  BY <1>4, <2>2
    <3> HIDE DEF mid
    <3>2. /\ mid + 1 \in 1 .. n + 1 /\ mid - 1 \in 0 .. n
          /\ hi - (mid + 1) < m /\ (mid - 1) - lo < m
      BY <3>1
    <3>3. /\ Search[<<mid + 1, hi>>] = F(mid + 1, hi)
          /\ Search[<<lo, mid - 1>>] = F(lo, mid - 1)
      BY <1>11, <3>2
    <3>4. \A a \in 1 .. n + 1, b \in 0 .. n : G[<<a, b>>] = F(a, b)
      BY DEF G, W
    <3>5. G[<<mid + 1, hi>>] = F(mid + 1, hi) /\ G[<<lo, mid - 1>>] = F(lo, mid - 1)
      BY <3>2, <3>4
    <3>6. QED  BY <2>2, <3>3, <3>5 DEF mid
  <2>3. QED  BY <2>1, <2>2
<1>12. Nat \subseteq T
  <2> HIDE DEF T
  <2>1. QED  BY <1>10, <1>11, NaturalsByInduction
<1>13. Search[<<1, n>>] = F(1, n)
  <2>1. n \in T
    <3> HIDE DEF T
    <3>1. QED  BY <1>12
  <2>2. n - 1 < n /\ 1 \in 1 .. n + 1 /\ n \in 0 .. n  OBVIOUS
  <2>3. QED  BY <2>1, <2>2
<1>14. P = {} => F(1, n) = NoNode  BY DEF F
<1>15. ASSUME NEW i \in P PROVE F(1, n) = c[i]
  <2>1. (CHOOSE j \in P : TRUE) = i  BY <1>3
  <2>2. 1 <= i /\ i <= n  OBVIOUS
  <2>3. QED  BY <2>1, <2>2 DEF F
<1>16. QED  BY <1>7, <1>13, <1>14, <1>15

(* The nodes of a built tree under one parent.                             *)
LEMMA ChildFacts ==
  ASSUME BInv, built = "tree", NEW p \in DOMAIN declarations
  PROVE  /\ \A m : m \in Children(Tree, p) <=>
                     m \in DOMAIN declarations /\ declarations[m].parent_index = p
         /\ \A m \in Children(Tree, p) :
              /\ m \in DOMAIN declarations /\ m # Root /\ m # NoNode
              /\ Tree.nodes[m].tag = declarations[m].tag /\ declarations[m].tag \in Tags
              /\ declarations[m].full_path
                   = Append(declarations[p].full_path, declarations[m].tag)
         /\ \A l, m \in Children(Tree, p) :
              declarations[l].tag = declarations[m].tag => l = m
         /\ IsFiniteSet(Children(Tree, p))
<1>1. \A m : m \in Children(Tree, p) <=>
               m \in DOMAIN declarations /\ declarations[m].parent_index = p
  BY NodesOfTree DEF Children
<1>2. p # NoNode  BY PathFacts DEF NoNode
<1>3. ASSUME NEW m \in Children(Tree, p)
      PROVE  /\ m \in DOMAIN declarations /\ m # Root /\ m # NoNode
             /\ Tree.nodes[m].tag = declarations[m].tag /\ declarations[m].tag \in Tags
             /\ declarations[m].full_path
                  = Append(declarations[p].full_path, declarations[m].tag)
  <2>1. m \in DOMAIN declarations /\ declarations[m].parent_index = p  BY <1>1
  <2>2. m # Root  BY <1>2, <2>1, PathFacts
  <2>3. m # NoNode
    <3>1. /\ Len(declarations) \in Nat /\ DOMAIN declarations = 1 .. Len(declarations)
      BY DeclarationFacts DEF BInv
    <3>2. QED  BY <2>1, <3>1 DEF NoNode
  <2>4. QED  BY <2>1, <2>2, <2>3, PathFacts, NodesOfTree
<1>4. ASSUME NEW l \in Children(Tree, p), NEW m \in Children(Tree, p),
             declarations[l].tag = declarations[m].tag
      PROVE  l = m
  <2>1. declarations[l].full_path = declarations[m].full_path  BY <1>3, <1>4
  <2>2. QED  BY <1>3, <2>1, PathsDistinct
<1>5. IsFiniteSet(Children(Tree, p))
  <2>1. IsFiniteSet(DOMAIN declarations)
    <3>1. Len(declarations) \in Nat /\ DOMAIN declarations = 1 .. Len(declarations)
      BY DeclarationFacts DEF BInv
    <3>2. QED  BY <3>1, FS_Interval
  <2>2. Children(Tree, p) \in SUBSET DOMAIN declarations  BY <1>1
  <2>3. QED  BY <2>1, <2>2, FS_Subset
<1>6. QED  BY <1>1, <1>3, <1>4, <1>5

(* children_sorted holds the children, all of them, by increasing tag.     *)
LEMMA ChildrenInOrder ==
  ASSUME BInv, built = "tree", NEW p \in DOMAIN declarations,
         NEW c, c = ChildrenSorted(Tree, p), NEW n, n = Len(c)
  PROVE  /\ n \in Nat
         /\ \A i \in 1 .. n : c[i] \in Children(Tree, p)
         /\ \A i, j \in 1 .. n : i < j => Before(Tree.nodes[c[i]].tag, Tree.nodes[c[j]].tag)
         /\ \A m \in Children(Tree, p) : \E i \in 1 .. n : c[i] = m
<1> DEFINE S   == Children(Tree, p)
           k   == Cardinality(S)
           key == [m \in S |-> TagOrder[Tree.nodes[m].tag]]
           InOrder(s) == \A i, j \in 1 .. k :
                            i < j => Before(Tree.nodes[s[i]].tag, Tree.nodes[s[j]].tag)
<1>1. /\ \A m \in S : Tree.nodes[m].tag = declarations[m].tag /\ declarations[m].tag \in Tags
      /\ \A l, m \in S : declarations[l].tag = declarations[m].tag => l = m
      /\ IsFiniteSet(S)
  BY ChildFacts
<1> HIDE DEF S
<1>2. key \in [S -> Nat] /\ IsInjective(key)
  <2>1. \A m \in S : Tree.nodes[m].tag \in Tags  BY <1>1
  <2>2. \A l, m \in S : Tree.nodes[l].tag = Tree.nodes[m].tag => l = m  BY <1>1
  <2>3. \A a, b \in Tags : TagOrder[a] = TagOrder[b] => a = b
    BY TagOrderAssumption DEF IsInjective
  <2>4. key \in [S -> Nat]  BY <2>1, TagOrderAssumption
  <2>5. \A l, m \in S : key[l] = key[m] => l = m  BY <2>1, <2>2, <2>3
  <2>6. DOMAIN key = S  OBVIOUS
  <2> HIDE DEF key
  <2>7. QED  BY <2>4, <2>5, <2>6 DEF IsInjective
<1>3. k \in Nat  BY <1>1, FS_CardinalityType
<1>4. \E s \in [1 .. k -> S] : InOrder(s)
  <2>1. PICK s \in [1 .. k -> S] : \A i, j \in 1 .. k : i < j => key[s[i]] < key[s[j]]
    <3>1. S \in SUBSET S  OBVIOUS
    <3> HIDE DEF key
    <3>2. QED  BY <1>1, <1>2, <3>1, Listed
  <2>2. \A i \in 1 .. k : key[s[i]] = TagOrder[Tree.nodes[s[i]].tag]  OBVIOUS
  <2> HIDE DEF key
  <2>3. InOrder(s)  BY <2>1, <2>2 DEF Before
  <2> HIDE DEF InOrder
  <2>4. QED  BY <2>3
<1>5. c = CHOOSE s \in [1 .. k -> S] :
            \A i, j \in DOMAIN s : i < j => Before(Tree.nodes[s[i]].tag, Tree.nodes[s[j]].tag)
  BY DEF ChildrenSorted, S
<1>6. c \in [1 .. k -> S] /\ InOrder(c)
  <2> HIDE DEF k
  <2>1. \A s \in [1 .. k -> S] : DOMAIN s = 1 .. k  OBVIOUS
  <2>2. \E s \in [1 .. k -> S] :
          \A i, j \in DOMAIN s : i < j => Before(Tree.nodes[s[i]].tag, Tree.nodes[s[j]].tag)
    BY <1>4, <2>1
  <2>3. QED  BY <1>5, <2>1, <2>2
<1>7. n = k
  <2> HIDE DEF k
  <2>1. c \in Seq(S) /\ DOMAIN c = 1 .. k  BY <1>3, <1>6
  <2>2. QED  BY <1>3, <2>1
<1>8. ASSUME NEW m \in S PROVE \E i \in 1 .. k : c[i] = m
  <2>1. \A i, j \in 1 .. k : i < j => key[c[i]] < key[c[j]]
    <3>1. \A i \in 1 .. k : key[c[i]] = TagOrder[Tree.nodes[c[i]].tag]  BY <1>6
    <3> HIDE DEF key
    <3>2. QED  BY <1>6, <3>1 DEF Before
  <2>2. \A i \in 1 .. k : key[c[i]] \in Nat  BY <1>2, <1>6
  <2> HIDE DEF key
  <2>3. \A i, j \in 1 .. k : c[i] = c[j] => i = j
    <3> SUFFICES ASSUME NEW i \in 1 .. k, NEW j \in 1 .. k, c[i] = c[j], i # j PROVE FALSE
      OBVIOUS
    <3>1. i < j \/ j < i  BY <1>3
    <3>2. key[c[i]] < key[c[j]] \/ key[c[j]] < key[c[i]]  BY <2>1, <3>1
    <3>3. QED  BY <2>2, <3>2
  <2>4. c \in Injection(1 .. k, S)
    BY <1>6, <2>3 DEF Injection, IsInjective
  <2>5. Cardinality(1 .. k) = Cardinality(S)
    <3>1. Cardinality(1 .. k) = k
      <4>1. 1 \in Int /\ k \in Int /\ (IF 1 > k THEN 0 ELSE k - 1 + 1) = k  BY <1>3
      <4> HIDE DEF k
      <4>2. QED  BY <4>1, FS_Interval
    <3>2. QED  BY <3>1
  <2>6. c \in Surjection(1 .. k, S)
    <3> HIDE DEF k
    <3>1. QED  BY <1>1, <2>4, <2>5, FS_Injection
  <2>7. QED  BY <2>6 DEF Surjection
<1>9. QED  BY <1>3, <1>6, <1>7, <1>8 DEF S

(* A lookup finds the child with that tag, by either definition.           *)
LEMMA LookupFinds ==
  ASSUME BInv, built = "tree", NEW p \in DOMAIN declarations, NEW tag \in Tags
  PROVE  /\ BinarySearch(Tree, p, tag) = ChildOf(Tree, p, tag)
         /\ \A m \in Children(Tree, p) :
              declarations[m].tag = tag => BinarySearch(Tree, p, tag) = m
         /\ (\A m \in Children(Tree, p) : declarations[m].tag # tag)
              => BinarySearch(Tree, p, tag) = NoNode
<1> DEFINE c     == ChildrenSorted(Tree, p)
           n     == Len(c)
           P     == {i \in 1 .. n : Tree.nodes[c[i]].tag = tag}
           found == BinarySearch(Tree, p, tag)
           all   == {m \in NodeIds(Tree) : /\ p # NoNode /\ Tree.nodes[m].parent_id = p
                                           /\ Tree.nodes[m].tag = tag}
<1>1. /\ n \in Nat
      /\ \A i \in 1 .. n : c[i] \in Children(Tree, p)
      /\ \A i, j \in 1 .. n : i < j => Before(Tree.nodes[c[i]].tag, Tree.nodes[c[j]].tag)
      /\ \A m \in Children(Tree, p) : \E i \in 1 .. n : c[i] = m
  <2> HIDE DEF c, n
  <2>1. QED  BY ChildrenInOrder DEF c, n
<1>2. \A i \in 1 .. n : Tree.nodes[c[i]].tag \in Tags
  BY <1>1, ChildFacts
<1>3. /\ P = {} => found = NoNode
      /\ \A i \in P : found = c[i]
  <2> HIDE DEF c, n
  <2>1. QED  BY <1>1, <1>2, SearchFinds DEF c, n
<1> HIDE DEF c, n, found
<1>4. ASSUME NEW m \in Children(Tree, p), declarations[m].tag = tag
      PROVE  found = m
  <2>1. PICK i \in 1 .. n : c[i] = m  BY <1>1
  <2>2. Tree.nodes[c[i]].tag = tag  BY <1>4, <2>1, ChildFacts
  <2>3. QED  BY <1>3, <2>1, <2>2
<1>5. ASSUME \A m \in Children(Tree, p) : declarations[m].tag # tag
      PROVE  found = NoNode
  <2>1. P = {}  BY <1>1, <1>5, ChildFacts
  <2>2. QED  BY <1>3, <2>1
<1>6. all = {m \in Children(Tree, p) : declarations[m].tag = tag}
  <2>1. p # NoNode  BY PathFacts DEF NoNode
  <2>2. \A m \in Children(Tree, p) : Tree.nodes[m].tag = declarations[m].tag  BY ChildFacts
  <2>3. QED  BY <2>1, <2>2 DEF Children
<1>7. ChildOf(Tree, p, tag) = IF all = {} THEN NoNode ELSE CHOOSE m \in all : TRUE
  BY DEF ChildOf
<1> HIDE DEF all
<1>8. found = ChildOf(Tree, p, tag)
  <2>1. CASE all = {}  BY <1>5, <1>6, <1>7, <2>1
  <2>2. CASE all # {}
    <3>1. (CHOOSE m \in all : TRUE) \in all  BY <2>2
    <3>2. QED  BY <1>4, <1>6, <1>7, <2>2, <3>1
  <2>3. QED  BY <2>1, <2>2
<1>9. QED  BY <1>4, <1>5, <1>8 DEF found

(* The child with that tag is the node at the parent's path with the tag   *)
(* added.                                                                  *)
LEMMA ChildByPath ==
  ASSUME BInv, built = "tree", NEW p \in DOMAIN declarations, NEW tag \in Tags,
         NEW m \in DOMAIN declarations
  PROVE  declarations[m].full_path = Append(declarations[p].full_path, tag)
           <=> m \in Children(Tree, p) /\ declarations[m].tag = tag
<1> DEFINE path(i) == declarations[i].full_path
<1>1. path(p) \in Seq(Tags) /\ path(p) # <<>>  BY PathFacts
<1>2. ASSUME m \in Children(Tree, p), declarations[m].tag = tag
      PROVE  path(m) = Append(path(p), tag)
  BY <1>2, ChildFacts
<1>3. ASSUME path(m) = Append(path(p), tag)
      PROVE  m \in Children(Tree, p) /\ declarations[m].tag = tag
  <2>1. declarations[m].tag \in Tags /\ <<>> \in Seq(Tags)  BY PathFacts, EmptySeq
  <2>2. m # Root
    <3> SUFFICES ASSUME m = Root PROVE FALSE
      OBVIOUS
    <3>1. path(m) = Append(<<>>, declarations[m].tag)  BY PathFacts
    <3> DEFINE a == path(p)
               t == declarations[m].tag
    <3>2. a \in Seq(Tags) /\ t \in Tags /\ Append(a, tag) = Append(<<>>, t)
      BY <1>1, <1>3, <2>1, <3>1
    <3> HIDE DEF a, t
    <3>3. a = <<>>  BY <2>1, <3>2, AppendInjective
    <3>4. QED  BY <1>1, <3>3 DEF a
  <2> DEFINE above == declarations[m].parent_index
  <2>3. /\ above \in DOMAIN declarations
        /\ path(m) = Append(path(above), declarations[m].tag)
    BY <2>2, PathFacts
  <2>4. path(above) \in Seq(Tags)  BY <2>3, PathFacts
  <2>5. path(above) = path(p) /\ declarations[m].tag = tag
    <3> DEFINE a == path(p)
               b == path(above)
               t == declarations[m].tag
    <3>1. /\ a \in Seq(Tags) /\ b \in Seq(Tags) /\ t \in Tags
          /\ Append(b, t) = Append(a, tag)
      BY <1>1, <1>3, <2>1, <2>3, <2>4
    <3> HIDE DEF a, b, t
    <3>2. b = a /\ t = tag  BY <3>1, AppendInjective
    <3>3. QED  BY <3>2 DEF a, b, t
  <2>6. above = p  BY <2>3, <2>5, PathsDistinct
  <2>7. QED  BY <2>5, <2>6, ChildFacts
<1>4. QED  BY <1>2, <1>3

(* Searching the sorted children, by the parents of the declarations.      *)
LEMMA LookupOfTree == BInv => LookupByPath
<1> SUFFICES ASSUME BInv, built = "tree", NEW p \in NodeIds(Tree), NEW tag \in Tags
             PROVE  LET found == BinarySearch(Tree, p, tag)
                        path  == Append(Tree.nodes[p].full_path, tag)
                    IN /\ found = ChildOf(Tree, p, tag)
                       /\ IF path \in Paths
                          THEN found # NoNode /\ Tree.nodes[found].full_path = path
                          ELSE found = NoNode
  BY DEF LookupByPath
<1> DEFINE found == BinarySearch(Tree, p, tag)
           path  == Append(Tree.nodes[p].full_path, tag)
<1>1. p \in DOMAIN declarations /\ path = Append(declarations[p].full_path, tag)
  BY NodesOfTree
<1>2. /\ found = ChildOf(Tree, p, tag)
      /\ \A m \in Children(Tree, p) : declarations[m].tag = tag => found = m
      /\ (\A m \in Children(Tree, p) : declarations[m].tag # tag) => found = NoNode
  BY <1>1, LookupFinds
<1>3. \A m \in DOMAIN declarations :
        declarations[m].full_path = path
          <=> m \in Children(Tree, p) /\ declarations[m].tag = tag
  BY <1>1, ChildByPath
<1>4. \A m \in Children(Tree, p) : m \in DOMAIN declarations /\ m # NoNode
  BY <1>1, ChildFacts
<1> HIDE DEF found, path
<1>5. CASE path \in Paths
  <2>1. PICK m \in DOMAIN declarations : declarations[m].full_path = path
    BY <1>5 DEF Paths
  <2>2. found = m /\ m # NoNode  BY <1>2, <1>3, <1>4, <2>1
  <2>3. Tree.nodes[m].full_path = path  BY <2>1, NodesOfTree
  <2>4. QED  BY <1>2, <1>5, <2>2, <2>3 DEF found, path
<1>6. CASE path \notin Paths
  <2>1. \A m \in Children(Tree, p) : declarations[m].tag # tag
    BY <1>3, <1>4, <1>6 DEF Paths
  <2>2. QED  BY <1>2, <1>6, <2>1 DEF found, path
<1>7. QED  BY <1>5, <1>6

(* For every chain of calls of any length, child_of on the tree that       *)
(* build() returns finds the declaration at the parent's path with the tag *)
(* added, and nothing when there is none: the sorted children and the      *)
(* binary search in them agree.                                            *)
THEOREM LooksUpByPath == Spec => []LookupByPath
<1>1. QED  BY AlwaysBInv, LookupOfTree, PTL

-----------------------------------------------------------------------------
(* The macro.  A call that an expansion owes expects the cursor somewhere, *)
(* and leaves it there or one node up.                                     *)
Calls == [call : {"item", "mode", "done", "build"}, at : DOMAIN Text]

IsItem(c) == c.call = "item"
CursorAt(c) == IF IsItem(c) THEN Front(c.at) ELSE c.at
CursorAfter(c) == IF c.call = "done" THEN Front(c.at) ELSE CursorAt(c)

(* Each call leaves the cursor where the next one expects it; the last one *)
(* and no other is build(), at the root.                                   *)
Linked(s) ==
  \A j \in 1 .. Len(s) :
    /\ CursorAt(s[j]) \in TextNodes
    /\ IsItem(s[j]) \/ s[j].call = "done" => s[j].at # <<>>
    /\ s[j].call = "mode" => j = 1
    /\ s[j].call = "build" <=> j = Len(s)
    /\ s[j].call = "build" => s[j].at = <<>>
    /\ j < Len(s) => CursorAt(s[j + 1]) = CursorAfter(s[j])

ItemsInOrder(s) ==
  \A i, j \in 1 .. Len(s) :
    i < j /\ IsItem(s[i]) /\ IsItem(s[j]) => LeftOf(s[i].at, s[j].at)

Owed(s) == s \in Seq(Calls) /\ s # <<>> /\ Linked(s) /\ ItemsInOrder(s)

(* What of the text is still to be read.                                   *)
Unread(s) ==
  {q \in DOMAIN Text : \E j \in 1 .. Len(s) : IsItem(s[j]) /\ Within(q, s[j].at)}

ReadRules(p, s) == {i \in RulesIn(p) : Append(p, i) \notin Unread(s)}

(* The declaration d says of node p what has been read of it.              *)
ReadOf(d, p, s) ==
  /\ d.full_path = PathOf(p)
  /\ d.is_capture <=> Text[p].mode = "capture" /\ s[1] # Call("mode", p)
  /\ HasRules(d, p, ReadRules(p, s))

(* The declarations ds are what has been read when the calls s are owed:   *)
(* all that starts before what is unread.                                  *)
ReadSoFar(ds, s) ==
  LET unread == Unread(s)
      read   == TextNodes \ unread
  IN /\ \A r \in DOMAIN Text \ unread, a \in unread : StartsBefore(r, a)
     /\ \A j \in 1 .. Len(s) : CursorAt(s[j]) \notin unread
     /\ Len(ds) = Cardinality(read)
     /\ \A p \in read : /\ Place(p) \in 1 .. Len(ds)
                         /\ ReadOf(ds[Place(p)], p, s)
                         /\ \A q \in read : q # p => Place(q) # Place(p)

CursorOn(stack, p) ==
  /\ Len(stack) = Len(p) + 1
  /\ \A k \in 1 .. Len(p) + 1 : stack[k] = Place(SubSeq(p, 1, k - 1))

Expanding(ds, stack, s) ==
  Owed(s) /\ ReadSoFar(ds, s) /\ CursorOn(stack, CursorAt(s[1]))

MacroInv ==
  /\ BInv
  /\ macro = <<>> => pending = <<>>
  /\ macro # <<>> =>
       /\ macro \in {<<text>> : text \in Macros}
       /\ built = "no" => Expanding(declarations, parent_stack, pending)
       /\ built # "no" => pending = <<>>
       /\ MacroBuilds

-----------------------------------------------------------------------------
PartsIn == [p \in DOMAIN Text |-> IF IsNode(p) THEN Text[p].items ELSE 0]

(* What is written between the parentheses: nodes, with the items of their *)
(* bodies, and rules.                                                      *)
LEMMA TextFacts ==
  ASSUME macro \in {<<text>> : text \in Macros}
  PROVE  /\ IsNested(PartsIn) /\ DOMAIN PartsIn = DOMAIN Text
         /\ DOMAIN Text \subseteq Positions
         /\ <<>> \in TextNodes /\ TextNodes \subseteq DOMAIN Text
         /\ IsFiniteSet(DOMAIN Text) /\ IsFiniteSet(TextNodes)
         /\ \A p \in TextNodes :
               /\ Text[p].tag \in Tags /\ Text[p].mode \in Modes /\ Text[p].items \in Nat
               /\ PartsIn[p] = Text[p].items
               /\ \A i \in 1 .. Text[p].items : Append(p, i) \in DOMAIN Text
         /\ \A p \in DOMAIN Text \ TextNodes :
               Text[p].needs \in RuleNeeds /\ PartsIn[p] = 0
<1>1. PICK text \in Macros : macro = <<text>>  OBVIOUS
<1>2. Text = text /\ IsText(Text)  BY <1>1, MacrosAssumption DEF Text
<1>3. PartsIn = [p \in DOMAIN Text |-> IF Text[p].kind = "node" THEN Text[p].items ELSE 0]
  BY DEF PartsIn, IsNode
<1>4. IsNested(PartsIn) /\ DOMAIN PartsIn = DOMAIN Text
  BY <1>2, <1>3 DEF IsText
<1>5. /\ DOMAIN Text \subseteq Positions /\ <<>> \in DOMAIN Text
      /\ \A p \in DOMAIN Text : \A i \in 1 .. PartsIn[p] : Append(p, i) \in DOMAIN Text
  BY <1>4 DEF IsNested
<1>6. <<>> \in TextNodes /\ TextNodes \subseteq DOMAIN Text
  BY <1>2, <1>5 DEF IsText, TextNodes, IsNode
<1>7. IsFiniteSet(DOMAIN Text) /\ IsFiniteSet(TextNodes)
  BY <1>2, <1>6, FS_Subset DEF IsText
<1>8. ASSUME NEW p \in TextNodes
      PROVE  /\ Text[p].tag \in Tags /\ Text[p].mode \in Modes /\ Text[p].items \in Nat
             /\ PartsIn[p] = Text[p].items
  <2>1. p \in DOMAIN Text /\ Text[p].kind = "node"  BY DEF TextNodes, IsNode
  <2>2. Text[p] \in [kind : {"node"}, tag : Tags, mode : Modes, items : Nat]
    BY <1>2, <2>1 DEF IsText
  <2>3. QED  BY <1>3, <2>1, <2>2
<1>9. ASSUME NEW p \in DOMAIN Text \ TextNodes
      PROVE  Text[p].needs \in RuleNeeds /\ PartsIn[p] = 0
  <2>1. Text[p].kind # "node"  BY DEF TextNodes, IsNode
  <2>2. Text[p] \in [kind : {"rule"}, needs : RuleNeeds]
    BY <1>2, <2>1 DEF IsText
  <2>3. QED  BY <1>3, <2>1, <2>2
<1>10. QED  BY <1>4, <1>5, <1>6, <1>7, <1>8, <1>9

(* A position is its prefixes, and that of the part around it.             *)
LEMMA PrefixesAlike ==
  ASSUME NEW p \in Positions
  PROVE  /\ Len(p) \in Nat /\ SubSeq(p, 1, Len(p)) = p
         /\ p # <<>> =>
              /\ Front(p) \in Positions /\ Len(p) \in Nat \ {0}
              /\ Len(Front(p)) = Len(p) - 1
              /\ Last(p) = p[Len(p)] /\ Last(p) \in Nat \ {0}
              /\ p = Append(Front(p), Last(p))
              /\ \A k \in 1 .. Len(p) : SubSeq(Front(p), 1, k - 1) = SubSeq(p, 1, k - 1)
<1>1. Len(p) \in Nat  BY LenProperties DEF Positions
<1>2. SubSeq(p, 1, Len(p)) = p  BY SubSeqFull DEF Positions
<1>3. ASSUME p # <<>>
      PROVE  /\ Front(p) \in Positions /\ Len(p) \in Nat \ {0}
             /\ Len(Front(p)) = Len(p) - 1
             /\ Last(p) = p[Len(p)] /\ Last(p) \in Nat \ {0}
             /\ p = Append(Front(p), Last(p))
             /\ \A k \in 1 .. Len(p) : SubSeq(Front(p), 1, k - 1) = SubSeq(p, 1, k - 1)
  <2> DEFINE f == Front(p)  n == Len(p)
  <2>1. n \in Nat \ {0}  BY <1>3, EmptySeq DEF Positions
  <2>2. /\ f \in Positions /\ Len(f) = n - 1 /\ Last(p) \in Nat \ {0} /\ Last(p) = p[n]
        /\ \A i \in 1 .. n - 1 : f[i] = p[i]
    BY <1>3, FrontLast DEF Positions
  <2>3. p = Append(f, Last(p))
    <3> DEFINE a == Append(f, Last(p))
    <3>1. /\ a \in Seq(Nat \ {0}) /\ Len(a) = Len(f) + 1
          /\ \A i \in 1 .. Len(f) : a[i] = f[i]
          /\ a[Len(f) + 1] = Last(p)
      BY <2>2, AppendProperties DEF Positions
    <3> HIDE DEF a, f
    <3>2. Len(a) = n
      <4> HIDE DEF n
      <4>1. QED  BY <2>1, <2>2, <3>1
    <3>3. \A i \in 1 .. n : a[i] = p[i]
      <4> TAKE i \in 1 .. n
      <4> HIDE DEF n
      <4>1. CASE i = n  BY <2>1, <2>2, <3>1, <4>1
      <4>2. CASE i # n
        <5>1. i \in 1 .. n - 1 /\ i \in 1 .. Len(f)  BY <2>1, <2>2, <4>2
        <5>2. QED  BY <2>2, <3>1, <5>1
      <4>3. QED  BY <4>1, <4>2
    <3>4. a = p  BY <3>1, <3>2, <3>3, SeqEqual DEF Positions, n
    <3>5. QED  BY <3>4 DEF a
  <2>4. ASSUME NEW k \in 1 .. n
        PROVE  SubSeq(f, 1, k - 1) = SubSeq(p, 1, k - 1)
    <3>1. f = SubSeq(p, 1, n - 1)  BY DEF Front
    <3>2. CASE k = 1
      <4>1. SubSeq(f, 1, 0) = <<>> /\ SubSeq(p, 1, 0) = <<>>  BY SubSeqEmpty
      <4>2. QED  BY <3>2, <4>1
    <3>3. CASE k # 1
      <4> DEFINE j == n - 1  m == k - 1
      <4>1. 1 \in 1 .. n /\ j \in 1 .. n /\ 1 \in 1 .. j - 1 + 1 /\ m \in 1 .. j - 1 + 1
        BY <2>1, <3>3
      <4>2. 1 + 1 - 1 = 1 /\ 1 + m - 1 = m  BY <4>1
      <4> HIDE DEF j, m
      <4>3. SubSeq(SubSeq(p, 1, j), 1, m) = SubSeq(p, 1 + 1 - 1, 1 + m - 1)
        BY <4>1, SubSeqOfSubSeq DEF Positions, n
      <4>4. SubSeq(SubSeq(p, 1, j), 1, m) = SubSeq(p, 1, m)  BY <4>2, <4>3
      <4>5. QED  BY <3>1, <4>4 DEF j, m
    <3>4. QED  BY <3>2, <3>3
  <2>5. QED  BY <2>1, <2>2, <2>3, <2>4
<1>4. QED  BY <1>1, <1>2, <1>3

(* Every item but the root is in the body of a node.                       *)
LEMMA AroundItem ==
  ASSUME macro \in {<<text>> : text \in Macros}, NEW p \in DOMAIN Text, p # <<>>
  PROVE  Front(p) \in TextNodes /\ Last(p) \in 1 .. Text[Front(p)].items
<1> DEFINE n == Len(p)  f == Front(p)
<1>1. /\ p \in Positions /\ IsNested(PartsIn) /\ p \in DOMAIN PartsIn
      /\ DOMAIN PartsIn = DOMAIN Text
  BY TextFacts
<1>2. n \in Nat \ {0} /\ Last(p) = p[n] /\ Last(p) \in Nat \ {0}
  BY <1>1, PrefixesAlike
<1>3. n \in 1 .. n /\ f = SubSeq(p, 1, n - 1)  BY <1>2 DEF Front
<1> HIDE DEF n, f
<1>4. f \in DOMAIN PartsIn /\ p[n] <= PartsIn[f] /\ PartsIn[f] \in Nat
  BY <1>1, <1>3 DEF IsNested, n
<1>5. PartsIn[f] # 0 /\ p[n] \in 1 .. PartsIn[f]  BY <1>2, <1>4
<1>6. f \in TextNodes  BY <1>1, <1>4, <1>5, TextFacts
<1>7. QED  BY <1>2, <1>5, <1>6, TextFacts DEF f

(* The first of the owed calls and the rest.                               *)
FirstOf(s, c, t) ==
  /\ s \in Seq(Calls) /\ t \in Seq(Calls) /\ Len(s) = Len(t) + 1
  /\ s[1] = c /\ \A j \in 1 .. Len(t) : s[j + 1] = t[j]

NoModes(s) == \A j \in 1 .. Len(s) : s[j].call # "mode"

(* Where the cursor is expected by calls, all of which are among others or *)
(* expect it at p.                                                         *)
CursorsAmong(s, p, t) ==
  \A j \in 1 .. Len(s) :
    CursorAt(s[j]) = p \/ \E i \in 1 .. Len(t) : CursorAt(s[j]) = CursorAt(t[i])

(* What is unread is in the first call or in one of the rest.              *)
LEMMA UnreadFirst ==
  ASSUME NEW s, NEW c, NEW t, FirstOf(s, c, t)
  PROVE  \A q \in DOMAIN Text :
           q \in Unread(s) <=> (IsItem(c) /\ Within(q, c.at)) \/ q \in Unread(t)
<1>1. Len(t) \in Nat  BY LenProperties DEF FirstOf
<1>2. Len(s) = Len(t) + 1 /\ s[1] = c /\ \A j \in 1 .. Len(t) : s[j + 1] = t[j]
  BY DEF FirstOf
<1> TAKE q \in DOMAIN Text
<1>3. ASSUME q \in Unread(s)
      PROVE  (IsItem(c) /\ Within(q, c.at)) \/ q \in Unread(t)
  <2>1. PICK j \in 1 .. Len(s) : IsItem(s[j]) /\ Within(q, s[j].at)
    BY <1>3 DEF Unread
  <2>2. CASE j = 1  BY <1>2, <2>1, <2>2
  <2>3. CASE j # 1
    <3>1. j - 1 \in 1 .. Len(t) /\ (j - 1) + 1 = j  BY <1>1, <1>2, <2>3
    <3>2. s[j] = t[j - 1]  BY <1>2, <3>1
    <3>3. QED  BY <2>1, <3>1, <3>2 DEF Unread
  <2>4. QED  BY <2>2, <2>3
<1>4. ASSUME IsItem(c), Within(q, c.at)
      PROVE  q \in Unread(s)
  <2>1. 1 \in 1 .. Len(s)  BY <1>1, <1>2
  <2>2. QED  BY <1>2, <1>4, <2>1 DEF Unread
<1>5. ASSUME q \in Unread(t)
      PROVE  q \in Unread(s)
  <2>1. PICK j \in 1 .. Len(t) : IsItem(t[j]) /\ Within(q, t[j].at)
    BY <1>5 DEF Unread
  <2>2. j + 1 \in 1 .. Len(s) /\ s[j + 1] = t[j]  BY <1>1, <1>2
  <2>3. QED  BY <2>1, <2>2 DEF Unread
<1>6. QED  BY <1>3, <1>4, <1>5

(* A call is taken from those that are owed: the next one finds the cursor *)
(* where it left it.                                                       *)
LEMMA RestOwed ==
  ASSUME NEW s, Owed(s), s[1].call # "build"
  PROVE  LET t == Tail(s)
         IN /\ FirstOf(s, s[1], t) /\ Head(s) = s[1] /\ s[1] \in Calls
            /\ Owed(t) /\ NoModes(t)
            /\ CursorAt(t[1]) = CursorAfter(s[1])
            /\ CursorsAmong(t, CursorAt(s[1]), s)
            /\ IsItem(s[1]) =>
                 \A j \in 1 .. Len(t) : IsItem(t[j]) => LeftOf(s[1].at, t[j].at)
<1> DEFINE t == Tail(s)  n == Len(Tail(s))
<1>1. /\ s \in Seq(Calls) /\ s # <<>> /\ Linked(s) /\ ItemsInOrder(s)
  BY DEF Owed
<1>2. /\ t \in Seq(Calls) /\ n = Len(s) - 1 /\ Len(s) \in Nat \ {0}
      /\ \A i \in 1 .. n : t[i] = s[i + 1]
  BY <1>1, HeadTailProperties, EmptySeq
<1>3. Head(s) = s[1]  BY <1>1, HeadTailProperties
<1> HIDE DEF t, n
<1>4. 1 \in 1 .. Len(s) /\ 1 # Len(s)
  <2>1. 1 \in 1 .. Len(s)  BY <1>2
  <2>2. s[1].call = "build" <=> 1 = Len(s)  BY <1>1, <2>1 DEF Linked
  <2>3. QED  BY <2>1, <2>2
<1>5. n \in Nat \ {0} /\ Len(s) = n + 1 /\ n = Len(t)  BY <1>2, <1>4 DEF n, t
<1>6. t # <<>>  BY <1>5, EmptySeq
<1>7. \A j \in 1 .. n : j + 1 \in 1 .. Len(s) /\ j + 1 # 1 /\ (j = n <=> j + 1 = Len(s))
  BY <1>5
<1>8. s[1] \in Calls  BY <1>1, <1>4, ElementOfSeq
<1>9. FirstOf(s, s[1], t)  BY <1>1, <1>2, <1>5 DEF FirstOf
<1>10. Linked(t)
  <2> SUFFICES ASSUME NEW j \in 1 .. n
               PROVE  /\ CursorAt(t[j]) \in TextNodes
                      /\ IsItem(t[j]) \/ t[j].call = "done" => t[j].at # <<>>
                      /\ t[j].call = "mode" => j = 1
                      /\ t[j].call = "build" <=> j = n
                      /\ t[j].call = "build" => t[j].at = <<>>
                      /\ j < n => CursorAt(t[j + 1]) = CursorAfter(t[j])
    BY <1>5 DEF Linked
  <2>1. /\ CursorAt(s[j + 1]) \in TextNodes
        /\ IsItem(s[j + 1]) \/ s[j + 1].call = "done" => s[j + 1].at # <<>>
        /\ s[j + 1].call = "mode" => j + 1 = 1
        /\ s[j + 1].call = "build" <=> j + 1 = Len(s)
        /\ s[j + 1].call = "build" => s[j + 1].at = <<>>
        /\ j + 1 < Len(s) => CursorAt(s[j + 1 + 1]) = CursorAfter(s[j + 1])
    BY <1>1, <1>7 DEF Linked
  <2>2. t[j] = s[j + 1]  BY <1>2
  <2>3. ASSUME j < n PROVE CursorAt(t[j + 1]) = CursorAfter(t[j])
    <3>1. j + 1 \in 1 .. n /\ j + 1 < Len(s)  BY <1>5, <2>3
    <3>2. t[j + 1] = s[j + 1 + 1]  BY <1>2, <3>1
    <3>3. QED  BY <2>1, <2>2, <3>1, <3>2
  <2>4. QED  BY <1>7, <2>1, <2>2, <2>3
<1>11. NoModes(t)
  BY <1>1, <1>2, <1>5, <1>7 DEF NoModes, Linked
<1>12. ItemsInOrder(t)
  <2> SUFFICES ASSUME NEW i \in 1 .. n, NEW j \in 1 .. n, i < j, IsItem(t[i]), IsItem(t[j])
               PROVE  LeftOf(t[i].at, t[j].at)
    BY <1>5 DEF ItemsInOrder
  <2>1. i + 1 < j + 1 /\ t[i] = s[i + 1] /\ t[j] = s[j + 1]  BY <1>2, <1>5
  <2>2. QED  BY <1>1, <1>7, <2>1 DEF ItemsInOrder
<1>13. CursorAt(t[1]) = CursorAfter(s[1])
  <2>1. 1 \in 1 .. n /\ 1 < Len(s)  BY <1>5
  <2>2. CursorAt(s[1 + 1]) = CursorAfter(s[1])  BY <1>1, <1>4, <2>1 DEF Linked
  <2>3. t[1] = s[1 + 1]  BY <1>2, <2>1
  <2>4. QED  BY <2>2, <2>3
<1>14. CursorsAmong(t, CursorAt(s[1]), s)
  BY <1>2, <1>5, <1>7 DEF CursorsAmong
<1>15. ASSUME IsItem(s[1]), NEW j \in 1 .. n, IsItem(t[j])
       PROVE  LeftOf(s[1].at, t[j].at)
  <2>1. 1 < j + 1 /\ t[j] = s[j + 1]  BY <1>2, <1>5
  <2>2. QED  BY <1>1, <1>4, <1>7, <1>15, <2>1 DEF ItemsInOrder
<1>16. QED
  BY <1>3, <1>5, <1>6, <1>8, <1>9, <1>10, <1>11, <1>12, <1>13, <1>14, <1>15, <1>2
     DEF Owed, t

(* A call is put before those that are owed.                               *)
LEMMA FirstOwed ==
  ASSUME NEW t, Owed(t), NoModes(t), NEW c \in Calls, c.call # "build",
         CursorAt(c) \in TextNodes, CursorAfter(c) = CursorAt(t[1]),
         IsItem(c) \/ c.call = "done" => c.at # <<>>,
         IsItem(c) => \A j \in 1 .. Len(t) : IsItem(t[j]) => LeftOf(c.at, t[j].at)
  PROVE  LET s == <<c>> \o t
         IN /\ FirstOf(s, c, t) /\ Owed(s)
            /\ c.call # "mode" => NoModes(s)
            /\ CursorsAmong(s, CursorAt(c), t)
<1> DEFINE s == <<c>> \o t  n == Len(t)
<1>1. /\ t \in Seq(Calls) /\ n \in Nat \ {0} /\ Linked(t) /\ ItemsInOrder(t)
  BY EmptySeq DEF Owed
<1>2. /\ s \in Seq(Calls) /\ Len(s) = 1 + n /\ s[1] = c
      /\ \A j \in 1 .. n : s[j + 1] = t[j]
  <2> DEFINE o == <<c>>
  <2>1. o \in Seq(Calls) /\ Len(o) = 1 /\ o[1] = c
    BY EmptySeq
  <2>2. /\ o \o t \in Seq(Calls) /\ Len(o \o t) = Len(o) + n
        /\ \A i \in 1 .. Len(o) + n :
             (o \o t)[i] = IF i <= Len(o) THEN o[i] ELSE t[i - Len(o)]
    <3> HIDE DEF o
    <3>1. QED  BY <1>1, <2>1, ConcatProperties
  <2>3. s = o \o t  OBVIOUS
  <2> HIDE DEF o, s, n
  <2>4. 1 \in 1 .. 1 + n /\ \A j \in 1 .. n : j + 1 \in 1 .. 1 + n /\ ~(j + 1 <= 1) /\ j + 1 - 1 = j
    BY <1>1
  <2>5. s[1] = c  BY <2>1, <2>2, <2>3, <2>4
  <2>6. ASSUME NEW j \in 1 .. n PROVE s[j + 1] = t[j]
    <3> DEFINE i == j + 1
    <3>1. i \in 1 .. 1 + n /\ ~(i <= 1) /\ i - 1 = j  BY <2>4
    <3> HIDE DEF i
    <3>2. s[i] = t[i - 1]  BY <2>1, <2>2, <2>3, <3>1
    <3>3. QED  BY <3>1, <3>2 DEF i
  <2>7. QED  BY <2>1, <2>2, <2>3, <2>5, <2>6
<1> HIDE DEF s, n
<1>3. Len(s) = n + 1 /\ s # <<>> /\ FirstOf(s, c, t)
  <2>1. Len(s) = n + 1 /\ Len(s) # 0  BY <1>1, <1>2
  <2>2. QED  BY <1>1, <1>2, <2>1, EmptySeq DEF FirstOf, n
<1>4. ASSUME NEW j \in 1 .. n + 1, j # 1
      PROVE  j - 1 \in 1 .. n /\ s[j] = t[j - 1] /\ j - 1 + 1 = j
  <2>1. j - 1 \in 1 .. n /\ j - 1 + 1 = j  BY <1>1, <1>4
  <2>2. s[j - 1 + 1] = t[j - 1]  BY <1>2, <2>1
  <2>3. QED  BY <2>1, <2>2
<1>5. Linked(s)
  <2> SUFFICES ASSUME NEW j \in 1 .. n + 1
               PROVE  /\ CursorAt(s[j]) \in TextNodes
                      /\ IsItem(s[j]) \/ s[j].call = "done" => s[j].at # <<>>
                      /\ s[j].call = "mode" => j = 1
                      /\ s[j].call = "build" <=> j = n + 1
                      /\ s[j].call = "build" => s[j].at = <<>>
                      /\ j < n + 1 => CursorAt(s[j + 1]) = CursorAfter(s[j])
    BY <1>3 DEF Linked
  <2>1. CASE j = 1
    <3>1. 1 # n + 1 /\ 1 \in 1 .. n  BY <1>1
    <3>2. CursorAt(s[1 + 1]) = CursorAfter(c)  BY <1>2, <3>1
    <3>3. QED  BY <1>2, <2>1, <3>1, <3>2
  <2>2. CASE j # 1
    <3> DEFINE i == j - 1
    <3>1. i \in 1 .. n /\ s[j] = t[i] /\ i + 1 = j /\ (i = n <=> j = n + 1)
          /\ (j < n + 1 => i < n /\ j \in 1 .. n)
      BY <1>1, <1>4, <2>2
    <3> HIDE DEF i
    <3>2. /\ CursorAt(t[i]) \in TextNodes
          /\ IsItem(t[i]) \/ t[i].call = "done" => t[i].at # <<>>
          /\ t[i].call # "mode"
          /\ t[i].call = "build" <=> i = n
          /\ t[i].call = "build" => t[i].at = <<>>
          /\ i < n => CursorAt(t[i + 1]) = CursorAfter(t[i])
      BY <1>1, <3>1 DEF Linked, NoModes, n
    <3>3. j < n + 1 => s[j + 1] = t[j]  BY <1>2, <3>1
    <3>4. QED  BY <2>2, <3>1, <3>2, <3>3
  <2>3. QED  BY <2>1, <2>2
<1>6. ItemsInOrder(s)
  <2> SUFFICES ASSUME NEW i \in 1 .. n + 1, NEW j \in 1 .. n + 1, i < j,
                      IsItem(s[i]), IsItem(s[j])
               PROVE  LeftOf(s[i].at, s[j].at)
    BY <1>3 DEF ItemsInOrder
  <2>1. j # 1 /\ j - 1 \in 1 .. n /\ s[j] = t[j - 1]  BY <1>1, <1>4
  <2>2. CASE i = 1  BY <1>2, <2>1, <2>2 DEF n
  <2>3. CASE i # 1
    <3>1. i - 1 \in 1 .. n /\ s[i] = t[i - 1] /\ i - 1 < j - 1  BY <1>4, <2>3
    <3>2. QED  BY <1>1, <2>1, <3>1 DEF ItemsInOrder, n
  <2>4. QED  BY <2>2, <2>3
<1>7. ASSUME c.call # "mode" PROVE NoModes(s)
  <2> SUFFICES ASSUME NEW j \in 1 .. n + 1 PROVE s[j].call # "mode"
    BY <1>3 DEF NoModes
  <2>1. QED  BY <1>2, <1>4, <1>7 DEF NoModes, n
<1>8. CursorsAmong(s, CursorAt(c), t)
  <2> SUFFICES ASSUME NEW j \in 1 .. n + 1, j # 1
               PROVE  \E i \in 1 .. n : CursorAt(s[j]) = CursorAt(t[i])
    BY <1>2, <1>3 DEF CursorsAmong, n
  <2>1. QED  BY <1>4
<1>9. QED  BY <1>2, <1>3, <1>5, <1>6, <1>7, <1>8 DEF Owed, s

(* The items of a body, as they are owed.                                  *)
LEMMA BodyItems ==
  ASSUME macro \in {<<text>> : text \in Macros}, NEW p \in TextNodes
  PROVE  LET m == Text[p].items
         IN /\ m \in Nat /\ p \in Positions
            /\ Body(p) \in Seq(Calls) /\ Len(Body(p)) = m
            /\ \A i \in 1 .. m :
                 /\ Body(p)[i] \in Calls /\ Body(p)[i].call = "item"
                 /\ Body(p)[i].at = Append(p, i) /\ Append(p, i) \in DOMAIN Text
                 /\ Append(p, i) \in Positions /\ Append(p, i) # <<>>
                 /\ Front(Append(p, i)) = p
                 /\ Within(Append(p, i), p)
            /\ \A i, j \in 1 .. m : i < j => LeftOf(Append(p, i), Append(p, j))
<1> DEFINE m == Text[p].items
<1>1. /\ m \in Nat /\ p \in Positions
      /\ \A i \in 1 .. m : Append(p, i) \in DOMAIN Text
  BY TextFacts
<1>2. \A i \in 1 .. m : i \in Nat \ {0}  BY <1>1
<1> HIDE DEF m
<1>3. ASSUME NEW i \in 1 .. m
      PROVE  /\ Append(p, i) \in Positions /\ Append(p, i) # <<>>
             /\ Front(Append(p, i)) = p /\ Within(Append(p, i), p)
  <2>1. i \in Nat \ {0}  BY <1>2
  <2>2. Append(p, i) \in Positions /\ Append(p, i) # <<>>
    BY <1>1, <2>1, AppendProperties DEF Positions
  <2>3. Front(Append(p, i)) = p  BY <1>1, <2>1, FrontOfAppend DEF Positions
  <2>4. Within(Append(p, i), p)  BY <1>1, <2>1, <2>2, WithinFacts
  <2>5. QED  BY <2>2, <2>3, <2>4
<1>4. Body(p) = [i \in 1 .. m |-> Call("item", Append(p, i))]  BY DEF Body, m
<1>5. \A i \in 1 .. m : Call("item", Append(p, i)) \in Calls
  BY <1>1 DEF Calls, Call, m
<1>6. /\ Body(p) \in Seq(Calls) /\ Len(Body(p)) = m
      /\ \A i \in 1 .. m : Body(p)[i] = Call("item", Append(p, i))
  <2>1. Body(p) \in [1 .. m -> Calls]  BY <1>4, <1>5
  <2>2. Body(p) \in Seq(Calls)  BY <1>1, <2>1, SeqDef
  <2>3. Len(Body(p)) \in Nat /\ 1 .. Len(Body(p)) = 1 .. m
    BY <2>1, <2>2, LenProperties
  <2>4. Len(Body(p)) = m  BY <1>1, <2>3
  <2>5. QED  BY <1>4, <2>2, <2>4
<1>7. \A i, j \in 1 .. m : i < j => LeftOf(Append(p, i), Append(p, j))
  BY <1>1, <1>2, SiblingsApart
<1>8. \A i \in 1 .. m : Append(p, i) \in DOMAIN Text  BY <1>1 DEF m
<1>9. \A i \in 1 .. m :
         /\ Body(p)[i] \in Calls /\ Body(p)[i].call = "item"
         /\ Body(p)[i].at = Append(p, i) /\ Append(p, i) \in DOMAIN Text
         /\ Append(p, i) \in Positions /\ Append(p, i) # <<>>
         /\ Front(Append(p, i)) = p
         /\ Within(Append(p, i), p)
  <2> TAKE i \in 1 .. m
  <2>1. Body(p)[i] = Call("item", Append(p, i)) /\ Body(p)[i] \in Calls  BY <1>5, <1>6
  <2>2. Body(p)[i].call = "item" /\ Body(p)[i].at = Append(p, i)  BY <2>1 DEF Call
  <2>3. QED  BY <1>3, <1>8, <2>1, <2>2
<1>10. m \in Nat  BY <1>1 DEF m
<1>11. QED  BY <1>1, <1>6, <1>7, <1>9, <1>10 DEF m

(* The items of a node's body are put before what follows the node.        *)
LEMMA BodyOwed ==
  ASSUME macro \in {<<text>> : text \in Macros}, NEW p \in TextNodes,
         NEW t, Owed(t), NoModes(t), CursorAt(t[1]) = p,
         \A j \in 1 .. Len(t) : IsItem(t[j]) => LeftOf(p, t[j].at)
  PROVE  LET s == Body(p) \o t
         IN /\ Owed(s) /\ NoModes(s) /\ CursorAt(s[1]) = p
            /\ CursorsAmong(s, p, t)
            /\ \A q \in DOMAIN Text :
                 q \in Unread(s) <=> (Within(q, p) /\ q # p) \/ q \in Unread(t)
<1> DEFINE b == Body(p)  m == Text[p].items  s == Body(p) \o t  n == Len(t)
<1>1. /\ m \in Nat /\ p \in Positions /\ b \in Seq(Calls) /\ Len(b) = m
      /\ \A i \in 1 .. m :
           /\ b[i] \in Calls /\ b[i].call = "item"
           /\ b[i].at = Append(p, i) /\ Append(p, i) \in Positions /\ Append(p, i) # <<>>
           /\ Front(Append(p, i)) = p /\ Within(Append(p, i), p)
      /\ \A i, j \in 1 .. m : i < j => LeftOf(Append(p, i), Append(p, j))
  BY BodyItems
<1>2. /\ t \in Seq(Calls) /\ n \in Nat \ {0} /\ Linked(t) /\ ItemsInOrder(t)
  BY EmptySeq DEF Owed
<1>3. /\ s \in Seq(Calls) /\ Len(s) = m + n
      /\ \A i \in 1 .. m + n : s[i] = IF i <= m THEN b[i] ELSE t[i - m]
  <2> DEFINE l == Len(b)
  <2>1. /\ b \o t \in Seq(Calls) /\ Len(b \o t) = l + n
        /\ \A i \in 1 .. l + n : (b \o t)[i] = IF i <= l THEN b[i] ELSE t[i - l]
    <3> HIDE DEF b
    <3>1. QED  BY <1>1, <1>2, ConcatProperties
  <2>2. l = m  BY <1>1
  <2> HIDE DEF l, m, n
  <2>3. QED  BY <2>1, <2>2
<1> HIDE DEF b, m, s, n
<1>4. ASSUME NEW j \in 1 .. m
      PROVE  /\ j \in 1 .. m + n /\ s[j] = b[j] /\ IsItem(s[j]) /\ CursorAt(s[j]) = p
             /\ s[j].at = Append(p, j)
             /\ s[j].at # <<>> /\ s[j].call = "item"
  <2>1. j \in 1 .. m + n /\ j <= m  BY <1>1, <1>2
  <2>2. s[j] = b[j]  BY <1>3, <2>1
  <2>3. QED  BY <1>1, <2>1, <2>2 DEF IsItem, CursorAt
<1>5. ASSUME NEW j \in 1 .. m + n, ~(j \in 1 .. m)
      PROVE  j - m \in 1 .. n /\ s[j] = t[j - m] /\ j - m + m = j
  <2>1. j - m \in 1 .. n /\ ~(j <= m) /\ j - m + m = j  BY <1>1, <1>2, <1>5
  <2>2. QED  BY <1>3, <2>1
<1>6. ASSUME NEW i \in 1 .. n
      PROVE  m + i \in 1 .. m + n /\ s[m + i] = t[i] /\ (m + i = 1 => m = 0 /\ i = 1)
  <2> DEFINE j == m + i
  <2>1. j \in 1 .. m + n /\ ~(j \in 1 .. m) /\ j - m = i /\ (j = 1 => m = 0 /\ i = 1)
    BY <1>1, <1>2
  <2> HIDE DEF j
  <2>2. s[j] = t[j - m]  BY <1>5, <2>1
  <2>3. QED  BY <2>1, <2>2 DEF j
<1>7. CursorAt(s[1]) = p
  <2>1. CASE m = 0
    <3>1. 1 \in 1 .. n /\ m + 1 = 1  BY <1>2, <2>1
    <3>2. s[1] = t[1]  BY <1>6, <3>1
    <3>3. QED  BY <3>2
  <2>2. CASE m # 0
    <3>1. 1 \in 1 .. m  BY <1>1, <2>2
    <3>2. QED  BY <1>4, <3>1
  <2>3. QED  BY <2>1, <2>2
<1>8. s # <<>>
  <2>1. Len(s) # 0  BY <1>1, <1>2, <1>3
  <2>2. QED  BY <2>1, EmptySeq
<1>9. Linked(s)
  <2> SUFFICES ASSUME NEW j \in 1 .. m + n
               PROVE  /\ CursorAt(s[j]) \in TextNodes
                      /\ IsItem(s[j]) \/ s[j].call = "done" => s[j].at # <<>>
                      /\ s[j].call = "mode" => j = 1
                      /\ s[j].call = "build" <=> j = m + n
                      /\ s[j].call = "build" => s[j].at = <<>>
                      /\ j < m + n => CursorAt(s[j + 1]) = CursorAfter(s[j])
    BY <1>3 DEF Linked
  <2>1. CASE j \in 1 .. m
    <3>1. j < m + n /\ j + 1 \in 1 .. m + n  BY <1>1, <1>2, <2>1
    <3>2. CursorAfter(s[j]) = p  BY <1>4, <2>1 DEF CursorAfter
    <3>3. CursorAt(s[j + 1]) = p
      <4>1. CASE j + 1 \in 1 .. m  BY <1>4, <4>1
      <4>2. CASE ~(j + 1 \in 1 .. m)
        <5> DEFINE k == j + 1
        <5>1. k - m = 1 /\ k \in 1 .. m + n /\ ~(k \in 1 .. m)
          BY <1>1, <2>1, <3>1, <4>2
        <5> HIDE DEF k
        <5>2. s[k] = t[k - m]  BY <1>5, <5>1
        <5>3. s[k] = t[1]  BY <5>1, <5>2
        <5>4. QED  BY <5>3 DEF k
      <4>3. QED  BY <4>1, <4>2
    <3>4. QED  BY <1>4, <2>1, <3>1, <3>2, <3>3
  <2>2. CASE ~(j \in 1 .. m)
    <3> DEFINE i == j - m
    <3>1. /\ i \in 1 .. n /\ s[j] = t[i] /\ m + i = j /\ (i = n <=> j = m + n)
          /\ (j < m + n => i < n /\ i + 1 \in 1 .. n /\ m + (i + 1) = j + 1)
      BY <1>1, <1>2, <1>5, <2>2
    <3> HIDE DEF i
    <3>2. /\ CursorAt(t[i]) \in TextNodes
          /\ IsItem(t[i]) \/ t[i].call = "done" => t[i].at # <<>>
          /\ t[i].call # "mode"
          /\ t[i].call = "build" <=> i = n
          /\ t[i].call = "build" => t[i].at = <<>>
          /\ i < n => CursorAt(t[i + 1]) = CursorAfter(t[i])
      BY <1>2, <3>1 DEF Linked, NoModes, n
    <3>3. ASSUME j < m + n PROVE s[j + 1] = t[i + 1]
      <4> DEFINE k == i + 1
      <4>1. k \in 1 .. n /\ m + k = j + 1  BY <3>1, <3>3
      <4> HIDE DEF k
      <4>2. s[m + k] = t[k]  BY <1>6, <4>1
      <4>3. QED  BY <4>1, <4>2 DEF k
    <3>4. QED  BY <3>1, <3>2, <3>3
  <2>3. QED  BY <2>1, <2>2
<1>10. ItemsInOrder(s)
  <2> SUFFICES ASSUME NEW i \in 1 .. m + n, NEW j \in 1 .. m + n, i < j,
                      IsItem(s[i]), IsItem(s[j])
               PROVE  LeftOf(s[i].at, s[j].at)
    BY <1>3 DEF ItemsInOrder
  <2>1. CASE j \in 1 .. m
    <3>1. i \in 1 .. m  BY <1>1, <1>2, <2>1
    <3>2. QED  BY <1>1, <1>4, <2>1, <3>1
  <2>2. CASE i \in 1 .. m /\ ~(j \in 1 .. m)
    <3>1. j - m \in 1 .. n /\ s[j] = t[j - m]  BY <1>5, <2>2
    <3>2. LeftOf(p, s[j].at)  BY <3>1 DEF n
    <3>3. s[j].at \in Positions
      <4>1. s[j] \in Calls  BY <1>3, ElementOfSeq
      <4>2. s[j].at \in DOMAIN Text  BY <4>1 DEF Calls
      <4>3. QED  BY <4>2, TextFacts
    <3>4. Within(s[j].at, s[j].at)  BY <3>3, WithinFacts
    <3>5. LeftOf(Append(p, i), s[j].at)
      BY <1>1, <2>2, <3>2, <3>3, <3>4, BelowApart
    <3>6. QED  BY <1>4, <2>2, <3>5
  <2>3. CASE ~(i \in 1 .. m) /\ ~(j \in 1 .. m)
    <3>1. i - m \in 1 .. n /\ s[i] = t[i - m]  BY <1>5, <2>3
    <3>2. j - m \in 1 .. n /\ s[j] = t[j - m]  BY <1>5, <2>3
    <3>3. i - m < j - m  BY <1>1, <1>2
    <3>4. QED  BY <1>2, <3>1, <3>2, <3>3 DEF ItemsInOrder, n
  <2>4. QED  BY <1>1, <2>1, <2>2, <2>3
<1>11. NoModes(s)
  <2> SUFFICES ASSUME NEW j \in 1 .. m + n PROVE s[j].call # "mode"
    BY <1>3 DEF NoModes
  <2>1. CASE j \in 1 .. m  BY <1>4, <2>1
  <2>2. CASE ~(j \in 1 .. m)  BY <1>5, <2>2 DEF NoModes, n
  <2>3. QED  BY <2>1, <2>2
<1>12. CursorsAmong(s, p, t)
  <2> SUFFICES ASSUME NEW j \in 1 .. m + n
               PROVE  CursorAt(s[j]) = p \/ \E i \in 1 .. n : CursorAt(s[j]) = CursorAt(t[i])
    BY <1>3 DEF CursorsAmong, n
  <2>1. CASE j \in 1 .. m  BY <1>4, <2>1
  <2>2. CASE ~(j \in 1 .. m)  BY <1>5, <2>2
  <2>3. QED  BY <2>1, <2>2
<1>13. ASSUME NEW q \in DOMAIN Text
       PROVE  q \in Unread(s) <=> (Within(q, p) /\ q # p) \/ q \in Unread(t)
  <2>1. q \in Unread(s) <=> \E j \in 1 .. m + n : IsItem(s[j]) /\ Within(q, s[j].at)
    BY <1>3 DEF Unread
  <2>2. q \in Unread(t) <=> \E i \in 1 .. n : IsItem(t[i]) /\ Within(q, t[i].at)
    BY DEF Unread, n
  <2>3. q \in Positions  BY TextFacts
  <2>4. ASSUME Within(q, p), q # p
        PROVE  \E j \in 1 .. m + n : IsItem(s[j]) /\ Within(q, s[j].at)
    <3>1. /\ IsNested(PartsIn) /\ p \in DOMAIN PartsIn /\ q \in DOMAIN PartsIn
          /\ PartsIn[p] = m
      BY TextFacts DEF m
    <3>2. PICK c \in 1 .. m : Within(q, Append(p, c))
      BY <2>4, <3>1, PartToward
    <3>3. QED  BY <1>4, <3>2
  <2>5. ASSUME NEW j \in 1 .. m, Within(q, s[j].at)
        PROVE  Within(q, p) /\ q # p
    <3>1. j \in Nat \ {0}  BY <1>1
    <3>2. s[j].at = Append(p, j)  BY <1>4
    <3>3. Within(q, Append(p, j))  BY <2>5, <3>2
    <3>4. QED  BY <1>1, <2>3, <3>1, <3>3, WithinFacts
  <2>6. \A i \in 1 .. n : IsItem(t[i]) /\ Within(q, t[i].at) =>
           \E j \in 1 .. m + n : IsItem(s[j]) /\ Within(q, s[j].at)
    BY <1>6
  <2>7. \A j \in 1 .. m + n : ~(j \in 1 .. m) /\ IsItem(s[j]) /\ Within(q, s[j].at) =>
           \E i \in 1 .. n : IsItem(t[i]) /\ Within(q, t[i].at)
    BY <1>5
  <2>8. QED  BY <2>1, <2>2, <2>4, <2>5, <2>6, <2>7
<1>14. QED
  BY <1>3, <1>7, <1>8, <1>9, <1>10, <1>11, <1>12, <1>13 DEF Owed, s

(* A node is opened: the calls for its mode and its body come first, and   *)
(* what is inside of it is to be read.                                     *)
LEMMA OpenNode ==
  ASSUME macro \in {<<text>> : text \in Macros}, NEW p \in TextNodes,
         NEW t, Owed(t), NoModes(t), CursorAt(t[1]) = p,
         \A j \in 1 .. Len(t) : IsItem(t[j]) => LeftOf(p, t[j].at)
  PROVE  LET s == ModeOf(p) \o Body(p) \o t
         IN /\ Owed(s) /\ CursorAt(s[1]) = p
            /\ s[1] = Call("mode", p) <=> Text[p].mode # "none"
            /\ CursorsAmong(s, p, t)
            /\ \A q \in DOMAIN Text :
                 q \in Unread(s) <=> (Within(q, p) /\ q # p) \/ q \in Unread(t)
<1> DEFINE u == Body(p) \o t  c == Call("mode", p)  v == <<c>> \o u
<1>1. /\ Owed(u) /\ NoModes(u) /\ CursorAt(u[1]) = p /\ CursorsAmong(u, p, t)
      /\ \A q \in DOMAIN Text :
           q \in Unread(u) <=> (Within(q, p) /\ q # p) \/ q \in Unread(t)
  BY BodyOwed
<1>2. Body(p) \in Seq(Calls) /\ t \in Seq(Calls)  BY BodyItems DEF Owed
<1>3. p \in DOMAIN Text /\ Text[p].mode \in Modes  BY TextFacts
<1>4. CASE Text[p].mode = "none"
  <2>1. ModeOf(p) \o Body(p) \o t = u
    <3>1. ModeOf(p) = <<>>  BY <1>4 DEF ModeOf
    <3>2. <<>> \o Body(p) = Body(p)  BY <1>2, ConcatEmptySeq
    <3>3. QED  BY <3>1, <3>2
  <2>2. u[1] # Call("mode", p)
    <3>1. 1 \in 1 .. Len(u)
      <4>1. u \in Seq(Calls) /\ u # <<>>  BY <1>1 DEF Owed
      <4> HIDE DEF u
      <4>2. Len(u) \in Nat \ {0}  BY <4>1, EmptySeq
      <4>3. QED  BY <4>2
    <3> HIDE DEF u
    <3>2. u[1].call # "mode"  BY <1>1, <3>1 DEF NoModes
    <3>3. QED  BY <3>2 DEF Call
  <2> HIDE DEF u
  <2>3. QED  BY <1>1, <1>4, <2>1, <2>2
<1>5. CASE Text[p].mode # "none"
  <2>1. ModeOf(p) \o Body(p) \o t = v
    <3>1. ModeOf(p) = <<c>>  BY <1>5 DEF ModeOf
    <3>2. c \in Calls  BY <1>3 DEF Call, Calls
    <3> HIDE DEF c
    <3>3. <<c>> \in Seq(Calls)  BY <3>2
    <3>4. (<<c>> \o Body(p)) \o t = <<c>> \o (Body(p) \o t)
      BY <1>2, <3>3, ConcatAssociative
    <3>5. QED  BY <3>1, <3>4
  <2>2. /\ c \in Calls /\ c.call = "mode" /\ c.at = p /\ ~IsItem(c)
        /\ CursorAt(c) = p /\ CursorAfter(c) = p
    BY <1>3 DEF Call, Calls, IsItem, CursorAt, CursorAfter
  <2> HIDE DEF u, c
  <2>3. FirstOf(v, c, u) /\ Owed(v) /\ CursorsAmong(v, p, u)
    BY <1>1, <2>2, FirstOwed
  <2> HIDE DEF v
  <2>4. v[1] = c  BY <2>3 DEF FirstOf
  <2>5. CursorsAmong(v, p, t)
    BY <1>1, <2>3 DEF CursorsAmong
  <2>6. \A q \in DOMAIN Text : q \in Unread(v) <=> q \in Unread(u)
    BY <2>2, <2>3, UnreadFirst
  <2>7. QED  BY <1>1, <1>5, <2>1, <2>2, <2>3, <2>4, <2>5, <2>6 DEF c
<1>6. QED  BY <1>4, <1>5

(* The text of a macro stays: what is said of it after a step is what can  *)
(* be said of the new state before.                                        *)
LEMMA SameText ==
  ASSUME macro' = macro
  PROVE  /\ Expanding(declarations, parent_stack, pending)'
              <=> Expanding(declarations', parent_stack', pending')
         /\ Text' = Text /\ TextNodes' = TextNodes
<1>1. Text' = Text  BY DEF Text
<1>2. ASSUME NEW p PROVE IsNode(p)' <=> IsNode(p)
  BY <1>1 DEF IsNode
<1>3. TextNodes' = TextNodes  BY <1>1, <1>2 DEF TextNodes
<1>4. Calls' = Calls  BY <1>1 DEF Calls
<1>5. ASSUME NEW p PROVE PathOf(p)' = PathOf(p)
  BY <1>1 DEF PathOf
<1>6. ASSUME NEW p PROVE RulesIn(p)' = RulesIn(p)
  BY <1>1, <1>2 DEF RulesIn
<1>7. ASSUME NEW p PROVE Place(p)' = Place(p)
  BY <1>3 DEF Place
<1>8. Unread(pending)' = Unread(pending')
  BY <1>1 DEF Unread
<1>9. Owed(pending)' <=> Owed(pending')
  BY <1>3, <1>4 DEF Owed, Linked, ItemsInOrder
<1>10. CursorOn(parent_stack, CursorAt(pending[1]))'
         <=> CursorOn(parent_stack', CursorAt(pending'[1]))
  BY <1>7 DEF CursorOn, CursorAt, IsItem
<1>11. ASSUME NEW p PROVE ReadRules(p, pending)' = ReadRules(p, pending')
  BY <1>6, <1>8 DEF ReadRules
<1>12. ASSUME NEW n, NEW p PROVE HasRules(declarations[n], p, ReadRules(p, pending))'
                             <=> HasRules(declarations'[n], p, ReadRules(p, pending'))
  BY <1>1, <1>11 DEF HasRules
<1>13. ASSUME NEW p PROVE ReadOf(declarations[Place(p)], p, pending)'
                             <=> ReadOf(declarations'[Place(p)], p, pending')
  BY <1>1, <1>5, <1>7, <1>12 DEF ReadOf, Call
<1>14. ReadSoFar(declarations, pending)' <=> ReadSoFar(declarations', pending')
  BY <1>1, <1>3, <1>7, <1>8, <1>13 DEF ReadSoFar, CursorAt, IsItem
<1>15. QED
  BY <1>1, <1>3, <1>9, <1>10, <1>14 DEF Expanding

(* The first of the owed calls finds the cursor at a node; an item is in   *)
(* the body of that node.                                                  *)
LEMMA FirstCall ==
  ASSUME macro \in {<<text>> : text \in Macros}, NEW s, Owed(s)
  PROVE  LET c == s[1]
             p == CursorAt(c)
         IN /\ c \in Calls /\ Head(s) = c /\ p \in TextNodes /\ p \in Positions
            /\ IsItem(c) \/ c.call = "done" => c.at # <<>>
            /\ IsItem(c) =>
                 /\ c.at \in DOMAIN Text /\ c.at \in Positions /\ c.at = Append(p, Last(c.at))
                 /\ Last(c.at) \in 1 .. Text[p].items
<1> DEFINE c == s[1]  p == CursorAt(s[1])
<1>1. s \in Seq(Calls) /\ s # <<>> /\ Linked(s)  BY DEF Owed
<1>2. 1 \in 1 .. Len(s) /\ c \in Calls /\ Head(s) = c
  <2>1. Len(s) \in Nat \ {0}  BY <1>1, EmptySeq
  <2>2. 1 \in 1 .. Len(s)  BY <2>1
  <2>3. QED  BY <1>1, <2>2, ElementOfSeq, HeadTailProperties
<1>3. p \in TextNodes /\ (IsItem(c) \/ c.call = "done" => c.at # <<>>)
  BY <1>1, <1>2 DEF Linked
<1>4. p \in Positions  BY <1>3, TextFacts
<1>5. ASSUME IsItem(c)
      PROVE  /\ c.at \in DOMAIN Text /\ c.at \in Positions /\ c.at = Append(p, Last(c.at))
             /\ Last(c.at) \in 1 .. Text[p].items
  <2>1. c.at \in DOMAIN Text /\ c.at # <<>> /\ p = Front(c.at)
    BY <1>2, <1>3, <1>5 DEF Calls, CursorAt
  <2> HIDE DEF c, p
  <2>2. c.at \in Positions  BY <2>1, TextFacts
  <2>3. c.at = Append(p, Last(c.at))  BY <2>1, <2>2, PrefixesAlike
  <2>4. QED  BY <2>1, <2>2, <2>3, AroundItem
<1>6. QED  BY <1>2, <1>3, <1>4, <1>5

(* The item that comes first is read before all that the rest will read.   *)
LEMMA ItemFirst ==
  ASSUME macro \in {<<text>> : text \in Macros}, NEW s, Owed(s), IsItem(s[1])
  PROVE  LET a == s[1].at
             t == Tail(s)
         IN /\ a \in DOMAIN Text /\ a \in Unread(s) /\ a \notin Unread(t)
            /\ \A x \in Unread(t) : StartsBefore(a, x)
            /\ \A q \in DOMAIN Text :
                  q \in Unread(s) <=> Within(q, a) \/ q \in Unread(t)
<1> DEFINE a == s[1].at  t == Tail(s)
<1>1. a \in DOMAIN Text /\ a \in Positions /\ s[1] \in Calls
  BY FirstCall
<1>2. /\ FirstOf(s, s[1], t) /\ t \in Seq(Calls)
      /\ \A j \in 1 .. Len(t) : IsItem(t[j]) => LeftOf(a, t[j].at)
  <2>1. s[1].call # "build"  BY DEF IsItem
  <2>2. QED  BY <2>1, RestOwed DEF FirstOf
<1> HIDE DEF a, t
<1>3. \A q \in DOMAIN Text : q \in Unread(s) <=> Within(q, a) \/ q \in Unread(t)
  BY <1>2, UnreadFirst DEF a
<1>4. a \in Unread(s)  BY <1>1, <1>3, WithinFacts
<1>5. ASSUME NEW x \in Unread(t)
      PROVE  a # x /\ StartsBefore(a, x)
  <2>1. x \in DOMAIN Text /\ \E j \in 1 .. Len(t) : IsItem(t[j]) /\ Within(x, t[j].at)
    BY DEF Unread
  <2>2. PICK j \in 1 .. Len(t) : IsItem(t[j]) /\ Within(x, t[j].at)  BY <2>1
  <2>3. LeftOf(a, t[j].at)  BY <1>2, <2>2
  <2>4. t[j] \in Calls  BY <1>2, ElementOfSeq
  <2>5. t[j].at \in Positions /\ x \in Positions  BY <2>1, <2>4, TextFacts DEF Calls
  <2>6. LeftOf(a, x)  BY <1>1, <2>2, <2>3, <2>5, WithinFacts, BelowApart
  <2>7. a # x
    <3>1. ~Within(x, a)  BY <1>1, <2>5, <2>6, ApartNotWithin
    <3>2. QED  BY <1>1, <3>1, WithinFacts
  <2>8. QED  BY <2>6, <2>7 DEF StartsBefore
<1>6. QED  BY <1>1, <1>3, <1>4, <1>5 DEF a, t

(* A call that is no item reads nothing: what is unread is in the rest.    *)
LEMMA UnreadRest ==
  ASSUME macro \in {<<text>> : text \in Macros},
         NEW s, Owed(s), s[1].call \in {"mode", "done"}
  PROVE  LET t == Tail(s)
         IN /\ Owed(t) /\ CursorAt(t[1]) = CursorAfter(s[1])
            /\ Unread(t) = Unread(s)
            /\ \A p : t[1] # Call("mode", p)
            /\ \A j \in 1 .. Len(t) : CursorAt(t[j]) \notin Unread(s)
                 \/ \E i \in 1 .. Len(s) : CursorAt(s[i]) \in Unread(s)
<1> DEFINE t == Tail(s)
<1>1. /\ FirstOf(s, s[1], t) /\ Owed(t) /\ NoModes(t)
      /\ CursorAt(t[1]) = CursorAfter(s[1]) /\ CursorsAmong(t, CursorAt(s[1]), s)
  BY RestOwed
<1>2. 1 \in 1 .. Len(t) /\ 1 \in 1 .. Len(s)
  <2>1. /\ t \in Seq(Calls) /\ t # <<>> /\ s \in Seq(Calls) /\ s # <<>>
    BY <1>1 DEF Owed
  <2> HIDE DEF t
  <2>2. Len(t) \in Nat \ {0} /\ Len(s) \in Nat \ {0}  BY <2>1, EmptySeq
  <2>3. QED  BY <2>2
<1> HIDE DEF t
<1>3. ~IsItem(s[1])  BY DEF IsItem
<1>4. Unread(t) = Unread(s)
  <2>1. \A q \in DOMAIN Text : q \in Unread(s) <=> q \in Unread(t)
    BY <1>1, <1>3, UnreadFirst
  <2>2. QED  BY <2>1 DEF Unread
<1>5. \A p : t[1] # Call("mode", p)
  <2>1. t[1].call # "mode"  BY <1>1, <1>2 DEF NoModes
  <2>2. QED  BY <2>1 DEF Call
<1>6. ASSUME NEW j \in 1 .. Len(t), CursorAt(t[j]) \in Unread(s)
      PROVE  \E i \in 1 .. Len(s) : CursorAt(s[i]) \in Unread(s)
  BY <1>1, <1>2, <1>6 DEF CursorsAmong
<1>7. QED  BY <1>1, <1>4, <1>5, <1>6 DEF t

(* The cursor's declaration is that of the node where it stands.           *)
LEMMA CursorDeclared ==
  ASSUME macro \in {<<text>> : text \in Macros},
         NEW ds \in Seq(Declarations), NEW stack, NEW s, Expanding(ds, stack, s)
  PROVE  LET p == CursorAt(s[1])
         IN /\ p \in TextNodes \ Unread(s) /\ Place(p) \in DOMAIN ds
            /\ Last(stack) = Place(p) /\ Len(stack) = Len(p) + 1
<1> DEFINE p == CursorAt(s[1])
<1>1. /\ Owed(s) /\ ReadSoFar(ds, s) /\ CursorOn(stack, p)
  BY DEF Expanding
<1>2. p \in TextNodes /\ p \in Positions  BY <1>1, FirstCall
<1>3. p \notin Unread(s)
  <2>1. s \in Seq(Calls) /\ s # <<>>  BY <1>1 DEF Owed
  <2>2. Len(s) \in Nat \ {0}  BY <2>1, EmptySeq
  <2>3. 1 \in 1 .. Len(s)  BY <2>2
  <2>4. QED  BY <1>1, <2>3 DEF ReadSoFar
<1> HIDE DEF p
<1>4. Place(p) \in 1 .. Len(ds)  BY <1>1, <1>2, <1>3 DEF ReadSoFar
<1>5. DOMAIN ds = 1 .. Len(ds)  BY LenProperties
<1>6. Last(stack) = Place(p) /\ Len(stack) = Len(p) + 1
  <2>1. Len(p) \in Nat /\ SubSeq(p, 1, Len(p)) = p  BY <1>2, PrefixesAlike
  <2> DEFINE k == Len(p) + 1
  <2>2. k \in 1 .. Len(p) + 1 /\ k - 1 = Len(p)  BY <2>1
  <2>3. Len(stack) = k  BY <1>1 DEF CursorOn
  <2> HIDE DEF k
  <2>4. stack[k] = Place(SubSeq(p, 1, k - 1))  BY <1>1, <2>2 DEF CursorOn
  <2>5. stack[k] = Place(p)  BY <2>1, <2>2, <2>4
  <2>6. QED  BY <2>3, <2>5 DEF Last, k
<1>7. QED  BY <1>2, <1>3, <1>4, <1>5, <1>6 DEF p

(* The call for the mode gives the declaration of the node its mode.       *)
LEMMA ReadMode ==
  ASSUME macro \in {<<text>> : text \in Macros},
         NEW ds \in Seq(Declarations), NEW stack, NEW s, Expanding(ds, stack, s),
         s[1].call = "mode",
         NEW n, n = Last(stack), NEW es,
         es = [ds EXCEPT ![n].is_capture = (Text[s[1].at].mode = "capture")]
  PROVE  Expanding(es, stack, Tail(s))
<1> DEFINE p == s[1].at  t == Tail(s)  capture == Text[p].mode = "capture"
<1>1. Owed(s) /\ ReadSoFar(ds, s) /\ CursorOn(stack, CursorAt(s[1]))
  BY DEF Expanding
<1>2. CursorAt(s[1]) = p /\ CursorAfter(s[1]) = p  BY DEF CursorAt, CursorAfter, IsItem
<1>3. /\ Owed(t) /\ CursorAt(t[1]) = p /\ Unread(t) = Unread(s)
      /\ \A q : t[1] # Call("mode", q)
      /\ \A j \in 1 .. Len(t) : CursorAt(t[j]) \notin Unread(s)
           \/ \E i \in 1 .. Len(s) : CursorAt(s[i]) \in Unread(s)
  BY <1>1, <1>2, UnreadRest
<1>4. /\ p \in TextNodes \ Unread(s) /\ n = Place(p) /\ n \in DOMAIN ds
  BY <1>2, CursorDeclared
<1>5. /\ DOMAIN es = DOMAIN ds /\ Len(es) = Len(ds)
      /\ \A i \in DOMAIN ds : /\ es[i].full_path = ds[i].full_path /\ es[i].rules = ds[i].rules
                              /\ i # n => es[i] = ds[i]
      /\ es[n].is_capture = capture
  <2>1. \A i \in DOMAIN ds : ds[i] \in Declarations
    BY LenProperties, ElementOfSeq
  <2> DEFINE d == [ds[n] EXCEPT !.is_capture = capture]
  <2>2. d \in Declarations  BY <1>4, <2>1 DEF Declarations
  <2>3. es = [ds EXCEPT ![n] = d]  OBVIOUS
  <2>4. /\ d.full_path = ds[n].full_path /\ d.rules = ds[n].rules
        /\ d.is_capture = capture
    BY <1>4, <2>1 DEF Declarations
  <2> HIDE DEF d, capture
  <2>5. es \in Seq(Declarations) /\ DOMAIN es = DOMAIN ds
    BY <1>4, <2>2, <2>3, ExceptSeq
  <2>6. Len(es) = Len(ds)
    BY <1>4, <2>2, <2>3, ExceptSeq
  <2>7. QED  BY <1>4, <2>3, <2>4, <2>5, <2>6
<1> HIDE DEF t, p, capture
<1>6. ReadSoFar(es, t)
  <2>1. ASSUME NEW q \in TextNodes \ Unread(s)
        PROVE  Place(q) \in 1 .. Len(es) /\ ReadOf(es[Place(q)], q, t)
    <3> DEFINE i == Place(q)
    <3>1. i \in 1 .. Len(ds) /\ ReadOf(ds[i], q, s) /\ (q # p => i # n)
      BY <1>1, <1>4 DEF ReadSoFar
    <3>2. i \in DOMAIN ds  BY <3>1, LenProperties
    <3> HIDE DEF i
    <3>3. ReadRules(q, t) = ReadRules(q, s)  BY <1>3 DEF ReadRules
    <3>4. es[i].full_path = PathOf(q) /\ HasRules(es[i], q, ReadRules(q, t))
      BY <1>5, <3>1, <3>2, <3>3 DEF ReadOf, HasRules
    <3>5. es[i].is_capture <=> Text[q].mode = "capture" /\ t[1] # Call("mode", q)
      <4>1. CASE q = p
        <5>1. i = n  BY <1>4, <4>1 DEF i
        <5>2. QED  BY <1>3, <1>5, <4>1, <5>1 DEF capture
      <4>2. CASE q # p
        <5>1. s[1] # Call("mode", q)  BY <4>2 DEF Call, p
        <5>2. ds[i].is_capture <=> Text[q].mode = "capture"  BY <3>1, <5>1 DEF ReadOf
        <5>3. es[i] = ds[i]  BY <1>5, <3>1, <3>2, <4>2
        <5>4. QED  BY <1>3, <5>2, <5>3
      <4>3. QED  BY <4>1, <4>2
    <3>6. QED  BY <1>5, <3>1, <3>4, <3>5 DEF ReadOf, i
  <2>2. QED  BY <1>1, <1>3, <1>5, <2>1 DEF ReadSoFar
<1>7. QED  BY <1>1, <1>2, <1>3, <1>6 DEF Expanding, t

(* done() moves the cursor to where the next call expects it.              *)
LEMMA ReadDone ==
  ASSUME macro \in {<<text>> : text \in Macros},
         NEW ds \in Seq(Declarations), NEW stack \in Seq(DOMAIN ds), stack # <<>>,
         NEW s, Expanding(ds, stack, s), s[1].call = "done"
  PROVE  Expanding(ds, Front(stack), Tail(s)) /\ Len(stack) # 1
<1> DEFINE p == s[1].at  t == Tail(s)  f == Front(p)
<1>1. Owed(s) /\ ReadSoFar(ds, s) /\ CursorOn(stack, CursorAt(s[1]))
  BY DEF Expanding
<1>2. CursorAt(s[1]) = p /\ CursorAfter(s[1]) = f  BY DEF CursorAt, CursorAfter, IsItem
<1>3. /\ Owed(t) /\ CursorAt(t[1]) = f /\ Unread(t) = Unread(s)
      /\ \A q : t[1] # Call("mode", q)
      /\ \A j \in 1 .. Len(t) : CursorAt(t[j]) \notin Unread(s)
           \/ \E i \in 1 .. Len(s) : CursorAt(s[i]) \in Unread(s)
  BY <1>1, <1>2, UnreadRest
<1>4. p \in Positions /\ p # <<>>  BY <1>1, <1>2, FirstCall
<1>5. /\ Len(p) \in Nat \ {0} /\ Len(f) = Len(p) - 1
      /\ \A k \in 1 .. Len(p) : SubSeq(f, 1, k - 1) = SubSeq(p, 1, k - 1)
  BY <1>4, PrefixesAlike
<1> HIDE DEF t, p, f
<1>6. ReadSoFar(ds, t)
  <2>1. ASSUME NEW q, ReadOf(ds[Place(q)], q, s)
        PROVE  ReadOf(ds[Place(q)], q, t)
    <3>1. ReadRules(q, t) = ReadRules(q, s)  BY <1>3 DEF ReadRules
    <3>2. s[1] # Call("mode", q)  BY DEF Call
    <3>3. QED  BY <1>3, <2>1, <3>1, <3>2 DEF ReadOf
  <2>2. QED  BY <1>1, <1>3, <2>1 DEF ReadSoFar
<1>7. CursorOn(Front(stack), f)
  <2>1. Len(stack) = Len(p) + 1 /\ \A k \in 1 .. Len(p) + 1 : stack[k] = Place(SubSeq(p, 1, k - 1))
    BY <1>1, <1>2 DEF CursorOn
  <2>2. /\ Len(Front(stack)) = Len(stack) - 1
        /\ \A k \in 1 .. Len(stack) - 1 : Front(stack)[k] = stack[k]
    BY FrontLast
  <2>3. Len(stack) - 1 = Len(f) + 1 /\ Len(f) + 1 = Len(p)  BY <1>5, <2>1
  <2>4. ASSUME NEW k \in 1 .. Len(f) + 1 PROVE Front(stack)[k] = Place(SubSeq(f, 1, k - 1))
    <3>1. k \in 1 .. Len(stack) - 1 /\ k \in 1 .. Len(p) /\ k \in 1 .. Len(p) + 1
      BY <1>5, <2>3
    <3>2. QED  BY <1>5, <2>1, <2>2, <3>1
  <2>5. QED  BY <2>2, <2>3, <2>4 DEF CursorOn
<1>8. Len(stack) # 1
  <2>1. Len(stack) = Len(p) + 1  BY <1>1, <1>2 DEF CursorOn
  <2>2. QED  BY <1>5, <2>1
<1>9. QED  BY <1>3, <1>6, <1>7, <1>8 DEF Expanding, t

(* The declaration of a node has one more rule of its body, the latest.    *)
LEMMA OneRuleMore ==
  ASSUME macro \in {<<text>> : text \in Macros}, NEW p \in TextNodes,
         NEW d \in Declarations, NEW rules \in SUBSET (1 .. Text[p].items),
         HasRules(d, p, rules),
         NEW i \in 1 .. Text[p].items, \A j \in rules : j < i,
         NEW e, e.rules = Append(d.rules, Text[Append(p, i)].needs)
  PROVE  HasRules(e, p, rules \cup {i})
<1> DEFINE needs == Text[Append(p, i)].needs  n == Len(d.rules)  more == rules \cup {i}
<1>1. d.rules \in Seq(RuleNeeds)  BY DEF Declarations
<1>2. Text[p].items \in Nat  BY TextFacts
<1>3. IsFiniteSet(rules) /\ i \notin rules /\ n = Cardinality(rules) /\ n \in Nat
  <2>1. IsFiniteSet(1 .. Text[p].items)
    <3> DEFINE m == Text[p].items
    <3>1. 1 \in Int /\ m \in Int  BY <1>2
    <3> HIDE DEF m
    <3>2. QED  BY <3>1, FS_Interval DEF m
  <2>2. IsFiniteSet(rules)  BY <2>1, FS_Subset
  <2>3. i \notin rules  BY <1>2
  <2>4. n = Cardinality(rules)  BY DEF HasRules
  <2>5. QED  BY <2>2, <2>3, <2>4, FS_CardinalityType
<1>4. Cardinality(more) = n + 1
  BY <1>3, FS_AddElement
<1>5. /\ Len(e.rules) = n + 1 /\ e.rules[n + 1] = needs
      /\ \A k \in 1 .. n : e.rules[k] = d.rules[k]
  <2> DEFINE S == RuleNeeds \cup {needs}  r == d.rules
  <2>1. r \in Seq(S)  BY <1>1, SeqMonotonic
  <2>2. needs \in S  OBVIOUS
  <2> HIDE DEF S, needs, r
  <2>3. /\ Len(Append(r, needs)) = Len(r) + 1 /\ Append(r, needs)[Len(r) + 1] = needs
        /\ \A k \in 1 .. Len(r) : Append(r, needs)[k] = r[k]
    BY <2>1, <2>2, AppendProperties
  <2>4. QED  BY <2>3 DEF needs, r
<1>6. ASSUME NEW k \in rules
      PROVE  e.rules[Cardinality({j \in more : j <= k})] = Text[Append(p, k)].needs
  <2> DEFINE before == {j \in rules : j <= k}
  <2>1. {j \in more : j <= k} = before
    <3>1. ~(i <= k)  BY <1>2
    <3>2. QED  BY <3>1
  <2>2. Cardinality(before) \in 1 .. n
    <3>1. before \subseteq rules /\ k \in before
      <4>1. k <= k  BY <1>2
      <4>2. QED  BY <4>1
    <3> HIDE DEF before
    <3>2. IsFiniteSet(before) /\ Cardinality(before) <= n  BY <1>3, <3>1, FS_Subset
    <3>3. Cardinality(before) \in Nat /\ Cardinality(before) # 0
      BY <3>1, <3>2, FS_CardinalityType, FS_EmptySet
    <3>4. QED  BY <1>3, <3>2, <3>3
  <2>3. d.rules[Cardinality(before)] = Text[Append(p, k)].needs
    BY DEF HasRules
  <2> HIDE DEF before
  <2>4. QED  BY <1>5, <2>1, <2>2, <2>3
<1>7. e.rules[Cardinality({j \in more : j <= i})] = needs
  <2>1. {j \in more : j <= i} = more
    <3>1. \A j \in more : j <= i  BY <1>2
    <3>2. QED  BY <3>1
  <2>2. QED  BY <1>4, <1>5, <2>1
<1> HIDE DEF more
<1>8. \A k \in more : e.rules[Cardinality({j \in more : j <= k})] = Text[Append(p, k)].needs
  BY <1>6, <1>7 DEF more
<1>9. QED  BY <1>4, <1>5, <1>8 DEF HasRules, more

(* The call for a rule adds it to the node around it, after the rules that *)
(* stand before it.                                                        *)
LEMMA ReadRule ==
  ASSUME macro \in {<<text>> : text \in Macros},
         NEW ds \in Seq(Declarations), NEW stack, NEW s, Expanding(ds, stack, s),
         IsItem(s[1]), s[1].at \notin TextNodes,
         NEW n, n = Last(stack), NEW es,
         es = [ds EXCEPT ![n].rules = Append(@, Text[s[1].at].needs)]
  PROVE  Expanding(es, stack, Tail(s)) /\ Text[s[1].at].needs \in RuleNeeds
<1> DEFINE a == s[1].at  t == Tail(s)  p == CursorAt(s[1])  i == Last(s[1].at)
           needs == Text[s[1].at].needs
<1>1. Owed(s) /\ ReadSoFar(ds, s) /\ CursorOn(stack, p)
  BY DEF Expanding
<1>2. /\ a \in DOMAIN Text /\ a \in Positions /\ p \in TextNodes /\ p \in Positions
      /\ a = Append(p, i) /\ i \in 1 .. Text[p].items /\ a \notin TextNodes
  BY <1>1, FirstCall
<1>3. /\ a \in Unread(s) /\ a \notin Unread(t)
      /\ \A x \in Unread(t) : StartsBefore(a, x)
      /\ \A q \in DOMAIN Text : q \in Unread(s) <=> Within(q, a) \/ q \in Unread(t)
  BY <1>1, ItemFirst
<1>4. /\ Owed(t) /\ NoModes(t) /\ CursorAt(t[1]) = p /\ CursorsAmong(t, p, s)
  <2>1. s[1].call # "build"  BY DEF IsItem
  <2>2. CursorAfter(s[1]) = p  BY DEF CursorAfter, IsItem
  <2>3. QED  BY <1>1, <2>1, <2>2, RestOwed
<1>5. /\ p \notin Unread(s) /\ n = Place(p) /\ n \in DOMAIN ds
  BY CursorDeclared
<1>6. needs \in RuleNeeds
  BY <1>2, TextFacts
<1>7. /\ DOMAIN es = DOMAIN ds /\ Len(es) = Len(ds)
      /\ \A k \in DOMAIN ds : /\ es[k].full_path = ds[k].full_path
                              /\ es[k].is_capture = ds[k].is_capture
                              /\ k # n => es[k] = ds[k]
      /\ es[n].rules = Append(ds[n].rules, needs) /\ ds[n] \in Declarations
  <2>1. \A k \in DOMAIN ds : ds[k] \in Declarations
    BY LenProperties, ElementOfSeq
  <2> DEFINE d == [ds[n] EXCEPT !.rules = Append(@, needs)]
  <2>2. ds[n] \in Declarations /\ ds[n].rules \in Seq(RuleNeeds)
    BY <1>5, <2>1 DEF Declarations
  <2>3. es = [ds EXCEPT ![n] = d]  OBVIOUS
  <2> HIDE DEF needs
  <2>4. Append(ds[n].rules, needs) \in Seq(RuleNeeds)
    BY <1>6, <2>2, AppendProperties
  <2>5. /\ d \in Declarations
        /\ d.full_path = ds[n].full_path /\ d.is_capture = ds[n].is_capture
        /\ d.rules = Append(ds[n].rules, needs)
    BY <2>2, <2>4 DEF Declarations
  <2> HIDE DEF d
  <2>6. es \in Seq(Declarations) /\ DOMAIN es = DOMAIN ds
    BY <1>5, <2>5, <2>3, ExceptSeq
  <2>7. Len(es) = Len(ds)
    BY <1>5, <2>5, <2>3, ExceptSeq
  <2>8. QED  BY <1>5, <2>2, <2>3, <2>5, <2>6, <2>7
<1> HIDE DEF t, p, a, i, needs
<1>8. Unread(t) = Unread(s) \ {a}
  <2>1. ASSUME NEW q \in DOMAIN Text, Within(q, a) PROVE q = a
    <3>1. IsNested(PartsIn) /\ DOMAIN PartsIn = DOMAIN Text /\ PartsIn[a] = 0
      BY <1>2, TextFacts
    <3> SUFFICES ASSUME q # a PROVE FALSE
      OBVIOUS
    <3>2. \E c \in 1 .. PartsIn[a] : Within(q, Append(a, c))
      BY <1>2, <2>1, <3>1, PartToward
    <3>3. QED  BY <3>1, <3>2
  <2>2. Unread(t) \subseteq DOMAIN Text /\ Unread(s) \subseteq DOMAIN Text  BY DEF Unread
  <2>3. Within(a, a)  BY <1>2, WithinFacts
  <2>4. QED  BY <1>2, <1>3, <2>1, <2>2, <2>3
<1>9. TextNodes \ Unread(t) = TextNodes \ Unread(s)  BY <1>2, <1>8
<1>10. ASSUME NEW q \in TextNodes
       PROVE  ReadRules(q, t) = IF q = p THEN ReadRules(q, s) \cup {i} ELSE ReadRules(q, s)
  <2>1. q \in Positions /\ Text[q].items \in Nat  BY TextFacts
  <2>2. RulesIn(q) \subseteq 1 .. Text[q].items  BY DEF RulesIn
  <2>3. ASSUME NEW k \in RulesIn(q) PROVE Append(q, k) = a <=> q = p /\ k = i
    <3>1. k \in Nat \ {0} /\ i \in Nat \ {0}
      <4>1. Text[p].items \in Nat  BY <1>2, TextFacts
      <4>2. QED  BY <1>2, <2>1, <2>2, <4>1
    <3>2. ASSUME Append(q, k) = a PROVE q = p /\ k = i
      <4>1. Front(Append(q, k)) = q /\ Front(Append(p, i)) = p
        BY <1>2, <2>1, <3>1, FrontOfAppend DEF Positions
      <4>2. q = p  BY <1>2, <3>2, <4>1
      <4>3. Append(p, k)[Len(p) + 1] = k /\ Append(p, i)[Len(p) + 1] = i
        BY <1>2, <3>1, AppendProperties DEF Positions
      <4>4. QED  BY <1>2, <3>2, <4>2, <4>3
    <3>3. QED  BY <1>2, <3>2
  <2>4. i \in RulesIn(p)  BY <1>2 DEF RulesIn, TextNodes
  <2>5. CASE q = p  BY <1>8, <2>3, <2>4, <2>5 DEF ReadRules
  <2>6. CASE q # p  BY <1>8, <2>3, <2>6 DEF ReadRules
  <2>7. QED  BY <2>5, <2>6
<1>11. ReadSoFar(es, t)
  <2>1. ASSUME NEW r \in DOMAIN Text \ Unread(t), NEW x \in Unread(t)
        PROVE  StartsBefore(r, x)
    <3>1. CASE r = a  BY <1>3, <3>1
    <3>2. CASE r # a  BY <1>1, <1>8, <3>2 DEF ReadSoFar
    <3>3. QED  BY <3>1, <3>2
  <2>2. ASSUME NEW j \in 1 .. Len(t)
        PROVE  CursorAt(t[j]) \notin Unread(t)
    <3>1. CursorAt(t[j]) \notin Unread(s)
      BY <1>1, <1>4, <1>5 DEF CursorsAmong, ReadSoFar
    <3>2. QED  BY <1>8, <3>1
  <2>3. ASSUME NEW q \in TextNodes \ Unread(s)
        PROVE  Place(q) \in 1 .. Len(es) /\ ReadOf(es[Place(q)], q, t)
    <3> DEFINE k == Place(q)
    <3>1. k \in 1 .. Len(ds) /\ ReadOf(ds[k], q, s) /\ (q # p => k # n)
      BY <1>1, <1>2, <1>5 DEF ReadSoFar
    <3>2. k \in DOMAIN ds  BY <3>1, LenProperties
    <3>3. q = p => k = n  BY <1>5
    <3> HIDE DEF k
    <3>4. s[1] # Call("mode", q)  BY DEF Call, IsItem
    <3>5. t[1] # Call("mode", q)
      <4>1. t \in Seq(Calls) /\ t # <<>>  BY <1>4 DEF Owed
      <4>2. Len(t) \in Nat \ {0}  BY <4>1, EmptySeq
      <4>3. 1 \in 1 .. Len(t)  BY <4>2
      <4>4. QED  BY <1>4, <4>3 DEF NoModes, Call
    <3>6. es[k].full_path = PathOf(q) /\ (es[k].is_capture <=> Text[q].mode = "capture")
      BY <1>7, <3>1, <3>2, <3>4 DEF ReadOf
    <3>7. HasRules(es[k], q, ReadRules(q, t))
      <4>1. HasRules(ds[k], q, ReadRules(q, s))  BY <3>1 DEF ReadOf
      <4>2. CASE q # p
        <5>1. es[k] = ds[k]  BY <1>7, <3>1, <3>2, <4>2
        <5>2. QED  BY <1>10, <4>1, <4>2, <5>1
      <4>3. CASE q = p
        <5>1. ReadRules(p, s) \in SUBSET (1 .. Text[p].items)  BY DEF ReadRules, RulesIn
        <5>2. ASSUME NEW j \in ReadRules(p, s) PROVE j < i
          <6>1. /\ Text[p].items \in Nat /\ j \in 1 .. Text[p].items
                /\ Append(p, j) \in DOMAIN Text /\ Append(p, j) \notin Unread(s)
            BY <1>2, <5>1, TextFacts DEF ReadRules
          <6>2. Append(p, j) \in Positions  BY <6>1, TextFacts
          <6>3. StartsBefore(Append(p, j), a)  BY <1>1, <1>3, <6>1 DEF ReadSoFar
          <6>4. ~StartsBefore(a, Append(p, j))  BY <1>2, <6>2, <6>3, StartsOnce
          <6>5. j # i  BY <1>2, <1>3, <6>1
          <6>6. ASSUME i < j PROVE FALSE
            <7>1. i \in Nat \ {0} /\ j \in Nat \ {0}  BY <1>2, <6>1
            <7>2. LeftOf(a, Append(p, j))  BY <1>2, <6>6, <7>1, SiblingsApart
            <7>3. a # Append(p, j)  BY <1>3, <6>1
            <7>4. QED  BY <6>4, <7>2, <7>3 DEF StartsBefore
          <6>7. QED  BY <1>2, <6>1, <6>5, <6>6
        <5>3. /\ HasRules(ds[n], p, ReadRules(p, s))
              /\ es[n].rules = Append(ds[n].rules, Text[Append(p, i)].needs)
          BY <1>2, <1>7, <3>3, <4>1, <4>3 DEF needs, a
        <5>4. HasRules(es[n], p, ReadRules(p, s) \cup {i})
          BY <1>2, <1>7, <5>1, <5>2, <5>3, OneRuleMore
        <5>5. QED  BY <1>2, <1>10, <3>3, <4>3, <5>4
      <4>4. QED  BY <4>2, <4>3
    <3>8. QED  BY <1>7, <3>1, <3>5, <3>6, <3>7 DEF ReadOf, k
  <2>4. QED  BY <1>1, <1>7, <1>9, <2>1, <2>2, <2>3 DEF ReadSoFar
<1>12. QED  BY <1>1, <1>4, <1>6, <1>11 DEF Expanding, t, needs, p

(* A part's path is that of the part around it, and its own tag.           *)
LEMMA PathGrows ==
  ASSUME NEW a \in Positions, a # <<>>, NEW p, p = Front(a)
  PROVE  PathOf(a) = Append(PathOf(p), Text[a].tag)
<1> DEFINE x == PathOf(p)  y == PathOf(a)  m == Len(a)
<1>1. /\ m \in Nat \ {0} /\ Len(p) = m - 1 /\ SubSeq(a, 1, m) = a
      /\ \A i \in 1 .. m : SubSeq(p, 1, i - 1) = SubSeq(a, 1, i - 1)
  BY PrefixesAlike
<1>2. Len(p) + 1 = m  BY <1>1
<1> HIDE DEF m
<1>3. /\ x = [i \in 1 .. m |-> Text[SubSeq(p, 1, i - 1)].tag]
      /\ y = [i \in 1 .. m + 1 |-> Text[SubSeq(a, 1, i - 1)].tag]
  BY <1>2 DEF PathOf, m
<1>4. \A i \in 1 .. m : x[i] = Text[SubSeq(a, 1, i - 1)].tag  BY <1>1, <1>3
<1> DEFINE S == {Text[SubSeq(a, 1, i - 1)].tag : i \in 1 .. m + 1}
<1>5. m + 1 \in 1 .. m + 1 /\ m + 1 - 1 = m /\ \A i \in 1 .. m : i \in 1 .. m + 1
  BY <1>1
<1>6. \A i \in 1 .. m + 1 : Text[SubSeq(a, 1, i - 1)].tag \in S  OBVIOUS
<1>7. y[m + 1] = Text[a].tag
  <2> DEFINE l == m + 1
  <2>1. l \in 1 .. m + 1 /\ l - 1 = m  BY <1>1
  <2> HIDE DEF l
  <2>2. y[l] = Text[SubSeq(a, 1, l - 1)].tag  BY <1>3, <2>1 DEF l
  <2>3. QED  BY <1>1, <2>1, <2>2 DEF l, m
<1> HIDE DEF S, x, y
<1>8. x \in [1 .. m -> S] /\ y \in [1 .. m + 1 -> S] /\ Text[a].tag \in S
  <2>1. x \in [1 .. m -> S]  BY <1>3, <1>4, <1>5, <1>6
  <2>2. y \in [1 .. m + 1 -> S]  BY <1>3, <1>6
  <2>3. QED  BY <1>5, <1>7, <2>1, <2>2
<1>9. x \in Seq(S) /\ Len(x) = m /\ y \in Seq(S) /\ Len(y) = m + 1
  <2>1. m \in Nat /\ m + 1 \in Nat  BY <1>1
  <2>2. x \in Seq(S) /\ y \in Seq(S)  BY <1>8, <2>1, SeqDef
  <2>3. DOMAIN x = 1 .. m /\ DOMAIN y = 1 .. m + 1  BY <1>3
  <2>4. Len(x) \in Nat /\ DOMAIN x = 1 .. Len(x) /\ Len(y) \in Nat /\ DOMAIN y = 1 .. Len(y)
    BY <2>2, LenProperties
  <2>5. Len(x) = m  BY <2>1, <2>3, <2>4
  <2>6. Len(y) = m + 1  BY <2>1, <2>3, <2>4
  <2>7. QED  BY <2>2, <2>5, <2>6
<1> DEFINE z == Append(x, Text[a].tag)
<1>10. z \in Seq(S) /\ Len(z) = m + 1 /\ z[m + 1] = Text[a].tag
       /\ \A i \in 1 .. m : z[i] = x[i]
  BY <1>8, <1>9, AppendProperties
<1>11. \A i \in 1 .. m : y[i] = x[i]  BY <1>3, <1>4, <1>5
<1> HIDE DEF z
<1>12. \A i \in 1 .. m + 1 : i \in 1 .. m \/ i = m + 1  BY <1>1
<1>13. \A i \in 1 .. Len(z) : z[i] = y[i]  BY <1>7, <1>10, <1>11, <1>12
<1>14. z = y  BY <1>9, <1>10, <1>13, SeqEqual
<1>15. QED  BY <1>14 DEF x, y, z

(* The call for a node declares it next, after all nodes that start before *)
(* it, and opens it.                                                       *)
LEMMA ReadNode ==
  ASSUME macro \in {<<text>> : text \in Macros},
         NEW ds \in Seq(Declarations), NEW stack \in Seq(DOMAIN ds), NEW s,
         Expanding(ds, stack, s), IsItem(s[1]), s[1].at \in TextNodes,
         NEW n, n = Last(stack), NEW d \in Declarations,
         d = Declaration(Text[s[1].at].tag, ds[n].full_path, n),
         NEW es, es = Append(ds, d), NEW k, k = Len(ds) + 1
  PROVE  Expanding(es, Append(stack, k),
                   ModeOf(s[1].at) \o Body(s[1].at) \o DoneThen(s[1].at, Tail(s)))
<1> DEFINE a == s[1].at  t == Tail(s)  p == CursorAt(s[1])
           c == Call("done", a)  v == <<c>> \o t
           u == ModeOf(a) \o Body(a) \o v
<1>1. Owed(s) /\ ReadSoFar(ds, s) /\ CursorOn(stack, p)
  BY DEF Expanding
<1>2. /\ a \in DOMAIN Text /\ a \in Positions /\ a # <<>> /\ a \in TextNodes
      /\ p \in TextNodes /\ p \in Positions
  BY <1>1, FirstCall
<1>3. /\ a \in Unread(s) /\ a \notin Unread(t)
      /\ \A x \in Unread(t) : StartsBefore(a, x)
      /\ \A q \in DOMAIN Text : q \in Unread(s) <=> Within(q, a) \/ q \in Unread(t)
  BY <1>1, ItemFirst
<1>4. /\ Owed(t) /\ NoModes(t) /\ CursorAt(t[1]) = p /\ CursorsAmong(t, p, s)
      /\ \A j \in 1 .. Len(t) : IsItem(t[j]) => LeftOf(a, t[j].at)
  <2>1. s[1].call # "build"  BY DEF IsItem
  <2>2. CursorAfter(s[1]) = p  BY DEF CursorAfter, IsItem
  <2>3. QED  BY <1>1, <2>1, <2>2, RestOwed
<1>5. /\ p \notin Unread(s) /\ n = Place(p) /\ n \in DOMAIN ds /\ Len(stack) = Len(p) + 1
  BY CursorDeclared
<1>6. p = Front(a)  BY DEF CursorAt
<1>7. /\ c \in Calls /\ c.call = "done" /\ c.at = a /\ ~IsItem(c)
      /\ CursorAt(c) = a /\ CursorAfter(c) = p
  BY <1>2, <1>6 DEF Call, Calls, IsItem, CursorAt, CursorAfter
<1> HIDE DEF a, p, t, c
<1>8. FirstOf(v, c, t) /\ Owed(v) /\ NoModes(v) /\ CursorsAmong(v, a, t)
  BY <1>2, <1>4, <1>7, FirstOwed
<1> HIDE DEF v
<1>9. /\ CursorAt(v[1]) = a
      /\ \A j \in 1 .. Len(v) : IsItem(v[j]) => LeftOf(a, v[j].at)
      /\ \A q \in DOMAIN Text : q \in Unread(v) <=> q \in Unread(t)
  <2>1. v[1] = c /\ Len(v) = Len(t) + 1 /\ \A j \in 1 .. Len(t) : v[j + 1] = t[j]
    BY <1>8 DEF FirstOf
  <2>2. Len(t) \in Nat
    <3>1. t \in Seq(Calls)  BY <1>4 DEF Owed
    <3>2. QED  BY <3>1, LenProperties
  <2>3. ASSUME NEW j \in 1 .. Len(v), IsItem(v[j]) PROVE LeftOf(a, v[j].at)
    <3>1. j # 1  BY <1>7, <2>1, <2>3
    <3>2. j - 1 \in 1 .. Len(t) /\ (j - 1) + 1 = j  BY <2>1, <2>2, <3>1
    <3>3. v[j] = t[j - 1]  BY <2>1, <3>2
    <3>4. QED  BY <1>4, <2>3, <3>2, <3>3
  <2>4. \A q \in DOMAIN Text : q \in Unread(v) <=> q \in Unread(t)
    BY <1>7, <1>8, UnreadFirst
  <2>5. QED  BY <1>7, <2>1, <2>3, <2>4
<1>10. /\ Owed(u) /\ CursorAt(u[1]) = a
       /\ u[1] = Call("mode", a) <=> Text[a].mode # "none"
       /\ CursorsAmong(u, a, v)
       /\ \A q \in DOMAIN Text :
            q \in Unread(u) <=> (Within(q, a) /\ q # a) \/ q \in Unread(v)
  BY <1>2, <1>8, <1>9, OpenNode
<1> HIDE DEF u
<1>11. Unread(u) = Unread(s) \ {a}
  <2>1. Unread(u) \subseteq DOMAIN Text /\ Unread(s) \subseteq DOMAIN Text  BY DEF Unread
  <2>2. QED  BY <1>3, <1>9, <1>10, <2>1
<1> DEFINE read == TextNodes \ Unread(s)
<1>12. TextNodes \ Unread(u) = read \cup {a} /\ a \notin read
  BY <1>2, <1>3, <1>11
<1>13. Len(ds) = Cardinality(read) /\ Len(ds) \in Nat
  BY <1>1, LenProperties DEF ReadSoFar
<1>14. Cardinality(read \cup {a}) = Len(ds) + 1
  <2>1. IsFiniteSet(TextNodes)  BY TextFacts
  <2>2. read \in SUBSET TextNodes  OBVIOUS
  <2> HIDE DEF read
  <2>3. IsFiniteSet(read)  BY <2>1, <2>2, FS_Subset
  <2>4. QED  BY <1>12, <1>13, <2>3, FS_AddElement
<1>15. Place(a) = k
  <2>1. ASSUME NEW q \in TextNodes PROVE StartsBefore(q, a) <=> q \in read
    <3>1. q \in DOMAIN Text /\ q \in Positions  BY TextFacts
    <3>2. q \in read => StartsBefore(q, a)  BY <1>1, <1>3, <3>1 DEF ReadSoFar
    <3>3. ASSUME q \notin read, StartsBefore(q, a) PROVE FALSE
      <4>1. ~StartsBefore(a, q)  BY <1>2, <3>1, <3>3, StartsOnce
      <4>2. q # a  BY <3>3 DEF StartsBefore
      <4>3. ~Within(q, a)  BY <4>1, <4>2 DEF StartsBefore
      <4>4. QED  BY <1>3, <3>1, <3>3, <4>1, <4>3
    <3>4. QED  BY <3>2, <3>3
  <2>2. {q \in TextNodes : StartsBefore(q, a)} = read  BY <2>1
  <2> HIDE DEF read
  <2>3. QED  BY <1>13, <2>2 DEF Place
<1>16. /\ Len(es) = Len(ds) + 1 /\ es[k] = d
       /\ \A i \in 1 .. Len(ds) : es[i] = ds[i]
  BY AppendProperties
<1>17. d.full_path = PathOf(a) /\ ~d.is_capture /\ d.rules = <<>>
  <2>1. ReadOf(ds[n], p, s)  BY <1>1, <1>2, <1>5 DEF ReadSoFar
  <2>2. ds[n].full_path = PathOf(p)  BY <2>1 DEF ReadOf
  <2>3. d.full_path = Append(PathOf(p), Text[a].tag) /\ ~d.is_capture /\ d.rules = <<>>
    BY <2>2 DEF Declaration, a
  <2>4. PathOf(a) = Append(PathOf(p), Text[a].tag)  BY <1>2, <1>6, PathGrows
  <2>5. QED  BY <2>3, <2>4
<1>18. ReadSoFar(es, u)
  <2>1. ASSUME NEW r \in DOMAIN Text \ Unread(u), NEW x \in Unread(u)
        PROVE  StartsBefore(r, x)
    <3>1. CASE r = a
      <4>1. CASE x \in Unread(t)  BY <1>3, <3>1, <4>1
      <4>2. CASE x \notin Unread(t)
        <5>1. x \in DOMAIN Text  BY DEF Unread
        <5>2. Within(x, a) /\ x # a  BY <1>9, <1>10, <4>2, <5>1
        <5>3. QED  BY <3>1, <5>2 DEF StartsBefore
      <4>3. QED  BY <4>1, <4>2
    <3>2. CASE r # a  BY <1>1, <1>11, <3>2 DEF ReadSoFar
    <3>3. QED  BY <3>1, <3>2
  <2>2. ASSUME NEW j \in 1 .. Len(u)
        PROVE  CursorAt(u[j]) \notin Unread(u)
    <3>1. ASSUME NEW i \in 1 .. Len(t) PROVE CursorAt(t[i]) \notin Unread(s)
      BY <1>1, <1>4, <1>5 DEF CursorsAmong, ReadSoFar
    <3>2. CursorAt(u[j]) = a \/ \E i \in 1 .. Len(t) : CursorAt(u[j]) = CursorAt(t[i])
      BY <1>8, <1>10 DEF CursorsAmong
    <3>3. QED  BY <1>11, <3>1, <3>2
  <2>3. ASSUME NEW q \in read
        PROVE  /\ Place(q) \in 1 .. Len(ds) /\ Place(q) \in 1 .. Len(es)
               /\ ReadOf(es[Place(q)], q, u)
    <3>1. Place(q) \in 1 .. Len(ds) /\ ReadOf(ds[Place(q)], q, s)
      BY <1>1 DEF ReadSoFar
    <3>2. Place(q) \in 1 .. Len(es) /\ es[Place(q)] = ds[Place(q)]  BY <1>13, <1>16, <3>1
    <3>3. ReadRules(q, u) = ReadRules(q, s)
      <4>1. \A i \in RulesIn(q) : Append(q, i) # a
        BY <1>2 DEF RulesIn, TextNodes
      <4>2. QED  BY <1>11, <4>1 DEF ReadRules
    <3>4. s[1] # Call("mode", q)  BY DEF Call, IsItem
    <3>5. u[1] # Call("mode", q)
      <4>1. q # a  BY <1>12
      <4>2. CursorAt(Call("mode", q)) = q  BY DEF Call, CursorAt, IsItem
      <4>3. QED  BY <1>10, <4>1, <4>2
    <3>6. QED  BY <3>1, <3>2, <3>3, <3>4, <3>5 DEF ReadOf
  <2>4. Place(a) \in 1 .. Len(es) /\ ReadOf(es[Place(a)], a, u)
    <3>1. Place(a) \in 1 .. Len(es)  BY <1>13, <1>15, <1>16
    <3>2. Text[a].mode = "capture" => u[1] = Call("mode", a)  BY <1>10
    <3>3. ReadRules(a, u) = {}
      <4> SUFFICES ASSUME NEW i \in RulesIn(a) PROVE Append(a, i) \in Unread(u)
        BY DEF ReadRules
      <4>1. /\ Text[a].items \in Nat /\ i \in 1 .. Text[a].items
            /\ Append(a, i) \in DOMAIN Text
        BY <1>2, TextFacts DEF RulesIn
      <4>2. Append(a, i) \in Positions /\ i \in Nat \ {0}  BY <4>1, TextFacts
      <4>3. Within(Append(a, i), Append(a, i))  BY <4>2, WithinFacts
      <4>4. Within(Append(a, i), a) /\ Append(a, i) # a  BY <1>2, <4>2, <4>3, WithinFacts
      <4>5. QED  BY <1>10, <4>1, <4>4
    <3>4. HasRules(d, a, {})
      <4>1. Len(d.rules) = 0  BY <1>17
      <4>2. QED  BY <4>1, FS_EmptySet DEF HasRules
    <3>5. es[Place(a)] = d  BY <1>15, <1>16
    <3>6. QED  BY <1>17, <3>1, <3>2, <3>3, <3>4, <3>5 DEF ReadOf
  <2>5. Place(a) \notin 1 .. Len(ds)  BY <1>13, <1>15
  <2>6. \A r, q \in read : q # r => Place(q) # Place(r)
    BY <1>1 DEF ReadSoFar
  <2> DEFINE now == TextNodes \ Unread(u)
  <2>7. \A q \in now : q \in read \/ q = a  BY <1>12
  <2>8. Len(es) = Cardinality(now)  BY <1>12, <1>14, <1>16
  <2> HIDE DEF read
  <2>9. \A q \in now : /\ Place(q) \in 1 .. Len(es) /\ ReadOf(es[Place(q)], q, u)
                       /\ \A r \in now : r # q => Place(r) # Place(q)
    <3> HIDE DEF now
    <3>1. QED  BY <2>3, <2>4, <2>5, <2>6, <2>7
  <2>10. QED  BY <2>1, <2>2, <2>8, <2>9 DEF ReadSoFar
<1>19. CursorOn(Append(stack, k), a)
  <2> DEFINE m == Len(a)  more == Append(stack, k)
  <2>1. /\ m \in Nat \ {0} /\ Len(p) = m - 1 /\ SubSeq(a, 1, m) = a
        /\ \A i \in 1 .. m : SubSeq(p, 1, i - 1) = SubSeq(a, 1, i - 1)
    BY <1>2, <1>6, PrefixesAlike
  <2>2. Len(p) + 1 = m /\ Len(stack) = m  BY <1>5, <2>1
  <2> DEFINE S == DOMAIN ds \cup {k}
  <2>3. stack \in Seq(S) /\ k \in S  BY SeqMonotonic
  <2> HIDE DEF S, m
  <2>4. Len(more) = m + 1 /\ more[m + 1] = k /\ \A i \in 1 .. m : more[i] = stack[i]
    BY <2>2, <2>3, AppendProperties
  <2> HIDE DEF more
  <2>5. ASSUME NEW i \in 1 .. m + 1 PROVE more[i] = Place(SubSeq(a, 1, i - 1))
    <3>1. CASE i = m + 1
      <4>1. i - 1 = m  BY <2>1, <3>1
      <4>2. SubSeq(a, 1, i - 1) = a  BY <2>1, <4>1
      <4>3. QED  BY <1>15, <2>4, <3>1, <4>2
    <3>2. CASE i # m + 1
      <4>1. i \in 1 .. m  BY <2>1, <3>2
      <4>2. stack[i] = Place(SubSeq(p, 1, i - 1))  BY <1>1, <2>2, <4>1 DEF CursorOn
      <4>3. QED  BY <2>1, <2>4, <4>1, <4>2
    <3>3. QED  BY <3>1, <3>2
  <2>6. QED  BY <2>4, <2>5 DEF CursorOn, m, more
<1>20. QED
  BY <1>10, <1>18, <1>19 DEF Expanding, DoneThen, a, c, t, u, v

(* What a declaration says of a node when all of its body was read.        *)
Declared(d, p) ==
  /\ d.full_path = PathOf(p)
  /\ d.is_capture <=> Text[p].mode = "capture"
  /\ HasRules(d, p, RulesIn(p))

(* When build() is owed, all has been read, and the cursor is at the root. *)
LEMMA ReadAll ==
  ASSUME macro \in {<<text>> : text \in Macros},
         NEW ds, NEW stack, NEW s, Expanding(ds, stack, s), s[1].call = "build"
  PROVE  /\ Len(ds) = Cardinality(TextNodes) /\ Len(stack) = 1
         /\ \A p \in TextNodes : Declared(ds[Place(p)], p)
<1>1. Owed(s) /\ ReadSoFar(ds, s) /\ CursorOn(stack, CursorAt(s[1]))
  BY DEF Expanding
<1>2. s \in Seq(Calls) /\ s # <<>> /\ Linked(s)  BY <1>1 DEF Owed
<1>3. Len(s) = 1 /\ s[1].at = <<>>
  <2>1. Len(s) \in Nat \ {0}  BY <1>2, EmptySeq
  <2>2. 1 \in 1 .. Len(s)  BY <2>1
  <2>3. QED  BY <1>2, <2>2 DEF Linked
<1>4. Unread(s) = {}
  <2>1. \A j \in 1 .. Len(s) : ~IsItem(s[j])  BY <1>3 DEF IsItem
  <2>2. QED  BY <2>1 DEF Unread
<1>5. Len(stack) = 1
  <2>1. CursorAt(s[1]) = <<>>  BY <1>3 DEF CursorAt, IsItem
  <2>2. Len(<<>>) + 1 = 1  BY EmptySeq
  <2>3. QED  BY <1>1, <2>1, <2>2 DEF CursorOn
<1>6. TextNodes \ Unread(s) = TextNodes  BY <1>4
<1>7. ASSUME NEW p \in TextNodes PROVE Declared(ds[Place(p)], p)
  <2>1. ReadOf(ds[Place(p)], p, s)  BY <1>1, <1>6 DEF ReadSoFar
  <2>2. ReadRules(p, s) = RulesIn(p)  BY <1>4 DEF ReadRules
  <2>3. s[1] # Call("mode", p)  BY DEF Call
  <2>4. QED  BY <2>1, <2>2, <2>3 DEF ReadOf, Declared
<1>8. QED  BY <1>1, <1>5, <1>6, <1>7 DEF ReadSoFar

(* What MacroBuilds says after a step, in terms of the new state.          *)
LEMMA SameBuilt ==
  ASSUME macro' = macro
  PROVE  MacroBuilds' <=>
           (macro # <<>> /\ built' # "no" =>
              /\ built' # "panic" /\ parent_stack' = <<Root>>
              /\ Len(declarations') = Cardinality(TextNodes)
              /\ \A p \in TextNodes : Declared(declarations'[Place(p)], p))
<1>1. Text' = Text /\ TextNodes' = TextNodes  BY SameText
<1>2. ASSUME NEW p PROVE IsNode(p)' <=> IsNode(p)
  BY <1>1 DEF IsNode
<1>3. ASSUME NEW p
      PROVE  PathOf(p)' = PathOf(p) /\ RulesIn(p)' = RulesIn(p) /\ Place(p)' = Place(p)
  <2>1. PathOf(p)' = PathOf(p)  BY <1>1 DEF PathOf
  <2>2. RulesIn(p)' = RulesIn(p)  BY <1>1, <1>2 DEF RulesIn
  <2>3. Place(p)' = Place(p)  BY <1>1 DEF Place
  <2>4. QED  BY <2>1, <2>2, <2>3
<1>4. ASSUME NEW p PROVE HasRules(declarations[Place(p)], p, RulesIn(p))'
                             <=> HasRules(declarations'[Place(p)], p, RulesIn(p))
  BY <1>1, <1>3 DEF HasRules
<1>5. QED  BY <1>1, <1>3, <1>4 DEF MacroBuilds, Declared, Root

(* Before the expansion only the root is declared.                         *)
LEMMA MacroStarts == MacroInit => MacroInv
<1> SUFFICES ASSUME MacroInit PROVE MacroInv
  OBVIOUS
<1>1. Init /\ BInv  BY InitBInv DEF MacroInit
<1>2. built = "no"  BY <1>1 DEF Init
<1>3. CASE macro = <<>>
  <2>1. pending = <<>>
    BY <1>3 DEF MacroInit
  <2>2. QED  BY <1>1, <1>3, <2>1 DEF MacroInv
<1>4. CASE macro # <<>>
  <2> DEFINE c == Call("build", <<>>)  t == <<c>>  r == <<>>
             s == ModeOf(<<>>) \o Body(<<>>) \o t
  <2>1. /\ macro \in {<<text>> : text \in Macros}
        /\ Text[<<>>].tag = declarations[Root].tag /\ pending = s
    BY <1>4 DEF MacroInit
  <2>2. r \in TextNodes /\ r \in DOMAIN Text /\ r \in Positions
    BY <2>1, TextFacts
  <2>3. /\ c \in Calls /\ c.call = "build" /\ c.at = r /\ CursorAt(c) = r
    BY <2>2 DEF Call, Calls, CursorAt, IsItem
  <2> HIDE DEF c, r
  <2>4. t \in Seq(Calls) /\ t # <<>> /\ Len(t) = 1 /\ t[1] = c  BY <2>3
  <2> HIDE DEF t
  <2>5. Owed(t) /\ NoModes(t)
    <3>1. \A j \in 1 .. Len(t) : j = 1 /\ j = Len(t)  BY <2>4
    <3>2. Linked(t)  BY <2>2, <2>3, <2>4, <3>1 DEF Linked, IsItem, r
    <3>3. ItemsInOrder(t)  BY <3>1 DEF ItemsInOrder
    <3>4. QED  BY <2>3, <2>4, <3>1, <3>2, <3>3 DEF Owed, NoModes
  <2>6. CursorAt(t[1]) = r /\ \A j \in 1 .. Len(t) : ~IsItem(t[j]) /\ CursorAt(t[j]) = r
    <3>1. \A j \in 1 .. Len(t) : j = 1  BY <2>4
    <3>2. QED  BY <2>3, <2>4, <3>1 DEF IsItem
  <2>7. /\ Owed(s) /\ CursorAt(s[1]) = r
        /\ s[1] = Call("mode", r) <=> Text[r].mode # "none"
        /\ CursorsAmong(s, r, t)
        /\ \A q \in DOMAIN Text :
             q \in Unread(s) <=> (Within(q, r) /\ q # r) \/ q \in Unread(t)
    BY <2>1, <2>2, <2>5, <2>6, OpenNode DEF r
  <2> HIDE DEF s
  <2>8. ASSUME NEW q \in DOMAIN Text
        PROVE  /\ q \in Unread(s) <=> q # r
               /\ q # r => StartsBefore(r, q) /\ ~StartsBefore(q, r)
    <3>1. q \in Positions  BY <2>1, TextFacts
    <3>2. Within(q, r)  BY <3>1, WithinFacts DEF r
    <3>3. q \notin Unread(t)  BY <2>6 DEF Unread
    <3>4. q # r => StartsBefore(r, q)  BY <3>2 DEF StartsBefore
    <3>5. QED  BY <2>2, <2>7, <3>1, <3>2, <3>3, <3>4, StartsOnce
  <2>9. TextNodes \ Unread(s) = {r}
    BY <2>1, <2>2, <2>8, TextFacts
  <2>10. Place(r) = 1
    <3>1. ~StartsBefore(r, r)  BY DEF StartsBefore
    <3>2. {q \in TextNodes : StartsBefore(q, r)} = {}
      BY <2>1, <2>8, <3>1, TextFacts
    <3>3. QED  BY <3>2, FS_EmptySet DEF Place
  <2>11. PICK tag \in Tags : declarations = <<Declaration(tag, <<>>, NoNode)>>
    BY <1>1 DEF Init
  <2> DEFINE d == declarations[1]
  <2>12. /\ Len(declarations) = 1 /\ ~d.is_capture /\ d.rules = <<>> /\ Text[r].tag = tag
         /\ d.full_path = <<tag>>
    BY <2>1, <2>11 DEF Declaration, Root, r
  <2> HIDE DEF d
  <2>13. d.full_path = PathOf(r)
    <3>1. Len(r) = 0 /\ SubSeq(r, 1, 0) = r  BY SubSeqEmpty DEF r
    <3>2. PathOf(r) = [k \in 1 .. 1 |-> tag]
      <4>1. \A k \in 1 .. 1 : k - 1 = 0  OBVIOUS
      <4>2. PathOf(r) = [k \in 1 .. 1 |-> Text[SubSeq(r, 1, k - 1)].tag]
        BY <3>1 DEF PathOf
      <4>3. QED  BY <2>12, <3>1, <4>1, <4>2
    <3>3. <<tag>> = [k \in 1 .. 1 |-> tag]
      <4>1. <<tag>> \in Seq({tag}) /\ [k \in 1 .. 1 |-> tag] \in Seq({tag})  OBVIOUS
      <4>2. QED  BY <4>1
    <3>4. QED  BY <2>12, <3>2, <3>3
  <2>14. ReadOf(d, r, s)
    <3>1. Text[r].mode = "capture" => s[1] = Call("mode", r)  BY <2>7
    <3>2. ReadRules(r, s) = {}
      <4> SUFFICES ASSUME NEW i \in RulesIn(r) PROVE Append(r, i) \in Unread(s)
        BY DEF ReadRules
      <4>1. /\ Text[r].items \in Nat /\ i \in 1 .. Text[r].items
            /\ Append(r, i) \in DOMAIN Text
        BY <2>1, <2>2, TextFacts DEF RulesIn
      <4>2. Append(r, i) # r
        <5>1. i \in Nat \ {0}  BY <4>1
        <5>2. Append(r, i) # <<>>  BY <2>2, <5>1, AppendProperties DEF Positions
        <5>3. QED  BY <5>2 DEF r
      <4>3. QED  BY <2>8, <4>1, <4>2
    <3>3. HasRules(d, r, {})
      <4>1. Len(d.rules) = 0  BY <2>12
      <4>2. QED  BY <4>1, FS_EmptySet DEF HasRules
    <3>4. QED  BY <2>12, <2>13, <3>1, <3>2, <3>3 DEF ReadOf
  <2>15. ReadSoFar(declarations, s)
    <3>1. \A q \in DOMAIN Text \ Unread(s), x \in Unread(s) : StartsBefore(q, x)
      <4>1. Unread(s) \subseteq DOMAIN Text  BY DEF Unread
      <4>2. QED  BY <2>8, <4>1
    <3>2. \A j \in 1 .. Len(s) : CursorAt(s[j]) \notin Unread(s)
      BY <2>2, <2>6, <2>7, <2>8 DEF CursorsAmong
    <3>3. Cardinality({r}) = 1  BY FS_Singleton
    <3>4. Place(r) \in 1 .. Len(declarations) /\ ReadOf(declarations[Place(r)], r, s)
      BY <2>10, <2>12, <2>14 DEF d
    <3>5. QED  BY <2>9, <2>12, <3>1, <3>2, <3>3, <3>4 DEF ReadSoFar
  <2>16. CursorOn(parent_stack, r)
    <3>1. Len(r) = 0 /\ SubSeq(r, 1, 0) = r  BY SubSeqEmpty DEF r
    <3>2. Len(parent_stack) = 1 /\ parent_stack[1] = 1  BY <1>1 DEF Init, Root
    <3>3. Len(r) + 1 = 1  BY <3>1
    <3>4. ASSUME NEW k \in 1 .. 1 PROVE parent_stack[k] = Place(SubSeq(r, 1, k - 1))
      <4>1. k = 1 /\ k - 1 = 0  OBVIOUS
      <4>2. SubSeq(r, 1, k - 1) = r  BY <3>1, <4>1
      <4>3. QED  BY <2>10, <3>2, <4>1, <4>2
    <3>5. QED  BY <3>2, <3>3, <3>4 DEF CursorOn
  <2>17. Expanding(declarations, parent_stack, pending)
    BY <2>1, <2>7, <2>15, <2>16 DEF Expanding
  <2>18. QED  BY <1>1, <1>2, <1>4, <2>1, <2>17 DEF MacroInv, MacroBuilds
<1>5. QED  BY <1>3, <1>4

(* A step of an expansion keeps what build() relies on.                    *)
LEMMA ExpandBInv ==
  ASSUME BInv, built = "no", macro \in {<<text>> : text \in Macros},
         Expanding(declarations, parent_stack, pending), Expand
  PROVE  BInv'
<1>1. /\ Owed(pending) /\ Head(pending) = pending[1] /\ pending[1] \in Calls
      /\ Here \in DOMAIN Text
  <2>1. Owed(pending)  BY DEF Expanding
  <2>2. QED  BY <2>1, FirstCall DEF Calls, Here
<1>2. ASSUME ExpandNode PROVE BInv'
  <2>1. Here \in TextNodes  BY <1>1, <1>2 DEF ExpandNode, TextNodes
  <2>2. Text[Here].tag \in Tags  BY <2>1, TextFacts
  <2>3. QED  BY <1>2, <2>2, NodeStep DEF ExpandNode
<1>3. ASSUME ExpandMode PROVE BInv'
  <2>1. (Text[Here].mode = "capture") \in BOOLEAN  OBVIOUS
  <2>2. QED  BY <1>3, <2>1, SamePlacesSteps DEF ExpandMode
<1>4. ASSUME ExpandRule PROVE BInv'
  <2>1. Here \in DOMAIN Text \ TextNodes  BY <1>1, <1>4 DEF ExpandRule, TextNodes
  <2>2. Text[Here].needs \in RuleNeeds  BY <2>1, TextFacts
  <2>3. QED  BY <1>4, <2>2, SamePlacesSteps DEF ExpandRule
<1>5. ASSUME ExpandDone PROVE BInv'
  <2>1. CASE Done  BY <2>1, DoneStep
  <2>2. CASE DoneOnRoot
    BY <2>2, BInvStep DEF Next
  <2>3. QED  BY <1>5, <2>1, <2>2 DEF ExpandDone
<1>6. ASSUME ExpandBuild PROVE BInv'
  BY <1>6, BInvStep DEF ExpandBuild, Next
<1>7. QED  BY <1>2, <1>3, <1>4, <1>5, <1>6 DEF Expand

(* An expansion goes on as it should, up to build().                       *)
LEMMA ExpandStep ==
  ASSUME BInv, built = "no", macro \in {<<text>> : text \in Macros},
         Expanding(declarations, parent_stack, pending), Expand
  PROVE  /\ built' = "no" => Expanding(declarations', parent_stack', pending')
         /\ built' # "no" => pending' = <<>>
         /\ MacroBuilds'
<1> DEFINE c == pending[1]
<1>1. /\ Owed(pending) /\ Head(pending) = c /\ c \in Calls /\ Here = c.at
      /\ IsItem(c) => Here \in DOMAIN Text
      /\ macro' = macro
  <2>1. Owed(pending)  BY DEF Expanding
  <2>2. QED  BY <2>1, FirstCall DEF Here, Expand
<1>2. /\ declarations \in Seq(Declarations) /\ parent_stack \in Seq(DOMAIN declarations)
      /\ Current = Last(parent_stack) /\ Current \in DOMAIN declarations
      /\ parent_stack # <<>>
  <2>1. parent_stack # <<>>  BY DEF BInv, CursorIsPath
  <2>2. QED  BY <2>1, DeclarationFacts DEF BInv, Current
<1> HIDE DEF c
<1>3. built' = "no" => MacroBuilds'  BY <1>1, SameBuilt
<1>4. CASE ExpandNode
  <2>1. IsItem(c) /\ Here \in TextNodes /\ Text[Here].tag \in Tags
    <3>1. IsItem(c)  BY <1>1, <1>4 DEF ExpandNode, Pending, IsItem
    <3>2. Here \in TextNodes  BY <1>1, <1>4, <3>1 DEF ExpandNode, TextNodes
    <3>3. QED  BY <3>1, <3>2, TextFacts
  <2> DEFINE n == Current
             d == Declaration(Text[Here].tag, declarations[n].full_path, n)
             k == Len(declarations) + 1
  <2>2. /\ declarations' = Append(declarations, d) /\ parent_stack' = Append(parent_stack, k)
        /\ built' = "no"
        /\ pending' = ModeOf(Here) \o Body(Here) \o DoneThen(Here, Tail(pending))
    BY <1>4 DEF ExpandNode, Node, ChildIndex
  <2>3. d \in Declarations
    <3>1. declarations[n] \in Declarations
      BY <1>2, LenProperties, ElementOfSeq
    <3>2. declarations[n].full_path \in Seq(Tags)  BY <3>1 DEF Declarations
    <3>3. Append(declarations[n].full_path, Text[Here].tag) \in Seq(Tags)
      BY <2>1, <3>2, AppendProperties
    <3>4. n \in Nat
      <4>1. DOMAIN declarations = 1 .. Len(declarations)  BY <1>2, LenProperties
      <4>2. QED  BY <1>2, <4>1
    <3>5. <<>> \in Seq(RuleNeeds)  BY EmptySeq
    <3> DEFINE path == Append(declarations[n].full_path, Text[Here].tag)
    <3>6. d = [tag |-> Text[Here].tag, full_path |-> path, is_capture |-> FALSE,
               rules |-> <<>>, parent_index |-> n]
      BY DEF Declaration
    <3> HIDE DEF path, d, n
    <3>7. QED  BY <2>1, <3>3, <3>4, <3>5, <3>6 DEF Declarations, path
  <2> HIDE DEF d, k, n
  <2>4. Expanding(declarations', parent_stack', pending')
    BY <1>1, <1>2, <2>1, <2>2, <2>3, ReadNode DEF c, d, k, n
  <2>5. QED  BY <1>3, <2>2, <2>4
<1>5. CASE ExpandMode
  <2>1. c.call = "mode"  BY <1>1, <1>5 DEF ExpandMode, Pending
  <2>2. /\ declarations' =
             [declarations EXCEPT ![Current].is_capture = (Text[Here].mode = "capture")]
        /\ parent_stack' = parent_stack /\ built' = "no" /\ pending' = Tail(pending)
    BY <1>5 DEF ExpandMode, AccessMode
  <2>3. Expanding(declarations', parent_stack', pending')
    BY <1>1, <1>2, <2>1, <2>2, ReadMode DEF c
  <2>4. QED  BY <1>3, <2>2, <2>3
<1>6. CASE ExpandRule
  <2>1. IsItem(c) /\ Here \notin TextNodes
    BY <1>1, <1>6 DEF ExpandRule, Pending, IsItem, TextNodes
  <2>2. /\ declarations' = [declarations EXCEPT ![Current].rules = Append(@, Text[Here].needs)]
        /\ parent_stack' = parent_stack /\ built' = "no" /\ pending' = Tail(pending)
    BY <1>6 DEF ExpandRule, AddRule
  <2>3. Expanding(declarations', parent_stack', pending')
    BY <1>1, <1>2, <2>1, <2>2, ReadRule DEF c
  <2>4. QED  BY <1>3, <2>2, <2>3
<1>7. CASE ExpandDone
  <2>1. c.call = "done"  BY <1>1, <1>7 DEF ExpandDone, Pending
  <2>2. /\ Expanding(declarations, Front(parent_stack), Tail(pending))
        /\ Len(parent_stack) # 1
    BY <1>2, <2>1, ReadDone DEF c
  <2>3. /\ declarations' = declarations /\ parent_stack' = Front(parent_stack)
        /\ built' = "no" /\ pending' = Tail(pending)
    BY <1>7, <2>2 DEF ExpandDone, Done, DoneOnRoot, AtRoot
  <2>4. QED  BY <1>3, <2>2, <2>3
<1>8. CASE ExpandBuild
  <2>1. c.call = "build"  BY <1>1, <1>8 DEF ExpandBuild, Pending
  <2>2. /\ Len(declarations) = Cardinality(TextNodes) /\ Len(parent_stack) = 1
        /\ \A p \in TextNodes : Declared(declarations[Place(p)], p)
    BY <2>1, ReadAll DEF c
  <2>3. parent_stack = <<Root>>
    <3>1. parent_stack[1] = Root  BY DEF BInv, CursorIsPath
    <3>2. parent_stack = <<parent_stack[1]>>  BY <1>2, <2>2
    <3>3. QED  BY <3>1, <3>2
  <2>4. built' \in {"tree", "DuplicatePath", "IncompatibleAccessMode", "NestedCapture"}
    <3>1. declarations # <<>>  BY DEF BInv, ParentsFirst
    <3>2. QED  BY <1>8, <3>1, BuildErrorNames DEF ExpandBuild, BuildTree
  <2>5. pending' = <<>> /\ declarations' = declarations /\ parent_stack' = parent_stack
    BY <1>8 DEF ExpandBuild, BuildTree
  <2>6. MacroBuilds'
    BY <1>1, <2>2, <2>3, <2>4, <2>5, SameBuilt
  <2>7. QED  BY <2>4, <2>5, <2>6
<1>9. QED  BY <1>4, <1>5, <1>6, <1>7, <1>8 DEF Expand

(* The invariant is kept, by the chain and by the macro.                   *)
LEMMA MacroStep == MacroInv /\ [Chain \/ Expand]_macroVars => MacroInv'
<1> SUFFICES ASSUME MacroInv, [Chain \/ Expand]_macroVars PROVE MacroInv'
  OBVIOUS
<1>1. /\ BInv
      /\ macro = <<>> => pending = <<>>
      /\ macro # <<>> =>
           /\ macro \in {<<text>> : text \in Macros}
           /\ built = "no" => Expanding(declarations, parent_stack, pending)
           /\ built # "no" => pending = <<>>
           /\ MacroBuilds
  BY DEF MacroInv
<1>2. macro' = macro  BY DEF Chain, Expand, macroVars
<1>3. CASE Chain \/ UNCHANGED macroVars
  <2>1. BInv'
    <3>1. [Next]_vars  BY <1>3 DEF Chain, macroVars, vars
    <3>2. QED  BY <1>1, <3>1, BInvStep
  <2>2. CASE macro = <<>>
    <3>1. pending' = <<>>  BY <1>1, <1>3, <2>2 DEF Chain, macroVars
    <3>2. QED  BY <1>2, <2>1, <2>2, <3>1 DEF MacroInv
  <2>3. CASE macro # <<>>
    <3>1. UNCHANGED <<declarations, parent_stack, built, pending>>
      <4>1. CASE Chain
        <5>1. built # "no"
          <6> SUFFICES ASSUME built = "no" PROVE FALSE
            OBVIOUS
          <6>1. pending # <<>>  BY <1>1, <2>3 DEF Expanding, Owed
          <6>2. QED  BY <4>1, <6>1 DEF Chain
        <5>2. Consumed  BY <4>1, <5>1 DEF Chain, Next
        <5>3. QED  BY <4>1, <5>2 DEF Chain, Consumed, vars
      <4>2. CASE UNCHANGED macroVars  BY <4>2 DEF macroVars, vars
      <4>3. QED  BY <1>3, <4>1, <4>2
    <3>2. MacroBuilds'
      <4>1. MacroBuilds' <=>
              (macro # <<>> /\ built # "no" =>
                 /\ built # "panic" /\ parent_stack = <<Root>>
                 /\ Len(declarations) = Cardinality(TextNodes)
                 /\ \A p \in TextNodes : Declared(declarations[Place(p)], p))
        BY <1>2, <3>1, SameBuilt
      <4>2. QED  BY <1>1, <2>3, <4>1 DEF MacroBuilds, Declared
    <3>3. Expanding(declarations, parent_stack, pending)'
            <=> Expanding(declarations, parent_stack, pending)
      BY <1>2, <3>1, SameText
    <3>4. QED  BY <1>1, <1>2, <2>1, <2>3, <3>1, <3>2, <3>3 DEF MacroInv
  <2>4. QED  BY <2>2, <2>3
<1>4. CASE Expand
  <2>1. built = "no" /\ pending # <<>>
    BY <1>4 DEF Expand, ExpandNode, ExpandMode, ExpandRule, ExpandDone, ExpandBuild, Pending
  <2>2. macro # <<>>  BY <1>1, <2>1
  <2>3. BInv'  BY <1>1, <1>4, <2>1, <2>2, ExpandBInv
  <2>4. /\ built' = "no" => Expanding(declarations', parent_stack', pending')
        /\ built' # "no" => pending' = <<>>
        /\ MacroBuilds'
    BY <1>1, <1>4, <2>1, <2>2, ExpandStep
  <2>5. Expanding(declarations, parent_stack, pending)'
          <=> Expanding(declarations', parent_stack', pending')
    BY <1>2, SameText
  <2>6. QED  BY <1>1, <1>2, <2>2, <2>3, <2>4, <2>5 DEF MacroInv
<1>5. QED  BY <1>3, <1>4

(* And so it holds of every expansion.                                     *)
LEMMA AlwaysMacroInv == MacroSpec => []MacroInv
<1>1. QED  BY MacroStarts, MacroStep, PTL DEF MacroSpec

(* Whatever a program writes between the parentheses of build_tree!,       *)
(* nested to any depth and with children among the rules, the calls it     *)
(* expands to declare what the nesting reads as, never call done() at the  *)
(* root, and call build() with the cursor back there.                      *)
THEOREM MacroAsWritten == MacroSpec => []MacroBuilds
<1>1. MacroInv => MacroBuilds  BY DEF MacroInv, MacroBuilds
<1>2. QED  BY <1>1, AlwaysMacroInv, PTL

(* What is promised of the builder called by hand is promised when the     *)
(* macro calls it: the tree it returns is what the parser takes for        *)
(* granted, keeps what its rules read, and is searched by path.            *)
THEOREM MacroAsChain ==
  MacroSpec => [](/\ TypeOK /\ CursorIsPath /\ Accepts
                  /\ NeedsCovered /\ BuildsTree /\ LookupByPath)
<1>1. MacroInv => TypeOK /\ CursorIsPath  BY DEF MacroInv, BInv
<1>2. MacroInv => Accepts /\ NeedsCovered /\ BuildsTree /\ LookupByPath
  BY VerdictByPath, NeedsOfTree, TreeForParser, LookupOfTree DEF MacroInv
<1>3. QED  BY <1>1, <1>2, AlwaysMacroInv, PTL
=============================================================================
