--------------------------- MODULE RuleEvaluation ---------------------------
(***************************************************************************)
(* The loop of handle_end over the rules of a closing element, which       *)
(* Parser takes in one step: each rule queries the captured subtree        *)
(* through the iterator of view.rs, its diagnostics are buffered one by    *)
(* one, and whether it passed is set in the packed RuleResults.            *)
(*                                                                         *)
(* The rules are the user's (external), here of the kinds that programs    *)
(* using the library write: <<"find", t>> reports that there is no t,      *)
(* <<"find_all", t>> reports every t there is.                             *)
(***************************************************************************)
EXTENDS Views, RuleResults, Nesting

CONSTANTS Tags,
          Roots,       \* captured elements
          RuleLists,   \* the rules of a descriptor
          Buffers,     \* what diag_buffer may hold of earlier elements
          DiagBuffer   \* DIAG_BUFFER_DEFAULT

(* A captured element, as SubtreeNodes refer to each other: a node is      *)
(* known by the numbers of the children that lead to it, <<>> for the      *)
(* element itself, and has a tag and a number of children.                 *)
IsDom(r) ==
  /\ IsNested([p \in DOMAIN r |-> r[p].children])
  /\ \A p \in DOMAIN r : r[p] \in [tag : Tags, children : Nat]

ASSUME RootsAssumption == \A r \in Roots : IsDom(r)
ASSUME RuleListsAssumption == RuleLists \subseteq Seq({"find", "find_all"} \X Tags)
ASSUME BuffersAssumption ==
  /\ DiagBuffer \in Nat \ {0}
  /\ \A b \in Buffers : b \in Seq([node : Nat, rule : Nat]) /\ Len(b) < DiagBuffer

VARIABLES root, rules,
          overflow_checks,   \* profile of the build: dev, or release
          index,             \* of the rule being evaluated, from 0
          stack,             \* of the iterator, top last
          found,             \* what the query has yielded
          diags,             \* what the rule returned and is yet to buffer
          earlier, diag_buffer, sent,
          rule_results,
          stage

input == <<root, rules, overflow_checks, earlier>>
vars == <<input, index, stack, found, diags, diag_buffer, sent, rule_results, stage>>

Query == rules[index + 1][1]
Wanted == rules[index + 1][2]

-----------------------------------------------------------------------------
Init ==
  /\ root \in Roots
  /\ rules \in RuleLists
  /\ overflow_checks \in BOOLEAN
  /\ index = 0
  /\ stack = <<>> /\ found = <<>> /\ diags = <<>>
  /\ earlier \in Buffers
  /\ diag_buffer = earlier /\ sent = <<>>
  /\ rule_results = Empty
  /\ stage = "next rule"

ChildrenOf(node) == [i \in 1 .. root[node].children |-> Append(node, i)]

(* Faulty variant: the children are pushed in their own order.             *)
Unreversed(node) == ChildrenOf(node)

(* The children as they are pushed, the first one on top.                  *)
Pushed(node) == Reverse(ChildrenOf(node))

Evaluate ==
  /\ stage = "next rule"
  /\ index < Len(rules)
  /\ stack' = Pushed(<<>>)
  /\ found' = <<>>
  /\ stage' = "query"
  /\ UNCHANGED <<input, index, diags, diag_buffer, sent, rule_results>>

(* find() takes the first match and leaves the iterator.                   *)
Answered == stack = <<>> \/ (Query = "find" /\ found # <<>>)

(* SubtreeDescendants::next, and the comparison of find() and find_all().  *)
Advance ==
  /\ stage = "query"
  /\ ~Answered
  /\ stack' = Front(stack) \o Pushed(Last(stack))
  /\ found' = IF root[Last(stack)].tag = Wanted THEN Append(found, Last(stack)) ELSE found
  /\ UNCHANGED <<input, index, diags, diag_buffer, sent, rule_results, stage>>

(* What the rule makes of the answer.                                      *)
Diagnosis ==
  LET diagnostic == [node |-> 1, rule |-> index + 1]
  IN IF Query = "find"
     THEN IF found = <<>> THEN <<diagnostic>> ELSE <<>>
     ELSE [i \in DOMAIN found |-> diagnostic]

Answer ==
  /\ stage = "query"
  /\ Answered
  /\ diags' = Diagnosis
  /\ stage' = "buffer"
  /\ UNCHANGED <<input, index, stack, found, diag_buffer, sent, rule_results>>

(* Faulty variant: the buffer may hold DiagBuffer diagnostics.             *)
IsOverfull(buffer) == Len(buffer) > DiagBuffer

IsFull(buffer) == Len(buffer) >= DiagBuffer

(* buffer_diagnostic.                                                      *)
BufferDiagnostic ==
  /\ stage = "buffer"
  /\ diags # <<>>
  /\ diags' = Tail(diags)
  /\ LET buffer == Append(diag_buffer, Head(diags))
     IN IF IsFull(buffer)
        THEN sent' = sent \o buffer /\ diag_buffer' = <<>>
        ELSE diag_buffer' = buffer /\ UNCHANGED sent
  /\ UNCHANGED <<input, index, stack, found, rule_results, stage>>

(* rule_results.set(i, passed).                                            *)
RuleDone ==
  LET passed == Diagnosis = <<>>
  IN /\ stage = "buffer"
     /\ diags = <<>>
     /\ IF passed /\ index >= Width /\ overflow_checks
        THEN stage' = "panic" /\ UNCHANGED <<index, rule_results>>
        ELSE /\ rule_results' = Set(rule_results, index, passed)
             /\ index' = index + 1
             /\ stage' = "next rule"
     /\ UNCHANGED <<input, stack, found, diags, diag_buffer, sent>>

Over == (stage = "panic" \/ index = Len(rules)) /\ UNCHANGED vars

Next == Evaluate \/ Advance \/ Answer \/ BufferDiagnostic \/ RuleDone \/ Over

Spec == Init /\ [][Next]_vars

-----------------------------------------------------------------------------
Descendants == DOMAIN root \ {<<>>}

TypeOK ==
  /\ index \in 0 .. Len(rules)
  /\ stack \in Seq(Descendants) /\ found \in Seq(Descendants)
  /\ diags \in Seq([node : {1}, rule : DOMAIN rules])
  /\ Len(diag_buffer) < DiagBuffer
  /\ rule_results \subseteq 0 .. Width - 1
  /\ stage \in {"next rule", "query", "buffer", "panic"}

(* What the iterator has still to yield.                                   *)
Ahead == {q \in Descendants : \E i \in DOMAIN stack : Within(q, stack[i])}
Visited == Descendants \ Ahead

(* At every step of a query the nodes visited are those that start before  *)
(* all others in the document, which is depth-first order as the           *)
(* documentation of the queries reads, and `found` is what the query asks  *)
(* for of them, in that order: in the end the first match, or all.         *)
WalksDepthFirst ==
  stage = "query" =>
    /\ \A v \in Visited, q \in Ahead : StartsBefore(v, q)
    /\ Range(found) = {v \in Visited : root[v].tag = Wanted}
    /\ \A i, j \in DOMAIN found : i < j => StartsBefore(found[i], found[j])
    /\ Query = "find" => Len(found) <= 1

Passes(k) ==
  rules[k][1] = "find" <=> \E q \in Descendants : root[q].tag = rules[k][2]

(* The word tells each of the first Width rules apart, as a parent's rule  *)
(* reads it with get() and all_passed().  From the next rule on a build    *)
(* that checks overflow panics at a rule that passes; one that does not    *)
(* lets it answer for the rule Width before it too, and for no other.      *)
PassesModulo(k) ==
  \E j \in DOMAIN rules : (j - 1) % Width = (k - 1) % Width /\ Passes(j)

ResultsPacked ==
  LET n == Len(rules)
  IN /\ stage = "panic" => overflow_checks /\ index >= Width /\ Passes(index + 1)
     /\ index = n =>
          /\ \A k \in 1 .. n :
               k <= Width \/ ~overflow_checks =>
                 (Get(rule_results, k - 1) <=> PassesModulo(k))
          /\ AllPassed(rule_results, n) <=> \A k \in 1 .. n : PassesModulo(k)

(* What Parser does with these rules in one step is what the loop has done *)
(* in the end: diagnostics in the order of the rules, those that reported  *)
(* none have passed, the word is these packed, and of all that were ever   *)
(* buffered the full buffers have been sent, in order.                     *)
AsOneStep ==
  index = Len(rules) =>
    LET descriptor == [nodes |-> <<[rules |-> rules]>>]
        all  == sent \o diag_buffer
        mine == SubSeq(all, Len(earlier) + 1, Len(all))
    IN /\ IsPrefix(earlier, all)
       /\ \A i, j \in DOMAIN mine : i < j => mine[i].rule <= mine[j].rule
       /\ Passed(descriptor, 1, mine) = {k - 1 : k \in {r \in DOMAIN rules : Passes(r)}}
       /\ rule_results = Packed(Passed(descriptor, 1, mine))
       /\ Len(diag_buffer) = Len(all) % DiagBuffer
=============================================================================
