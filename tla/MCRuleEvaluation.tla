-------------------------- MODULE MCRuleEvaluation --------------------------
(* A small instance of RuleEvaluation: every captured element with at most *)
(* MaxNodes nodes below it, and every list of at most MaxRules rules.      *)
EXTENDS RuleEvaluation

CONSTANTS MaxNodes, MaxRules

(* The element itself is an "a", which no query below it may find.         *)
Tagged(nodes) ==
  {[p \in nodes |-> [tag |-> tag[p], children |-> PartsOf(nodes, p)]] :
     tag \in {t \in [nodes -> Tags] : t[<<>>] = "a"}}

SmallElements == UNION {Tagged(nodes) : nodes \in UNION {Shapes(n) : n \in 0 .. MaxNodes}}

Rules == {"find", "find_all"} \X Tags

SomeRules == UNION {[1 .. n -> Rules] : n \in 0 .. MaxRules}

EarlierDiagnostics == {<<>>, <<[node |-> 2, rule |-> 1]>>}
=============================================================================
