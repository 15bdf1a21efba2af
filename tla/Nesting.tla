------------------------------ MODULE Nesting ------------------------------
(***************************************************************************)
(* Places in something nested: captured elements and the text of a macro.  *)
(* A part is known by the numbers that lead to it from the outside, <<>>   *)
(* for the whole, and the nesting is the number of parts that each part    *)
(* has in turn.                                                            *)
(***************************************************************************)
EXTENDS Naturals, FiniteSets, SequencesExt

Positions == Seq(Nat \ {0})

IsNested(parts) ==
  /\ DOMAIN parts \subseteq Positions /\ <<>> \in DOMAIN parts
  /\ \A p \in DOMAIN parts :
       /\ parts[p] \in Nat
       /\ \A i \in 1 .. parts[p] : Append(p, i) \in DOMAIN parts
       /\ \A k \in 1 .. Len(p) :
            LET around == SubSeq(p, 1, k - 1)
            IN around \in DOMAIN parts /\ p[k] <= parts[around]

(* Part q is p or inside of p; p is to the left of q.                      *)
Within(q, p) == Len(p) <= Len(q) /\ \A i \in 1 .. Len(p) : p[i] = q[i]

LeftOf(p, q) ==
  \E k \in 1 .. Len(p) : /\ k <= Len(q) /\ p[k] < q[k]
                         /\ \A i \in 1 .. k - 1 : p[i] = q[i]

(* The order in which the parts start, as they are read.                   *)
StartsBefore(p, q) == p # q /\ (Within(q, p) \/ LeftOf(p, q))

-----------------------------------------------------------------------------
(* Small nestings, as the sets of their positions.                         *)
PartsOf(places, p) == Cardinality({c \in places \ {<<>>} : Front(c) = p})

(* Those of n parts in the whole: one part more in some part of those with *)
(* one less.                                                               *)
Shapes(n) ==
  LET shapes[i \in 0 .. n] ==
        IF i = 0 THEN {{<<>>}}
        ELSE UNION {{places \cup {Append(p, PartsOf(places, p) + 1)} : p \in places} :
                      places \in shapes[i - 1]}
  IN shapes[n]
=============================================================================
