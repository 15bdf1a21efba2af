--------------------------- MODULE SequenceFacts ---------------------------
(***************************************************************************)
(* Facts about sequences and natural numbers that the proofs about the     *)
(* components share: what the operators the modules use do to the elements *)
(* of a sequence, and induction over the natural numbers, stated for a set *)
(* instead of a predicate.                                                 *)
(***************************************************************************)
EXTENDS Integers, Sequences, SequencesExt, Nesting, TLAPS, SequenceTheorems,
        WellFoundedInduction

(* Front and Last of a non-empty sequence.                                 *)
LEMMA FrontLast ==
  ASSUME NEW S, NEW s \in Seq(S), s # <<>>
  PROVE  /\ Front(s) \in Seq(S)
         /\ Len(Front(s)) = Len(s) - 1
         /\ \A i \in 1 .. Len(s) - 1 : Front(s)[i] = s[i]
         /\ Last(s) \in S
         /\ Last(s) = s[Len(s)]
<1> DEFINE n == Len(s) - 1
<1>1. /\ Len(s) \in Nat /\ Len(s) # 0
      /\ \A i \in 1 .. Len(s) : s[i] \in S
  BY EmptySeq, LenProperties, ElementOfSeq
<1>2. /\ 1 \in Int /\ n \in Int
      /\ \A i \in 1 .. n : s[i] \in S
  BY <1>1
<1>3. /\ SubSeq(s, 1, n) \in Seq(S)
      /\ Len(SubSeq(s, 1, n)) = IF 1 <= n THEN n - 1 + 1 ELSE 0
      /\ \A i \in 1 .. n - 1 + 1 : SubSeq(s, 1, n)[i] = s[1 + i - 1]
  <2> HIDE DEF n
  <2> QED BY <1>2, SubSeqProperties
<1>4. Front(s) = SubSeq(s, 1, n)
  BY DEF Front
<1>5. Last(s) \in S /\ Last(s) = s[Len(s)]
  BY <1>1 DEF Last
<1>6. Len(Front(s)) = Len(s) - 1
  <2> DEFINE m == Len(Front(s))
  <2>1. n \in Nat  BY <1>1
  <2>2. m = IF 1 <= n THEN n - 1 + 1 ELSE 0  BY <1>3, <1>4
  <2>3. m = n
    <3> HIDE DEF m, n
    <3> QED  BY <2>1, <2>2
  <2>4. QED  BY <2>3
<1>7. \A i \in 1 .. Len(s) - 1 : Front(s)[i] = s[i]
  BY <1>1, <1>3, <1>4
<1>8. QED  BY <1>3, <1>4, <1>5, <1>6, <1>7

(* Front drops what Append added.                                          *)
LEMMA FrontOfAppend ==
  ASSUME NEW S, NEW s \in Seq(S), NEW e \in S
  PROVE  Front(Append(s, e)) = s
<1> DEFINE t == Append(s, e)
<1>1. /\ t \in Seq(S) /\ Len(t) = Len(s) + 1 /\ Len(s) \in Nat
      /\ \A i \in 1 .. Len(s) : t[i] = s[i]
  BY AppendProperties, LenProperties
<1> HIDE DEF t
<1>2. t # <<>>  BY <1>1, EmptySeq
<1>3. /\ Front(t) \in Seq(S) /\ Len(Front(t)) = Len(t) - 1
      /\ \A i \in 1 .. Len(t) - 1 : Front(t)[i] = t[i]
  BY <1>1, <1>2, FrontLast
<1>4. Len(t) - 1 = Len(s)  BY <1>1
<1>5. Front(t) = s  BY <1>1, <1>3, <1>4, SeqEqual
<1>6. QED  BY <1>5 DEF t

(* RemoveAt closes the gap: the elements before it stay, those after it    *)
(* move up by one.                                                         *)
LEMMA RemoveAtElements ==
  ASSUME NEW S, NEW s \in Seq(S), NEW i \in 1 .. Len(s)
  PROVE  /\ RemoveAt(s, i) \in Seq(S)
         /\ Len(RemoveAt(s, i)) = Len(s) - 1
         /\ \A j \in 1 .. Len(s) - 1 :
               RemoveAt(s, i)[j] = IF j < i THEN s[j] ELSE s[j + 1]
<1> DEFINE n == Len(s)
           h == i - 1
           k == i + 1
           a == SubSeq(s, 1, h)
           b == SubSeq(s, k, n)
<1>1. n \in Nat /\ i \in 1 .. n /\ \A j \in 1 .. n : s[j] \in S
  BY LenProperties, ElementOfSeq
<1>2. /\ h \in Int /\ k \in Int /\ n \in Int
      /\ \A j \in 1 .. h : s[j] \in S
      /\ \A j \in k .. n : s[j] \in S
  BY <1>1
<1>3. /\ a \in Seq(S) /\ Len(a) = IF 1 <= h THEN h - 1 + 1 ELSE 0
      /\ \A j \in 1 .. h - 1 + 1 : a[j] = s[1 + j - 1]
  <2> HIDE DEF h, n
  <2>1. 1 \in Int  OBVIOUS
  <2>2. QED  BY <1>2, <2>1, SubSeqProperties
<1>4. /\ b \in Seq(S) /\ Len(b) = IF k <= n THEN n - k + 1 ELSE 0
      /\ \A j \in 1 .. n - k + 1 : b[j] = s[k + j - 1]
  <2> HIDE DEF k, n
  <2>1. QED  BY <1>2, SubSeqProperties
<1>5. RemoveAt(s, i) = a \o b  BY DEF RemoveAt
<1>6. Len(a) = h /\ Len(b) = n - i
  <2> HIDE DEF a, b, n
  <2>1. QED  BY <1>1, <1>3, <1>4
<1>7. /\ a \o b \in Seq(S) /\ Len(a \o b) = Len(a) + Len(b)
      /\ \A j \in 1 .. Len(a) + Len(b) :
            (a \o b)[j] = IF j <= Len(a) THEN a[j] ELSE b[j - Len(a)]
  <2> HIDE DEF a, b
  <2>1. QED  BY <1>3, <1>4, ConcatProperties
<1>8. h + (n - i) = n - 1  BY <1>1
<1>9. ASSUME NEW j \in 1 .. n - 1
      PROVE  (a \o b)[j] = IF j < i THEN s[j] ELSE s[j + 1]
  <2>1. CASE j < i
    <3>1. j \in 1 .. h /\ j \in 1 .. h - 1 + 1 /\ 1 + j - 1 = j /\ j <= h
      BY <1>1, <2>1
    <3>2. a[j] = s[j]
      <4> HIDE DEF a, h
      <4>1. QED  BY <1>3, <3>1
    <3> HIDE DEF a, b, h, n
    <3>3. QED  BY <1>6, <1>7, <1>8, <2>1, <3>1, <3>2
  <2>2. CASE ~(j < i)
    <3>1. /\ ~(j <= h) /\ j - h \in 1 .. n - k + 1
          /\ k + (j - h) - 1 = j + 1
      BY <1>1, <2>2
    <3>2. b[j - h] = s[j + 1]
      <4> HIDE DEF b, h, k, n
      <4>1. QED  BY <1>4, <3>1
    <3> HIDE DEF a, b, h, n
    <3>3. QED  BY <1>6, <1>7, <1>8, <2>2, <3>1, <3>2
  <2>3. QED  BY <2>1, <2>2
<1> HIDE DEF a, b
<1>10. QED  BY <1>5, <1>6, <1>7, <1>8, <1>9

(* Removing one position of a sequence loses no other element; if no       *)
(* element occurs twice, it removes that one and leaves none twice.        *)
LEMMA RemoveAtKeeps ==
  ASSUME NEW S, NEW s \in Seq(S), NEW i \in 1 .. Len(s)
  PROVE  /\ RemoveAt(s, i) \in Seq(S)
         /\ Range(s) \subseteq Range(RemoveAt(s, i)) \cup {s[i]}
         /\ IsInjective(s) => /\ IsInjective(RemoveAt(s, i))
                             /\ Range(RemoveAt(s, i)) = Range(s) \ {s[i]}
<1> DEFINE r == RemoveAt(s, i)
           n == Len(s)
<1>1. /\ r \in Seq(S) /\ Len(r) = n - 1 /\ n \in Nat
      /\ \A j \in 1 .. n - 1 : r[j] = IF j < i THEN s[j] ELSE s[j + 1]
  BY RemoveAtElements, LenProperties
<1> HIDE DEF r
<1>2. DOMAIN s = 1 .. n /\ DOMAIN r = 1 .. n - 1
  BY <1>1, LenProperties
<1> HIDE DEF n
<1>3. ASSUME NEW j \in 1 .. n, j # i
      PROVE  s[j] \in Range(r)
  <2>1. CASE j < i
    <3>1. j \in 1 .. n - 1 /\ r[j] = s[j]  BY <1>1, <2>1 DEF n
    <3>2. QED  BY <1>2, <3>1 DEF Range
  <2>2. CASE i < j
    <3>1. j - 1 \in 1 .. n - 1 /\ ~(j - 1 < i) /\ (j - 1) + 1 = j
      BY <1>1, <2>2 DEF n
    <3>2. r[j - 1] = s[j]  BY <1>1, <3>1
    <3>3. QED  BY <1>2, <3>1, <3>2 DEF Range
  <2>3. QED  BY <1>1, <1>3, <2>1, <2>2 DEF n
<1>4. Range(s) \subseteq Range(r) \cup {s[i]}
  <2>1. Range(s) = {s[j] : j \in 1 .. n}  BY <1>2 DEF Range
  <2>2. QED  BY <1>3, <2>1
<1>5. ASSUME NEW j \in 1 .. n - 1
      PROVE  \E k \in 1 .. n : k # i /\ r[j] = s[k] /\ k = IF j < i THEN j ELSE j + 1
  BY <1>1 DEF n
<1>6. ASSUME IsInjective(s)
      PROVE  IsInjective(r) /\ Range(r) = Range(s) \ {s[i]}
  <2>1. \A j, k \in 1 .. n : s[j] = s[k] => j = k
    BY <1>2, <1>6 DEF IsInjective
  <2>2. ASSUME NEW j \in 1 .. n - 1, NEW k \in 1 .. n - 1, r[j] = r[k]
        PROVE  j = k
    <3>1. PICK j1 \in 1 .. n : r[j] = s[j1] /\ j1 = IF j < i THEN j ELSE j + 1
      BY <1>5
    <3>2. PICK k1 \in 1 .. n : r[k] = s[k1] /\ k1 = IF k < i THEN k ELSE k + 1
      BY <1>5
    <3>3. j1 = k1  BY <2>1, <2>2, <3>1, <3>2
    <3>4. QED  BY <1>1, <3>1, <3>2, <3>3 DEF n
  <2>3. IsInjective(r)  BY <1>2, <2>2 DEF IsInjective
  <2>4. i \in 1 .. n  BY DEF n
  <2>5. ASSUME NEW j \in 1 .. n - 1
        PROVE  r[j] \in Range(s) /\ r[j] # s[i]
    <3>1. PICK k \in 1 .. n : k # i /\ r[j] = s[k]  BY <1>5
    <3>2. s[k] # s[i]  BY <2>1, <2>4, <3>1
    <3>3. QED  BY <1>2, <3>1, <3>2 DEF Range
  <2>6. Range(r) \subseteq Range(s) \ {s[i]}
    <3>1. Range(r) = {r[j] : j \in 1 .. n - 1}  BY <1>2 DEF Range
    <3>2. QED  BY <2>5, <3>1
  <2>7. QED  BY <1>4, <2>3, <2>6
<1>7. QED  BY <1>1, <1>4, <1>6 DEF r

(* An element of a non-empty sequence is its head or in its tail; and not  *)
(* both if none occurs twice.                                              *)
LEMMA HeadTail ==
  ASSUME NEW S, NEW s \in Seq(S), s # <<>>
  PROVE  /\ Head(s) \in S /\ Tail(s) \in Seq(S)
         /\ Range(s) \subseteq Range(Tail(s)) \cup {Head(s)}
         /\ Head(s) \in Range(s)
         /\ IsInjective(s) => /\ IsInjective(Tail(s))
                             /\ Range(Tail(s)) = Range(s) \ {Head(s)}
<1>1. /\ Head(s) \in S /\ Tail(s) \in Seq(S)
      /\ Len(Tail(s)) = Len(s) - 1
      /\ \A i \in 1 .. Len(Tail(s)) : Tail(s)[i] = s[i + 1]
  BY HeadTailProperties
<1>2. Len(s) \in Nat /\ DOMAIN s = 1 .. Len(s)
  BY LenProperties
<1>3. DOMAIN Tail(s) = 1 .. Len(Tail(s))
  BY <1>1, LenProperties
<1>4. Head(s) = s[1]  BY HeadTailProperties
<1>5. ASSUME NEW i \in 1 .. Len(s)
      PROVE  s[i] = Head(s) \/ \E j \in 1 .. Len(Tail(s)) : s[i] = Tail(s)[j]
  <2>1. CASE i = 1  BY <2>1, <1>4
  <2>2. CASE i # 1
    <3>1. i - 1 \in 1 .. Len(Tail(s)) /\ (i - 1) + 1 = i
      BY <1>1, <1>2, <2>2
    <3>2. Tail(s)[i - 1] = s[i]  BY <1>1, <3>1
    <3>3. QED  BY <3>1, <3>2
  <2>3. QED  BY <2>1, <2>2
<1>6. Range(s) \subseteq Range(Tail(s)) \cup {Head(s)}
  BY <1>2, <1>3, <1>5 DEF Range
<1>7. 1 \in DOMAIN s
  <2>1. Len(s) # 0  BY EmptySeq
  <2>2. QED  BY <1>2, <2>1
<1>8. Head(s) \in Range(s)  BY <1>4, <1>7 DEF Range
<1>9. ASSUME IsInjective(s)
      PROVE  IsInjective(Tail(s)) /\ Range(Tail(s)) = Range(s) \ {Head(s)}
  <2>1. \A i \in 1 .. Len(Tail(s)) :
           i + 1 \in DOMAIN s /\ i + 1 # 1 /\ Tail(s)[i] = s[i + 1]
    BY <1>1, <1>2
  <2>2. ASSUME NEW i \in 1 .. Len(Tail(s)), NEW j \in 1 .. Len(Tail(s)),
               Tail(s)[i] = Tail(s)[j]
        PROVE  i = j
    <3>1. i + 1 = j + 1  BY <1>9, <2>1, <2>2 DEF IsInjective
    <3>2. QED  BY <1>1, <1>2, <3>1
  <2>3. IsInjective(Tail(s))  BY <1>3, <2>2 DEF IsInjective
  <2>4. ASSUME NEW i \in 1 .. Len(Tail(s))
        PROVE  Tail(s)[i] \in Range(s) /\ Tail(s)[i] # Head(s)
    <3>1. s[i + 1] # s[1]  BY <1>7, <1>9, <2>1 DEF IsInjective
    <3>2. QED  BY <1>4, <2>1, <3>1 DEF Range
  <2>5. Range(Tail(s)) = {Tail(s)[i] : i \in 1 .. Len(Tail(s))}
    BY <1>3 DEF Range
  <2>6. QED  BY <1>6, <2>3, <2>4, <2>5
<1>10. QED  BY <1>1, <1>6, <1>8, <1>9

(* Appending to a sequence loses no element and adds the new one; a new    *)
(* one leaves none twice.                                                  *)
LEMMA AppendKeeps ==
  ASSUME NEW S, NEW s \in Seq(S), NEW e \in S
  PROVE  /\ Append(s, e) \in Seq(S)
         /\ Range(Append(s, e)) = Range(s) \cup {e}
         /\ IsInjective(s) /\ e \notin Range(s) => IsInjective(Append(s, e))
<1>1. /\ Append(s, e) \in Seq(S)
      /\ Len(Append(s, e)) = Len(s) + 1
      /\ \A i \in 1 .. Len(s) : Append(s, e)[i] = s[i]
      /\ Append(s, e)[Len(s) + 1] = e
  BY AppendProperties
<1>2. /\ Len(s) \in Nat /\ DOMAIN s = 1 .. Len(s)
      /\ DOMAIN Append(s, e) = 1 .. Len(s) + 1
  BY <1>1, LenProperties
<1>3. \A i \in 1 .. Len(s) + 1 : i \in 1 .. Len(s) \/ i = Len(s) + 1
  BY <1>2
<1>4. 1 .. Len(s) \subseteq 1 .. Len(s) + 1 /\ Len(s) + 1 \in 1 .. Len(s) + 1
  BY <1>2
<1>5. /\ Range(Append(s, e)) = {Append(s, e)[i] : i \in 1 .. Len(s) + 1}
      /\ Range(s) = {s[i] : i \in 1 .. Len(s)}
  BY <1>2 DEF Range
<1>6. Range(Append(s, e)) = Range(s) \cup {e}
  BY <1>1, <1>3, <1>4, <1>5
<1>7. ASSUME IsInjective(s), e \notin Range(s),
             NEW i \in 1 .. Len(s) + 1, NEW j \in 1 .. Len(s) + 1,
             Append(s, e)[i] = Append(s, e)[j]
      PROVE  i = j
  <2>1. \A k \in 1 .. Len(s) : s[k] # e  BY <1>5, <1>7
  <2>2. QED  BY <1>1, <1>2, <1>3, <1>7, <2>1 DEF IsInjective
<1>8. QED  BY <1>1, <1>2, <1>6, <1>7 DEF IsInjective

(* Sequences of distinct elements, none in both, make one such sequence.   *)
LEMMA ConcatApart ==
  ASSUME NEW S, NEW s \in Seq(S), NEW t \in Seq(S),
         IsInjective(s), IsInjective(t), Range(s) \cap Range(t) = {}
  PROVE  IsInjective(s \o t) /\ Range(s \o t) = Range(s) \cup Range(t)
<1> DEFINE m == Len(s)
           n == Len(t)
<1>1. /\ m \in Nat /\ n \in Nat
      /\ DOMAIN s = 1 .. m /\ DOMAIN t = 1 .. n
      /\ DOMAIN (s \o t) = 1 .. m + n
      /\ \A i \in 1 .. m + n : (s \o t)[i] = IF i <= m THEN s[i] ELSE t[i - m]
  BY LenProperties, ConcatProperties
<1> HIDE DEF m, n
<1>2. \A i \in 1 .. m + n : i <= m => i \in 1 .. m
  BY <1>1
<1>3. \A i \in 1 .. m + n : ~(i <= m) => i - m \in 1 .. n
  BY <1>1
<1>4. /\ Range(s) = {s[i] : i \in 1 .. m} /\ Range(t) = {t[i] : i \in 1 .. n}
  BY <1>1 DEF Range
<1>5. Range(s \o t) = Range(s) \cup Range(t)  BY RangeConcatenation
<1>6. ASSUME NEW i \in 1 .. m + n, NEW j \in 1 .. m + n, (s \o t)[i] = (s \o t)[j]
       PROVE  i = j
  <2>1. CASE i <= m /\ j <= m
    <3>1. s[i] = s[j]  BY <1>1, <1>6, <2>1
    <3>2. QED  BY <1>1, <1>2, <2>1, <3>1 DEF IsInjective
  <2>2. CASE ~(i <= m) /\ ~(j <= m)
    <3>1. t[i - m] = t[j - m]  BY <1>1, <1>6, <2>2
    <3>2. i - m = j - m  BY <1>1, <1>3, <2>2, <3>1 DEF IsInjective
    <3>3. QED  BY <1>1, <3>2
  <2>3. ASSUME NEW k \in 1 .. m + n, NEW l \in 1 .. m + n, k <= m, ~(l <= m)
        PROVE  (s \o t)[k] # (s \o t)[l]
    <3>1. (s \o t)[k] \in Range(s)  BY <1>1, <1>2, <1>4, <2>3
    <3>2. (s \o t)[l] \in Range(t)  BY <1>1, <1>3, <1>4, <2>3
    <3>3. QED  BY <3>1, <3>2
  <2>4. QED  BY <1>6, <2>1, <2>2, <2>3
<1>7. QED  BY <1>1, <1>5, <1>6 DEF IsInjective

(* A sequence is a prefix of itself and of what is appended to it.         *)
LEMMA PrefixOfConcat ==
  ASSUME NEW S, NEW s \in Seq(S), NEW t \in Seq(S)
  PROVE  IsPrefix(s, s \o t)
<1>1. /\ Len(s) \in Nat /\ Len(t) \in Nat
      /\ s \o t \in Seq(S)
      /\ Len(s \o t) = Len(s) + Len(t)
  BY LenProperties, ConcatProperties
<1>2. CASE s = <<>>
  <2>1. Len(s) = 0  BY <1>2
  <2>2. SubSeq(s, 1, 0) = <<>> /\ SubSeq(s \o t, 1, 0) = <<>>
    BY <1>1, SubSeqEmpty
  <2>3. QED  BY <1>1, <2>1, <2>2 DEF IsPrefix
<1>3. CASE s # <<>>
  <2>1. 1 \in 1 .. Len(s) /\ Len(s) \in 1 .. Len(s)
    BY <1>1, <1>3, EmptySeq
  <2>2. SubSeq(s \o t, 1, Len(s)) = SubSeq(s, 1, Len(s))
    BY <2>1, SubSeqOfConcat1
  <2>3. QED  BY <1>1, <2>2 DEF IsPrefix
<1>4. QED  BY <1>2, <1>3

(* A prefix agrees with the sequence element by element.                   *)
LEMMA PrefixElements ==
  ASSUME NEW S, NEW s \in Seq(S), NEW t \in Seq(S)
  PROVE  IsPrefix(s, t) <=> Len(s) <= Len(t) /\ \A i \in 1 .. Len(s) : s[i] = t[i]
<1> DEFINE m == Len(s)
           a == SubSeq(s, 1, m)
           b == SubSeq(t, 1, m)
<1>1. /\ m \in Nat /\ Len(t) \in Nat
      /\ \A i \in 1 .. m : s[i] \in S
      /\ \A i \in 1 .. Len(t) : t[i] \in S
  BY LenProperties, ElementOfSeq
<1>2. SUFFICES ASSUME m <= Len(t)
               PROVE  a = b <=> \A i \in 1 .. m : s[i] = t[i]
  BY DEF IsPrefix
<1>3. /\ m \in Int /\ 1 \in Int /\ m - 1 + 1 = m
      /\ \A i \in 1 .. m : 1 + i - 1 = i /\ s[i] \in S /\ t[i] \in S
  BY <1>1, <1>2
<1>4. /\ a \in Seq(S) /\ Len(a) = (IF 1 <= m THEN m ELSE 0)
      /\ \A i \in 1 .. m : a[i] = s[i]
  <2> HIDE DEF m
  <2>1. QED  BY <1>3, SubSeqProperties
<1>5. /\ b \in Seq(S) /\ Len(b) = (IF 1 <= m THEN m ELSE 0)
      /\ \A i \in 1 .. m : b[i] = t[i]
  <2> HIDE DEF m
  <2>1. QED  BY <1>3, SubSeqProperties
<1> HIDE DEF a, b, m
<1>6. Len(a) = m /\ Len(b) = m  BY <1>1, <1>4, <1>5
<1>7. (\A i \in 1 .. m : a[i] = b[i]) => a = b  BY <1>4, <1>5, <1>6, SeqEqual
<1>8. QED  BY <1>4, <1>5, <1>7

-----------------------------------------------------------------------------
LessThan == {pair \in Nat \X Nat : pair[1] < pair[2]}

(* A non-empty set of natural numbers has a least element.                 *)
LEMMA LeastNatural ==
  ASSUME NEW T \in SUBSET Nat, T # {}
  PROVE  \E n \in T : \A m \in T : n <= m
<1>1. IsWellFoundedOn(LessThan, Nat)
  BY NatLessThanWellFounded, Zenon DEF LessThan, OpToRel
<1>2. PICK n \in T : \A m \in T : ~(<<m, n>> \in LessThan)
  BY <1>1, WFMin
<1>3. ASSUME NEW m \in T
      PROVE  n <= m
  <2>1. ~(m < n)  BY <1>2 DEF LessThan
  <2>2. QED  BY <2>1
<1>4. QED  BY <1>3

(* And, if it is bounded, a greatest one.                                  *)
LEMMA GreatestNatural ==
  ASSUME NEW T \in SUBSET Nat, T # {}, NEW b \in Nat, \A m \in T : m <= b
  PROVE  \E n \in T : \A m \in T : m <= n
<1> DEFINE U == {u \in Nat : \A m \in T : m <= u}
<1>1. PICK u \in U : \A v \in U : u <= v
  <2>1. b \in U /\ U \in SUBSET Nat  OBVIOUS
  <2> HIDE DEF U
  <2>2. QED  BY <2>1, LeastNatural
<1>2. u \in T
  <2> SUFFICES ASSUME u \notin T PROVE FALSE
    OBVIOUS
  <2>1. u \in Nat /\ \A m \in T : m \in Nat /\ m <= u /\ m # u  BY <1>1
  <2>2. PICK m \in T : TRUE  OBVIOUS
  <2>3. u # 0  BY <2>1, <2>2
  <2>4. u - 1 \in U  BY <2>1, <2>3
  <2>5. QED  BY <1>1, <2>1, <2>4
<1>3. QED  BY <1>1, <1>2

(* A set that holds 0, and with a number its successor, holds them all.    *)
LEMMA NaturalsByInduction ==
  ASSUME NEW T, 0 \in T, \A n \in Nat : n \in T => n + 1 \in T
  PROVE  Nat \subseteq T
<1> SUFFICES ASSUME Nat \ T # {} PROVE FALSE
  OBVIOUS
<1>1. PICK n \in Nat \ T : \A m \in Nat \ T : n <= m
  BY LeastNatural
<1>2. n - 1 \in Nat /\ n = (n - 1) + 1 /\ ~(n <= n - 1)
  BY <1>1
<1>3. n - 1 \in T  BY <1>1, <1>2
<1>4. QED  BY <1>1, <1>2, <1>3

(* Counting one more: the remainder grows until it reaches the divisor.    *)
LEMMA NextRemainder ==
  ASSUME NEW n \in Nat, NEW d \in Nat \ {0}
  PROVE  (n + 1) % d = IF (n % d) + 1 = d THEN 0 ELSE (n % d) + 1
<1> DEFINE q == n \div d  r == n % d
           p == (n + 1) \div d  t == (n + 1) % d
<1>1. /\ q \in Int /\ r \in 0 .. d - 1 /\ n = d * q + r
      /\ p \in Int /\ t \in 0 .. d - 1 /\ n + 1 = d * p + t
  OBVIOUS
<1> HIDE DEF q, r, p, t
<1> DEFINE k == p - q
<1>2. k \in Int /\ d * k = r + 1 - t  BY <1>1
<1> HIDE DEF k
<1>3. k \in {0, 1}
  <2>1. ~(k >= 2)
    <3>1. k >= 2 => d * k >= d + d  BY <1>2
    <3>2. QED  BY <1>1, <1>2, <3>1
  <2>2. ~(k <= -1)
    <3>1. k <= -1 => d * k <= -d  BY <1>2
    <3>2. QED  BY <1>1, <1>2, <3>1
  <2>3. QED  BY <1>2, <2>1, <2>2
<1>4. d * 0 = 0 /\ d * 1 = d  OBVIOUS
<1>5. t = IF r + 1 = d THEN 0 ELSE r + 1
  BY <1>1, <1>2, <1>3, <1>4
<1>6. QED  BY <1>5 DEF r, t

(* A number below the divisor is its own remainder.                        *)
LEMMA SmallRemainder ==
  ASSUME NEW n \in Nat, NEW d \in Nat \ {0}
  PROVE  n % d \in 0 .. d - 1 /\ (n < d => n % d = n)
<1> DEFINE q == n \div d  r == n % d
<1>1. q \in Int /\ r \in 0 .. d - 1 /\ n = d * q + r
  OBVIOUS
<1> HIDE DEF q, r
<1>2. ASSUME n < d
      PROVE  r = n
  <2>1. q >= 1 => d * q >= d  BY <1>1
  <2>2. q <= -1 => d * q <= -d  BY <1>1
  <2>3. q = 0  BY <1>1, <1>2, <2>1, <2>2
  <2>4. d * 0 = 0  OBVIOUS
  <2>5. QED  BY <1>1, <2>3, <2>4
<1>3. QED  BY <1>1, <1>2 DEF r

(* What follows a prefix of a sequence.                                    *)
LEMMA SuffixOfConcat ==
  ASSUME NEW S, NEW s \in Seq(S), NEW t \in Seq(S)
  PROVE  SubSeq(s \o t, Len(s) + 1, Len(s \o t)) = t
<1> DEFINE u == s \o t  m == Len(s)  n == Len(t)
<1>1. /\ m \in Nat /\ n \in Nat /\ u \in Seq(S) /\ Len(u) = m + n
      /\ \A i \in 1 .. m + n : u[i] = IF i <= m THEN s[i] ELSE t[i - m]
  BY LenProperties, ConcatProperties
<1>2. \A i \in 1 .. m + n : u[i] \in S
  BY <1>1, ElementOfSeq
<1> HIDE DEF u, m, n
<1> DEFINE a == m + 1  b == m + n  v == SubSeq(u, a, b)
<1>3. /\ v \in Seq(S) /\ Len(v) = (IF a <= b THEN b - a + 1 ELSE 0)
      /\ \A i \in 1 .. b - a + 1 : v[i] = u[a + i - 1]
  <2>1. a \in Int /\ b \in Int /\ \A i \in a .. b : u[i] \in S
    BY <1>1, <1>2
  <2> HIDE DEF a, b
  <2>2. QED  BY <2>1, SubSeqProperties
<1>4. b - a + 1 = n /\ (~(a <= b) => n = 0)  BY <1>1
<1> HIDE DEF v
<1>5. Len(v) = n  BY <1>1, <1>3, <1>4
<1>6. ASSUME NEW i \in 1 .. n
      PROVE  v[i] = t[i]
  <2> DEFINE j == a + i - 1
  <2>1. j \in 1 .. m + n /\ ~(j <= m) /\ j - m = i  BY <1>1
  <2>2. v[i] = u[j]
    <3> HIDE DEF a, b
    <3>1. QED  BY <1>3, <1>4
  <2> HIDE DEF j
  <2>3. QED  BY <1>1, <2>1, <2>2
<1>7. v = t  BY <1>3, <1>5, <1>6, SeqEqual DEF n
<1>8. QED  BY <1>1, <1>7 DEF u, v, m

-----------------------------------------------------------------------------
(* What is below two nodes side by side is side by side.                   *)
LEMMA BelowApart ==
  ASSUME NEW p \in Positions, NEW q \in Positions, LeftOf(p, q),
         NEW r \in Positions, NEW s \in Positions, Within(r, p), Within(s, q)
  PROVE  LeftOf(r, s)
<1>1. /\ Len(p) \in Nat /\ Len(q) \in Nat /\ Len(r) \in Nat /\ Len(s) \in Nat
      /\ \A i \in 1 .. Len(p) : r[i] = p[i]
      /\ \A i \in 1 .. Len(q) : s[i] = q[i]
      /\ Len(p) <= Len(r) /\ Len(q) <= Len(s)
  BY LenProperties DEF Positions, Within
<1>2. PICK k \in 1 .. Len(p) : /\ k <= Len(q) /\ p[k] < q[k]
                               /\ \A i \in 1 .. k - 1 : p[i] = q[i]
  BY DEF LeftOf
<1>3. k \in 1 .. Len(r) /\ k <= Len(s) /\ k \in 1 .. Len(q)  BY <1>1, <1>2
<1>4. r[k] < s[k]  BY <1>1, <1>2, <1>3
<1>5. \A i \in 1 .. k - 1 : i \in 1 .. Len(p) /\ i \in 1 .. Len(q)
  BY <1>1, <1>2
<1>6. \A i \in 1 .. k - 1 : r[i] = s[i]
  BY <1>1, <1>2, <1>5
<1>7. QED  BY <1>3, <1>4, <1>6 DEF LeftOf

(* Of two nodes side by side neither is below the other.                   *)
LEMMA ApartNotWithin ==
  ASSUME NEW p \in Positions, NEW q \in Positions, LeftOf(p, q)
  PROVE  ~Within(p, q) /\ ~Within(q, p)
<1>1. PICK k \in 1 .. Len(p) : k <= Len(q) /\ p[k] < q[k]
  BY DEF LeftOf
<1>2. k \in 1 .. Len(p) /\ k \in 1 .. Len(q) /\ p[k] \in Nat /\ q[k] \in Nat
  <2>1. Len(p) \in Nat /\ Len(q) \in Nat  BY LenProperties DEF Positions
  <2>2. k \in 1 .. Len(q)  BY <1>1, <2>1
  <2>3. p[k] \in Nat \ {0} /\ q[k] \in Nat \ {0}
    BY <2>2, ElementOfSeq DEF Positions
  <2>4. QED  BY <2>2, <2>3
<1>3. p[k] # q[k]  BY <1>1, <1>2
<1>4. QED  BY <1>2, <1>3 DEF Within

(* A node is within itself, every node is within the element, and what is  *)
(* within a child is below its parent.                                     *)
LEMMA WithinFacts ==
  ASSUME NEW q \in Positions
  PROVE  /\ Within(q, q) /\ Within(q, <<>>)
         /\ \A p \in Positions, c \in Nat \ {0} :
               Within(q, Append(p, c)) => Within(q, p) /\ q # p
<1>1. Within(q, q)
  <2>1. Len(q) \in Nat  BY LenProperties DEF Positions
  <2>2. QED  BY <2>1 DEF Within
<1>2. Within(q, <<>>)
  <2>1. Len(q) \in Nat /\ Len(<<>>) = 0  BY LenProperties, EmptySeq DEF Positions
  <2>2. QED  BY <2>1 DEF Within
<1>3. ASSUME NEW p \in Positions, NEW c \in Nat \ {0}, Within(q, Append(p, c))
      PROVE  Within(q, p) /\ q # p
  <2> DEFINE a == Append(p, c)
  <2>1. /\ Len(a) = Len(p) + 1 /\ \A i \in 1 .. Len(p) : a[i] = p[i]
        /\ Len(p) \in Nat /\ Len(q) \in Nat
    BY AppendProperties, LenProperties DEF Positions
  <2>2. Len(a) <= Len(q) /\ \A i \in 1 .. Len(a) : a[i] = q[i]
    BY <1>3 DEF Within
  <2> HIDE DEF a
  <2>3. Len(p) < Len(q) /\ \A i \in 1 .. Len(p) : i \in 1 .. Len(a)
    BY <2>1, <2>2
  <2>4. QED  BY <2>1, <2>2, <2>3 DEF Within
<1>4. QED  BY <1>1, <1>2, <1>3

(* Children of a node are side by side, in the order of their numbers.     *)
LEMMA SiblingsApart ==
  ASSUME NEW p \in Positions, NEW c \in Nat \ {0}, NEW d \in Nat \ {0}, c < d
  PROVE  LeftOf(Append(p, c), Append(p, d))
<1> DEFINE a == Append(p, c)  b == Append(p, d)  k == Len(p) + 1
<1>1. /\ Len(p) \in Nat /\ Len(a) = k /\ Len(b) = k /\ a[k] = c /\ b[k] = d
      /\ \A i \in 1 .. Len(p) : a[i] = p[i] /\ b[i] = p[i]
  BY AppendProperties, LenProperties DEF Positions
<1> HIDE DEF a, b
<1>2. k \in 1 .. Len(a) /\ k <= Len(b) /\ a[k] < b[k]  BY <1>1
<1>3. \A i \in 1 .. k - 1 : a[i] = b[i]  BY <1>1
<1>4. LeftOf(a, b)  BY <1>2, <1>3 DEF LeftOf
<1>5. QED  BY <1>4 DEF a, b

(* Inside of a part are exactly its parts and what is inside of those.     *)
LEMMA PartToward ==
  ASSUME NEW parts, IsNested(parts), NEW t \in DOMAIN parts, NEW q \in DOMAIN parts,
         Within(q, t), q # t
  PROVE  \E c \in 1 .. parts[t] : Within(q, Append(t, c))
<1> DEFINE k == Len(t) + 1  a == Append(t, q[k])
<1>1. t \in Positions /\ q \in Positions  BY DEF IsNested, Positions
<1>2. /\ Len(t) \in Nat /\ Len(q) \in Nat /\ Len(t) <= Len(q)
      /\ \A i \in 1 .. Len(t) : t[i] = q[i]
  BY <1>1, LenProperties DEF Positions, Within
<1>3. Len(t) # Len(q)  BY <1>1, <1>2, SeqEqual DEF Positions
<1>4. k \in 1 .. Len(q) /\ k - 1 = Len(t)  BY <1>2, <1>3
<1>5. q[k] \in Nat \ {0}  BY <1>1, <1>4, ElementOfSeq DEF Positions
<1>6. SubSeq(q, 1, k - 1) = t
  <2>1. \A i \in 1 .. k - 1 : q[i] \in Nat \ {0}
    BY <1>1, <1>2, <1>4, ElementOfSeq DEF Positions
  <2> DEFINE m == k - 1  u == SubSeq(q, 1, m)
  <2>2. m \in Nat /\ m = Len(t) /\ (1 <= m => m - 1 + 1 = m) /\ (~(1 <= m) => m = 0)
    BY <1>2, <1>4
  <2>3. /\ u \in Seq(Nat \ {0}) /\ Len(u) = (IF 1 <= m THEN m - 1 + 1 ELSE 0)
        /\ \A i \in 1 .. m - 1 + 1 : u[i] = q[1 + i - 1]
    <3> HIDE DEF m
    <3>1. 1 \in Int /\ m \in Int  BY <2>2
    <3>2. \A i \in 1 .. m : q[i] \in Nat \ {0}  BY <2>1 DEF m
    <3>3. QED  BY <3>1, <3>2, SubSeqProperties
  <2> HIDE DEF m, u
  <2>4. Len(u) = Len(t)  BY <2>2, <2>3
  <2>5. \A i \in 1 .. Len(t) : u[i] = t[i]
    BY <1>2, <2>2, <2>3
  <2>6. u = t  BY <1>1, <2>3, <2>4, <2>5, SeqEqual DEF Positions
  <2>7. QED  BY <2>6 DEF u, m
<1>7. q[k] \in 1 .. parts[t]
  <2>1. q[k] <= parts[t]  BY <1>4, <1>6 DEF IsNested
  <2>2. parts[t] \in Nat  BY DEF IsNested
  <2>3. QED  BY <1>5, <2>1, <2>2
<1>8. Within(q, a)
  <2>1. /\ Len(a) = k /\ a[k] = q[k] /\ \A i \in 1 .. Len(t) : a[i] = t[i]
    BY <1>1, <1>5, AppendProperties DEF Positions
  <2> HIDE DEF a
  <2>2. k <= Len(q)  BY <1>4
  <2>3. \A i \in 1 .. k : i \in 1 .. Len(t) \/ i = k  BY <1>2
  <2>4. \A i \in 1 .. k : a[i] = q[i]  BY <1>2, <2>1, <2>3
  <2>5. QED  BY <2>1, <2>2, <2>4 DEF Within
<1>9. QED  BY <1>7, <1>8

(* Of two parts one starts first.                                          *)
LEMMA StartsOnce ==
  ASSUME NEW p \in Positions, NEW q \in Positions, StartsBefore(p, q)
  PROVE  ~StartsBefore(q, p)
<1>1. /\ Len(p) \in Nat /\ Len(q) \in Nat /\ p # q
      /\ \A i \in 1 .. Len(p) : p[i] \in Nat
      /\ \A i \in 1 .. Len(q) : q[i] \in Nat
  BY LenProperties, ElementOfSeq DEF Positions, StartsBefore
<1>2. ~(Within(p, q) /\ Within(q, p))
  <2> SUFFICES ASSUME Within(p, q), Within(q, p) PROVE FALSE
    OBVIOUS
  <2>1. Len(p) = Len(q) /\ \A i \in 1 .. Len(p) : p[i] = q[i]
    BY <1>1 DEF Within
  <2>2. QED  BY <1>1, <2>1, SeqEqual DEF Positions
<1>3. ~(LeftOf(p, q) /\ LeftOf(q, p))
  <2> SUFFICES ASSUME LeftOf(p, q), LeftOf(q, p) PROVE FALSE
    OBVIOUS
  <2>1. PICK k \in 1 .. Len(p) : /\ k <= Len(q) /\ p[k] < q[k]
                                 /\ \A i \in 1 .. k - 1 : p[i] = q[i]
    BY DEF LeftOf
  <2>2. PICK l \in 1 .. Len(q) : /\ l <= Len(p) /\ q[l] < p[l]
                                 /\ \A i \in 1 .. l - 1 : q[i] = p[i]
    BY DEF LeftOf
  <2>3. k \in 1 .. Len(q) /\ l \in 1 .. Len(p)  BY <1>1, <2>1, <2>2
  <2>4. p[k] # q[k] /\ p[l] # q[l]
    BY <1>1, <2>1, <2>2, <2>3
  <2>5. k = l
    <3>1. ~(k < l)  BY <1>1, <2>2, <2>4
    <3>2. ~(l < k)  BY <1>1, <2>1, <2>4
    <3>3. QED  BY <1>1, <3>1, <3>2
  <2>6. QED  BY <1>1, <2>1, <2>2, <2>3, <2>5
<1>4. QED  BY <1>2, <1>3, ApartNotWithin DEF StartsBefore
=============================================================================
