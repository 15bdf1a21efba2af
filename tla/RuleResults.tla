---------------------------- MODULE RuleResults ----------------------------
(***************************************************************************)
(* RuleResults (view.rs): which rules of an element passed, packed in the  *)
(* Width bits of one word, here the set of the bits that are 1.  A rule is *)
(* known by its index, from 0.                                             *)
(*                                                                         *)
(* A shift by Width or more panics where overflow is checked and takes the *)
(* amount modulo Width where it is not; the latter is what is defined here.*)
(***************************************************************************)
EXTENDS Naturals

CONSTANT Width      \* 64

ASSUME WidthAssumption == Width \in Nat \ {0}

Empty == {}

Get(word, index) == index % Width \in word

(* Faulty variant: the shift is not taken modulo Width.                    *)
SetBeyond(word, index, passed) == IF passed THEN word \cup {index} ELSE word

Set(word, index, passed) == IF passed THEN word \cup {index % Width} ELSE word

(* The word after set() for each rule that passed.                         *)
Packed(passed) == {i % Width : i \in passed}

(* Faulty variant: without the case of its own for count >= Width.         *)
MaskUnguarded(count) == 0 .. (count % Width) - 1

Mask(count) == IF count >= Width THEN 0 .. Width - 1 ELSE 0 .. count - 1

AllPassed(word, count) == Mask(count) \subseteq word
=============================================================================
