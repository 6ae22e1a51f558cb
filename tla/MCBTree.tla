------------------------------ MODULE MCBTree ------------------------------
(***************************************************************************)
(* Instances of the tree.                                                  *)
(*                                                                         *)
(* Uniform sizes: keys and values of one byte (key 0 is the empty key,     *)
(* which Put refuses).  A leaf cell takes 6 bytes and an internal cell 7,  *)
(* so with 14 bytes a node holds two cells and five keys make a tree of    *)
(* depth 3.                                                                *)
(*                                                                         *)
(* Mixed sizes: the long value takes 5 bytes, so a leaf of 14 bytes holds  *)
(* two short cells or one long one.                                        *)
(*                                                                         *)
(* Long values only: a leaf holds a single cell while an internal node     *)
(* still holds two, so four keys are enough to split an internal node.     *)
(***************************************************************************)
EXTENDS BTree

KeySizes == [k \in Keys |-> IF k = 0 THEN 0 ELSE 1]
ValueSizes == [v \in Values |-> IF v = "long" THEN 5 ELSE 1]

(* No action reads `ret', so states that differ in it only behave alike.   *)
WithoutResult == <<pagerVars, pc, op, cur, stack, todo, split, acc, faults, before>>

=============================================================================
