------------------------------ MODULE Ordering ------------------------------
(***************************************************************************)
(* The lists that the program sorts.  An order is a set of pairs: in       *)
(* <<x, y>> the first comes before the second.  Places are told by how     *)
(* many come before, and not by a choice, so that they can be reasoned     *)
(* about for lists of every length.                                        *)
(***************************************************************************)
EXTENDS Integers, FiniteSets

(* The elements of a finite set, the first of them first.                  *)
InOrder(S, before) ==
    [k \in 1..Cardinality(S) |->
        CHOOSE x \in S : Cardinality({y \in S : <<y, x>> \in before}) = k - 1]

(* sorted: places by their keys, and those with the same key in the order  *)
(* they had, for Python's sort is stable.                                  *)
ByKey(key) ==
    InOrder(DOMAIN key,
            {p \in (DOMAIN key) \X (DOMAIN key) :
                \/ key[p[1]] < key[p[2]]
                \/ key[p[1]] = key[p[2]] /\ p[1] < p[2]})

Sorted(s, key) ==
    LET order == ByKey(key)
    IN  [k \in DOMAIN order |-> s[order[k]]]

(* The elements of a sequence at some of its places, in the same order.    *)
AtPlaces(s, places) == Sorted(s, [i \in places |-> i])
=============================================================================
