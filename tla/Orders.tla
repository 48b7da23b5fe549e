------------------------------- MODULE Orders -------------------------------
(***************************************************************************)
(* Lists, and the elements of a finite set as one: what `sorted` returns   *)
(* when no two of them stand at the same place.                            *)
(***************************************************************************)
EXTENDS Integers, FiniteSets, Sequences, Functions

\* A list of anything.
IsList(s) == s \in Seq(Range(s))

\* The element of a set with so many of the others before it, one after the other.
Ranked(S, before(_, _)) ==
  [k \in 1..Cardinality(S) |-> CHOOSE x \in S : Cardinality({y \in S : before(y, x)}) = k - 1]

\* Numbers, from the least.
InOrder(S) == Ranked(S, LAMBDA a, b : a < b)
=============================================================================
