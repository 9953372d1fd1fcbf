----------------------------- MODULE Enumeration -----------------------------
(***************************************************************************)
(* Sets of numbers in ascending order: listeners are told in the order     *)
(* they were added, documents change in the order of their keys.           *)
(***************************************************************************)
EXTENDS Naturals, FiniteSets

\* The members of a finite set of numbers, as an ascending sequence.
InOrder(S) ==
  CHOOSE s \in [1 .. Cardinality(S) -> S] :
    \A i, j \in DOMAIN s : i < j => s[i] < s[j]

\* The least of them.
FirstOf(S) == CHOOSE i \in S : \A j \in S : i <= j
==============================================================================
