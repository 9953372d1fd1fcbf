--------------------------- MODULE MCDocumentFetch ---------------------------
(***************************************************************************)
(* Model values for DocumentFetch.                                         *)
(***************************************************************************)
EXTENDS DocumentFetch, TLC

CONSTANTS landlord, nobody, property

\* A queue is a queue, whoever's it is.
UserSymmetry == Permutations(Users)
=============================================================================
