------------------------- MODULE MCOperationJournal -------------------------
(* Instances of OperationJournal for TLC. *)
EXTENDS OperationJournal, TLC

Symmetry == Permutations(Journals) \union Permutations(Operations)
               \union Permutations(Hashes)
=============================================================================
