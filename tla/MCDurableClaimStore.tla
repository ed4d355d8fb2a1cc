------------------------ MODULE MCDurableClaimStore ------------------------
(* Instances of DurableClaimStore for TLC. *)
EXTENDS DurableClaimStore, TLC

\* Stores, call slots and authorizations are interchangeable in every safety
\* property.
Symmetry == Permutations(Stores) \union Permutations(Calls)
               \union Permutations(Authorizations)
=============================================================================
