-------------------------- MODULE MCSingleUseGate --------------------------
(* An instance of SingleUseGate for TLC. *)
EXTENDS SingleUseGate, TLC

Symmetry == Permutations(Calls) \union Permutations(Capabilities)
                \union Permutations(Actions) \union Permutations(Contexts)
=============================================================================
