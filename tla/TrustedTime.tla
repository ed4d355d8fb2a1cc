---------------------------- MODULE TrustedTime ----------------------------
(***************************************************************************)
(* The trusted clocks that the reference components are created with.      *)
(* Instants are numbers, ordered as ISO strings and milliseconds are; the  *)
(* units do not matter.  A clock is a callback of the host: it may fail,   *)
(* stand still or move backwards between two calls.                        *)
(***************************************************************************)
EXTENDS Naturals

CONSTANTS
    MaxTime,    \* instants are 0..MaxTime
    None        \* no value: nothing stored, or a clock that failed

Times == 0..MaxTime

\* What one call of a clock may give.
Samples == Times \union {None}

ASSUME TimeAssumption == MaxTime \in Nat /\ None \notin Nat
=============================================================================
