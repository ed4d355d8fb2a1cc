---------------------------- MODULE ClaimLedger ----------------------------
(***************************************************************************)
(* What a durable at-most-once claim store promises, whatever crashes:     *)
(* every capability has a ledger that is empty, then holds the one         *)
(* authorization that claimed it, then that authorization and the one      *)
(* outcome it ended with.  Nothing is ever erased or replaced.             *)
(***************************************************************************)
EXTENDS Sequences

CONSTANTS
    Capabilities,   \* the replay keys
    Authorizations, \* authorization commitments
    Outcomes        \* the terminal states of a consumed capability

VARIABLE ledger

Init == ledger = [c \in Capabilities |-> <<>>]

Claimed(c) == \E a \in Authorizations : /\ ledger[c] = <<>>
                                        /\ ledger'[c] = <<a>>

Completed(c) == \E a \in Authorizations, o \in Outcomes :
                    /\ ledger[c] = <<a>>
                    /\ ledger'[c] = <<a, o>>

\* One step may advance several capabilities: power loss decides at once which
\* of the unsynchronised entries reached the disk.
Next == /\ ledger' = [c \in Capabilities |-> ledger'[c]]
        /\ \A c \in Capabilities : \/ ledger'[c] = ledger[c]
                                   \/ Claimed(c)
                                   \/ Completed(c)

Spec == Init /\ [][Next]_ledger
=============================================================================
