-------------------------- MODULE OperationRecord --------------------------
(***************************************************************************)
(* What the operation journal promises of the one record on disk: it is    *)
(* created once, is then only replaced by its successor, names one         *)
(* operation and one transaction hash for good, and ends TERMINAL.         *)
(***************************************************************************)
EXTENDS Naturals

CONSTANTS Operations, Hashes, None

VARIABLE record

Init == record = None

Create == /\ record = None
          /\ record' = [revision |-> 0, state |-> "READY", operation |-> None,
                        hash |-> None, terminal |-> "none"]

Arm == /\ record # None /\ record.state = "READY"
       /\ \E o \in Operations :
             record' = [record EXCEPT !.revision = 1, !.state = "ARMED", !.operation = o]

MarkDispatched == /\ record # None /\ record.state = "ARMED"
                  /\ record' = [record EXCEPT !.revision = 2, !.state = "DISPATCHED"]

\* A hash may be retained although the dispatch was never acknowledged.
RetainHash == /\ record # None /\ record.state \in {"ARMED", "DISPATCHED"}
              /\ \E h \in Hashes :
                    record' = [record EXCEPT !.revision = record.revision + 1,
                                             !.state = "HASH_OBSERVED", !.hash = h]

Terminate == /\ record # None /\ record.state \in {"ARMED", "DISPATCHED", "HASH_OBSERVED"}
             /\ \E t \in {"AMBIGUOUS", "WALLET_ERROR", "MATCH_REFERENCE"} :
                   /\ t = "MATCH_REFERENCE" => record.hash # None
                   /\ t = "WALLET_ERROR" => record.hash = None
                   /\ record' = [record EXCEPT !.revision = record.revision + 1,
                                               !.state = "TERMINAL", !.terminal = t]

Next == Create \/ Arm \/ MarkDispatched \/ RetainHash \/ Terminate

Spec == Init /\ [][Next]_record
=============================================================================
