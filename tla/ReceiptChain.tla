---------------------------- MODULE ReceiptChain ----------------------------
(***************************************************************************)
(* sdk/typescript/pom-rx.mjs: chains of at most three receipts, one per    *)
(* phase, each holding the hash of the one before it.                      *)
(*                                                                         *)
(* A receipt is [id, shared, phase, outcome, input, action, results,       *)
(* previous, occurred]: shared stands for the five fields of the run that  *)
(* must not change, results for the set of its assertion results.  The     *)
(* hash of a receipt is the receipt itself, so equal hashes mean equal     *)
(* receipts.  A source issues receipts; storage may alter or lose some.    *)
(***************************************************************************)
EXTENDS Naturals, Sequences, Functions

CONSTANTS
    NoReceipt,          \* previous_receipt_hash null
    OtherReceipt,       \* a hash of some other receipt
    MaxCorruptions      \* bound: alterations and losses

ASSUME ChainAssumption == MaxCorruptions \in Nat

Phases == <<"preflight", "execution", "reconciliation">>

PhaseOutcomes == [preflight |-> {"allow", "deny"},
                  execution |-> {"accepted", "rejected", "unresolved"},
                  reconciliation |-> {"matched", "mismatched", "unresolved"}]

AssertionResults == {"pass", "fail", "not_evaluated"}

VARIABLES
    issued,         \* what the source issued
    chain,          \* what is presented for verification
    corruptions     \* alterations and losses so far

chainVars == <<issued, chain, corruptions>>

ChainInit == issued = <<>> /\ chain = <<>> /\ corruptions = 0

-----------------------------------------------------------------------------
(* Receipts and chains *)

ValidatePomRxReceipt(r) ==
    /\ r.outcome \in PhaseOutcomes[r.phase]
    /\ r.results # {}
    /\ r.phase = "preflight" => /\ r.previous = NoReceipt
                                /\ r.outcome = "allow" => r.results = {"pass"}
                                /\ r.outcome = "deny" => "fail" \in r.results
    /\ r.phase # "preflight" => r.previous # NoReceipt

\* Mutant of CommitPomRxReceipt: the hash does not cover the action.
CommitWithoutAction(r) == [r EXCEPT !.action = "action"]

\* The receipt's hash: equal for equal normalized receipts only.
CommitPomRxReceipt(r) == r

PhaseIndex(r) == CHOOSE i \in DOMAIN Phases : Phases[i] = r.phase

Follows(first, previous, current) ==
    /\ PhaseIndex(current) = PhaseIndex(previous) + 1
    /\ current.previous = CommitPomRxReceipt(previous)
    /\ current.occurred >= previous.occurred
    /\ current.shared = first.shared

\* The first receipt of a phase, if there is one.
FirstOf(receipts, phase) ==
    {receipts[i] : i \in {j \in DOMAIN receipts :
        receipts[j].phase = phase /\ \A l \in 1..j - 1 : receipts[l].phase # phase}}

\* assertPomRxChain: the links, then what the outcomes ask for.
VerifyPomRxChain(receipts, allowPartial) ==
    LET n == Len(receipts)
        execution == FirstOf(receipts, "execution")
        reconciled == FirstOf(receipts, "reconciliation") # {}
    IN  /\ n \in 1..Len(Phases)
        /\ \A i \in 1..n : ValidatePomRxReceipt(receipts[i])
        /\ receipts[1].phase = "preflight"
        /\ \A i \in 2..n : Follows(receipts[1], receipts[i - 1], receipts[i])
        /\ IF receipts[1].outcome = "deny" THEN n = 1
           ELSE /\ allowPartial \/ n >= 2
                /\ \A e \in execution :
                      /\ e.outcome = "accepted" => allowPartial \/ reconciled
                      /\ e.outcome = "rejected" => ~reconciled

-----------------------------------------------------------------------------
(* Steps *)

\* The source issues the next receipt.  After the first it may change its mind about
\* the action or the input, use an identifier twice, and assert what it likes.
IssueReceipt(id, outcome, input, action, results) ==
    LET n == Len(issued)
        receipt == [id |-> id, shared |-> "run", phase |-> Phases[n + 1], outcome |-> outcome,
                    input |-> input, action |-> action, results |-> results,
                    previous |-> IF n = 0 THEN NoReceipt ELSE CommitPomRxReceipt(issued[n]),
                    occurred |-> n]
    IN  /\ ValidatePomRxReceipt(receipt)
        /\ issued' = Append(issued, receipt)
        /\ chain' = Append(chain, receipt)
        /\ UNCHANGED corruptions

\* One field of a receipt changes.
Altered(r) ==
    {[r EXCEPT !.id = 3], [r EXCEPT !.shared = "other"], [r EXCEPT !.input = "other"],
     [r EXCEPT !.action = "other"], [r EXCEPT !.results = {"fail"}],
     [r EXCEPT !.occurred = 0], [r EXCEPT !.occurred = 3],
     [r EXCEPT !.previous = NoReceipt], [r EXCEPT !.previous = OtherReceipt]}
    \union {[r EXCEPT !.phase = Phases[i]] : i \in DOMAIN Phases}
    \union {[r EXCEPT !.outcome = o] : o \in PhaseOutcomes[r.phase]}

Alter(i, receipt) ==
    /\ corruptions < MaxCorruptions
    /\ chain' = [chain EXCEPT ![i] = receipt]
    /\ corruptions' = corruptions + 1
    /\ UNCHANGED issued

Lose(i) ==
    /\ corruptions < MaxCorruptions
    /\ chain' = SubSeq(chain, 1, i - 1) \o SubSeq(chain, i + 1, Len(chain))
    /\ corruptions' = corruptions + 1
    /\ UNCHANGED issued

ChainNext ==
    \/ /\ Len(issued) < Len(Phases)
       /\ \E outcome \in PhaseOutcomes[Phases[Len(issued) + 1]], id \in {1, Len(issued) + 1},
             input \in {"input", "other"}, action \in {"action", "other"},
             results \in {{"pass"}, {"pass", "fail"}, {"not_evaluated"}} :
             /\ issued = <<>> => input = "input" /\ action = "action"
             /\ IssueReceipt(id, outcome, input, action, results)
    \/ \E i \in DOMAIN chain : Lose(i) \/ \E receipt \in Altered(chain[i]) : Alter(i, receipt)

ChainSpec == ChainInit /\ [][ChainNext]_chainVars

-----------------------------------------------------------------------------
(* Properties *)

\* Whatever storage altered or lost: a chain that verifies, partial or not, and ends
\* with a receipt as it was issued is what the source issued up to that receipt.
CorruptionIsEvident ==
    \A allowPartial \in BOOLEAN :
        VerifyPomRxChain(chain, allowPartial) /\ chain[Len(chain)] \in Range(issued)
            => Len(chain) <= Len(issued) /\ chain = SubSeq(issued, 1, Len(chain))
=============================================================================
