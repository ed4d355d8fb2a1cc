--------------------------- MODULE WitnessEvidence ---------------------------
(***************************************************************************)
(* The signed evidence of sdk/typescript/pom-rx-witness.mjs and the check  *)
(* of core/witness/reference-evidence-binding.mjs that a verification      *)
(* result is about one piece of evidence.                                  *)
(*                                                                         *)
(* A key stands for its id, which is a hash of its bytes, and a receipt or *)
(* an acknowledgement for its own hash.  A signature is the key that made  *)
(* it, or None when it was made over something else.                       *)
(***************************************************************************)
EXTENDS TrustedTime

CONSTANTS
    MinAckValidity,     \* 1 second
    MaxAckValidity      \* 5 minutes

\* A receipt is [run, source, occurred, phase, outcome, action]; the action
\* commitment stands for the method, policy and action hashes.
CreateSourceEnvelope(receipt, key) ==
    IF receipt.source = key THEN [receipt |-> receipt, signature |-> key] ELSE None

VerifySourceEnvelope(envelope) == envelope.signature = envelope.receipt.source

ValidAckLifetime(validFor) == MinAckValidity <= validFor /\ validFor <= MaxAckValidity

\* createPomRxWitnessAck refuses everything else.
WitnessMayAcknowledge(envelope, key, received, validFor) ==
    /\ VerifySourceEnvelope(envelope)
    /\ envelope.receipt.phase = "preflight"
    /\ ValidAckLifetime(validFor)
    /\ received >= envelope.receipt.occurred
    /\ key # envelope.receipt.source

CreateWitnessAck(envelope, key, received, validFor, mode) ==
    IF WitnessMayAcknowledge(envelope, key, received, validFor)
    THEN [receipt |-> envelope.receipt, received |-> received, until |-> received + validFor,
          mode |-> mode, witness |-> key, signature |-> key]
    ELSE None

\* The part of verifyPomRxWitnessAck that does not look at the time.
VerifyWitnessAck(ack, receipt) ==
    /\ ack.receipt.source # ack.witness
    /\ ValidAckLifetime(ack.until - ack.received)
    /\ ack.signature = ack.witness
    /\ ack.receipt = receipt
    /\ ack.mode = "witnessed"

\* requireUnexpired: the last instant is included.
AckUnexpired(ack, now) == ack.received <= now /\ now <= ack.until

\* verifyReferenceWitnessEvidenceResultBinding: the evidence is verified again
\* and the result names this receipt, this acknowledgement and these keys.
ResultIsAbout(result, envelope, ack) ==
    /\ VerifySourceEnvelope(envelope)
    /\ VerifyWitnessAck(ack, envelope.receipt)
    /\ result.receipt = envelope.receipt
    /\ result.source = envelope.receipt.source
    /\ result.ack = ack
    /\ result.witness = ack.witness
=============================================================================
