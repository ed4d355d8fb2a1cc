---------------------------- MODULE WitnessTrust ----------------------------
(***************************************************************************)
(* core/witness/reference-trust-lifecycle.mjs: the enrolled source and     *)
(* witness identities, their revocation, rotation and recovery, and the    *)
(* verification of evidence against them.  Every operation is synchronous, *)
(* so each is one step.                                                    *)
(*                                                                         *)
(* An operation reads the clock first and keeps what it read even when it  *)
(* fails afterwards; RefuseTrustOperation is all such failures.            *)
(***************************************************************************)
EXTENDS WitnessEvidence, FiniteSets, FiniteSetsExt

CONSTANTS
    Keys,           \* Ed25519 keys, enrolled or not
    Evidence,       \* pairs [envelope, ack] that may be presented
    MaxIdentities,  \* POM_RX_REFERENCE_WITNESS_TRUST_MAX_IDENTITIES
    MinValidity,    \* MIN_VALIDITY_MS
    MaxValidity     \* MAX_VALIDITY_MS

ASSUME TrustAssumption ==
    /\ MaxIdentities \in Nat
    /\ MinValidity \in Nat \ {0} /\ MaxValidity \in Nat
    /\ None \notin Keys
    /\ \A e \in Evidence : {e.envelope.receipt.occurred, e.ack.received, e.ack.until} \subseteq Nat

VARIABLES
    identities,     \* per key: its record, or None
    revision,       \* the number of changes made
    trustClock,     \* lastTrustedTimeMs; 0 before the first sample
    verified        \* history: the successful verification results

trustVars == <<identities, revision, trustClock, verified>>

Roles == {"source", "witness"}

Retirements == {"revoked", "rotated", "recovered"}

Records == [role : Roles, enrolled : Times, until : Nat,
            status : {"active"} \union Retirements,
            predecessor : Keys \union {None}, transition : Times \union {None}]

ASSUME RecordAssumption == None \notin Records

Enrolled == {k \in Keys : identities[k] # None}

TrustInit == /\ identities = [k \in Keys |-> None]
             /\ revision = 0
             /\ trustClock = 0
             /\ verified = {}

-----------------------------------------------------------------------------
(* Helpers *)

\* sampleTrustedClock: a failing clock or one that moved backwards is refused.
SampleAccepted(sample) == sample # None /\ sample >= trustClock

SampleTrustedClock(sample) == SampleAccepted(sample) /\ trustClock' = sample

\* recordActiveAt: half open, and cut off at the transition.
RecordActiveAt(record, t) ==
    /\ record.enrolled <= t /\ t < record.until
    /\ record.transition # None => t < record.transition

ValidWindow(now, until) == now + MinValidity <= until /\ until <= now + MaxValidity

NewRecord(role, now, until, predecessor) ==
    [role |-> role, enrolled |-> now, until |-> until, status |-> "active",
     predecessor |-> predecessor, transition |-> None]

Retired(record, status, now) == [record EXCEPT !.status = status, !.transition = now]

\* stageMutation and commitMutation: all or nothing, within the capacity.
CommitMutation(records) ==
    /\ Cardinality({k \in Keys : records[k] # None}) <= MaxIdentities
    /\ identities' = records
    /\ revision' = revision + 1

-----------------------------------------------------------------------------
(* The administrator's operations *)

EnrollIdentity(k, role, until, sample) ==
    /\ SampleTrustedClock(sample)
    /\ identities[k] = None
    /\ ValidWindow(sample, until)
    /\ CommitMutation([identities EXCEPT ![k] = NewRecord(role, sample, until, None)])
    /\ UNCHANGED verified

\* An expired identity can still be revoked.
RevokeIdentity(k, sample) ==
    /\ SampleTrustedClock(sample)
    /\ k \in Enrolled /\ identities[k].status = "active"
    /\ CommitMutation([identities EXCEPT ![k] = Retired(@, "revoked", sample)])
    /\ UNCHANGED verified

\* Mutant of ReplaceIdentity: the predecessor keeps its record.
ReplaceIdentityKeeping(k, successor, until, status, sample) ==
    /\ SampleTrustedClock(sample)
    /\ k \in Enrolled /\ identities[k].status = "active"
    /\ RecordActiveAt(identities[k], sample)
    /\ identities[successor] = None
    /\ ValidWindow(sample, until)
    /\ CommitMutation([identities EXCEPT
           ![successor] = NewRecord(identities[k].role, sample, until, k)])
    /\ UNCHANGED verified

\* replaceIdentity: an active identity without a successor gets a new one.
ReplaceIdentity(k, successor, until, status, sample) ==
    /\ SampleTrustedClock(sample)
    /\ k \in Enrolled /\ identities[k].status = "active"
    /\ RecordActiveAt(identities[k], sample)
    /\ \A other \in Enrolled : identities[other].predecessor # k
    /\ identities[successor] = None
    /\ ValidWindow(sample, until)
    /\ CommitMutation([identities EXCEPT
           ![k] = Retired(@, status, sample),
           ![successor] = NewRecord(identities[k].role, sample, until, k)])
    /\ UNCHANGED verified

RotateIdentity(k, successor, until, sample) ==
    ReplaceIdentity(k, successor, until, "rotated", sample)

RecoverIdentity(k, successor, until, sample) ==
    ReplaceIdentity(k, successor, until, "recovered", sample)

RefuseTrustOperation(sample) ==
    /\ SampleTrustedClock(sample)
    /\ UNCHANGED <<identities, revision, verified>>

-----------------------------------------------------------------------------
(* Verification *)

\* Mutant of IdentitiesVouch: the keys are checked for now only.
IdentitiesVouchNow(source, witness, e, now) ==
    /\ source.role = "source" /\ witness.role = "witness"
    /\ source.status = "active" /\ witness.status = "active"
    /\ RecordActiveAt(source, now)
    /\ RecordActiveAt(witness, now)

\* Both keys have their role and were active when they signed and are active now.
IdentitiesVouch(source, witness, e, now) ==
    /\ source.role = "source" /\ witness.role = "witness"
    /\ RecordActiveAt(source, e.envelope.receipt.occurred)
    /\ RecordActiveAt(witness, e.ack.received)
    /\ source.status = "active" /\ witness.status = "active"
    /\ RecordActiveAt(source, now)
    /\ RecordActiveAt(witness, now)

AuthorizationValidUntil(source, witness, e) == Min({e.ack.until, source.until, witness.until})

\* The checks of verifyAuthorizationCandidate after the clock was read.
CandidateVerifies(e, now) ==
    LET receipt == e.envelope.receipt
        source == identities[receipt.source]
        witness == identities[e.ack.witness]
    IN  /\ VerifySourceEnvelope(e.envelope)
        /\ VerifyWitnessAck(e.ack, receipt) /\ AckUnexpired(e.ack, now)
        /\ receipt.outcome = "allow"
        /\ receipt.source \in Enrolled /\ e.ack.witness \in Enrolled
        /\ receipt.occurred <= e.ack.received
        /\ IdentitiesVouch(source, witness, e, now)
        /\ now < AuthorizationValidUntil(source, witness, e)

VerificationResult(e, now) ==
    [source |-> e.envelope.receipt.source, witness |-> e.ack.witness,
     receipt |-> e.envelope.receipt, ack |-> e.ack, now |-> now,
     until |-> AuthorizationValidUntil(identities[e.envelope.receipt.source],
                                       identities[e.ack.witness], e),
     revision |-> revision]

VerifyAuthorizationCandidate(e, sample) ==
    /\ SampleTrustedClock(sample)
    /\ CandidateVerifies(e, sample)
    /\ verified' = verified \union {VerificationResult(e, sample)}
    /\ UNCHANGED <<identities, revision>>

-----------------------------------------------------------------------------

AdminStep ==
    \E sample \in Times :
        \/ \E k \in Keys : RevokeIdentity(k, sample)
        \/ \E k \in Keys, until \in Times :
              \/ \E role \in Roles : EnrollIdentity(k, role, until, sample)
              \/ \E successor \in Keys : \/ RotateIdentity(k, successor, until, sample)
                                         \/ RecoverIdentity(k, successor, until, sample)
        \/ RefuseTrustOperation(sample)

TrustNext ==
    \/ AdminStep
    \/ \E e \in Evidence, sample \in Times : VerifyAuthorizationCandidate(e, sample)

TrustSpec == TrustInit /\ [][TrustNext]_trustVars

-----------------------------------------------------------------------------
(* Properties *)

\* A verification result rests on two enrolled keys of the right roles.  Each was
\* active when it signed and when the result was given, whatever happened to it
\* since: a retirement recorded later is not earlier than the result.  The result
\* ends no later than the acknowledgement and either key.
VerifiedIsBacked ==
    \A v \in verified :
        /\ v.source \in Enrolled /\ v.witness \in Enrolled
        /\ LET source == identities[v.source]
               witness == identities[v.witness]
           IN  /\ source.role = "source" /\ witness.role = "witness"
               /\ source.enrolled <= v.receipt.occurred /\ v.receipt.occurred <= v.ack.received
               /\ witness.enrolled <= v.ack.received /\ v.ack.received <= v.now
               /\ \A r \in {source, witness} :
                     /\ r.transition = None \/ v.now <= r.transition
                     /\ v.until <= r.until
               /\ v.now < v.until /\ v.until <= v.ack.until

\* Identities form chains: the successor of a key took its role at the instant the
\* key was retired, no key has two successors, and a key is retired exactly
\* when its record has a transition.
SuccessionIsLinear ==
    \A k \in Enrolled :
        /\ identities[k].status = "active" <=> identities[k].transition = None
        /\ identities[k].predecessor # None =>
              LET p == identities[k].predecessor
              IN  /\ p \in Enrolled /\ p # k
                  /\ identities[p].role = identities[k].role
                  /\ identities[p].status \in {"rotated", "recovered"}
                  /\ identities[p].transition = identities[k].enrolled
                  /\ \A other \in Enrolled : identities[other].predecessor = p => other = k

\* History is never rewritten: a record is only ever retired, a retired one never
\* changes again, and every change is a new revision.
RecordsOnlyRetire ==
    [][/\ \A k \in Enrolled :
             \/ identities'[k] = identities[k]
             \/ /\ identities[k].status = "active"
                /\ \E status \in Retirements :
                      identities'[k] = Retired(identities[k], status, trustClock')
       /\ (identities' # identities) <=> (revision' = revision + 1)
       /\ trustClock <= trustClock']_trustVars
=============================================================================
