-------------------------- MODULE ExecutionRecorder --------------------------
(***************************************************************************)
(* core/execution/reference-execution-evidence.mjs: one piece of evidence  *)
(* per authorization.                                                      *)
(*                                                                         *)
(* Both operations are synchronous, but complete() calls the host's clock  *)
(* between reserving its handle and building the evidence, and the clock   *)
(* may call the recorder.  So complete() is two steps, between which       *)
(* others may happen.                                                      *)
(***************************************************************************)
EXTENDS TrustedTime, FiniteSets

CONSTANTS
    Handles,            \* handles that begin() may return
    Authorizations,     \* exact authorizations, [id, issued, expires]
    Effects,            \* effects that have a canonical form
    MaxAuthorizations   \* MAX_LOCAL_AUTHORIZATIONS

ASSUME RecorderAssumption == MaxAuthorizations \in Nat

VARIABLES
    recorderClock,      \* lastTrustedTimeMs; 0 before the first sample
    opened,             \* usedAuthorizationCommitments
    handle,             \* handleState: the state and binding of each handle
    localEvidence       \* the evidence built so far

recorderVars == <<recorderClock, opened, handle, localEvidence>>

NoHandle == [state |-> "NONE", authorization |-> None, started |-> 0]

RecorderInit == /\ recorderClock = 0
                /\ opened = {}
                /\ handle = [h \in Handles |-> NoHandle]
                /\ localEvidence = {}

\* What complete() may be given; "other" is anything that is not an outcome.
ExecutionOutcomes == [status : {"success", "error", "unknown", "other"},
                      effect : Effects \union {None}]

-----------------------------------------------------------------------------

RecorderAccepts(sample) == sample # None /\ sample >= recorderClock

RecorderSamples(sample) ==
    recorderClock' = IF RecorderAccepts(sample) THEN sample ELSE recorderClock

\* Mutant of Begin: an authorization may be opened again.
BeginAgain(h, a, sample) ==
    /\ handle[h] = NoHandle
    /\ RecorderSamples(sample) /\ RecorderAccepts(sample)
    /\ a.issued <= sample /\ sample < a.expires
    /\ opened' = opened \union {a}
    /\ handle' = [handle EXCEPT ![h] = [state |-> "OPEN", authorization |-> a, started |-> sample]]
    /\ UNCHANGED localEvidence

Begin(h, a, sample) ==
    /\ handle[h] = NoHandle
    /\ RecorderSamples(sample) /\ RecorderAccepts(sample)
    /\ a.issued <= sample /\ sample < a.expires
    /\ a \notin opened
    /\ Cardinality(opened) < MaxAuthorizations
    /\ opened' = opened \union {a}
    /\ handle' = [handle EXCEPT ![h] = [state |-> "OPEN", authorization |-> a, started |-> sample]]
    /\ UNCHANGED localEvidence

\* begin() that fails after it read the clock keeps the sample.
BeginRefused(a, sample) ==
    /\ RecorderSamples(sample) /\ RecorderAccepts(sample)
    /\ \/ sample < a.issued \/ a.expires <= sample
       \/ a \in opened
       \/ Cardinality(opened) >= MaxAuthorizations
    /\ UNCHANGED <<opened, handle, localEvidence>>

\* The first half of complete(): a handle is reserved once.
Reserve(h) ==
    /\ handle[h].state = "OPEN"
    /\ handle' = [handle EXCEPT ![h].state = "COMPLETING"]
    /\ UNCHANGED <<recorderClock, opened, localEvidence>>

\* An outcome with a known status and a canonical effect is recorded as it is,
\* any other as unknown and without effect.
Recorded(outcome) ==
    IF outcome.status \in {"success", "error"} /\ outcome.effect # None
    THEN outcome
    ELSE [status |-> "unknown", effect |-> None]

\* The second half: the clock is read, and a failure is final.
BuildEvidence(h, outcome, sample) ==
    /\ handle[h].state = "COMPLETING"
    /\ RecorderSamples(sample)
    /\ IF RecorderAccepts(sample)
       THEN /\ localEvidence' = localEvidence \union
                  {[handle |-> h, authorization |-> handle[h].authorization,
                    outcome |-> Recorded(outcome),
                    started |-> handle[h].started, recorded |-> sample]}
            /\ handle' = [handle EXCEPT ![h].state = "RECORDED"]
       ELSE /\ handle' = [handle EXCEPT ![h].state = "FAILED"]
            /\ UNCHANGED localEvidence
    /\ UNCHANGED opened

RecorderNext ==
    \/ \E a \in Authorizations, sample \in Times :
          \/ \E h \in Handles : Begin(h, a, sample)
          \/ BeginRefused(a, sample)
    \/ \E h \in Handles :
          \/ Reserve(h)
          \/ \E outcome \in ExecutionOutcomes, sample \in Samples : BuildEvidence(h, outcome, sample)

RecorderSpec == RecorderInit /\ [][RecorderNext]_recorderVars

-----------------------------------------------------------------------------
(* Properties *)

\* However begin() and complete() nest, an authorization has at most one piece of
\* evidence; its recording began inside the authorized window and ended no
\* earlier; and it names an effect exactly when the status is known.
EvidenceOncePerAuthorization ==
    /\ \A e, f \in localEvidence : e.authorization = f.authorization => e = f
    /\ \A e \in localEvidence :
          /\ e.authorization.issued <= e.started /\ e.started < e.authorization.expires
          /\ e.started <= e.recorded /\ e.recorded <= recorderClock
          /\ e.outcome.status = "unknown" <=> e.outcome.effect = None
=============================================================================
