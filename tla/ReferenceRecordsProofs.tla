----------------------- MODULE ReferenceRecordsProofs -----------------------
(***************************************************************************)
(* What the reference components that keep records and policies promise,   *)
(* for any constants: PolicyControl, WitnessTrust, ExecutionRecorder and   *)
(* ObservationCapture.  They share the trusted time and no state, so each  *)
(* part below has an inductive invariant of its own.                       *)
(***************************************************************************)
EXTENDS WitnessTrust, ExecutionRecorder, ObservationCapture, PolicyControl, TLAPS

-----------------------------------------------------------------------------
(* PolicyControl *)

\* A snapshot somebody read: revisions never name two different policies, so one with
\* the current revision is the current one.
IsSnapshot(s) == /\ s.revision \in Nat
                 /\ s.revision <= current.revision
                 /\ s.revision = current.revision => s = current

\* What an operation that holds the lock relies on.
ControlInv ==
    /\ current.revision \in Nat
    /\ \A o \in Operators : IsSnapshot(seen[o])
    /\ operation.kind \in {"replace", "kill"} => IsSnapshot(operation.base)
    /\ operation.kind \in {"replace", "kill", "evaluate"} => ~killed

\* One failed check is a reason.
LEMMA RaisedReason ==
    ASSUME NEW checks, NEW reason, NEW condition, <<condition, reason>> \in checks, condition
    PROVE  Raised(checks) # {}
<1>1. <<condition, reason>>[1] /\ <<condition, reason>>[2] = reason
  OBVIOUS
<1>2. <<condition, reason>> \in {c \in checks : c[1]}
  BY <1>1
<1>3. <<condition, reason>>[2] \in Raised(checks)
  BY <1>2 DEF Raised
<1> QED
  BY <1>3

\* evaluateWalletGuardPolicy denies whatever it is asked while the switch is on.
LEMMA KilledPolicyDenies ==
    ASSUME NEW i, NEW p, NEW simulation, p.killSwitch
    PROVE  Evaluate(i, p, simulation) = "DENY"
<1>1. <<p.killSwitch, "KILL_SWITCH">> \in GeneralChecks(i, p)
  BY DEF GeneralChecks
<1>2. DenyReasons(i, p, simulation) # {}
  BY <1>1, RaisedReason DEF DenyReasons
<1> QED
  BY <1>2 DEF Evaluate

LEMMA ControlInitially == ControlInit => ControlInv
<1> SUFFICES ASSUME ControlInit PROVE ControlInv
  OBVIOUS
<1>1. current.revision = 0 /\ \A o \in Operators : seen[o] = current
  BY DEF ControlInit
<1>2. \A o \in Operators : IsSnapshot(seen[o])
  BY <1>1 DEF IsSnapshot
<1>3. operation.kind = "none"
  BY DEF ControlInit, Unlocked
<1> QED
  BY <1>1, <1>2, <1>3 DEF ControlInv

LEMMA ControlStep == ControlInv /\ [ControlNext]_controlVars => ControlInv'
<1> SUFFICES ASSUME ControlInv, [ControlNext]_controlVars PROVE ControlInv'
  OBVIOUS
<1>1. CASE UNCHANGED controlVars
  BY <1>1 DEF controlVars, ControlInv, IsSnapshot
<1>2. ASSUME NEW o \in Operators, ReadSnapshot(o) PROVE ControlInv'
  <2>1. \A q \in Operators : seen'[q] = seen[q] \/ seen'[q] = current
    BY <1>2 DEF ReadSnapshot
  <2> QED
    BY <1>2, <2>1 DEF ReadSnapshot, ControlInv, IsSnapshot
<1>3. ASSUME NEW o \in Operators, NEW requested \in Requests(o), EnterOperation(requested)
      PROVE ControlInv'
  <2>1. requested.kind \in {"replace", "kill"} => requested.base = seen[o]
    BY DEF Requests
  <2>2. operation' = requested /\ ~killed' /\ UNCHANGED <<current, seen>>
    BY <1>3 DEF EnterOperation
  <2>3. \A s : IsSnapshot(s) => IsSnapshot(s)'
    BY <2>2 DEF IsSnapshot
  <2>4. PICK s : s = seen[o]
    OBVIOUS
  <2>5. requested.kind \in {"replace", "kill"} => IsSnapshot(requested.base)'
    BY <2>1, <2>3, <2>4 DEF ControlInv
  <2>6. \A q \in Operators : IsSnapshot(seen[q])'
    BY <2>2 DEF ControlInv, IsSnapshot
  <2> QED
    BY <2>2, <2>5, <2>6 DEF ControlInv
<1>4. ASSUME NEW policy, Publish(policy)
      PROVE  current'.revision \in Nat /\ \A s : IsSnapshot(s) => IsSnapshot(s)'
  <2>1. current'.revision = current.revision + 1
    BY <1>4 DEF Publish
  <2>2. current.revision \in Nat
    BY DEF ControlInv
  <2> QED
    BY <2>1, <2>2 DEF IsSnapshot
<1>5. ASSUME UNCHANGED current
      PROVE  current'.revision \in Nat /\ \A s : IsSnapshot(s) => IsSnapshot(s)'
  BY <1>5 DEF ControlInv, IsSnapshot
<1>6. ASSUME LeaveOperation, current'.revision \in Nat, \A s : IsSnapshot(s) => IsSnapshot(s)'
      PROVE  ControlInv'
  <2>1. seen' = seen /\ operation'.kind \notin {"replace", "kill", "evaluate"}
    BY <1>6 DEF LeaveOperation, Unlocked
  <2>2. \A o \in Operators : \E s : s = seen[o] /\ s = seen'[o] /\ IsSnapshot(s)
    BY <2>1 DEF ControlInv
  <2>3. \A o \in Operators : IsSnapshot(seen[o])'
    BY <1>6, <2>2
  <2> QED
    BY <1>6, <2>1, <2>3 DEF ControlInv
<1>7. CASE ReplacePolicy
  BY <1>4, <1>5, <1>6, <1>7 DEF ReplacePolicy
<1>8. CASE EngageKillSwitch
  BY <1>4, <1>5, <1>6, <1>8 DEF EngageKillSwitch
<1>9. CASE EvaluateCurrent
  BY <1>5, <1>6, <1>9 DEF EvaluateCurrent
<1> QED
  BY <1>1, <1>2, <1>3, <1>7, <1>8, <1>9 DEF ControlNext

\* Every step keeps the kill switch.
LEMMA ControlHolds ==
    ASSUME ControlInv, ControlNext
    PROVE  /\ (current.policy.killSwitch /\ ~current'.policy.killSwitch) =>
                 operation.base = current /\ ~killed
           /\ (current.policy.killSwitch /\ answer' # answer) => answer'.decision = "DENY"
<1>1. ASSUME NEW o \in Operators,
             ReadSnapshot(o) \/ \E requested \in Requests(o) : EnterOperation(requested)
      PROVE  current' = current /\ answer' = answer
  BY <1>1 DEF ReadSnapshot, EnterOperation
<1>2. CASE ReplacePolicy
  BY <1>2 DEF ReplacePolicy, IsFresh, ControlInv, IsSnapshot
<1>3. CASE EngageKillSwitch
  <2>1. current.policy.killSwitch => current' = current
    BY <1>3 DEF EngageKillSwitch
  <2> QED
    BY <1>3, <2>1 DEF EngageKillSwitch
<1>4. CASE EvaluateCurrent
  BY <1>4, KilledPolicyDenies DEF EvaluateCurrent
<1> QED
  BY <1>1, <1>2, <1>3, <1>4 DEF ControlNext

\* A kill switch reported as engaged stays until a replacement based on the killed
\* state that entered afterwards, and every evaluation denies until then.
THEOREM KillSwitchTheorem == ControlSpec => KillSwitchHolds
<1>1. ControlInv /\ [ControlNext]_controlVars =>
         [/\ (current.policy.killSwitch /\ ~current'.policy.killSwitch) =>
                operation.base = current /\ ~killed
          /\ (current.policy.killSwitch /\ answer' # answer) => answer'.decision = "DENY"]_controlVars
  BY ControlHolds
<1> QED
  BY <1>1, ControlInitially, ControlStep, PTL DEF ControlSpec, KillSwitchHolds

-----------------------------------------------------------------------------
(* WitnessTrust *)

TrustTypes == /\ identities \in [Keys -> Records \union {None}]
              /\ revision \in Nat
              /\ trustClock \in Nat

\* Results were given no later than the last sample, so a retirement still to come is
\* not earlier than any of them.
ResultInv == \A v \in verified : v.now \in Nat /\ v.now <= trustClock

TrustInv == TrustTypes /\ ResultInv /\ VerifiedIsBacked /\ SuccessionIsLinear

\* What the operators give.

LEMMA MinOfThree ==
    ASSUME NEW a \in Nat, NEW b \in Nat, NEW c \in Nat
    PROVE  LET m == Min({a, b, c}) IN m \in Nat /\ m <= a /\ m <= b /\ m <= c
<1>1. \E x \in {a, b, c} : \A y \in {a, b, c} : x <= y
  OBVIOUS
<1>2. Min({a, b, c}) \in {a, b, c} /\ \A y \in {a, b, c} : Min({a, b, c}) <= y
  BY <1>1 DEF Min
<1> QED
  BY <1>2

LEMMA EnrolledRecords ==
    ASSUME TrustTypes, NEW k \in Enrolled
    PROVE  /\ k \in Keys
           /\ identities[k] \in Records
           /\ identities[k].enrolled \in Nat /\ identities[k].until \in Nat
  BY TimeAssumption DEF TrustTypes, Enrolled, Records, Times

LEMMA NewRecordFields ==
    ASSUME NEW role \in Roles, NEW now \in Times, NEW until \in Times,
           NEW predecessor \in Keys \union {None}
    PROVE  LET r == NewRecord(role, now, until, predecessor)
           IN  /\ r \in Records /\ r # None
               /\ r.role = role /\ r.enrolled = now /\ r.until = until /\ r.status = "active"
               /\ r.predecessor = predecessor /\ r.transition = None
<1>1. NewRecord(role, now, until, predecessor) \in Records
  BY TimeAssumption DEF NewRecord, Records, Times
<1> QED
  BY <1>1, RecordAssumption DEF NewRecord

LEMMA RetiredFields ==
    ASSUME NEW record \in Records, NEW status \in Retirements, NEW now \in Times
    PROVE  LET r == Retired(record, status, now)
           IN  /\ r \in Records /\ r # None
               /\ r.role = record.role /\ r.enrolled = record.enrolled /\ r.until = record.until
               /\ r.status = status /\ r.predecessor = record.predecessor /\ r.transition = now
<1>1. Retired(record, status, now) \in Records
  BY DEF Retired, Records
<1> QED
  BY <1>1, RecordAssumption DEF Retired, Records

LEMMA ClockMoves ==
    ASSUME TrustTypes, NEW sample \in Times, SampleTrustedClock(sample)
    PROVE  sample \in Nat /\ trustClock' = sample /\ trustClock <= sample
  BY TimeAssumption DEF TrustTypes, SampleTrustedClock, SampleAccepted, Times

\* Records keep what results rest on when every one of them is kept or retired now.
OnlyRetires(now) ==
    \A k \in Enrolled :
        \/ identities'[k] = identities[k]
        \/ /\ identities[k].status = "active"
           /\ \E status \in Retirements : identities'[k] = Retired(identities[k], status, now)

LEMMA ResultsStay ==
    ASSUME TrustTypes, ResultInv, VerifiedIsBacked, NEW now \in Times,
           identities' \in [Keys -> Records \union {None}],
           OnlyRetires(now), verified' = verified,
           trustClock' = now, trustClock <= now, now \in Nat
    PROVE  ResultInv' /\ VerifiedIsBacked'
<1>1. ResultInv'
  BY DEF ResultInv, TrustTypes
<1>2. ASSUME NEW k \in Enrolled
      PROVE  /\ k \in Enrolled'
             /\ identities'[k].role = identities[k].role
             /\ identities'[k].enrolled = identities[k].enrolled
             /\ identities'[k].until = identities[k].until
             /\ identities'[k].transition \in {identities[k].transition, now}
  BY EnrolledRecords, RetiredFields DEF OnlyRetires, Enrolled
<1>3. \A v \in verified : v.now <= now
  BY DEF ResultInv, TrustTypes
<1>4. ASSUME NEW v \in verified
      PROVE  /\ v.source \in Enrolled' /\ v.witness \in Enrolled'
             /\ identities'[v.source].role = "source" /\ identities'[v.witness].role = "witness"
             /\ identities'[v.source].enrolled <= v.receipt.occurred
             /\ v.receipt.occurred <= v.ack.received
             /\ identities'[v.witness].enrolled <= v.ack.received /\ v.ack.received <= v.now
             /\ \A r \in {identities'[v.source], identities'[v.witness]} :
                   /\ r.transition = None \/ v.now <= r.transition
                   /\ v.until <= r.until
             /\ v.now < v.until /\ v.until <= v.ack.until
  <2>1. v.source \in Enrolled /\ v.witness \in Enrolled
    BY DEF VerifiedIsBacked
  <2> QED
    BY <1>2, <1>3, <2>1 DEF VerifiedIsBacked
<1> QED
  BY <1>1, <1>4 DEF VerifiedIsBacked

\* The steps.

LEMMA TrustInitially == TrustInit => TrustInv
  BY DEF TrustInit, TrustInv, TrustTypes, ResultInv, VerifiedIsBacked, SuccessionIsLinear, Enrolled

LEMMA EnrollStep ==
    ASSUME TrustInv, NEW k \in Keys, NEW role \in Roles, NEW until \in Times, NEW sample \in Times,
           EnrollIdentity(k, role, until, sample)
    PROVE  TrustInv' /\ OnlyRetires(sample) /\ identities' # identities
<1> DEFINE new == NewRecord(role, sample, until, None)
<1>1. sample \in Nat /\ trustClock' = sample /\ trustClock <= sample
  BY ClockMoves DEF EnrollIdentity, TrustInv
<1>2. /\ new \in Records /\ new # None /\ new.status = "active"
      /\ new.predecessor = None /\ new.transition = None
  BY NewRecordFields
<1>3. identities' = [identities EXCEPT ![k] = new] /\ revision' = revision + 1
  BY DEF EnrollIdentity, CommitMutation
<1> HIDE DEF new
<1>4. identities[k] = None /\ verified' = verified
  BY DEF EnrollIdentity
<1>5. \A x \in Keys : identities'[x] = IF x = k THEN new ELSE identities[x]
  BY <1>3 DEF TrustInv, TrustTypes
<1>6. TrustTypes'
  BY <1>1, <1>2, <1>3 DEF TrustInv, TrustTypes
<1>7. Enrolled' = Enrolled \union {k} /\ k \notin Enrolled /\ Enrolled \subseteq Keys
  BY <1>2, <1>4, <1>5 DEF Enrolled
<1>8. OnlyRetires(sample)
  BY <1>5, <1>7 DEF OnlyRetires
<1>9. ResultInv' /\ VerifiedIsBacked'
  BY <1>1, <1>4, <1>6, <1>8, ResultsStay DEF TrustInv, TrustTypes
<1>10. SuccessionIsLinear'
  <2>1. \A x \in Enrolled' : x = k \/ (x \in Enrolled /\ identities'[x] = identities[x])
    BY <1>5, <1>7
  <2>2. \A x \in Enrolled : x \in Enrolled' /\ identities'[x] = identities[x]
    BY <1>5, <1>7
  <2>3. identities'[k] = new
    BY <1>5
  <2> QED
    BY <1>2, <2>1, <2>2, <2>3 DEF TrustInv, SuccessionIsLinear
<1> QED
  BY <1>2, <1>4, <1>5, <1>6, <1>8, <1>9, <1>10 DEF TrustInv

LEMMA RevokeStep ==
    ASSUME TrustInv, NEW k \in Keys, NEW sample \in Times, RevokeIdentity(k, sample)
    PROVE  TrustInv' /\ OnlyRetires(sample) /\ identities' # identities
<1> DEFINE new == Retired(identities[k], "revoked", sample)
<1>1. sample \in Nat /\ trustClock' = sample /\ trustClock <= sample
  BY ClockMoves DEF RevokeIdentity, TrustInv
<1>2. k \in Enrolled /\ identities[k].status = "active" /\ verified' = verified
  BY DEF RevokeIdentity
<1>3. identities[k] \in Records
  BY <1>2, EnrolledRecords DEF TrustInv
<1>4. /\ new \in Records /\ new # None /\ new.status = "revoked"
      /\ new.role = identities[k].role /\ new.enrolled = identities[k].enrolled
      /\ new.predecessor = identities[k].predecessor /\ new.transition = sample
  BY <1>3, RetiredFields DEF Retirements
<1>5. identities' = [identities EXCEPT ![k] = new] /\ revision' = revision + 1
  BY DEF RevokeIdentity, CommitMutation
<1>6. OnlyRetires(sample)
  <2>1. \A x \in Enrolled : identities'[x] = IF x = k THEN new ELSE identities[x]
    BY <1>5 DEF TrustInv, TrustTypes, Enrolled
  <2> QED
    BY <1>2, <2>1 DEF OnlyRetires, Retirements
<1> HIDE DEF new
<1>7. \A x \in Keys : identities'[x] = IF x = k THEN new ELSE identities[x]
  BY <1>5 DEF TrustInv, TrustTypes
<1>8. TrustTypes'
  BY <1>1, <1>4, <1>5 DEF TrustInv, TrustTypes
<1>9. Enrolled' = Enrolled /\ Enrolled \subseteq Keys
  BY <1>2, <1>4, <1>7 DEF Enrolled
<1>10. ResultInv' /\ VerifiedIsBacked'
  BY <1>1, <1>2, <1>6, <1>8, ResultsStay DEF TrustInv, TrustTypes
<1>11. SuccessionIsLinear'
  <2>1. \A x \in Enrolled : identities[x].predecessor # k
    BY <1>2, TrustAssumption DEF TrustInv, SuccessionIsLinear
  <2>2. \A x \in Enrolled : /\ identities'[x].predecessor = identities[x].predecessor
                            /\ identities'[x].role = identities[x].role
                            /\ identities'[x].enrolled = identities[x].enrolled
                            /\ x # k => identities'[x] = identities[x]
    BY <1>4, <1>7, <1>9
  <2>3. sample # None
    BY <1>1, TimeAssumption
  <2>4. identities'[k] = new
    BY <1>7
  <2> QED
    BY <1>2, <1>4, <1>9, <2>1, <2>2, <2>3, <2>4 DEF TrustInv, SuccessionIsLinear
<1>12. identities'[k] # identities[k]
  BY <1>2, <1>4, <1>7
<1> QED
  BY <1>6, <1>8, <1>10, <1>11, <1>12 DEF TrustInv

LEMMA ReplaceStep ==
    ASSUME TrustInv, NEW k \in Keys, NEW successor \in Keys, NEW until \in Times,
           NEW status \in {"rotated", "recovered"}, NEW sample \in Times,
           ReplaceIdentity(k, successor, until, status, sample)
    PROVE  TrustInv' /\ OnlyRetires(sample) /\ identities' # identities
<1> DEFINE old == Retired(identities[k], status, sample)
           new == NewRecord(identities[k].role, sample, until, k)
<1>1. sample \in Nat /\ trustClock' = sample /\ trustClock <= sample
  BY ClockMoves DEF ReplaceIdentity, TrustInv
<1>2. /\ k \in Enrolled /\ identities[k].status = "active" /\ verified' = verified
      /\ \A other \in Enrolled : identities[other].predecessor # k
      /\ identities[successor] = None
  BY DEF ReplaceIdentity
<1>3. identities[k] \in Records /\ identities[k].role \in Roles /\ successor # k
  BY <1>2, EnrolledRecords DEF TrustInv, Records, Enrolled
<1>4. /\ old \in Records /\ old # None /\ old.status = status
      /\ old.role = identities[k].role /\ old.enrolled = identities[k].enrolled
      /\ old.predecessor = identities[k].predecessor /\ old.transition = sample
  <2>1. status \in Retirements
    BY DEF Retirements
  <2> QED
    BY <1>3, <2>1, RetiredFields
<1>5. /\ new \in Records /\ new # None /\ new.status = "active"
      /\ new.role = identities[k].role /\ new.enrolled = sample
      /\ new.predecessor = k /\ new.transition = None
  BY <1>3, NewRecordFields
<1>6. identities' = [identities EXCEPT ![k] = old, ![successor] = new] /\ revision' = revision + 1
  BY DEF ReplaceIdentity, CommitMutation
<1>7. OnlyRetires(sample)
  <2>1. \A x \in Enrolled : identities'[x] = IF x = k THEN old ELSE identities[x]
    BY <1>2, <1>6 DEF TrustInv, TrustTypes, Enrolled
  <2> QED
    BY <1>2, <2>1 DEF OnlyRetires, Retirements
<1> HIDE DEF old, new
<1>8. \A x \in Keys : identities'[x] = IF x = k THEN old ELSE IF x = successor THEN new
                                                              ELSE identities[x]
  BY <1>3, <1>6 DEF TrustInv, TrustTypes
<1>9. TrustTypes'
  BY <1>1, <1>4, <1>5, <1>6 DEF TrustInv, TrustTypes
<1>10. /\ Enrolled' = Enrolled \union {successor} /\ successor \notin Enrolled
       /\ Enrolled \subseteq Keys
  BY <1>2, <1>4, <1>5, <1>8 DEF Enrolled
<1>11. ResultInv' /\ VerifiedIsBacked'
  BY <1>1, <1>2, <1>7, <1>9, ResultsStay DEF TrustInv, TrustTypes
<1>12. SuccessionIsLinear'
  <2>1. \A x \in Enrolled : /\ identities'[x].predecessor = identities[x].predecessor
                            /\ identities'[x].role = identities[x].role
                            /\ identities'[x].enrolled = identities[x].enrolled
                            /\ x # k => identities'[x] = identities[x]
    BY <1>3, <1>4, <1>8, <1>10
  <2>2. identities'[k] = old /\ identities'[successor] = new
    BY <1>3, <1>8
  <2>3. sample # None
    BY <1>1, TimeAssumption
  <2>4. \A x \in Enrolled' :
           identities'[x].status = "active" <=> identities'[x].transition = None
    BY <1>4, <1>5, <1>10, <2>1, <2>2, <2>3 DEF TrustInv, SuccessionIsLinear
  <2>5. ASSUME NEW x \in Enrolled, identities'[x].predecessor # None
        PROVE  LET p == identities'[x].predecessor
               IN  /\ p \in Enrolled' /\ p # x
                   /\ identities'[p].role = identities'[x].role
                   /\ identities'[p].status \in {"rotated", "recovered"}
                   /\ identities'[p].transition = identities'[x].enrolled
                   /\ \A other \in Enrolled' : identities'[other].predecessor = p => other = x
    <3> DEFINE p == identities[x].predecessor
    <3>1. /\ p \in Enrolled /\ p # x /\ p # k
          /\ identities[p].role = identities[x].role
          /\ identities[p].status \in {"rotated", "recovered"}
          /\ identities[p].transition = identities[x].enrolled
          /\ \A other \in Enrolled : identities[other].predecessor = p => other = x
      BY <1>2, <2>1, <2>5 DEF TrustInv, SuccessionIsLinear
    <3> HIDE DEF p
    <3>2. p = identities'[x].predecessor
      BY <2>1 DEF p
    <3>3. identities'[p] = identities[p]
      BY <2>1, <3>1
    <3>4. \A other \in Enrolled' : identities'[other].predecessor = p => other = x
      BY <1>5, <1>10, <2>1, <2>2, <3>1
    <3> QED
      BY <1>10, <2>1, <3>1, <3>2, <3>3, <3>4
  <2>6. /\ k \in Enrolled' /\ k # successor
        /\ identities'[k].role = new.role
        /\ identities'[k].status \in {"rotated", "recovered"}
        /\ identities'[k].transition = new.enrolled
        /\ \A other \in Enrolled' : identities'[other].predecessor = k => other = successor
    BY <1>2, <1>3, <1>4, <1>5, <1>10, <2>1, <2>2
  <2> QED
    BY <1>5, <1>10, <2>2, <2>4, <2>5, <2>6 DEF SuccessionIsLinear
<1>13. identities'[successor] # identities[successor]
  BY <1>2, <1>3, <1>5, <1>8
<1> QED
  BY <1>7, <1>9, <1>11, <1>12, <1>13 DEF TrustInv

LEMMA VerifyStep ==
    ASSUME TrustInv, NEW e \in Evidence, NEW sample \in Times, VerifyAuthorizationCandidate(e, sample)
    PROVE  TrustInv'
<1> DEFINE new == VerificationResult(e, sample)
           source == identities[e.envelope.receipt.source]
           witness == identities[e.ack.witness]
           until == AuthorizationValidUntil(source, witness, e)
<1>1. sample \in Nat /\ trustClock' = sample /\ trustClock <= sample
  BY ClockMoves DEF VerifyAuthorizationCandidate, TrustInv
<1>2. verified' = verified \union {new} /\ UNCHANGED <<identities, revision>>
  BY DEF VerifyAuthorizationCandidate
<1>3. /\ e.envelope.receipt.source \in Enrolled /\ e.ack.witness \in Enrolled
      /\ e.envelope.receipt.occurred <= e.ack.received
      /\ e.ack.received <= sample
      /\ sample < until
      /\ source.role = "source" /\ witness.role = "witness"
      /\ source.status = "active" /\ witness.status = "active"
      /\ source.enrolled <= e.envelope.receipt.occurred
      /\ witness.enrolled <= e.ack.received
  BY DEF VerifyAuthorizationCandidate, CandidateVerifies, AckUnexpired, IdentitiesVouch, RecordActiveAt
<1>4. source.until \in Nat /\ witness.until \in Nat /\ e.ack.until \in Nat
  BY <1>3, EnrolledRecords, TrustAssumption DEF TrustInv
<1>5. until <= e.ack.until /\ until <= source.until /\ until <= witness.until
  BY <1>4, MinOfThree DEF AuthorizationValidUntil
<1>6. source.transition = None /\ witness.transition = None
  BY <1>3 DEF TrustInv, SuccessionIsLinear
<1>7. /\ new.source = e.envelope.receipt.source /\ new.witness = e.ack.witness
      /\ new.receipt = e.envelope.receipt /\ new.ack = e.ack /\ new.now = sample
      /\ new.until = until
  BY DEF VerificationResult
<1> HIDE DEF new, until
<1>8. TrustTypes' /\ SuccessionIsLinear' /\ Enrolled' = Enrolled
  BY <1>1, <1>2 DEF TrustInv, TrustTypes, SuccessionIsLinear, Enrolled
<1>9. ResultInv'
  <2>1. trustClock \in Nat /\ \A v \in verified : v.now \in Nat /\ v.now <= trustClock
    BY DEF TrustInv, ResultInv, TrustTypes
  <2>2. new.now = sample
    BY <1>7
  <2>3. \A v \in verified' : v.now \in Nat /\ v.now <= trustClock'
    BY <1>1, <1>2, <2>1, <2>2
  <2> QED
    BY <2>3 DEF ResultInv
<1>10. VerifiedIsBacked'
  <2>1. ASSUME NEW v \in verified'
        PROVE  /\ v.source \in Enrolled /\ v.witness \in Enrolled
               /\ identities[v.source].role = "source" /\ identities[v.witness].role = "witness"
               /\ identities[v.source].enrolled <= v.receipt.occurred
               /\ v.receipt.occurred <= v.ack.received
               /\ identities[v.witness].enrolled <= v.ack.received /\ v.ack.received <= v.now
               /\ \A r \in {identities[v.source], identities[v.witness]} :
                     /\ r.transition = None \/ v.now <= r.transition
                     /\ v.until <= r.until
               /\ v.now < v.until /\ v.until <= v.ack.until
    <3>1. CASE v \in verified
      BY <3>1 DEF TrustInv, VerifiedIsBacked
    <3>2. CASE v = new
      BY <1>3, <1>5, <1>6, <1>7, <3>2
    <3> QED
      BY <1>2, <3>1, <3>2
  <2> QED
    BY <1>2, <1>8, <2>1 DEF VerifiedIsBacked
<1> QED
  BY <1>8, <1>9, <1>10 DEF TrustInv

LEMMA RefuseStep ==
    ASSUME TrustInv, NEW sample \in Times, RefuseTrustOperation(sample)
    PROVE  TrustInv'
<1>1. sample \in Nat /\ trustClock' = sample /\ trustClock <= sample
  BY ClockMoves DEF RefuseTrustOperation, TrustInv
<1>2. UNCHANGED <<identities, revision, verified>>
  BY DEF RefuseTrustOperation
<1>3. TrustTypes' /\ SuccessionIsLinear'
  BY <1>1, <1>2 DEF TrustInv, TrustTypes, SuccessionIsLinear, Enrolled
<1>4. ResultInv' /\ VerifiedIsBacked'
  BY <1>1, <1>2 DEF TrustInv, TrustTypes, ResultInv, VerifiedIsBacked, Enrolled
<1> QED
  BY <1>3, <1>4 DEF TrustInv

LEMMA TrustStep == TrustInv /\ [TrustNext]_trustVars => TrustInv'
<1> SUFFICES ASSUME TrustInv, [TrustNext]_trustVars PROVE TrustInv'
  OBVIOUS
<1>1. CASE UNCHANGED trustVars
  <2>1. UNCHANGED <<identities, revision, trustClock, verified>>
    BY <1>1 DEF trustVars
  <2>2. TrustTypes' /\ Enrolled' = Enrolled
    BY <2>1 DEF TrustInv, TrustTypes, Enrolled
  <2>3. ResultInv'
    BY <2>1 DEF TrustInv, ResultInv
  <2>4. VerifiedIsBacked'
    BY <2>1, <2>2 DEF TrustInv, VerifiedIsBacked
  <2>5. SuccessionIsLinear'
    BY <2>1, <2>2 DEF TrustInv, SuccessionIsLinear
  <2> QED
    BY <2>2, <2>3, <2>4, <2>5 DEF TrustInv
<1>2. ASSUME NEW k \in Keys, NEW successor \in Keys, NEW until \in Times, NEW sample \in Times,
             RotateIdentity(k, successor, until, sample) \/ RecoverIdentity(k, successor, until, sample)
      PROVE  TrustInv'
  BY <1>2, ReplaceStep DEF RotateIdentity, RecoverIdentity
<1>3. CASE AdminStep
  BY <1>2, <1>3, EnrollStep, RevokeStep, RefuseStep DEF AdminStep
<1> QED
  BY <1>1, <1>3, VerifyStep DEF TrustNext

\* The action property, from the same case distinction.
LEMMA TrustStepRetires ==
    ASSUME TrustInv, TrustNext
    PROVE  /\ OnlyRetires(trustClock')
           /\ (identities' # identities) <=> (revision' = revision + 1)
           /\ trustClock <= trustClock'
<1>1. PICK sample \in Times : SampleTrustedClock(sample)
  <2>1. \A t, k : RevokeIdentity(k, t) => SampleTrustedClock(t)
    BY DEF RevokeIdentity
  <2>2. \A t, k, role, until : EnrollIdentity(k, role, until, t) => SampleTrustedClock(t)
    BY DEF EnrollIdentity
  <2>3. \A t, k, successor, until, status :
           ReplaceIdentity(k, successor, until, status, t) => SampleTrustedClock(t)
    BY DEF ReplaceIdentity
  <2>4. \A t, e : RefuseTrustOperation(t) \/ VerifyAuthorizationCandidate(e, t) => SampleTrustedClock(t)
    BY DEF RefuseTrustOperation, VerifyAuthorizationCandidate
  <2> QED
    BY <2>1, <2>2, <2>3, <2>4 DEF TrustNext, AdminStep, RotateIdentity, RecoverIdentity
<1>2. trustClock <= trustClock' /\ trustClock' = sample
  BY <1>1, ClockMoves DEF TrustInv
<1>3. CASE UNCHANGED <<identities, revision>>
  BY <1>2, <1>3 DEF TrustInv, TrustTypes, OnlyRetires
<1>4. ASSUME NEW k \in Keys, RevokeIdentity(k, sample)
      PROVE  OnlyRetires(sample) /\ identities' # identities /\ revision' = revision + 1
  BY <1>4, RevokeStep DEF RevokeIdentity, CommitMutation
<1>5. ASSUME NEW k \in Keys, NEW until \in Times, NEW role \in Roles,
             EnrollIdentity(k, role, until, sample)
      PROVE  OnlyRetires(sample) /\ identities' # identities /\ revision' = revision + 1
  BY <1>5, EnrollStep DEF EnrollIdentity, CommitMutation
<1>6. ASSUME NEW k \in Keys, NEW until \in Times, NEW successor \in Keys,
             NEW status \in {"rotated", "recovered"},
             ReplaceIdentity(k, successor, until, status, sample)
      PROVE  OnlyRetires(sample) /\ identities' # identities /\ revision' = revision + 1
  BY <1>6, ReplaceStep DEF ReplaceIdentity, CommitMutation
<1>7. \A other \in Times : SampleTrustedClock(other) => other = sample
  BY <1>1 DEF SampleTrustedClock
<1>8. \/ \E k \in Keys : RevokeIdentity(k, sample)
      \/ \E k \in Keys, until \in Times, role \in Roles : EnrollIdentity(k, role, until, sample)
      \/ \E k \in Keys, until \in Times, successor \in Keys, status \in {"rotated", "recovered"} :
            ReplaceIdentity(k, successor, until, status, sample)
      \/ UNCHANGED <<identities, revision>>
  <2>1. ASSUME NEW t \in Times, NEW k \in Keys, RevokeIdentity(k, t)
        PROVE  t = sample
    BY <1>7, <2>1 DEF RevokeIdentity
  <2>2. ASSUME NEW t \in Times, NEW k \in Keys, NEW until \in Times, NEW role \in Roles,
               EnrollIdentity(k, role, until, t)
        PROVE  t = sample
    BY <1>7, <2>2 DEF EnrollIdentity
  <2>3. ASSUME NEW t \in Times, NEW k \in Keys, NEW until \in Times, NEW successor \in Keys,
               NEW status, ReplaceIdentity(k, successor, until, status, t)
        PROVE  t = sample
    BY <1>7, <2>3 DEF ReplaceIdentity
  <2>4. CASE AdminStep
    BY <2>1, <2>2, <2>3, <2>4 DEF AdminStep, RotateIdentity, RecoverIdentity, RefuseTrustOperation
  <2>5. CASE ~AdminStep
    BY <2>5 DEF TrustNext, VerifyAuthorizationCandidate
  <2> QED
    BY <2>4, <2>5
<1>9. revision \in Nat
  BY DEF TrustInv, TrustTypes
<1> QED
  BY <1>2, <1>3, <1>4, <1>5, <1>6, <1>8, <1>9

\* Every verification result rests on keys that were active when they signed and when
\* it was given, whatever is revoked, rotated or recovered afterwards.
THEOREM VerifiedIsBackedTheorem == TrustSpec => []VerifiedIsBacked
<1>1. TrustInv => VerifiedIsBacked
  BY DEF TrustInv
<1> QED
  BY <1>1, TrustInitially, TrustStep, PTL DEF TrustSpec

\* Rotation and recovery build chains of identities without a branch.
THEOREM SuccessionIsLinearTheorem == TrustSpec => []SuccessionIsLinear
<1>1. TrustInv => SuccessionIsLinear
  BY DEF TrustInv
<1> QED
  BY <1>1, TrustInitially, TrustStep, PTL DEF TrustSpec

\* No operation of the administrator rewrites a record, except that it retires an
\* active one, and the clock never moves back.
THEOREM RecordsOnlyRetireTheorem == TrustSpec => RecordsOnlyRetire
<1>1. TrustInv /\ [TrustNext]_trustVars =>
         [/\ \A k \in Enrolled :
                \/ identities'[k] = identities[k]
                \/ /\ identities[k].status = "active"
                   /\ \E status \in Retirements :
                         identities'[k] = Retired(identities[k], status, trustClock')
          /\ (identities' # identities) <=> (revision' = revision + 1)
          /\ trustClock <= trustClock']_trustVars
  BY TrustStepRetires DEF OnlyRetires
<1> QED
  BY <1>1, TrustInitially, TrustStep, PTL DEF TrustSpec, RecordsOnlyRetire

-----------------------------------------------------------------------------
(* ExecutionRecorder *)

HandleRecords == [state : {"NONE", "OPEN", "COMPLETING", "RECORDED", "FAILED"},
                  authorization : Authorizations \union {None}, started : Nat]

\* A handle in use has opened its authorization, inside its window, and no other
\* handle has the same one.
HandleInv ==
    /\ handle \in [Handles -> HandleRecords]
    /\ \A h \in Handles : handle[h].state # "NONE" =>
          /\ handle[h].authorization \in opened
          /\ handle[h].authorization.issued <= handle[h].started
          /\ handle[h].started < handle[h].authorization.expires
          /\ handle[h].started <= recorderClock
    /\ \A g, h \in Handles :
          /\ handle[g].state # "NONE" /\ handle[h].state # "NONE"
          /\ handle[g].authorization = handle[h].authorization
          => g = h

\* Evidence belongs to a handle that was recorded, and there is one for each.
EvidenceIsBacked(e) ==
    /\ e.handle \in Handles
    /\ handle[e.handle].state = "RECORDED"
    /\ e.authorization = handle[e.handle].authorization
    /\ e.started = handle[e.handle].started
    /\ e.recorded \in Nat
    /\ e.started <= e.recorded /\ e.recorded <= recorderClock
    /\ e.outcome.status = "unknown" <=> e.outcome.effect = None

EvidenceInv ==
    /\ \A e \in localEvidence : EvidenceIsBacked(e)
    /\ \A e, f \in localEvidence : e.handle = f.handle => e = f

RecorderInv == recorderClock \in Nat /\ HandleInv /\ EvidenceInv

LEMMA RecorderInitially == RecorderInit => RecorderInv
  BY DEF RecorderInit, RecorderInv, HandleInv, EvidenceInv, HandleRecords, NoHandle

\* The clock of the recorder never moves back.
LEMMA ClockAdvances ==
    ASSUME RecorderInv, NEW sample \in Samples, RecorderSamples(sample)
    PROVE  /\ recorderClock' \in Nat
           /\ recorderClock <= recorderClock'
           /\ RecorderAccepts(sample) => sample \in Nat /\ recorderClock' = sample
<1>1. sample # None => sample \in Nat
  BY TimeAssumption DEF Samples, Times
<1> QED
  BY <1>1 DEF RecorderInv, RecorderSamples, RecorderAccepts

\* Evidence stays backed while its handle is left alone.
LEMMA EvidenceKept ==
    ASSUME NEW e, EvidenceIsBacked(e), handle'[e.handle] = handle[e.handle],
           recorderClock \in Nat, recorderClock' \in Nat, recorderClock <= recorderClock'
    PROVE  EvidenceIsBacked(e)'
<1>1. e.recorded \in Nat /\ e.recorded <= recorderClock
  BY DEF EvidenceIsBacked
<1>2. e.recorded <= recorderClock'
  BY <1>1
<1> QED
  BY <1>2 DEF EvidenceIsBacked

LEMMA BeginStep ==
    ASSUME RecorderInv, NEW h \in Handles, NEW a \in Authorizations, NEW sample \in Times,
           Begin(h, a, sample)
    PROVE  RecorderInv'
<1> DEFINE new == [state |-> "OPEN", authorization |-> a, started |-> sample]
<1>1. /\ recorderClock' \in Nat /\ recorderClock <= recorderClock'
      /\ sample \in Nat /\ recorderClock' = sample
  BY ClockAdvances DEF Begin, Samples
<1>2. handle' = [handle EXCEPT ![h] = new] /\ new \in HandleRecords
  BY <1>1 DEF Begin, HandleRecords
<1>3. new.state = "OPEN" /\ new.authorization = a /\ new.started = sample
  OBVIOUS
<1>4. handle[h].state = "NONE"
  BY DEF Begin, NoHandle
<1> HIDE DEF new
<1>5. handle' \in [Handles -> HandleRecords]
  BY <1>2 DEF RecorderInv, HandleInv
<1>6. \A g \in Handles : handle'[g] = IF g = h THEN new ELSE handle[g]
  BY <1>2 DEF RecorderInv, HandleInv
<1>7. opened' = opened \union {a} /\ a \notin opened /\ a.issued <= sample /\ sample < a.expires
  BY DEF Begin
<1>8. \A g \in Handles : handle[g].started \in Nat
  BY DEF RecorderInv, HandleInv, HandleRecords
<1>9. HandleInv'
  <2>1. \A g \in Handles : g # h /\ handle[g].state # "NONE" =>
           /\ handle[g].authorization \in opened
           /\ handle[g].authorization.issued <= handle[g].started
           /\ handle[g].started < handle[g].authorization.expires
           /\ handle[g].started <= recorderClock'
    <3>1. HandleInv /\ recorderClock \in Nat
      BY DEF RecorderInv
    <3>2. \A g \in Handles : handle[g].state # "NONE" => handle[g].started <= recorderClock'
      BY <1>1, <1>8, <3>1 DEF HandleInv
    <3> QED
      BY <3>1, <3>2 DEF HandleInv
  <2>2. \A g \in Handles : handle'[g].state # "NONE" =>
           /\ handle'[g].authorization \in opened'
           /\ handle'[g].authorization.issued <= handle'[g].started
           /\ handle'[g].started < handle'[g].authorization.expires
           /\ handle'[g].started <= recorderClock'
    BY <1>1, <1>3, <1>6, <1>7, <2>1
  <2>3. \A g, l \in Handles :
           /\ g # h /\ l # h /\ handle[g].state # "NONE" /\ handle[l].state # "NONE"
           /\ handle[g].authorization = handle[l].authorization
           => g = l
    BY DEF RecorderInv, HandleInv
  <2>4. \A g, l \in Handles :
           /\ handle'[g].state # "NONE" /\ handle'[l].state # "NONE"
           /\ handle'[g].authorization = handle'[l].authorization
           => g = l
    BY <1>3, <1>6, <1>7, <2>1, <2>3
  <2> QED
    BY <1>5, <2>2, <2>4 DEF HandleInv
<1>10. EvidenceInv'
  <2>1. localEvidence' = localEvidence
    BY DEF Begin
  <2>2. \A e \in localEvidence : e.handle # h /\ handle'[e.handle] = handle[e.handle]
    BY <1>4, <1>6 DEF RecorderInv, EvidenceInv, EvidenceIsBacked
  <2>3. \A e \in localEvidence : EvidenceIsBacked(e)'
    BY <1>1, <2>2, EvidenceKept DEF RecorderInv, EvidenceInv
  <2> QED
    BY <2>1, <2>3 DEF RecorderInv, EvidenceInv
<1> QED
  BY <1>1, <1>9, <1>10 DEF RecorderInv

LEMMA ReserveStep ==
    ASSUME RecorderInv, NEW h \in Handles, Reserve(h)
    PROVE  RecorderInv'
<1>1. \A g \in Handles :
         /\ g # h => handle'[g] = handle[g]
         /\ handle'[g].authorization = handle[g].authorization
         /\ handle'[g].started = handle[g].started
         /\ handle'[g].state = IF g = h THEN "COMPLETING" ELSE handle[g].state
  BY DEF Reserve, RecorderInv, HandleInv, HandleRecords
<1>2. handle' \in [Handles -> HandleRecords]
  BY DEF Reserve, RecorderInv, HandleInv, HandleRecords
<1>3. handle[h].state = "OPEN" /\ UNCHANGED <<recorderClock, opened, localEvidence>>
  BY DEF Reserve
<1>4. HandleInv'
  <2>1. \A g \in Handles : handle'[g].state # "NONE" => handle[g].state # "NONE"
    BY <1>1, <1>3
  <2>2. HandleInv
    BY DEF RecorderInv
  <2>3. \A g \in Handles : handle'[g].state # "NONE" =>
           /\ handle'[g].authorization \in opened'
           /\ handle'[g].authorization.issued <= handle'[g].started
           /\ handle'[g].started < handle'[g].authorization.expires
           /\ handle'[g].started <= recorderClock'
    BY <1>1, <1>3, <2>1, <2>2 DEF HandleInv
  <2>4. \A g, l \in Handles :
           /\ handle'[g].state # "NONE" /\ handle'[l].state # "NONE"
           /\ handle'[g].authorization = handle'[l].authorization
           => g = l
    <3>1. \A g, l \in Handles :
             /\ handle[g].state # "NONE" /\ handle[l].state # "NONE"
             /\ handle[g].authorization = handle[l].authorization
             => g = l
      BY <2>2 DEF HandleInv
    <3>2. \A g \in Handles : handle'[g].authorization = handle[g].authorization
      BY <1>1
    <3> QED
      BY <2>1, <3>1, <3>2
  <2> QED
    BY <1>2, <2>3, <2>4 DEF HandleInv
<1>5. EvidenceInv'
  <2>1. \A e \in localEvidence : e.handle \in Handles /\ e.handle # h
    BY <1>3 DEF RecorderInv, EvidenceInv, EvidenceIsBacked
  <2>2. ASSUME NEW e \in localEvidence PROVE EvidenceIsBacked(e)'
    <3>1. EvidenceIsBacked(e) /\ handle'[e.handle] = handle[e.handle]
      BY <1>1, <2>1 DEF RecorderInv, EvidenceInv
    <3>2. recorderClock \in Nat /\ recorderClock' = recorderClock /\ recorderClock <= recorderClock'
      BY <1>3 DEF RecorderInv
    <3> QED
      BY <3>1, <3>2, EvidenceKept
  <2> QED
    BY <1>3, <2>2 DEF RecorderInv, EvidenceInv
<1> QED
  BY <1>3, <1>4, <1>5 DEF RecorderInv

LEMMA BuildStep ==
    ASSUME RecorderInv, NEW h \in Handles, NEW outcome \in ExecutionOutcomes, NEW sample \in Samples,
           BuildEvidence(h, outcome, sample)
    PROVE  RecorderInv'
<1>0. PICK new : new = [handle |-> h, authorization |-> handle[h].authorization,
                        outcome |-> Recorded(outcome),
                        started |-> handle[h].started, recorded |-> sample]
  OBVIOUS
<1>1. /\ recorderClock' \in Nat /\ recorderClock <= recorderClock'
      /\ RecorderAccepts(sample) => sample \in Nat /\ recorderClock' = sample
  BY ClockAdvances DEF BuildEvidence
<1>2. handle[h].state = "COMPLETING" /\ opened' = opened
  BY DEF BuildEvidence
<1>3. PICK s \in {"RECORDED", "FAILED"} :
         /\ handle' = [handle EXCEPT ![h].state = s]
         /\ s = "RECORDED" => RecorderAccepts(sample) /\ localEvidence' = localEvidence \union {new}
         /\ s = "FAILED" => localEvidence' = localEvidence
  BY <1>0 DEF BuildEvidence
<1>4. /\ new.handle = h /\ new.authorization = handle[h].authorization
      /\ new.started = handle[h].started /\ new.recorded = sample
      /\ new.outcome = Recorded(outcome)
  BY <1>0
<1>5. Recorded(outcome).status = "unknown" <=> Recorded(outcome).effect = None
  BY DEF Recorded, ExecutionOutcomes
<1>6. \A g \in Handles :
         /\ g # h => handle'[g] = handle[g]
         /\ handle'[g].authorization = handle[g].authorization
         /\ handle'[g].started = handle[g].started
         /\ handle'[g].state = IF g = h THEN s ELSE handle[g].state
  BY <1>3 DEF RecorderInv, HandleInv, HandleRecords
<1>7. handle' \in [Handles -> HandleRecords] /\ \A g \in Handles : handle[g].started \in Nat
  BY <1>3 DEF RecorderInv, HandleInv, HandleRecords
<1>8. HandleInv'
  BY <1>1, <1>2, <1>3, <1>6, <1>7 DEF RecorderInv, HandleInv
<1>9. EvidenceInv'
  <2>1. \A e \in localEvidence : e.handle \in Handles /\ e.handle # h
    BY <1>2 DEF RecorderInv, EvidenceInv, EvidenceIsBacked
  <2>2. \A e \in localEvidence : EvidenceIsBacked(e)'
    BY <1>1, <1>6, <2>1, EvidenceKept DEF RecorderInv, EvidenceInv
  <2>3. ASSUME s = "RECORDED" PROVE EvidenceIsBacked(new)'
    <3>1. sample \in Nat /\ recorderClock' = sample /\ recorderClock <= sample
      BY <1>1, <1>3, <2>3
    <3>2. handle[h].started <= recorderClock
      BY <1>2 DEF RecorderInv, HandleInv
    <3>3. handle[h].started <= sample
      BY <1>7, <3>1, <3>2 DEF RecorderInv
    <3>4. new.outcome.status = "unknown" <=> new.outcome.effect = None
      BY <1>4, <1>5
    <3>5. /\ handle'[h].state = "RECORDED"
          /\ handle'[h].authorization = handle[h].authorization
          /\ handle'[h].started = handle[h].started
      BY <1>6, <2>3
    <3> QED
      BY <1>4, <3>1, <3>3, <3>4, <3>5 DEF EvidenceIsBacked
  <2>4. \A e, f \in localEvidence' : e.handle = f.handle => e = f
    BY <1>3, <1>4, <2>1 DEF RecorderInv, EvidenceInv
  <2>5. \A e \in localEvidence' : EvidenceIsBacked(e)'
    BY <1>3, <2>2, <2>3
  <2> QED
    BY <2>4, <2>5 DEF EvidenceInv
<1> QED
  BY <1>1, <1>8, <1>9 DEF RecorderInv

LEMMA RecorderStep == RecorderInv /\ [RecorderNext]_recorderVars => RecorderInv'
<1> SUFFICES ASSUME RecorderInv, [RecorderNext]_recorderVars PROVE RecorderInv'
  OBVIOUS
<1>1. CASE UNCHANGED recorderVars
  BY <1>1 DEF recorderVars, RecorderInv, HandleInv, EvidenceInv, EvidenceIsBacked
<1>2. ASSUME NEW a \in Authorizations, NEW sample \in Times, BeginRefused(a, sample)
      PROVE RecorderInv'
  <2>1. recorderClock' \in Nat /\ recorderClock <= recorderClock'
    BY <1>2, ClockAdvances DEF BeginRefused, Samples
  <2>2. \A h \in Handles : handle[h].started \in Nat
    BY DEF RecorderInv, HandleInv, HandleRecords
  <2>3. UNCHANGED <<opened, handle, localEvidence>>
    BY <1>2 DEF BeginRefused
  <2>4. HandleInv'
    <3>1. HandleInv /\ recorderClock \in Nat
      BY DEF RecorderInv
    <3>2. \A h \in Handles : handle[h].state # "NONE" => handle[h].started <= recorderClock'
      BY <2>1, <2>2, <3>1 DEF HandleInv
    <3> QED
      BY <2>3, <3>1, <3>2 DEF HandleInv
  <2>5. \A e \in localEvidence : EvidenceIsBacked(e)'
    BY <2>1, <2>3, EvidenceKept DEF RecorderInv, EvidenceInv
  <2>6. EvidenceInv'
    BY <2>3, <2>5 DEF RecorderInv, EvidenceInv
  <2> QED
    BY <2>1, <2>4, <2>6 DEF RecorderInv
<1> QED
  BY <1>1, <1>2, BeginStep, ReserveStep, BuildStep DEF RecorderNext

\* However begin() and complete() nest, an authorization gets one piece of evidence,
\* begun inside its window.
THEOREM EvidenceOnceTheorem == RecorderSpec => []EvidenceOncePerAuthorization
<1>1. RecorderInv => EvidenceOncePerAuthorization
  <2> SUFFICES ASSUME RecorderInv PROVE EvidenceOncePerAuthorization
    OBVIOUS
  <2>1. \A e \in localEvidence : EvidenceIsBacked(e)
    BY DEF RecorderInv, EvidenceInv
  <2>2. \A e, f \in localEvidence : e.authorization = f.authorization => e.handle = f.handle
    <3>1. \A e \in localEvidence : /\ e.handle \in Handles /\ handle[e.handle].state # "NONE"
                                   /\ e.authorization = handle[e.handle].authorization
      BY <2>1 DEF EvidenceIsBacked
    <3>2. \A g, h \in Handles :
             /\ handle[g].state # "NONE" /\ handle[h].state # "NONE"
             /\ handle[g].authorization = handle[h].authorization
             => g = h
      BY DEF RecorderInv, HandleInv
    <3> QED
      BY <3>1, <3>2
  <2>3. \A e, f \in localEvidence : e.authorization = f.authorization => e = f
    BY <2>2 DEF RecorderInv, EvidenceInv
  <2>4. ASSUME NEW e \in localEvidence
        PROVE  e.authorization.issued <= e.started /\ e.started < e.authorization.expires
    BY <2>1 DEF RecorderInv, HandleInv, EvidenceIsBacked
  <2>5. ASSUME NEW e \in localEvidence
        PROVE  /\ e.started <= e.recorded /\ e.recorded <= recorderClock
               /\ e.outcome.status = "unknown" <=> e.outcome.effect = None
    BY <2>1 DEF EvidenceIsBacked
  <2> QED
    BY <2>3, <2>4, <2>5 DEF EvidenceOncePerAuthorization
<1> QED
  BY <1>1, RecorderInitially, RecorderStep, PTL DEF RecorderSpec

-----------------------------------------------------------------------------
(* ObservationCapture *)

CaptureResults == [verdict : {"MATCH", "MISMATCH", "INDETERMINATE"}, observation : Observations,
                   at : Nat]

CaptureRecords ==
    [pc : {"idle", "waiting", "settled", "done"}, expected : Expectations \union {None},
     started : Nat, terminal : Reports \union {None}, early : Nat, reports : Nat,
     first : Reports \union {None}, overridden : BOOLEAN, result : CaptureResults \union {None}]

\* What the promise was settled with is the first report, unless the observer broke the
\* protocol; a capture that waits has had no report; and a verdict was given on what
\* the promise was settled with.
StartedBy(k, clock) == k.pc # "idle" => k.started <= clock /\ k.expected \in Expectations

WaitsForFirst(k) ==
    k.pc = "waiting" => k.first = None /\ k.reports = 0 /\ k.early = 0 /\ ~k.overridden

SettledWithFirst(k) ==
    k.terminal \in Observations =>
        k.first = k.terminal /\ k.early <= 1 /\ k.reports > 0 /\ ~k.overridden

JudgedBy(k, clock) ==
    k.result # None =>
        /\ k.pc = "done"
        /\ k.terminal \in Observations /\ k.result.observation = k.terminal
        /\ k.started <= k.result.at /\ k.result.at <= clock
        /\ PlausibleAt(k.terminal, k.result.at)
        /\ k.result.verdict = Classify(k.expected, k.terminal)

CaptureIsSound(k, clock) ==
    StartedBy(k, clock) /\ WaitsForFirst(k) /\ SettledWithFirst(k) /\ JudgedBy(k, clock)

CaptureInv ==
    /\ observationClock \in Nat
    /\ capture \in [Captures -> CaptureRecords]
    /\ \A c \in Captures : CaptureIsSound(capture[c], observationClock)

LEMMA CaptureInitially == CaptureInit => CaptureInv
<1> SUFFICES ASSUME CaptureInit PROVE CaptureInv
  OBVIOUS
<1>1. NoCapture \in CaptureRecords
  BY DEF NoCapture, CaptureRecords
<1>2. /\ NoCapture.pc = "idle" /\ NoCapture.terminal = None /\ NoCapture.result = None
  BY DEF NoCapture
<1>3. CaptureIsSound(NoCapture, observationClock)
  BY <1>2, CaptureAssumption DEF CaptureIsSound, StartedBy, WaitsForFirst, SettledWithFirst, JudgedBy
<1> QED
  BY <1>1, <1>3 DEF CaptureInit, CaptureInv

\* Time that passes takes nothing from a sound capture.
LEMMA SoundLater ==
    ASSUME NEW k, NEW clock \in Nat, NEW later \in Nat, clock <= later,
           k.started \in Nat, k.result # None => k.result.at \in Nat,
           CaptureIsSound(k, clock)
    PROVE  CaptureIsSound(k, later)
<1>1. StartedBy(k, later)
  BY DEF CaptureIsSound, StartedBy
<1>2. k.result # None => k.result.at <= later
  BY DEF CaptureIsSound, JudgedBy
<1>3. JudgedBy(k, later)
  BY <1>2 DEF CaptureIsSound, JudgedBy
<1> QED
  BY <1>1, <1>3 DEF CaptureIsSound

\* A step of one capture that does not move the clock back keeps the others sound.
LEMMA CaptureLocal ==
    ASSUME CaptureInv, NEW c \in Captures, NEW k \in CaptureRecords,
           capture' = [capture EXCEPT ![c] = k],
           observationClock' \in Nat, observationClock <= observationClock',
           CaptureIsSound(k, observationClock')
    PROVE  CaptureInv'
<1>1. capture' \in [Captures -> CaptureRecords]
  BY DEF CaptureInv
<1>2. ASSUME NEW d \in Captures, d # c
      PROVE  CaptureIsSound(capture'[d], observationClock')
  <2>1. capture'[d] = capture[d] /\ capture[d] \in CaptureRecords
    BY <1>2 DEF CaptureInv
  <2>2. capture[d].started \in Nat /\ (capture[d].result # None => capture[d].result.at \in Nat)
    BY <2>1 DEF CaptureRecords, CaptureResults
  <2>3. CaptureIsSound(capture[d], observationClock)
    BY DEF CaptureInv
  <2>4. CaptureIsSound(capture[d], observationClock')
    BY <2>2, <2>3, SoundLater DEF CaptureInv
  <2> QED
    BY <2>1, <2>4
<1>3. capture'[c] = k
  BY DEF CaptureInv
<1> QED
  BY <1>1, <1>2, <1>3 DEF CaptureInv

LEMMA TerminalOfReports ==
    ASSUME NEW n \in Nat, NEW reports \in [1..n -> Reports], NEW overridden \in BOOLEAN
    PROVE  LET t == TerminalAtReturn(reports, overridden)
           IN  /\ t \in Reports \union {None}
               /\ Len(reports) = n
               /\ n > 0 => Head(reports) \in Reports /\ reports # <<>>
               /\ t = None => n = 0 /\ ~overridden
               /\ t \in Observations => n = 1 /\ ~overridden /\ t = Head(reports)
<1>1. reports \in Seq(Reports) /\ Len(reports) = n
  OBVIOUS
<1>2. n > 0 => Head(reports) \in Reports /\ reports # <<>>
  BY <1>1
<1>3. None \notin Reports /\ Invalid \in Reports /\ Invalid \notin Observations /\ None \notin Observations
  BY CaptureAssumption DEF Reports
<1>4. CASE overridden \/ n > 1
  BY <1>1, <1>2, <1>3, <1>4 DEF TerminalAtReturn
<1>5. CASE ~overridden /\ n = 1
  BY <1>1, <1>2, <1>3, <1>5 DEF TerminalAtReturn
<1>6. CASE ~overridden /\ n = 0
  BY <1>1, <1>2, <1>3, <1>6 DEF TerminalAtReturn
<1> QED
  BY <1>4, <1>5, <1>6

LEMMA StartCaptureStep ==
    ASSUME CaptureInv, NEW c \in Captures, NEW x \in Expectations, NEW sample \in Times,
           NEW overridden \in BOOLEAN, NEW n \in Nat, NEW reports \in [1..n -> Reports],
           StartCapture(c, x, sample, reports, overridden)
    PROVE  CaptureInv'
<1> DEFINE t == TerminalAtReturn(reports, overridden)
           f == IF reports = <<>> THEN None ELSE Head(reports)
           p == IF t = None THEN "waiting" ELSE "settled"
           k == [pc |-> p, expected |-> x, started |-> sample, terminal |-> t,
                 early |-> Len(reports), reports |-> Len(reports), first |-> f,
                 overridden |-> overridden, result |-> None]
<1>1. /\ t \in Reports \union {None}
      /\ Len(reports) = n
      /\ n > 0 => Head(reports) \in Reports /\ reports # <<>>
      /\ t = None => n = 0 /\ ~overridden
      /\ t \in Observations => n = 1 /\ ~overridden /\ t = Head(reports)
  BY TerminalOfReports
<1>2. n = 0 => reports = <<>>
  BY <1>1
<1>3. f \in Reports \union {None} /\ (n = 0 => f = None) /\ (n > 0 => f = Head(reports))
  BY <1>1, <1>2
<1>4. capture' = [capture EXCEPT ![c] = k] /\ observationClock' = sample /\ observationClock <= sample
  BY DEF StartCapture, ObservationAccepts, CaptureInv, Times
<1>5. sample \in Nat
  BY TimeAssumption DEF Times
<1>6. p \in {"waiting", "settled"} /\ (p = "waiting" <=> t = None)
  OBVIOUS
<1> HIDE DEF t, f, p
<1>7. k \in CaptureRecords
  BY <1>1, <1>3, <1>5, <1>6 DEF CaptureRecords
<1>8. CaptureIsSound(k, sample)
  <2>1. /\ k.pc = p /\ k.expected = x /\ k.started = sample /\ k.terminal = t /\ k.early = n
        /\ k.reports = n /\ k.first = f /\ k.overridden = overridden /\ k.result = None
    BY <1>1
  <2> HIDE DEF k
  <2>2. StartedBy(k, sample)
    BY <1>5, <2>1 DEF StartedBy
  <2>3. WaitsForFirst(k)
    BY <1>1, <1>3, <1>6, <2>1 DEF WaitsForFirst
  <2>4. SettledWithFirst(k)
    <3>1. ASSUME t \in Observations PROVE n = 1 /\ f = t /\ ~overridden
      BY <1>1, <1>3, <3>1
    <3>2. k.terminal = t /\ k.first = f /\ k.early = n /\ k.reports = n /\ k.overridden = overridden
      BY <2>1
    <3> QED
      BY <3>1, <3>2 DEF SettledWithFirst
  <2>5. JudgedBy(k, sample)
    BY <2>1 DEF JudgedBy
  <2> QED
    BY <2>2, <2>3, <2>4, <2>5 DEF CaptureIsSound
<1> QED
  BY <1>4, <1>5, <1>7, <1>8, CaptureLocal

LEMMA ReportStep ==
    ASSUME CaptureInv, NEW c \in Captures, NEW report \in Reports, Report(c, report)
    PROVE  CaptureInv'
<1> DEFINE k == capture[c]
           f == IF k.reports = 0 THEN report ELSE k.first
           t == IF k.pc = "waiting" THEN report ELSE k.terminal
           new == [k EXCEPT !.reports = k.reports + 1, !.first = f, !.terminal = t, !.pc = "settled"]
<1>1. k \in CaptureRecords /\ CaptureIsSound(k, observationClock)
  BY DEF CaptureInv
<1>2. k.pc \in {"waiting", "settled"} /\ observationClock' = observationClock
  BY DEF Report
<1>3. capture' = [capture EXCEPT ![c] = new]
  BY <1>1 DEF Report, CaptureInv, CaptureRecords
<1>4. k.reports + 1 \in Nat /\ f \in Reports \union {None} /\ t \in Reports \union {None}
  <2>1. k.reports \in Nat /\ k.first \in Reports \union {None} /\ k.terminal \in Reports \union {None}
    BY <1>1 DEF CaptureRecords
  <2> HIDE DEF k
  <2> QED
    BY <2>1
<1>5. /\ k.pc = "waiting" => t = report /\ f = report
      /\ k.pc = "settled" => t = k.terminal
  BY <1>1, <1>2 DEF CaptureIsSound, WaitsForFirst
<1>6. k.reports \in Nat
  BY <1>1 DEF CaptureRecords
<1>7. /\ k.terminal \in Observations => f = k.first
      /\ k.reports + 1 > 0
  <2>1. k.terminal \in Observations => k.reports > 0
    BY <1>1 DEF CaptureIsSound, SettledWithFirst
  <2> QED
    BY <1>6, <2>1
<1> HIDE DEF f, t
<1>8. new \in CaptureRecords
  BY <1>1, <1>4 DEF CaptureRecords
<1>9. /\ new.pc = "settled" /\ new.expected = k.expected /\ new.started = k.started
      /\ new.terminal = t /\ new.first = f /\ new.early = k.early /\ new.reports = k.reports + 1
      /\ new.overridden = k.overridden /\ new.result = k.result
  BY <1>1 DEF CaptureRecords
<1> HIDE DEF k, new
<1>10. CaptureIsSound(new, observationClock)
  <2>1. StartedBy(new, observationClock)
    BY <1>1, <1>2, <1>9 DEF CaptureIsSound, StartedBy
  <2>2. WaitsForFirst(new)
    BY <1>9 DEF WaitsForFirst
  <2>3. SettledWithFirst(new)
    <3>1. CASE k.pc = "waiting"
      <4>1. k.early = 0 /\ ~k.overridden
        BY <1>1, <3>1 DEF CaptureIsSound, WaitsForFirst
      <4>2. new.first = new.terminal
        BY <1>5, <1>9, <3>1
      <4>3. new.early <= 1 /\ ~new.overridden
        <5>1. new.early = k.early /\ new.overridden = k.overridden
          BY <1>9
        <5> QED
          BY <4>1, <5>1
      <4>4. new.reports > 0
        BY <1>7, <1>9
      <4> QED
        BY <4>2, <4>3, <4>4 DEF SettledWithFirst
    <3>2. CASE k.pc = "settled"
      BY <1>1, <1>5, <1>7, <1>9, <3>2 DEF CaptureIsSound, SettledWithFirst
    <3> QED
      BY <1>2, <3>1, <3>2
  <2>4. k.result = None
    BY <1>1, <1>2 DEF CaptureIsSound, JudgedBy
  <2>5. JudgedBy(new, observationClock)
    BY <1>9, <2>4 DEF JudgedBy
  <2> QED
    BY <2>1, <2>2, <2>3, <2>5 DEF CaptureIsSound
<1> QED
  BY <1>2, <1>3, <1>8, <1>10, CaptureLocal DEF CaptureInv

LEMMA ResumeStep ==
    ASSUME CaptureInv, NEW c \in Captures, NEW sample \in Samples, Resume(c, sample)
    PROVE  CaptureInv'
<1> DEFINE k == capture[c]
           o == k.terminal
           given == [verdict |-> Classify(k.expected, o), observation |-> o, at |-> sample]
           new == [k EXCEPT !.pc = "done"]
           judged == [k EXCEPT !.pc = "done", !.result = given]
<1>1. k \in CaptureRecords /\ CaptureIsSound(k, observationClock)
  BY DEF CaptureInv
<1>2. k.pc = "settled"
  BY DEF Resume
<1>3. k.result = None
  BY <1>1, <1>2 DEF CaptureIsSound, JudgedBy
<1>4. k = [k EXCEPT !.result = None]
  BY <1>1, <1>3 DEF CaptureRecords
<1>5. ObservationAccepts(sample) => sample \in Nat /\ observationClock <= sample
  BY TimeAssumption DEF ObservationAccepts, Samples, Times, CaptureInv
<1>6. CASE o \in Observations /\ ObservationAccepts(sample) /\ PlausibleAt(o, sample)
  <2>1. capture' = [capture EXCEPT ![c] = judged] /\ observationClock' = sample
    BY <1>6 DEF Resume, CaptureInv, CaptureRecords
  <2>2. Classify(k.expected, o) \in {"MATCH", "MISMATCH", "INDETERMINATE"}
    BY DEF Classify
  <2>3. given \in CaptureResults /\ given.observation = o /\ given.at = sample
        /\ given.verdict = Classify(k.expected, o)
    BY <1>5, <1>6, <2>2 DEF CaptureResults
  <2> HIDE DEF given
  <2>4. judged \in CaptureRecords
    BY <1>1, <2>3 DEF CaptureRecords
  <2>5. /\ judged.pc = "done" /\ judged.expected = k.expected /\ judged.started = k.started
        /\ judged.terminal = o /\ judged.first = k.first /\ judged.early = k.early
        /\ judged.reports = k.reports
        /\ judged.overridden = k.overridden /\ judged.result = given
    BY <1>1 DEF CaptureRecords
  <2> HIDE DEF judged
  <2>6. k.started <= sample
    <3>1. k.started \in Nat /\ k.started <= observationClock /\ observationClock \in Nat
      BY <1>1, <1>2 DEF CaptureIsSound, StartedBy, CaptureInv, CaptureRecords
    <3> QED
      BY <1>5, <1>6, <3>1
  <2> HIDE DEF k
  <2>7. CaptureIsSound(judged, sample)
    <3>1. StartedBy(judged, sample)
      BY <1>1, <1>2, <2>5, <2>6 DEF CaptureIsSound, StartedBy
    <3>2. WaitsForFirst(judged)
      BY <2>5 DEF WaitsForFirst
    <3>3. SettledWithFirst(judged)
      BY <1>1, <2>5 DEF CaptureIsSound, SettledWithFirst
    <3>4. sample <= sample
      BY <1>5, <1>6
    <3>5. JudgedBy(judged, sample)
      BY <1>6, <2>3, <2>5, <2>6, <3>4 DEF JudgedBy
    <3> QED
      BY <3>1, <3>2, <3>3, <3>5 DEF CaptureIsSound
  <2> QED
    BY <1>5, <1>6, <2>1, <2>4, <2>7, CaptureLocal
<1>7. CASE ~(o \in Observations /\ ObservationAccepts(sample) /\ PlausibleAt(o, sample))
  <2>1. capture' = [capture EXCEPT ![c] = new]
    BY <1>1, <1>3, <1>7 DEF Resume, CaptureInv, CaptureRecords
  <2>2. observationClock' \in Nat /\ observationClock <= observationClock'
    BY <1>5 DEF Resume, CaptureInv
  <2>3. new \in CaptureRecords
    BY <1>1 DEF CaptureRecords
  <2>4. /\ new.pc = "done" /\ new.expected = k.expected /\ new.started = k.started
        /\ new.terminal = o /\ new.first = k.first /\ new.early = k.early
        /\ new.reports = k.reports /\ new.overridden = k.overridden /\ new.result = None
    BY <1>1, <1>3 DEF CaptureRecords
  <2>5. k.started \in Nat /\ k.started <= observationClock /\ observationClock \in Nat
    BY <1>1, <1>2 DEF CaptureRecords, CaptureIsSound, StartedBy, CaptureInv
  <2> HIDE DEF new, k
  <2>6. k.started <= observationClock'
    BY <2>2, <2>5
  <2>7. CaptureIsSound(new, observationClock')
    <3>1. StartedBy(new, observationClock')
      BY <1>1, <1>2, <2>4, <2>6 DEF CaptureIsSound, StartedBy
    <3>2. WaitsForFirst(new) /\ JudgedBy(new, observationClock')
      BY <2>4 DEF WaitsForFirst, JudgedBy
    <3>3. SettledWithFirst(new)
      BY <1>1, <2>4 DEF CaptureIsSound, SettledWithFirst
    <3> QED
      BY <3>1, <3>2, <3>3 DEF CaptureIsSound
  <2> QED
    BY <2>1, <2>2, <2>3, <2>7, CaptureLocal
<1> QED
  BY <1>6, <1>7

LEMMA CaptureStep == CaptureInv /\ [CaptureNext]_captureVars => CaptureInv'
<1> SUFFICES ASSUME CaptureInv, [CaptureNext]_captureVars PROVE CaptureInv'
  OBVIOUS
<1>1. CASE UNCHANGED captureVars
  BY <1>1 DEF captureVars, CaptureInv
<1>2. \A n \in 0..MaxReports : n \in Nat
  BY CaptureAssumption
<1> QED
  BY <1>1, <1>2, StartCaptureStep, ReportStep, ResumeStep DEF CaptureNext

\* A verdict rests on the first report of an observer that kept to the protocol and was
\* given at a trusted time after the call, whatever the observer does and when.
THEOREM VerdictIsUnambiguousTheorem == CaptureSpec => []VerdictIsUnambiguous
<1>1. CaptureInv => VerdictIsUnambiguous
  <2> SUFFICES ASSUME CaptureInv, NEW c \in Captures, capture[c].result # None
               PROVE  LET k == capture[c]
                          o == k.result.observation
                          x == k.expected
                      IN  /\ o = k.first /\ k.early <= 1 /\ ~k.overridden
                          /\ k.started <= k.result.at /\ o.observed <= k.result.at
                          /\ k.result.at <= observationClock
                          /\ k.result.verdict = "MATCH" =>
                                /\ o.exec = x.exec /\ x.issued <= o.executed /\ o.executed < x.expires
                                /\ o.status # "unknown" /\ x.status \in {"any", o.status}
                                /\ x.effect \in {None, o.effect}
    BY DEF VerdictIsUnambiguous
  <2> DEFINE k == capture[c]
             x == k.expected
             o == k.terminal
  <2>1. /\ StartedBy(k, observationClock) /\ WaitsForFirst(k)
        /\ SettledWithFirst(k) /\ JudgedBy(k, observationClock)
    BY DEF CaptureInv, CaptureIsSound
  <2> HIDE DEF k
  <2>2. /\ k.result # None /\ o \in Observations /\ k.result.observation = o /\ k.pc = "done"
        /\ k.started <= k.result.at /\ k.result.at <= observationClock
        /\ PlausibleAt(o, k.result.at) /\ k.result.verdict = Classify(x, o)
    BY <2>1 DEF JudgedBy, k
  <2>3. x \in Expectations
    BY <2>1, <2>2 DEF StartedBy
  <2>4. o = k.first /\ k.early <= 1 /\ ~k.overridden
    BY <2>1, <2>2 DEF SettledWithFirst
  <2>5. o.executed \in Nat /\ o.observed \in Nat /\ x.issued \in Nat /\ x.expires \in Nat
    BY <2>2, <2>3, CaptureAssumption
  <2>6. o.observed <= k.result.at
    BY <2>2 DEF PlausibleAt
  <2> HIDE DEF o, x
  <2>7. ASSUME k.result.verdict = "MATCH"
        PROVE  /\ o.exec = x.exec /\ x.issued <= o.executed /\ o.executed < x.expires
               /\ o.status # "unknown" /\ x.status \in {"any", o.status}
               /\ x.effect \in {None, o.effect}
    <3>1. Classify(x, o) = "MATCH"
      BY <2>2, <2>7
    <3>2. ~Mismatches(x, o) /\ o.status # "unknown"
      BY <3>1 DEF Classify
    <3>3. o.exec = x.exec /\ x.status \in {"any", o.status} /\ x.effect \in {None, o.effect}
      BY <3>2 DEF Mismatches
    <3>4. ~(o.executed < x.issued) /\ ~(x.expires <= o.executed)
      BY <3>2 DEF Mismatches
    <3>5. x.issued <= o.executed /\ o.executed < x.expires
      BY <2>5, <3>4
    <3> QED
      BY <3>2, <3>3, <3>5
  <2>8. capture[c] = k /\ k.expected = x /\ k.result.observation = o
    BY <2>2 DEF k, x, o
  <2> QED
    BY <2>2, <2>4, <2>6, <2>7, <2>8
<1> QED
  BY <1>1, CaptureInitially, CaptureStep, PTL DEF CaptureSpec
=============================================================================
