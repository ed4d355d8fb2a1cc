----------------------- MODULE ReferenceControlProofs -----------------------
(***************************************************************************)
(* What the components that say yes once promise, for any constants: the   *)
(* gate that forwards an authorized action, the verifiers of the receipts  *)
(* an action leaves (ReceiptChain, StrictVerification) and the commit      *)
(* status.  They share no state but the chain, so each part below has an   *)
(* inductive invariant of its own.                                         *)
(***************************************************************************)
EXTENDS SingleUseGate, StrictVerification, TrustedStatus, TLAPS

-----------------------------------------------------------------------------
(* SingleUseGate *)

Begun == {"CONSUMING", "CONSUMED_SUCCESS", "CONSUMED_ERROR"}

\* What a suspended call relies on when it resumes: it alone holds its
\* capability, which is issued and in the state the call left it in, and a call
\* that waits for the observer was inside the window when it started.
CallInv ==
    /\ \A k \in Calls :
          /\ call[k].pc = "idle" => call[k] = Idle
          /\ call[k].pc # "idle" => call[k].cap \in Capabilities
          /\ call[k].pc = "observing" =>
                /\ capabilityState[call[k].cap] = "VALIDATING"
                /\ binding[call[k].cap].issued <= call[k].first
                /\ call[k].first < binding[call[k].cap].expires
                /\ call[k].first <= lastTrustedTimeMs
          /\ call[k].pc = "executing" => capabilityState[call[k].cap] = "CONSUMING"
    /\ \A k, l \in Calls :
          call[k].pc # "idle" /\ call[l].pc # "idle" /\ call[k].cap = call[l].cap => k = l

\* Issued capabilities have a binding, and those that were forwarded have begun
\* consumption.
CapabilityInv ==
    /\ \A c \in Capabilities : capabilityState[c] # "UNISSUED" => binding[c] \in Bindings
    /\ \A i \in Forwards : capabilityState[downstream[i].cap] \in Begun

\* The states in the middle of a consumption have a call that will leave them,
\* and a capability that has begun consumption was forwarded.
OwnerInv ==
    \A c \in Capabilities :
        /\ capabilityState[c] = "VALIDATING" =>
              \E k \in Calls : call[k].pc = "observing" /\ call[k].cap = c
        /\ capabilityState[c] = "CONSUMING" =>
              \E k \in Calls : call[k].pc = "executing" /\ call[k].cap = c
        /\ capabilityState[c] \in Begun => \E i \in Forwards : downstream[i].cap = c

IndInv == /\ TypeOK
          /\ CallInv
          /\ CapabilityInv
          /\ OwnerInv
          /\ SingleForward
          /\ ForwardIsAuthorized
          /\ ForwardsInTimeOrder

-----------------------------------------------------------------------------

\* What Append does to the record of forwards.
LEMMA AppendForward ==
    ASSUME NEW S, NEW s \in Seq(S), NEW e \in S
    PROVE  /\ Append(s, e) \in Seq(S)
           /\ DOMAIN Append(s, e) = DOMAIN s \union {Len(s) + 1}
           /\ DOMAIN s = 1..Len(s)
           /\ Len(s) \in Nat
           /\ \A i \in DOMAIN s : Append(s, e)[i] = s[i] /\ i < Len(s) + 1 /\ i \in Nat
           /\ Append(s, e)[Len(s) + 1] = e
  OBVIOUS

LEMMA ElementInSet ==
    ASSUME NEW S, NEW s \in Seq(S), NEW i \in DOMAIN s
    PROVE  s[i] \in S
  OBVIOUS

\* What the type invariant says of single forwards and calls.
LEMMA Types ==
    ASSUME TypeOK
    PROVE  /\ 0 \in Times /\ Times \subseteq Nat
           /\ lastTrustedTimeMs \in Nat
           /\ \A i \in Forwards : /\ downstream[i].cap \in Capabilities
                                  /\ downstream[i].exec \in Executions
                                  /\ downstream[i].first \in Nat
                                  /\ downstream[i].at \in Nat
           /\ \A k \in Calls : call[k].first \in Nat
<1>1. 0 \in Times /\ Times \subseteq Nat
  BY LifetimeAssumption DEF Times
<1>2. \A i \in Forwards : downstream[i] \in
          [cap : Capabilities, exec : Executions, first : Times, at : Times]
  BY Zenon, ElementInSet DEF TypeOK, Forwards
<1>3. lastTrustedTimeMs \in Nat /\ \A k \in Calls : call[k].first \in Nat
  BY Zenon, <1>1 DEF TypeOK
<1>4. QED
  BY Zenon, <1>1, <1>2, <1>3

LEMMA InitIndInv == Init => IndInv
<1> SUFFICES ASSUME Init PROVE IndInv
  OBVIOUS
<1> USE DEF Init, Idle, Forwards
<1>1. TypeOK
  BY LifetimeAssumption DEF TypeOK, States, Times
<1>2. CallInv /\ CapabilityInv /\ OwnerInv
  BY DEF CallInv, CapabilityInv, OwnerInv, Begun
<1>3. SingleForward /\ ForwardIsAuthorized /\ ForwardsInTimeOrder
  BY DEF SingleForward, ForwardIsAuthorized, ForwardsInTimeOrder
<1>4. QED
  BY <1>1, <1>2, <1>3 DEF IndInv

\* issueReferenceAuthorizationForTest touches no capability that is in use.
LEMMA IssueStep ==
    ASSUME IndInv, NEW c \in Capabilities, NEW b \in Bindings, Issue(c, b)
    PROVE  IndInv'
<1> USE DEF IndInv, Issue, SetState, Forwards
<1>1. TypeOK'
  BY DEF TypeOK, States
<1>2. CallInv'
  BY DEF CallInv, TypeOK
<1>3. CapabilityInv'
  BY DEF CapabilityInv, TypeOK, Begun
<1>4. OwnerInv'
  BY DEF OwnerInv, TypeOK, Begun
<1>5. SingleForward' /\ ForwardsInTimeOrder'
  BY DEF SingleForward, ForwardsInTimeOrder
<1>6. ForwardIsAuthorized'
  BY DEF ForwardIsAuthorized, CapabilityInv, TypeOK, Begun
<1>7. QED
  BY <1>1, <1>2, <1>3, <1>4, <1>5, <1>6

\* The clock of the gate only moves forward, and an accepted sample is its value.
LEMMA ClockStep ==
    ASSUME TypeOK, NEW sample \in Times \union {None}, SampleGateClock(sample)
    PROVE  /\ lastTrustedTimeMs' \in Times
           /\ lastTrustedTimeMs \in Nat /\ lastTrustedTimeMs' \in Nat
           /\ lastTrustedTimeMs <= lastTrustedTimeMs'
           /\ Accepted(sample) => /\ sample \in Times /\ sample \in Nat
                                  /\ lastTrustedTimeMs' = sample
  BY LifetimeAssumption DEF TypeOK, SampleGateClock, Accepted, Times

\* consume() up to the observer.
LEMMA ConsumeStep ==
    ASSUME IndInv, NEW k \in Calls, NEW c \in Capabilities,
           NEW sample \in Times \union {None}, Consume(k, c, sample)
    PROVE  IndInv'
<1> USE DEF IndInv, Consume, SetState, Forwards
<1>0. /\ lastTrustedTimeMs' \in Times
      /\ lastTrustedTimeMs \in Nat /\ lastTrustedTimeMs' \in Nat
      /\ lastTrustedTimeMs <= lastTrustedTimeMs'
      /\ Accepted(sample) => /\ sample \in Times /\ sample \in Nat
                             /\ lastTrustedTimeMs' = sample
  BY ClockStep
<1>1. TypeOK'
  BY SMTT(40), <1>0 DEF TypeOK, States, TerminalStates, Idle
<1>2. CallInv'
  <2>1. CASE Accepted(sample) /\ CapabilityActive(c, sample)
    <3>1. call'[k] = [pc |-> "observing", cap |-> c, first |-> sample]
      BY <2>1 DEF TypeOK
    <3>2. \A l \in Calls \ {k} : /\ call'[l] = call[l]
                                 /\ call[l].pc # "idle" => call[l].cap # c
      BY <2>1 DEF TypeOK, CallInv
    <3>3. capabilityState'[c] = "VALIDATING"
          /\ \A d \in Capabilities \ {c} : capabilityState'[d] = capabilityState[d]
      BY <2>1 DEF TypeOK
    <3>4. QED
      BY <1>0, <2>1, <3>1, <3>2, <3>3, Types DEF CallInv, CapabilityActive
  <2>2. CASE ~(Accepted(sample) /\ CapabilityActive(c, sample))
    BY <1>0, <2>2, Types DEF CallInv, TypeOK, Idle
  <2>3. QED
    BY <2>1, <2>2
<1>3. CapabilityInv'
  BY Zenon, Types DEF CapabilityInv, TypeOK, Begun
<1>4. OwnerInv'
  BY SMTT(40) DEF OwnerInv, TypeOK, Begun, Idle
<1>5. SingleForward' /\ ForwardIsAuthorized'
  BY DEF SingleForward, ForwardIsAuthorized
<1>6. ForwardsInTimeOrder'
  BY <1>0, Types DEF ForwardsInTimeOrder
<1>7. QED
  BY <1>1, <1>2, <1>3, <1>4, <1>5, <1>6

\* The observer fails or reports another execution.
LEMMA ObserverRejectsStep ==
    ASSUME IndInv, NEW k \in Calls, NEW observed \in Executions \union {None},
           ObserverRejects(k, observed)
    PROVE  IndInv'
<1> USE DEF IndInv, ObserverRejects, SetState, Forwards
<1>1. TypeOK'
  BY Types DEF TypeOK, CallInv, States, TerminalStates, Idle
<1>2. CallInv'
  BY DEF CallInv, TypeOK, Idle
<1>3. CapabilityInv'
  BY DEF CapabilityInv, CallInv, TypeOK, Begun
<1>4. OwnerInv'
  BY DEF OwnerInv, CallInv, TypeOK, Begun, Idle
<1>5. SingleForward' /\ ForwardIsAuthorized' /\ ForwardsInTimeOrder'
  BY DEF SingleForward, ForwardIsAuthorized, ForwardsInTimeOrder
<1>6. QED
  BY <1>1, <1>2, <1>3, <1>4, <1>5

\* The downstream adapter answers.
LEMMA CompleteConsumptionStep ==
    ASSUME IndInv, NEW k \in Calls, NEW success \in BOOLEAN, CompleteConsumption(k, success)
    PROVE  IndInv'
<1> USE DEF IndInv, CompleteConsumption, SetState, Forwards
<1>1. TypeOK'
  BY Types DEF TypeOK, CallInv, States, TerminalStates, Idle
<1>2. CallInv'
  BY DEF CallInv, TypeOK, Idle
<1>3. CapabilityInv'
  BY DEF CapabilityInv, CallInv, TypeOK, Begun
<1>4. OwnerInv'
  BY DEF OwnerInv, CallInv, TypeOK, Begun, Idle
<1>5. SingleForward' /\ ForwardIsAuthorized' /\ ForwardsInTimeOrder'
  BY DEF SingleForward, ForwardIsAuthorized, ForwardsInTimeOrder
<1>6. QED
  BY <1>1, <1>2, <1>3, <1>4, <1>5

\* The observer reports the authorized execution: the one step that forwards.
LEMMA ObserverMatchesStep ==
    ASSUME IndInv, NEW k \in Calls, NEW observed \in Executions \union {None},
           NEW sample \in Times \union {None}, ObserverMatches(k, observed, sample)
    PROVE  IndInv'
<1> USE DEF IndInv, SetState, Forwards
<1> DEFINE c == call[k].cap
           f == [cap |-> c, exec |-> observed, first |-> call[k].first, at |-> sample]
<1>0. /\ lastTrustedTimeMs' \in Times
      /\ lastTrustedTimeMs \in Nat /\ lastTrustedTimeMs' \in Nat
      /\ lastTrustedTimeMs <= lastTrustedTimeMs'
      /\ Accepted(sample) => /\ sample \in Times /\ sample \in Nat
                             /\ lastTrustedTimeMs' = sample
  BY ClockStep DEF ObserverMatches
<1>1. /\ c \in Capabilities /\ capabilityState[c] = "VALIDATING"
      /\ binding[c] \in Bindings /\ binding' = binding
      /\ \A l \in Calls \ {k} : call[l].pc # "idle" => call[l].cap # c
      /\ \A i \in Forwards : downstream[i].cap # c
  BY DEF ObserverMatches, CallInv, CapabilityInv, Begun
<1>2. CASE ~(Accepted(sample) /\ CapabilityActive(c, sample))
  <2>1. /\ capabilityState' = [capabilityState EXCEPT ![c] = "REJECTED"]
        /\ call' = [call EXCEPT ![k] = Idle]
        /\ downstream' = downstream
    BY <1>2 DEF ObserverMatches
  <2>2. TypeOK'
    BY <1>0, <1>1, <2>1, Types DEF TypeOK, States, TerminalStates, Idle
  <2>3. CallInv'
    BY <1>0, <1>1, <2>1, Types DEF CallInv, TypeOK, Idle
  <2>4. CapabilityInv'
    BY <1>1, <2>1, Types DEF CapabilityInv, TypeOK, Begun
  <2>5. OwnerInv'
    BY <1>1, <2>1 DEF OwnerInv, TypeOK, Begun, Idle
  <2>6. SingleForward' /\ ForwardIsAuthorized'
    BY <1>1, <2>1 DEF SingleForward, ForwardIsAuthorized
  <2>7. ForwardsInTimeOrder'
    BY <1>0, <2>1, Types DEF ForwardsInTimeOrder
  <2>8. QED
    BY <2>2, <2>3, <2>4, <2>5, <2>6, <2>7
<1>3. CASE Accepted(sample) /\ CapabilityActive(c, sample)
  <2>1. /\ capabilityState' = [capabilityState EXCEPT ![c] = "CONSUMING"]
        /\ call' = [call EXCEPT ![k] = [call[k] EXCEPT !.pc = "executing"]]
        /\ downstream' = Append(downstream, f)
    BY <1>3 DEF ObserverMatches
  <2>2. f \in [cap : Capabilities, exec : Executions, first : Times, at : Times]
    BY <1>0, <1>1, <1>3 DEF ObserverMatches, TypeOK
  <2>3. /\ downstream' \in Seq([cap : Capabilities, exec : Executions, first : Times, at : Times])
        /\ Forwards' = Forwards \union {Len(downstream) + 1}
        /\ Len(downstream) + 1 \in Nat
        /\ \A i \in Forwards : downstream'[i] = downstream[i] /\ i < Len(downstream) + 1 /\ i \in Nat
        /\ downstream'[Len(downstream) + 1] = f
    BY <2>1, <2>2, AppendForward DEF TypeOK
  <2>4. TypeOK'
    BY <1>0, <1>1, <2>1, <2>3 DEF TypeOK, States
  <2>5. CallInv'
    BY <1>0, <1>1, <2>1, Types DEF CallInv, TypeOK, ObserverMatches
  <2>6. CapabilityInv'
    BY <1>1, <2>1, <2>3, Types DEF CapabilityInv, TypeOK, Begun
  <2>7. OwnerInv'
    BY <1>1, <2>1, <2>3 DEF OwnerInv, TypeOK, Begun, ObserverMatches
  <2>8. SingleForward'
    BY <1>1, <2>3 DEF SingleForward
  <2>9. ForwardIsAuthorized'
    <3>1. /\ observed = binding[c].exec
          /\ binding[c].issued <= f.first /\ f.first < binding[c].expires
          /\ binding[c].issued <= f.at /\ f.at < binding[c].expires
      <4>1. call[k].pc = "observing" /\ observed # None /\ ExactBindingMatches(binding[c], observed)
        BY DEF ObserverMatches
      <4>2. observed = binding[c].exec
        BY <1>1, <4>1 DEF ExactBindingMatches, Bindings, Executions
      <4>3. binding[c].issued <= call[k].first /\ call[k].first < binding[c].expires
        BY <4>1 DEF CallInv
      <4>4. binding[c].issued <= sample /\ sample < binding[c].expires
        BY <1>3 DEF CapabilityActive
      <4> QED
        BY <4>2, <4>3, <4>4
    <3>2. binding[c] # None
      BY <1>1, NoneAssumption
    <3>3. ForwardIsAuthorized /\ f.cap = c /\ f.exec = observed
      OBVIOUS
    <3> HIDE DEF IndInv, f, c
    <3>4. QED
      BY <1>1, <2>3, <3>1, <3>2, <3>3 DEF ForwardIsAuthorized
  <2>10. ForwardsInTimeOrder'
    <3>0. call[k].first <= lastTrustedTimeMs
      <4>1. call[k].pc = "observing"
        BY DEF ObserverMatches
      <4> QED
        BY <4>1 DEF CallInv
    <3>1. f.first <= f.at /\ f.at = lastTrustedTimeMs' /\ f.at \in Nat
      <4>1. sample = lastTrustedTimeMs' /\ sample \in Nat
        BY <1>0, <1>3
      <4>2. call[k].first \in Nat
        BY Types
      <4>3. call[k].first <= sample
        BY <1>0, <3>0, <4>1, <4>2
      <4> QED
        BY <4>1, <4>3
    <3>2. \A i \in Forwards : /\ downstream[i].first <= downstream[i].at
                              /\ downstream[i].at <= lastTrustedTimeMs'
      BY <1>0, Types DEF ForwardsInTimeOrder
    <3>3. QED
      BY <2>3, <3>1, <3>2, Types DEF ForwardsInTimeOrder
  <2>11. QED
    BY <2>4, <2>5, <2>6, <2>7, <2>8, <2>9, <2>10
<1>4. QED
  BY <1>2, <1>3

-----------------------------------------------------------------------------

LEMMA NextIndInv == IndInv /\ [Next]_vars => IndInv'
<1> SUFFICES ASSUME IndInv, [Next]_vars PROVE IndInv'
  OBVIOUS
<1>1. ASSUME NEW c \in Capabilities, NEW b \in Bindings, Issue(c, b) PROVE IndInv'
  BY <1>1, IssueStep
<1>2. ASSUME NEW k \in Calls, NEW c \in Capabilities,
             NEW sample \in Times \union {None}, Consume(k, c, sample)
      PROVE  IndInv'
  BY <1>2, ConsumeStep
<1>3. CASE UNCHANGED vars
  <2>1. TypeOK' /\ CallInv' /\ CapabilityInv' /\ OwnerInv'
    <3>1. TypeOK'
      BY <1>3 DEF vars, IndInv, TypeOK
    <3>2. CallInv'
      BY <1>3 DEF vars, IndInv, CallInv
    <3>3. CapabilityInv'
      BY <1>3 DEF vars, IndInv, CapabilityInv, Forwards
    <3>4. OwnerInv'
      BY <1>3 DEF vars, IndInv, OwnerInv, Forwards
    <3> QED
      BY <3>1, <3>2, <3>3, <3>4
  <2>2. SingleForward' /\ ForwardIsAuthorized' /\ ForwardsInTimeOrder'
    BY <1>3 DEF vars, IndInv, SingleForward, ForwardIsAuthorized, ForwardsInTimeOrder, Forwards
  <2>3. QED
    BY <2>1, <2>2 DEF IndInv
<1>4. ASSUME NEW k \in Calls, Observe(k) PROVE IndInv'
  BY <1>4, ObserverRejectsStep, ObserverMatchesStep DEF Observe
<1>5. ASSUME NEW k \in Calls, Settle(k) PROVE IndInv'
  BY <1>5, CompleteConsumptionStep DEF Settle
<1>6. QED
  BY <1>1, <1>2, <1>3, <1>4, <1>5 DEF Next, ConsumeStale

\* The inductive invariant holds in every reachable state of the gate.
THEOREM GateInvariant == Spec => []IndInv
  BY InitIndInv, NextIndInv, PTL DEF Spec

\* Type correctness of the gate.
THEOREM GateTypes == Spec => []TypeOK
<1>1. IndInv => TypeOK
  BY DEF IndInv
<1>2. QED
  BY <1>1, GateInvariant, PTL

\* However many consume() calls race for it, a capability reaches the downstream
\* adapter at most once.
THEOREM GateForwardsOnce == Spec => []SingleForward
<1>1. IndInv => SingleForward
  BY DEF IndInv
<1>2. QED
  BY <1>1, GateInvariant, PTL

\* The adapter only ever runs the authorized execution, inside its window.
THEOREM GateForwardsAuthorized == Spec => []ForwardIsAuthorized
<1>1. IndInv => ForwardIsAuthorized
  BY DEF IndInv
<1>2. QED
  BY <1>1, GateInvariant, PTL

\* The adapter is called in the order of trusted time.
THEOREM GateForwardsInOrder == Spec => []ForwardsInTimeOrder
<1>1. IndInv => ForwardsInTimeOrder
  BY DEF IndInv
<1>2. QED
  BY <1>1, GateInvariant, PTL

\* The state of a capability agrees with the calls in flight and with what was
\* forwarded.
THEOREM GateStateAgrees == Spec => []StateAgreesWithCalls
<1>1. IndInv => StateAgreesWithCalls
  <2> SUFFICES ASSUME IndInv, NEW c \in Capabilities
               PROVE  LET Owners(pc) == {k \in Calls : call[k].pc = pc /\ call[k].cap = c}
                      IN  /\ \A k, l \in Owners("observing") \union Owners("executing") : k = l
                          /\ capabilityState[c] = "VALIDATING" <=> Owners("observing") # {}
                          /\ capabilityState[c] = "CONSUMING" <=> Owners("executing") # {}
                          /\ capabilityState[c] \in {"CONSUMING", "CONSUMED_SUCCESS", "CONSUMED_ERROR"}
                                <=> \E i \in Forwards : downstream[i].cap = c
    BY DEF StateAgreesWithCalls
  <2> QED
    BY DEF IndInv, CallInv, OwnerInv, CapabilityInv, Begun
<1>2. QED
  BY <1>1, GateInvariant, PTL

-----------------------------------------------------------------------------

\* The capabilities of a longer record of forwards.
LEMMA AppendCapability ==
    ASSUME TypeOK, NEW c \in Capabilities,
           NEW f \in [cap : Capabilities, exec : Executions, first : Times, at : Times],
           f.cap = c, downstream' = Append(downstream, f)
    PROVE  [i \in Forwards |-> downstream[i].cap]' =
               Append([i \in Forwards |-> downstream[i].cap], c)
<1> DEFINE n == Len(downstream)
           caps == [i \in Forwards |-> downstream[i].cap]
<1>1. /\ n \in Nat /\ Forwards = 1..n /\ DOMAIN downstream' = 1..(n + 1)
      /\ \A i \in 1..n : downstream'[i] = downstream[i]
      /\ downstream'[n + 1] = f
  BY AppendForward DEF TypeOK, Forwards
<1>2. caps \in Seq(Capabilities) /\ Len(caps) = n
  <2>1. \A i \in 1..n : downstream[i].cap \in Capabilities
    BY <1>1, Types
  <2>2. QED
    BY <1>1, <2>1
<1>3. /\ Append(caps, c) = [i \in 1..(n + 1) |-> IF i = n + 1 THEN c ELSE caps[i]]
  BY <1>1, <1>2
<1>4. QED
  BY <1>1, <1>3 DEF Forwards

\* The gate implements the lifecycle of core/gate/README.md: no other transition
\* than the ones drawn there, and one downstream call at the step into CONSUMING.
THEOREM GateImplementsLifecycle == Spec => ImplementsLifecycle
<1>1. Init => Lifecycle!Init
  BY DEF Init, Lifecycle!Init, Forwards
<1>2. IndInv /\ [Next]_vars => [Lifecycle!Next]_<<capabilityState, [i \in Forwards |-> downstream[i].cap]>>
  <2> SUFFICES ASSUME IndInv, [Next]_vars
               PROVE  \/ Lifecycle!Next
                      \/ UNCHANGED <<capabilityState, [i \in Forwards |-> downstream[i].cap]>>
    OBVIOUS
  <2> USE DEF SetState, Lifecycle!Move
  <2>1. ASSUME NEW c \in Capabilities, NEW b \in Bindings, Issue(c, b)
        PROVE  Lifecycle!Next
    BY Zenon, <2>1 DEF Issue, Lifecycle!Next, Lifecycle!Issue, Forwards
  <2>2. ASSUME NEW k \in Calls, NEW c \in Capabilities,
               NEW sample \in Times \union {None}, Consume(k, c, sample)
        PROVE  Lifecycle!Next
    BY <2>2 DEF Consume, Lifecycle!Next, Lifecycle!Validate, Forwards
  <2>3. ASSUME NEW k \in Calls, NEW observed \in Executions \union {None},
               ObserverRejects(k, observed)
        PROVE  Lifecycle!Next
    BY Zenon, <2>3 DEF ObserverRejects, Lifecycle!Next, Lifecycle!Validate, Forwards, IndInv, CallInv
  <2>4. ASSUME NEW k \in Calls, NEW observed \in Executions \union {None},
               NEW sample \in Times \union {None}, ObserverMatches(k, observed, sample)
        PROVE  Lifecycle!Next
    <3> DEFINE c == call[k].cap
               f == [cap |-> c, exec |-> observed, first |-> call[k].first, at |-> sample]
    <3>1. c \in Capabilities /\ capabilityState[c] = "VALIDATING"
      BY <2>4 DEF ObserverMatches, IndInv, CallInv
    <3>2. CASE Accepted(sample) /\ CapabilityActive(c, sample)
      <4>1. f \in [cap : Capabilities, exec : Executions, first : Times, at : Times]
        BY <2>4, <3>1, <3>2, ClockStep DEF ObserverMatches, IndInv, TypeOK
      <4>2. [i \in Forwards |-> downstream[i].cap]' =
                Append([i \in Forwards |-> downstream[i].cap], c)
        BY Zenon, <2>4, <3>1, <3>2, <4>1, AppendCapability DEF ObserverMatches, IndInv
      <4>3. Lifecycle!Forward(c)
        BY Zenon, <2>4, <3>1, <3>2, <4>2 DEF ObserverMatches, Lifecycle!Forward
      <4>4. QED
        BY Zenon, <3>1, <4>3 DEF Lifecycle!Next, Lifecycle!Forward
    <3>3. CASE ~(Accepted(sample) /\ CapabilityActive(c, sample))
      BY <2>4, <3>1, <3>3 DEF ObserverMatches, Lifecycle!Next, Lifecycle!Validate, Forwards
    <3>4. QED
      BY <3>2, <3>3
  <2>5. ASSUME NEW k \in Calls, NEW success \in BOOLEAN, CompleteConsumption(k, success)
        PROVE  Lifecycle!Next
    BY Zenon, <2>5 DEF CompleteConsumption, Lifecycle!Next, Lifecycle!Finish, Forwards, IndInv, CallInv
  <2>6. CASE UNCHANGED vars
    BY <2>6 DEF vars, Forwards
  <2>7. QED
    BY <2>1, <2>2, <2>3, <2>4, <2>5, <2>6 DEF Next, ConsumeStale, Observe, Settle
<1>3. QED
  BY <1>1, <1>2, GateInvariant, PTL DEF Spec, ImplementsLifecycle, Lifecycle!Spec

-----------------------------------------------------------------------------
(* ReceiptChain *)

ReceiptsOver(previous) ==
    [id : Nat, shared : {"run", "other"}, phase : {"preflight", "execution", "reconciliation"},
     outcome : {"allow", "deny", "accepted", "rejected", "unresolved", "matched", "mismatched"},
     input : {"input", "other"}, action : {"action", "other"}, results : SUBSET AssertionResults,
     previous : previous \union {NoReceipt, OtherReceipt}, occurred : Nat]

\* A receipt holds the one before it, so the receipts of the three phases nest.
FirstReceipts == ReceiptsOver({})

SecondReceipts == ReceiptsOver(FirstReceipts)

Receipts == ReceiptsOver(SecondReceipts)

\* The source keeps the order of the phases and links each receipt to its last one.
ChainInv ==
    /\ issued \in Seq(Receipts) /\ chain \in Seq(Receipts) /\ Len(issued) \in 0..3
    /\ Len(issued) >= 1 => issued[1] \in FirstReceipts
    /\ Len(issued) >= 2 => issued[2] \in SecondReceipts
    /\ \A i \in 1..Len(issued) : issued[i].phase = Phases[i]
    /\ \A i \in 2..Len(issued) : issued[i].previous = issued[i - 1]

LEMMA ReceiptsNest == FirstReceipts \subseteq SecondReceipts /\ SecondReceipts \subseteq Receipts
<1>1. \A S, T : S \subseteq T => ReceiptsOver(S) \subseteq ReceiptsOver(T)
  BY DEF ReceiptsOver
<1>2. FirstReceipts \subseteq SecondReceipts
  BY <1>1 DEF FirstReceipts, SecondReceipts
<1> QED
  BY <1>1, <1>2 DEF FirstReceipts, SecondReceipts, Receipts

LEMMA PhasesAre ==
    /\ Len(Phases) = 3 /\ DOMAIN Phases = 1..3
    /\ Phases[1] = "preflight" /\ Phases[2] = "execution" /\ Phases[3] = "reconciliation"
  BY DEF Phases

LEMMA PhasesDiffer == ASSUME NEW i \in 1..3, NEW j \in 1..3, Phases[i] = Phases[j] PROVE i = j
<1>1. i \in {1, 2, 3} /\ j \in {1, 2, 3}
  OBVIOUS
<1> QED
  BY <1>1, PhasesAre

LEMMA PhaseIndexIs ==
    ASSUME NEW r, r.phase \in {"preflight", "execution", "reconciliation"}
    PROVE  /\ PhaseIndex(r) \in 1..3 /\ Phases[PhaseIndex(r)] = r.phase
           /\ r.phase = "preflight" <=> PhaseIndex(r) = 1
           /\ r.phase = "execution" <=> PhaseIndex(r) = 2
           /\ r.phase = "reconciliation" <=> PhaseIndex(r) = 3
<1>1. \E i \in DOMAIN Phases : Phases[i] = r.phase
  BY PhasesAre
<1>2. PhaseIndex(r) \in 1..3 /\ Phases[PhaseIndex(r)] = r.phase
  BY <1>1, PhasesAre DEF PhaseIndex
<1> QED
  BY <1>2, PhasesAre

LEMMA OutcomesAre ==
    \A phase \in {"preflight", "execution", "reconciliation"} :
        PhaseOutcomes[phase] \subseteq {"allow", "deny", "accepted", "rejected", "unresolved",
                                        "matched", "mismatched"}
  BY DEF PhaseOutcomes

\* Sequences with the same elements are the same.
LEMMA SequencesEqual ==
    ASSUME NEW S, NEW s \in Seq(S), NEW t \in Seq(S), Len(s) = Len(t),
           \A i \in 1..Len(s) : s[i] = t[i]
    PROVE  s = t
  OBVIOUS

LEMMA ChainInitially == ChainInit => ChainInv
  BY DEF ChainInit, ChainInv

LEMMA ReceiptStep ==
    ASSUME ChainInv, Len(issued) < Len(Phases),
           NEW outcome \in PhaseOutcomes[Phases[Len(issued) + 1]], NEW id \in {1, Len(issued) + 1},
           NEW input \in {"input", "other"}, NEW action \in {"action", "other"},
           NEW results \in {{"pass"}, {"pass", "fail"}, {"not_evaluated"}},
           IssueReceipt(id, outcome, input, action, results)
    PROVE  ChainInv'
<1> DEFINE n == Len(issued)
           previous == IF n = 0 THEN NoReceipt ELSE issued[n]
           r == [id |-> id, shared |-> "run", phase |-> Phases[n + 1], outcome |-> outcome,
                 input |-> input, action |-> action, results |-> results,
                 previous |-> previous, occurred |-> n]
<1>1. n \in 0..2 /\ n \in Nat
  <2>1. n \in 0..3
    BY DEF ChainInv
  <2>2. n < 3
    BY PhasesAre
  <2> HIDE DEF n
  <2> QED
    BY <2>1, <2>2
<1>2. issued' = Append(issued, r) /\ chain' = Append(chain, r)
  BY DEF IssueReceipt, CommitPomRxReceipt
<1>3. Phases[n + 1] \in {"preflight", "execution", "reconciliation"}
  BY <1>1, PhasesAre
<1>4. outcome \in {"allow", "deny", "accepted", "rejected", "unresolved", "matched", "mismatched"}
  BY <1>3, OutcomesAre
<1>5. id \in Nat /\ results \in SUBSET AssertionResults
  BY <1>1 DEF AssertionResults
<1>6. ASSUME NEW S, previous \in S \union {NoReceipt, OtherReceipt}
      PROVE  r \in ReceiptsOver(S)
  <2> HIDE DEF previous, n
  <2> QED
    BY <1>1, <1>3, <1>4, <1>5, <1>6 DEF ReceiptsOver
<1>7. r.phase = Phases[n + 1] /\ r.previous = previous
  OBVIOUS
<1>8. n = 0 => previous = NoReceipt
  OBVIOUS
<1>9. n > 0 => previous = issued[n]
  BY <1>1
<1> HIDE DEF r, previous
<1>10. n = 0 => r \in FirstReceipts
  BY <1>6, <1>8 DEF FirstReceipts
<1>11. n = 1 => r \in SecondReceipts
  BY <1>6, <1>9 DEF SecondReceipts, ChainInv
<1>12. n = 2 => r \in Receipts
  BY <1>6, <1>9 DEF Receipts, ChainInv
<1>13. r \in Receipts
  BY <1>1, <1>10, <1>11, <1>12, ReceiptsNest
<1>14. issued' \in Seq(Receipts) /\ chain' \in Seq(Receipts) /\ Len(issued') = n + 1
  BY <1>2, <1>13 DEF ChainInv
<1>15. issued'[n + 1] = r /\ \A i \in 1..n : issued'[i] = issued[i]
  BY <1>2, <1>13 DEF ChainInv
<1> HIDE DEF n
<1>16. issued'[1] \in FirstReceipts /\ (n + 1 >= 2 => issued'[2] \in SecondReceipts)
  <2>1. CASE n = 0
    BY <1>10, <1>15, <2>1
  <2>2. CASE n = 1
    BY <1>11, <1>15, <2>2 DEF ChainInv, n
  <2>3. CASE n = 2
    BY <1>15, <2>3 DEF ChainInv, n
  <2> QED
    BY <1>1, <2>1, <2>2, <2>3
<1>17. \A i \in 1..n + 1 : issued'[i].phase = Phases[i]
  BY <1>1, <1>7, <1>15 DEF ChainInv, n
<1>18. ASSUME NEW i \in 2..n + 1 PROVE issued'[i].previous = issued'[i - 1]
  <2>1. CASE i = n + 1
    BY <1>1, <1>7, <1>9, <1>15, <2>1
  <2>2. CASE i \in 2..n
    BY <1>1, <1>15, <2>2 DEF ChainInv, n
  <2> QED
    BY <1>1, <2>1, <2>2
<1> QED
  <2>1. n + 1 \in 0..3
    BY <1>1
  <2> QED
    BY <2>1, <1>14, <1>16, <1>17, <1>18 DEF ChainInv

\* What storage makes of a receipt is a receipt, if not the one that was issued.
LEMMA AlteredReceipt ==
    ASSUME NEW r \in Receipts, NEW a \in Altered(r)
    PROVE  a \in Receipts
<1>1. {"fail"} \in SUBSET AssertionResults
  BY DEF AssertionResults
<1>2. \A o \in PhaseOutcomes[r.phase] :
         o \in {"allow", "deny", "accepted", "rejected", "unresolved", "matched", "mismatched"}
  BY OutcomesAre DEF Receipts, ReceiptsOver
<1>3. \A i \in DOMAIN Phases : Phases[i] \in {"preflight", "execution", "reconciliation"}
  BY PhasesAre
<1>4. CASE a \in {[r EXCEPT !.id = 3], [r EXCEPT !.shared = "other"], [r EXCEPT !.input = "other"],
                  [r EXCEPT !.action = "other"], [r EXCEPT !.results = {"fail"}],
                  [r EXCEPT !.occurred = 0], [r EXCEPT !.occurred = 3],
                  [r EXCEPT !.previous = NoReceipt], [r EXCEPT !.previous = OtherReceipt]}
  BY <1>1, <1>4 DEF Receipts, ReceiptsOver
<1>5. ASSUME NEW i \in DOMAIN Phases, a = [r EXCEPT !.phase = Phases[i]]
      PROVE  a \in Receipts
  BY <1>3, <1>5 DEF Receipts, ReceiptsOver
<1>6. ASSUME NEW o \in PhaseOutcomes[r.phase], a = [r EXCEPT !.outcome = o]
      PROVE  a \in Receipts
  BY <1>2, <1>6 DEF Receipts, ReceiptsOver
<1> QED
  BY <1>4, <1>5, <1>6 DEF Altered

LEMMA StorageStep ==
    ASSUME ChainInv, NEW i \in DOMAIN chain,
           Lose(i) \/ \E receipt \in Altered(chain[i]) : Alter(i, receipt)
    PROVE  ChainInv'
<1>1. issued' = issued
  BY DEF Lose, Alter
<1>2. Len(chain) \in Nat /\ i \in 1..Len(chain) /\ chain[i] \in Receipts
  BY DEF ChainInv
<1>3. ASSUME Lose(i) PROVE chain' \in Seq(Receipts)
  <2> chain \in Seq(Receipts)
    BY DEF ChainInv
  <2>1. SubSeq(chain, 1, i - 1) \in Seq(Receipts)
    BY <1>2
  <2>2. SubSeq(chain, i + 1, Len(chain)) \in Seq(Receipts)
    BY <1>2
  <2> QED
    BY <1>3, <2>1, <2>2 DEF Lose
<1>4. ASSUME NEW receipt \in Altered(chain[i]), Alter(i, receipt) PROVE chain' \in Seq(Receipts)
  BY <1>2, <1>4, AlteredReceipt DEF Alter, ChainInv
<1> QED
  BY <1>1, <1>3, <1>4 DEF ChainInv

LEMMA ChainStep == ChainInv /\ [ChainNext]_chainVars => ChainInv'
<1> SUFFICES ASSUME ChainInv, [ChainNext]_chainVars PROVE ChainInv'
  OBVIOUS
<1>1. CASE UNCHANGED chainVars
  BY <1>1 DEF chainVars, ChainInv
<1> QED
  BY <1>1, ReceiptStep, StorageStep DEF ChainNext

\* Following the links of a chain that verifies.
LEMMA LinksOfChain ==
    ASSUME NEW receipts \in Seq(Receipts), NEW allowPartial \in BOOLEAN,
           VerifyPomRxChain(receipts, allowPartial)
    PROVE  /\ Len(receipts) \in 1..3
           /\ \A i \in 1..Len(receipts) : receipts[i].phase = Phases[i]
           /\ \A i \in 2..Len(receipts) : receipts[i].previous = receipts[i - 1]
<1>1. Len(receipts) \in 1..3 /\ receipts[1].phase = "preflight"
  BY PhasesAre DEF VerifyPomRxChain
<1>2. \A i \in 1..Len(receipts) : receipts[i].phase \in {"preflight", "execution", "reconciliation"}
  <2>1. \A i \in 1..Len(receipts) : receipts[i] \in Receipts
    OBVIOUS
  <2> QED
    BY <2>1 DEF Receipts, ReceiptsOver
<1>3. \A i \in 2..Len(receipts) : /\ PhaseIndex(receipts[i]) = PhaseIndex(receipts[i - 1]) + 1
                                  /\ receipts[i].previous = receipts[i - 1]
  BY DEF VerifyPomRxChain, Follows, CommitPomRxReceipt
<1>4. PhaseIndex(receipts[1]) = 1
  BY <1>1, PhaseIndexIs
<1>5. Len(receipts) >= 2 => PhaseIndex(receipts[2]) = 2
  BY <1>1, <1>3, <1>4
<1>6. Len(receipts) >= 3 => PhaseIndex(receipts[3]) = 3
  BY <1>1, <1>3, <1>5
<1>7. \A i \in 1..Len(receipts) : PhaseIndex(receipts[i]) = i
  BY <1>1, <1>4, <1>5, <1>6
<1>8. \A i \in 1..Len(receipts) : receipts[i].phase = Phases[i]
  BY <1>2, <1>7, PhaseIndexIs
<1> QED
  BY <1>1, <1>3, <1>8

\* Whatever storage altered or lost, a chain that verifies and ends with an issued
\* receipt is what the source issued up to it.
THEOREM CorruptionIsEvidentTheorem == ChainSpec => []CorruptionIsEvident
<1>1. ASSUME ChainInv, NEW allowPartial \in BOOLEAN, VerifyPomRxChain(chain, allowPartial),
             chain[Len(chain)] \in Range(issued)
      PROVE  Len(chain) <= Len(issued) /\ chain = SubSeq(issued, 1, Len(chain))
  <2> DEFINE n == Len(chain)
  <2>1. /\ n \in 1..3
        /\ \A i \in 1..n : chain[i].phase = Phases[i]
        /\ \A i \in 2..n : chain[i].previous = chain[i - 1]
    BY <1>1, LinksOfChain DEF ChainInv
  <2>2. PICK j \in 1..Len(issued) : chain[n] = issued[j]
    BY <1>1 DEF Range, ChainInv
  <2>3. Len(issued) \in 0..3 /\ issued[j].phase = Phases[j]
    BY <1>1 DEF ChainInv
  <2>4. j = n
    <3>1. j \in 1..3 /\ n \in 1..3
      BY <2>1, <2>3
    <3>2. Phases[j] = Phases[n]
      <4> HIDE DEF n
      <4>1. n \in 1..n
        BY <3>1
      <4>2. chain[n].phase = Phases[n]
        BY <2>1, <4>1
      <4> QED
        BY <2>2, <2>3, <4>2
    <3> QED
      BY <3>1, <3>2, PhasesDiffer
  <2>5. \A i \in 2..n : issued[i].previous = issued[i - 1]
    BY <1>1, <2>1, <2>3, <2>4 DEF ChainInv
  <2>6. \A i \in 1..n : chain[i] = issued[i]
    <3>1. CASE n = 1
      BY <2>2, <2>4, <3>1
    <3>2. CASE n = 2
      <4>1. chain[2] = issued[2]
        BY <2>2, <2>4, <3>2
      <4>2. chain[1] = issued[1]
        BY <2>1, <2>5, <3>2, <4>1
      <4> QED
        BY <3>2, <4>1, <4>2
    <3>3. CASE n = 3
      <4>1. chain[3] = issued[3]
        BY <2>2, <2>4, <3>3
      <4>2. chain[2] = issued[2]
        BY <2>1, <2>5, <3>3, <4>1
      <4>3. chain[1] = issued[1]
        BY <2>1, <2>5, <3>3, <4>2
      <4> QED
        BY <3>3, <4>1, <4>2, <4>3
    <3> QED
      BY <2>1, <3>1, <3>2, <3>3
  <2>7. n <= Len(issued) /\ chain \in Seq(Receipts) /\ issued \in Seq(Receipts)
    BY <1>1, <2>4 DEF ChainInv
  <2>8. /\ SubSeq(issued, 1, n) \in Seq(Receipts) /\ Len(SubSeq(issued, 1, n)) = n
        /\ \A i \in 1..n : SubSeq(issued, 1, n)[i] = issued[i]
    BY <2>1, <2>7
  <2> HIDE DEF n
  <2>9. chain = SubSeq(issued, 1, n)
    BY <2>6, <2>7, <2>8, SequencesEqual DEF n
  <2> QED
    BY <2>7, <2>9 DEF n
<1>2. ChainInv => CorruptionIsEvident
  BY <1>1 DEF CorruptionIsEvident
<1> QED
  BY <1>2, ChainInitially, ChainStep, PTL DEF ChainSpec

-----------------------------------------------------------------------------
(* StrictVerification *)

\* Nothing is found exactly when no check fails.
LEMMA NothingFound ==
    ASSUME NEW checks
    PROVE  {d[2] : d \in {x \in checks : x[1]}} = {} <=> \A x \in checks : ~x[1]
  OBVIOUS

\* The links, as the two verifiers look at them.
LEMMA LinksAgree ==
    ASSUME NEW receipts \in Seq(Receipts)
    PROVE  LinkDiagnostics(receipts) = {} <=>
               \A i \in 2..Len(receipts) : Follows(receipts[1], receipts[i - 1], receipts[i])
<1> DEFINE Checks(pair) ==
        {<<PhaseIndex(pair[2]) # PhaseIndex(pair[1]) + 1, "CHAIN_PHASE_INVALID">>,
         <<pair[2].previous # CommitPomRxReceipt(pair[1]), "RECEIPT_HASH_LINK_INVALID">>,
         <<pair[2].occurred < pair[1].occurred, "CHAIN_TIMESTAMP_INVALID">>,
         <<pair[2].shared # receipts[1].shared, "CHAIN_SHARED_FIELD_CHANGED">>}
<1>1. LinkDiagnostics(receipts) = UNION {{d[2] : d \in {x \in Checks(pair) : x[1]}} :
                                            pair \in Adjacent(receipts)}
  BY DEF LinkDiagnostics
<1>2. ASSUME NEW i \in 2..Len(receipts)
      PROVE  (\A x \in Checks(<<receipts[i - 1], receipts[i]>>) : ~x[1]) <=>
                 Follows(receipts[1], receipts[i - 1], receipts[i])
  <2> DEFINE p == receipts[i - 1]
             q == receipts[i]
             a == PhaseIndex(q) # PhaseIndex(p) + 1
             b == q.previous # CommitPomRxReceipt(p)
             c == q.occurred < p.occurred
             d == q.shared # receipts[1].shared
  <2>1. p \in Receipts /\ q \in Receipts
    OBVIOUS
  <2>2. p.occurred \in Nat /\ q.occurred \in Nat
    BY <2>1 DEF Receipts, ReceiptsOver
  <2>3. <<p, q>>[1] = p /\ <<p, q>>[2] = q
    OBVIOUS
  <2>4. Checks(<<p, q>>) = {<<a, "CHAIN_PHASE_INVALID">>, <<b, "RECEIPT_HASH_LINK_INVALID">>,
                            <<c, "CHAIN_TIMESTAMP_INVALID">>, <<d, "CHAIN_SHARED_FIELD_CHANGED">>}
    BY <2>3
  <2>5. Follows(receipts[1], p, q) <=> ~a /\ ~b /\ ~c /\ ~d
    BY <2>2 DEF Follows
  <2> HIDE DEF a, b, c, d, Checks
  <2>6. (\A x \in {<<a, "CHAIN_PHASE_INVALID">>, <<b, "RECEIPT_HASH_LINK_INVALID">>,
                   <<c, "CHAIN_TIMESTAMP_INVALID">>, <<d, "CHAIN_SHARED_FIELD_CHANGED">>} : ~x[1])
        <=> ~a /\ ~b /\ ~c /\ ~d
    OBVIOUS
  <2> QED
    BY <2>4, <2>5, <2>6
<1> HIDE DEF Checks
<1> DEFINE Found(pair) == {d[2] : d \in {x \in Checks(pair) : x[1]}}
<1>3. \A pair : Found(pair) = {} <=> \A x \in Checks(pair) : ~x[1]
  BY NothingFound
<1>4. LinkDiagnostics(receipts) = {} <=> \A pair \in Adjacent(receipts) : Found(pair) = {}
  <2>1. LinkDiagnostics(receipts) = UNION {Found(pair) : pair \in Adjacent(receipts)}
    BY <1>1
  <2> HIDE DEF Found
  <2> QED
    BY <2>1
<1> HIDE DEF Found
<1> QED
  BY <1>2, <1>3, <1>4 DEF Adjacent

\* The two verifiers find the same chains sound.
LEMMA BaseChecksAgree ==
    ASSUME NEW receipts \in Seq(Receipts), NEW allowPartial \in BOOLEAN,
           CommitStrictReceipts(receipts)
    PROVE  VerifyPomRxChain(receipts, allowPartial) <=> CheckBaseChain(receipts, allowPartial) = {}
<1> DEFINE n == Len(receipts)
           first == receipts[1]
           execution == FirstOf(receipts, "execution")
           reconciled == FirstOf(receipts, "reconciliation") # {}
           a == first.outcome = "deny" /\ n # 1
           b == first.outcome = "allow" /\ ~allowPartial /\ n < 2
           c == ~allowPartial /\ ~reconciled /\ \E e \in execution : e.outcome = "accepted"
           d == reconciled /\ \E e \in execution : e.outcome = "rejected"
           checks == {<<a, "CHAIN_PHASE_INVALID">>, <<b, "PARTIAL_CHAIN_FORBIDDEN">>,
                      <<c, "PARTIAL_CHAIN_FORBIDDEN">>, <<d, "CHAIN_PHASE_INVALID">>}
<1>1. n \in 1..3 /\ \A i \in 1..n : ValidatePomRxReceipt(receipts[i])
  BY PhasesAre DEF CommitStrictReceipts, Range
<1>2. first.phase = "preflight" => first.outcome \in {"allow", "deny"}
  BY <1>1 DEF ValidatePomRxReceipt, PhaseOutcomes
<1>3. CASE first.phase # "preflight"
  BY <1>3 DEF VerifyPomRxChain, CheckBaseChain
<1>4. CASE first.phase = "preflight"
  <2>1. CheckBaseChain(receipts, allowPartial) =
           LinkDiagnostics(receipts) \union {x[2] : x \in {y \in checks : y[1]}}
    BY <1>4 DEF CheckBaseChain
  <2>2. (\A x \in checks : ~x[1]) <=> ~a /\ ~b /\ ~c /\ ~d
    <3> HIDE DEF a, b, c, d
    <3> QED
      OBVIOUS
  <2>3. VerifyPomRxChain(receipts, allowPartial) <=>
           /\ \A i \in 2..n : Follows(receipts[1], receipts[i - 1], receipts[i])
           /\ IF first.outcome = "deny" THEN n = 1
              ELSE /\ allowPartial \/ n >= 2
                   /\ \A e \in execution :
                         /\ e.outcome = "accepted" => allowPartial \/ reconciled
                         /\ e.outcome = "rejected" => ~reconciled
    BY <1>1, <1>4, PhasesAre DEF VerifyPomRxChain
  <2> HIDE DEF reconciled
  <2>4. ~c /\ ~d <=> \A e \in execution : /\ e.outcome = "accepted" => allowPartial \/ reconciled
                                          /\ e.outcome = "rejected" => ~reconciled
    OBVIOUS
  <2>5. first.outcome = "deny" /\ n = 1 => execution = {}
    BY <1>4 DEF FirstOf
  <2>6. (IF first.outcome = "deny" THEN n = 1
         ELSE /\ allowPartial \/ n >= 2
              /\ \A e \in execution :
                    /\ e.outcome = "accepted" => allowPartial \/ reconciled
                    /\ e.outcome = "rejected" => ~reconciled)
        <=> ~a /\ ~b /\ ~c /\ ~d
    <3> HIDE DEF execution, first
    <3>1. CASE first.outcome = "deny"
      <4>1. n = 1 => ~c /\ ~d
        BY <2>4, <2>5, <3>1
      <4>2. ~b
        BY <3>1
      <4>3. ~a <=> n = 1
        BY <3>1
      <4> HIDE DEF a, b, c, d
      <4> QED
        BY <3>1, <4>1, <4>2, <4>3
    <3>2. CASE first.outcome = "allow"
      <4>1. ~a
        BY <3>2
      <4>2. ~b <=> allowPartial \/ n >= 2
        BY <1>1, <3>2
      <4> HIDE DEF a, b, c, d
      <4> QED
        BY <2>4, <3>2, <4>1, <4>2
    <3> QED
      BY <1>2, <1>4, <3>1, <3>2
  <2> HIDE DEF a, b, c, d, checks
  <2>7. {x[2] : x \in {y \in checks : y[1]}} = {} <=> ~a /\ ~b /\ ~c /\ ~d
    BY <2>2, NothingFound
  <2> QED
    BY <2>1, <2>3, <2>6, <2>7, LinksAgree
<1> QED
  BY <1>3, <1>4

\* Every code that is reported is one of those the truth table calls structural.
LEMMA CodesAreStructural ==
    ASSUME NEW receipts, NEW allowPartial
    PROVE  /\ CheckBaseChain(receipts, allowPartial) \subseteq StructuralErrorCodes
           /\ StrictInvariants(receipts) \subseteq StructuralErrorCodes
<1>1. LinkDiagnostics(receipts) \subseteq StructuralErrorCodes
  BY DEF LinkDiagnostics, StructuralErrorCodes
<1>2. ASSUME NEW a, NEW b, NEW c, NEW d
      PROVE  {x[2] : x \in {y \in {<<a, "CHAIN_PHASE_INVALID">>, <<b, "PARTIAL_CHAIN_FORBIDDEN">>,
                                   <<c, "PARTIAL_CHAIN_FORBIDDEN">>, <<d, "CHAIN_PHASE_INVALID">>} :
                                y[1]}}
             \subseteq StructuralErrorCodes
  BY DEF StructuralErrorCodes
<1>3. CheckBaseChain(receipts, allowPartial) \subseteq StructuralErrorCodes
  <2>1. CASE receipts[1].phase # "preflight"
    BY <2>1 DEF CheckBaseChain, StructuralErrorCodes
  <2>2. CASE receipts[1].phase = "preflight"
    BY <1>1, <1>2, <2>2 DEF CheckBaseChain
  <2> QED
    BY <2>1, <2>2
<1>4. StrictInvariants(receipts) \subseteq StructuralErrorCodes
  BY DEF StrictInvariants, ActionContinuity, InputContinuity, ExecutionAssertionConsistency,
         ReconciliationAssertionConsistency, ReceiptIdUniqueness, StructuralErrorCodes
<1> QED
  BY <1>3, <1>4

\* No chain that passed the base checks makes a checker fail.
LEMMA CheckersAccept ==
    ASSUME NEW receipts \in Seq(Receipts), NEW allowPartial \in BOOLEAN,
           VerifyPomRxChain(receipts, allowPartial)
    PROVE  CheckerAccepts(receipts)
<1>1. Len(receipts) \in 1..Len(Phases) /\ receipts[1].phase = "preflight"
  BY DEF VerifyPomRxChain
<1>2. \A pair \in Adjacent(receipts) : PhaseIndex(pair[2]) = PhaseIndex(pair[1]) + 1
  <2>1. \A i \in 2..Len(receipts) : PhaseIndex(receipts[i]) = PhaseIndex(receipts[i - 1]) + 1
    BY DEF VerifyPomRxChain, Follows
  <2> QED
    BY <2>1 DEF Adjacent
<1>3. \A r \in Range(receipts) : r.outcome \in PhaseOutcomes[r.phase] /\ r.results # {}
  <2>1. \A r \in Range(receipts) : ValidatePomRxReceipt(r)
    BY DEF VerifyPomRxChain, Range
  <2> QED
    BY <2>1 DEF ValidatePomRxReceipt
<1> QED
  BY <1>1, <1>2, <1>3 DEF CheckerAccepts

\* Neighbours that agree make the whole chain agree.
LEMMA ContinuousChain ==
    ASSUME NEW receipts \in Seq(Receipts), Len(receipts) \in 1..3,
           StrictInvariants(receipts) = {}
    PROVE  \A r \in Range(receipts) : r.action = receipts[1].action /\ r.input = receipts[1].input
<1>1. ActionContinuity(receipts) = {} /\ InputContinuity(receipts) = {}
  BY DEF StrictInvariants
<1>2. \A i \in 2..Len(receipts) : <<receipts[i - 1], receipts[i]>> \in Adjacent(receipts)
  BY DEF Adjacent
<1>3. \A pair \in Adjacent(receipts) : pair[1].action = pair[2].action
  BY <1>1 DEF ActionContinuity
<1>4. \A pair \in Adjacent(receipts) : pair[1].input = pair[2].input
  BY <1>1 DEF InputContinuity
<1>5. ASSUME NEW i \in 2..Len(receipts)
      PROVE  receipts[i - 1].action = receipts[i].action /\ receipts[i - 1].input = receipts[i].input
  <2> DEFINE pair == <<receipts[i - 1], receipts[i]>>
  <2>1. pair[1] = receipts[i - 1] /\ pair[2] = receipts[i]
    OBVIOUS
  <2>2. pair[1].action = pair[2].action /\ pair[1].input = pair[2].input
    BY <1>2, <1>3, <1>4
  <2> QED
    BY <2>1, <2>2
<1>6. \A i \in 1..Len(receipts) : /\ receipts[i].action = receipts[1].action
                                  /\ receipts[i].input = receipts[1].input
  <2>1. Len(receipts) >= 2 => /\ receipts[2].action = receipts[1].action
                              /\ receipts[2].input = receipts[1].input
    BY <1>5
  <2>2. Len(receipts) >= 3 => /\ receipts[3].action = receipts[2].action
                              /\ receipts[3].input = receipts[2].input
    BY <1>5
  <2> QED
    BY <2>1, <2>2
<1> QED
  BY <1>6 DEF Range

LEMMA VerifiersAgree ==
    ASSUME NEW receipts \in Seq(Receipts), NEW allowPartial \in BOOLEAN
    PROVE  LET v == StrictVerdict(receipts, allowPartial)
               legacy == VerifyPomRxChain(receipts, allowPartial)
           IN  /\ TruthTable(v) /\ "INTERNAL_VERIFIER_ERROR" \notin v.codes
               /\ legacy <=> /\ v.status # "indeterminate"
                             /\ CommitStrictReceipts(receipts) =>
                                   CheckBaseChain(receipts, allowPartial) = {}
               /\ v.status = "conformant" =>
                     /\ legacy
                     /\ \A r \in Range(receipts) :
                           r.action = receipts[1].action /\ r.input = receipts[1].input
<1> DEFINE v == StrictVerdict(receipts, allowPartial)
           legacy == VerifyPomRxChain(receipts, allowPartial)
           base == CheckBaseChain(receipts, allowPartial)
           strict == StrictInvariants(receipts)
           commits == CommitStrictReceipts(receipts)
<1>1. /\ "SCHEMA_INVALID" \notin StructuralErrorCodes
      /\ "INTERNAL_VERIFIER_ERROR" \notin StructuralErrorCodes
  BY DEF StructuralErrorCodes
<1>2. base \subseteq StructuralErrorCodes /\ strict \subseteq StructuralErrorCodes
  BY CodesAreStructural
<1>3. CASE ~commits
  <2>1. v = [status |-> "indeterminate", codes |-> {"SCHEMA_INVALID"}]
    BY <1>3 DEF StrictVerdict
  <2>2. v.status = "indeterminate" /\ v.codes = {"SCHEMA_INVALID"}
    BY <2>1
  <2> HIDE DEF v
  <2>3. TruthTable(v)
    BY <1>1, <2>2 DEF TruthTable
  <2>4. ~legacy
    BY <1>3 DEF VerifyPomRxChain, CommitStrictReceipts, Range
  <2> QED
    BY <1>3, <2>2, <2>3, <2>4 DEF v
<1>4. CASE commits /\ base # {}
  <2>1. v = [status |-> "nonconformant", codes |-> base]
    BY <1>4 DEF StrictVerdict
  <2>2. v.status = "nonconformant" /\ v.codes = base
    BY <2>1
  <2> HIDE DEF v
  <2>3. TruthTable(v)
    BY <1>2, <1>4, <2>2 DEF TruthTable
  <2>4. ~legacy
    BY <1>4, BaseChecksAgree
  <2> QED
    BY <1>1, <1>2, <1>4, <2>2, <2>3, <2>4 DEF v
<1>5. CASE commits /\ base = {}
  <2>1. legacy
    BY <1>5, BaseChecksAgree
  <2>2. CheckerAccepts(receipts)
    BY <2>1, CheckersAccept
  <2>3. v = [status |-> IF strict = {} THEN "conformant" ELSE "nonconformant", codes |-> strict]
    BY <1>5, <2>2 DEF StrictVerdict
  <2>4. v.status = (IF strict = {} THEN "conformant" ELSE "nonconformant") /\ v.codes = strict
    BY <2>3
  <2> HIDE DEF v
  <2>5. TruthTable(v)
    BY <1>2, <2>4 DEF TruthTable
  <2>6. Len(receipts) \in 1..3
    BY <1>5, PhasesAre DEF CommitStrictReceipts
  <2>7. v.status = "conformant" =>
           \A r \in Range(receipts) : r.action = receipts[1].action /\ r.input = receipts[1].input
    BY <2>4, <2>6, ContinuousChain
  <2> QED
    BY <1>1, <1>2, <1>5, <2>1, <2>4, <2>5, <2>7 DEF v
<1> QED
  BY <1>3, <1>4, <1>5

\* The strict verifier and the published one agree on every chain a source can issue and
\* storage can make of it, and only chains of one action and one input conform.
THEOREM StrictRefinesLegacyTheorem == ChainSpec => []StrictRefinesLegacy
<1>1. ChainInv => StrictRefinesLegacy
  BY VerifiersAgree DEF ChainInv, StrictRefinesLegacy
<1> QED
  BY <1>1, ChainInitially, ChainStep, PTL DEF ChainSpec

PolicyCapabilities == [active : BOOLEAN, used : BOOLEAN, policy : LocalPolicies, instant : Instants]

\* A capability is taken to its policy when it is used, once.
StrictInv ==
    /\ capabilities \in Seq(PolicyCapabilities)
    /\ consulted \in Seq(Nat) /\ Len(consulted) = Len(capabilities)
    /\ \A k \in 1..Len(capabilities) : consulted[k] = IF capabilities[k].used THEN 1 ELSE 0
    /\ verdict.status # "indeterminate" =>
          /\ verdict.capability \in 1..Len(capabilities)
          /\ capabilities[verdict.capability].used
          /\ verdict.verifier = Pinned
          /\ \E runtime \in {"runtime", "other"} :
                PolicySelects(capabilities[verdict.capability], Pinned, runtime)

LEMMA StrictInitially == StrictInit => StrictInv
  BY DEF StrictInit, StrictInv

\* A policy is asked about the capability it was made with.
LEMMA SelectsByPolicy ==
    ASSUME NEW c, NEW d, c.policy = d.policy, c.instant = d.instant, NEW verifier, NEW runtime
    PROVE  PolicySelects(c, verifier, runtime) <=> PolicySelects(d, verifier, runtime)
  BY DEF PolicySelects

LEMMA FreshStep ==
    ASSUME StrictInv, NEW policy \in LocalPolicies, NEW instant \in Instants,
           WithFreshCapability(policy, instant)
    PROVE  StrictInv'
<1> DEFINE c == [active |-> TRUE, used |-> FALSE, policy |-> policy, instant |-> instant]
           n == Len(capabilities)
<1>1. c \in PolicyCapabilities /\ ~c.used
  BY DEF PolicyCapabilities
<1>2. capabilities' = Append(capabilities, c) /\ consulted' = Append(consulted, 0)
  BY DEF WithFreshCapability
<1> HIDE DEF c
<1>3. /\ capabilities' \in Seq(PolicyCapabilities) /\ Len(capabilities') = n + 1
      /\ capabilities'[n + 1] = c /\ \A k \in 1..n : capabilities'[k] = capabilities[k]
  BY <1>1, <1>2 DEF StrictInv
<1>4. /\ consulted' \in Seq(Nat) /\ Len(consulted') = n + 1
      /\ consulted'[n + 1] = 0 /\ \A k \in 1..n : consulted'[k] = consulted[k]
  BY <1>2 DEF StrictInv
<1>5. n \in Nat
  BY DEF StrictInv
<1>6. ASSUME NEW k \in 1..n + 1
      PROVE  consulted'[k] = IF capabilities'[k].used THEN 1 ELSE 0
  <2>1. CASE k = n + 1
    BY <1>1, <1>3, <1>4, <2>1
  <2>2. CASE k \in 1..n
    BY <1>3, <1>4, <2>2 DEF StrictInv
  <2> QED
    BY <1>5, <2>1, <2>2
<1>7. verdict' = verdict
  BY DEF WithFreshCapability
<1>8. ASSUME verdict.status # "indeterminate"
      PROVE  /\ verdict.capability \in 1..n + 1
             /\ capabilities'[verdict.capability] = capabilities[verdict.capability]
  BY <1>3, <1>5, <1>8 DEF StrictInv
<1> HIDE DEF n
<1> QED
  BY <1>3, <1>4, <1>6, <1>7, <1>8 DEF StrictInv

LEMMA ReturnStep ==
    ASSUME StrictInv, NEW k \in DOMAIN capabilities, CallbackReturns(k)
    PROVE  StrictInv'
<1> DEFINE c == [capabilities[k] EXCEPT !.active = FALSE]
<1>1. k \in 1..Len(capabilities) /\ capabilities[k] \in PolicyCapabilities
  BY DEF StrictInv
<1>2. capabilities' = [capabilities EXCEPT ![k] = c] /\ UNCHANGED <<consulted, verdict>>
  BY DEF CallbackReturns
<1>3. /\ c \in PolicyCapabilities /\ c.used = capabilities[k].used
      /\ c.policy = capabilities[k].policy /\ c.instant = capabilities[k].instant
  BY <1>1 DEF PolicyCapabilities
<1> HIDE DEF c
<1>4. /\ capabilities' \in Seq(PolicyCapabilities) /\ Len(capabilities') = Len(capabilities)
      /\ \A l \in 1..Len(capabilities) : capabilities'[l] = IF l = k THEN c ELSE capabilities[l]
  BY <1>1, <1>2, <1>3 DEF StrictInv
<1>5. \A l \in 1..Len(capabilities) :
         /\ capabilities'[l].used = capabilities[l].used
         /\ capabilities'[l].policy = capabilities[l].policy
         /\ capabilities'[l].instant = capabilities[l].instant
  BY <1>3, <1>4
<1>6. \A l \in 1..Len(capabilities) : \A runtime :
         PolicySelects(capabilities[l], Pinned, runtime) =>
             PolicySelects(capabilities'[l], Pinned, runtime)
  <2> TAKE l \in 1..Len(capabilities)
  <2> TAKE runtime
  <2> DEFINE old == capabilities[l]
             new == capabilities'[l]
  <2>1. old.policy = new.policy /\ old.instant = new.instant
    BY <1>5
  <2> HIDE DEF old, new
  <2>2. PolicySelects(old, Pinned, runtime) <=> PolicySelects(new, Pinned, runtime)
    BY <2>1, SelectsByPolicy
  <2> QED
    BY <2>2 DEF old, new
<1>7. /\ consulted' \in Seq(Nat) /\ Len(consulted') = Len(capabilities')
      /\ \A l \in 1..Len(capabilities') :
            consulted'[l] = IF capabilities'[l].used THEN 1 ELSE 0
  BY <1>2, <1>4, <1>5 DEF StrictInv
<1>8. ASSUME verdict'.status # "indeterminate"
      PROVE  /\ verdict'.capability \in 1..Len(capabilities')
             /\ capabilities'[verdict'.capability].used
             /\ verdict'.verifier = Pinned
             /\ \E runtime \in {"runtime", "other"} :
                   PolicySelects(capabilities'[verdict'.capability], Pinned, runtime)
  <2>1. /\ verdict.capability \in 1..Len(capabilities)
        /\ capabilities[verdict.capability].used
        /\ verdict.verifier = Pinned
        /\ \E runtime \in {"runtime", "other"} :
              PolicySelects(capabilities[verdict.capability], Pinned, runtime)
    BY <1>2, <1>8 DEF StrictInv
  <2> QED
    BY <1>2, <1>4, <1>5, <1>6, <2>1
<1> QED
  BY <1>4, <1>7, <1>8 DEF StrictInv

LEMMA ProfiledStep ==
    ASSUME StrictInv, NEW k \in DOMAIN capabilities, NEW runtime \in {"runtime", "other"},
           NEW allowPartial \in BOOLEAN, VerifyPomRxChainProfiled(k, runtime, allowPartial)
    PROVE  StrictInv'
<1> DEFINE c == capabilities[k]
           d == UsedUp(c, runtime)
           taken == IF Bindable(c) THEN 1 ELSE 0
<1>1. k \in 1..Len(capabilities) /\ c \in PolicyCapabilities /\ consulted[k] \in Nat
      /\ Len(consulted) = Len(capabilities)
  BY DEF StrictInv
<1>2. /\ capabilities' = [capabilities EXCEPT ![k] = d]
      /\ consulted' = [consulted EXCEPT ![k] = consulted[k] + taken]
  BY DEF VerifyPomRxChainProfiled
<1>3. d \in PolicyCapabilities /\ d.policy = c.policy /\ d.instant = c.instant
      /\ d.used = (c.used \/ Bindable(c))
  BY <1>1 DEF UsedUp, PolicyCapabilities, Bindable
<1>4. consulted[k] + taken \in Nat
  BY <1>1
<1>5. consulted[k] + taken = IF d.used THEN 1 ELSE 0
  <2>1. consulted[k] = IF c.used THEN 1 ELSE 0
    BY <1>1 DEF StrictInv
  <2>2. Bindable(c) => ~c.used
    BY DEF Bindable
  <2>3. CASE Bindable(c)
    <3>1. d.used /\ taken = 1
      BY <1>3, <2>3
    <3> QED
      BY <2>1, <2>2, <2>3, <3>1
  <2>4. CASE ~Bindable(c)
    <3>1. d.used = c.used /\ taken = 0
      BY <1>1, <1>3, <2>4 DEF PolicyCapabilities
    <3> QED
      BY <2>1, <3>1
  <2> QED
    BY <2>3, <2>4
<1> HIDE DEF d, taken
<1>6. /\ capabilities' \in Seq(PolicyCapabilities) /\ Len(capabilities') = Len(capabilities)
      /\ \A l \in 1..Len(capabilities) : capabilities'[l] = IF l = k THEN d ELSE capabilities[l]
  BY <1>1, <1>2, <1>3 DEF StrictInv
<1>7. /\ consulted' \in Seq(Nat) /\ Len(consulted') = Len(capabilities)
      /\ \A l \in 1..Len(capabilities) :
            consulted'[l] = IF l = k THEN consulted[k] + taken ELSE consulted[l]
  BY <1>1, <1>2, <1>4 DEF StrictInv
<1>8. \A l \in 1..Len(capabilities) : consulted'[l] = IF capabilities'[l].used THEN 1 ELSE 0
  BY <1>5, <1>6, <1>7 DEF StrictInv
<1>9. ASSUME verdict'.status # "indeterminate"
      PROVE  /\ verdict'.capability = k /\ verdict'.verifier = Pinned
             /\ d.used /\ PolicySelects(d, Pinned, runtime)
  <2> DEFINE bound == Bindable(c) /\ PolicySelects(c, measured, runtime)
             given == IF bound THEN StrictVerdict(chain, allowPartial).status ELSE "indeterminate"
  <2>1. verdict' = [capability |-> k, verifier |-> measured, status |-> given]
    BY DEF VerifyPomRxChainProfiled
  <2>2. verdict'.capability = k /\ verdict'.verifier = measured /\ verdict'.status = given
    BY <2>1
  <2>3. bound
    BY <1>9, <2>2
  <2>4. measured = Pinned /\ PolicySelects(c, Pinned, runtime)
    BY <2>3 DEF Bindable
  <2> QED
    BY <1>3, <2>2, <2>3, <2>4, SelectsByPolicy
<1>10. k \in 1..Len(capabilities') /\ capabilities'[k] = d
  BY <1>1, <1>6
<1>11. verdict'.status # "indeterminate" =>
          /\ verdict'.capability \in 1..Len(capabilities')
          /\ capabilities'[verdict'.capability].used
          /\ verdict'.verifier = Pinned
          /\ \E other \in {"runtime", "other"} :
                PolicySelects(capabilities'[verdict'.capability], Pinned, other)
  BY <1>9, <1>10
<1>12. /\ Len(consulted') = Len(capabilities')
       /\ \A l \in 1..Len(capabilities') : consulted'[l] = IF capabilities'[l].used THEN 1 ELSE 0
  BY <1>6, <1>7, <1>8
<1> QED
  BY <1>6, <1>7, <1>11, <1>12 DEF StrictInv

LEMMA StrictStep == StrictInv /\ [StrictNext]_strictVars => StrictInv'
<1> SUFFICES ASSUME StrictInv, [StrictNext]_strictVars PROVE StrictInv'
  OBVIOUS
<1>1. CASE UNCHANGED strictVars
  BY <1>1 DEF strictVars, StrictInv
<1>2. ASSUME NEW digest \in Verifiers, FilesChange(digest) PROVE StrictInv'
  BY <1>2 DEF FilesChange, StrictInv
<1> QED
  BY <1>1, <1>2, FreshStep, ReturnStep, ProfiledStep DEF StrictNext

\* A capability earns one verdict at most, by the pinned files and under the policy it was
\* made with, however often it is presented and whatever happens to the files.
THEOREM VerdictIsEarnedTheorem == StrictSpec => []VerdictIsEarned
<1>1. StrictInv => VerdictIsEarned
  BY DEF StrictInv, VerdictIsEarned
<1> QED
  BY <1>1, StrictInitially, StrictStep, PTL DEF StrictSpec

-----------------------------------------------------------------------------
(* TrustedStatus *)

Pcs == {"lookup", "post", "confirm", "published", "invalidate", "failed", "unresolved",
        "cancelled", "refused"}

\* A job that has reached the POST, whatever became of it.
HasPosted(p) == p \in Publishers /\ publisher[p].pc \in Pcs \ {"lookup", "post", "refused"}

StatusCalls == [state : {"success", "failure", "pending"}, by : Publishers \union {Nobody}, attempt : Nat]

\* A success, set or still to come, is the call of a job that has posted; if the job
\* invalidated it and it is set nevertheless, it came late.
StatusInv ==
    /\ publisher \in [Publishers -> [pc : Pcs, state : {"success", "failure"}, base : Bases]]
    /\ attempts \in Nat
    /\ late \subseteq StatusCalls
    /\ status \in StatusCalls
    /\ \A sent \in late : sent.state = "success" => HasPosted(sent.by)
    /\ status.state = "success" =>
          HasPosted(status.by) /\ (publisher[status.by].pc = "failed" => overtaken)

LEMMA StatusInitially == StatusInit => StatusInv
<1> SUFFICES ASSUME StatusInit PROVE StatusInv
  OBVIOUS
<1>1. publisher \in [Publishers -> [pc : Pcs, state : {"success", "failure"}, base : Bases]]
  BY DEF StatusInit, Pcs
<1>2. status \in StatusCalls /\ status.state # "success"
  BY DEF StatusInit, StatusCalls
<1> QED
  BY <1>1, <1>2 DEF StatusInit, StatusInv

\* A step of a job changes its own pc only.
LEMMA GotoMoves ==
    ASSUME StatusInv, NEW p \in Publishers, NEW pc \in Pcs, Goto(p, pc)
    PROVE  /\ publisher' \in [Publishers -> [pc : Pcs, state : {"success", "failure"}, base : Bases]]
           /\ publisher'[p].pc = pc
           /\ \A q \in Publishers : q # p => publisher'[q] = publisher[q]
           /\ attempts' = attempts /\ overtaken' = overtaken
  BY DEF StatusInv, Goto

\* A job that moves on without a call, and fails nothing, keeps the invariant.
LEMMA QuietMove ==
    ASSUME StatusInv, NEW p \in Publishers, NEW pc \in Pcs \ {"failed"}, Goto(p, pc),
           UNCHANGED <<status, late>>, HasPosted(p) => pc \notin {"lookup", "post", "refused"}
    PROVE  StatusInv'
<1>1. /\ publisher' \in [Publishers -> [pc : Pcs, state : {"success", "failure"}, base : Bases]]
      /\ publisher'[p].pc = pc
      /\ \A q \in Publishers : q # p => publisher'[q] = publisher[q]
      /\ attempts' = attempts /\ overtaken' = overtaken
  BY GotoMoves
<1>2. \A q : HasPosted(q) =>
         HasPosted(q)' /\ (publisher'[q].pc = "failed" => publisher[q].pc = "failed")
  BY <1>1 DEF HasPosted
<1>3. \A c \in late' : c.state = "success" => HasPosted(c.by)'
  BY <1>2 DEF StatusInv
<1>4. status'.state = "success" =>
         HasPosted(status.by)' /\ (publisher'[status'.by].pc = "failed" => overtaken')
  BY <1>1, <1>2 DEF StatusInv
<1> QED
  BY <1>1, <1>3, <1>4 DEF StatusInv

\* What the service may make of a call.
LEMMA ServiceOutcomes ==
    ASSUME NEW sent, Posted(sent) \/ PostFailed(sent)
    PROVE  /\ status' = sent \/ status' = status
           /\ late' \subseteq late \union {sent}
  BY DEF Posted, PostFailed

LEMMA JobStep ==
    ASSUME StatusInv, NEW p \in Publishers,
           \/ LookupBase(p) \/ PostStatus(p) \/ ConfirmBase(p)
           \/ InvalidateUncertainPublication(p) \/ Cancel(p)
    PROVE  StatusInv'
<1>1. CASE LookupBase(p)
  <2>1. PICK pc \in {"post", "refused"} : Goto(p, pc)
    BY <1>1 DEF LookupBase
  <2>2. ~HasPosted(p) /\ UNCHANGED <<status, late>>
    BY <1>1 DEF LookupBase, HasPosted
  <2> QED
    BY <2>1, <2>2, QuietMove DEF Pcs
<1>2. CASE PostStatus(p)
  <2> DEFINE sent == [state |-> publisher[p].state, by |-> p, attempt |-> 0]
  <2>1. PICK pc \in {"confirm", "invalidate"} : Goto(p, pc)
    BY <1>2 DEF PostStatus
  <2>2. Posted(sent) \/ PostFailed(sent)
    BY <1>2 DEF PostStatus
  <2>3. sent \in StatusCalls /\ sent.by = p
    BY DEF StatusInv, StatusCalls
  <2> HIDE DEF sent
  <2>4. ~HasPosted(p)
    BY <1>2 DEF PostStatus, HasPosted
  <2>5. status' \in StatusCalls /\ late' \subseteq StatusCalls
    BY <2>2, <2>3, ServiceOutcomes DEF StatusInv
  <2>6. HasPosted(p)' /\ publisher'[p].pc # "failed"
    BY <2>1, GotoMoves DEF HasPosted, Pcs
  <2>7. \A q : HasPosted(q) => HasPosted(q)' /\ publisher'[q].pc = publisher[q].pc
    BY <2>1, <2>4, GotoMoves DEF HasPosted, Pcs
  <2>8. \A c \in late' : c.state = "success" => HasPosted(c.by)'
    <3>1. \A c \in late : c.state = "success" => HasPosted(c.by)
      BY DEF StatusInv
    <3>2. \A c \in late' : c \in late \/ c = sent
      BY <2>2, ServiceOutcomes
    <3> QED
      BY <2>3, <2>6, <2>7, <3>1, <3>2
  <2>9. status'.state = "success" =>
           HasPosted(status.by)' /\ (publisher'[status'.by].pc = "failed" => overtaken')
    <3>1. CASE status' = sent
      BY <2>3, <2>6, <3>1
    <3>2. CASE status' = status
      <4>1. overtaken' = overtaken
        BY <2>1, GotoMoves DEF Pcs
      <4>2. status.state = "success" =>
               HasPosted(status.by) /\ (publisher[status.by].pc = "failed" => overtaken)
        BY DEF StatusInv
      <4> QED
        BY <2>7, <3>2, <4>1, <4>2
    <3> QED
      BY <2>2, <3>1, <3>2, ServiceOutcomes
  <2>10. /\ publisher' \in [Publishers -> [pc : Pcs, state : {"success", "failure"}, base : Bases]]
         /\ attempts' = attempts
    BY <2>1, GotoMoves DEF Pcs
  <2> QED
    BY <2>5, <2>8, <2>9, <2>10 DEF StatusInv
<1>3. CASE ConfirmBase(p)
  <2>1. PICK pc \in {"published", "invalidate"} : Goto(p, pc)
    BY <1>3 DEF ConfirmBase
  <2>2. UNCHANGED <<status, late>>
    BY <1>3 DEF ConfirmBase
  <2> QED
    BY <2>1, <2>2, QuietMove DEF Pcs
<1>4. CASE InvalidateUncertainPublication(p)
  <2> DEFINE sent == [state |-> "pending", by |-> p, attempt |-> 0]
  <2>1. PICK pc \in {"failed", "unresolved"} :
           /\ Goto(p, pc)
           /\ Posted(sent) \/ PostFailed(sent)
           /\ pc = "failed" => Posted(sent)
    BY <1>4 DEF InvalidateUncertainPublication
  <2>2. sent \in StatusCalls /\ sent.state # "success"
    BY DEF StatusCalls
  <2>3. pc = "failed" => status' = sent
    BY <2>1 DEF Posted
  <2> HIDE DEF sent
  <2>4. status' \in StatusCalls /\ late' \subseteq StatusCalls
    BY <2>1, <2>2, ServiceOutcomes DEF StatusInv
  <2>5. \A q : HasPosted(q) => HasPosted(q)'
    BY <2>1, GotoMoves DEF HasPosted, Pcs
  <2>6. \A c \in late' : c.state = "success" => HasPosted(c.by)'
    BY <2>1, <2>2, <2>5, ServiceOutcomes DEF StatusInv
  <2>7. ASSUME status'.state = "success"
        PROVE  HasPosted(status.by)' /\ (publisher'[status'.by].pc = "failed" => overtaken')
    <3>1. status' = status /\ pc = "unresolved"
      BY <2>1, <2>2, <2>3, <2>7, ServiceOutcomes
    <3>2. publisher'[status.by].pc = "failed" => publisher[status.by].pc = "failed"
      BY <2>1, <2>7, <3>1, GotoMoves DEF StatusInv, HasPosted, Pcs
    <3>3. overtaken' = overtaken
      BY <2>1, GotoMoves DEF Pcs
    <3> QED
      BY <2>5, <2>7, <3>1, <3>2, <3>3 DEF StatusInv
  <2>8. /\ publisher' \in [Publishers -> [pc : Pcs, state : {"success", "failure"}, base : Bases]]
        /\ attempts' = attempts
    BY <2>1, GotoMoves DEF Pcs
  <2> QED
    BY <2>4, <2>6, <2>7, <2>8 DEF StatusInv
<1>5. CASE Cancel(p)
  BY <1>5, QuietMove DEF Cancel, Pcs
<1> QED
  BY <1>1, <1>2, <1>3, <1>4, <1>5

LEMMA StatusStep == StatusInv /\ [StatusNext]_statusVars => StatusInv'
<1> SUFFICES ASSUME StatusInv, [StatusNext]_statusVars PROVE StatusInv'
  OBVIOUS
<1>1. CASE UNCHANGED statusVars
  BY <1>1 DEF statusVars, StatusInv, HasPosted
<1>2. CASE InvalidateTrustedPrHead
  <2> DEFINE sent == [state |-> "pending", by |-> Nobody, attempt |-> attempts]
  <2>1. Posted(sent) \/ PostFailed(sent)
    BY <1>2 DEF InvalidateTrustedPrHead
  <2>2. sent \in StatusCalls /\ sent.state # "success"
    BY DEF StatusCalls, StatusInv
  <2> HIDE DEF sent
  <2>3. status' \in StatusCalls /\ late' \subseteq StatusCalls
    BY <2>1, <2>2, ServiceOutcomes DEF StatusInv
  <2>4. attempts' \in Nat /\ UNCHANGED <<publisher, overtaken>>
    BY <1>2 DEF InvalidateTrustedPrHead, StatusInv, MaxAttempts
  <2> QED
    BY <2>1, <2>2, <2>3, <2>4, ServiceOutcomes DEF StatusInv, HasPosted
<1>3. ASSUME NEW sent \in late, LateCall(sent) PROVE StatusInv'
  <2>1. sent \in StatusCalls /\ status' = sent /\ late' \subseteq late /\ UNCHANGED <<publisher, attempts>>
    BY <1>3 DEF LateCall, StatusInv
  <2>2. overtaken' = (overtaken \/ (sent.by \in Publishers /\ publisher[sent.by].pc = "failed"))
    BY <1>3 DEF LateCall
  <2> QED
    BY <2>1, <2>2 DEF StatusInv, HasPosted
<1>4. ASSUME NEW base \in Bases, MainMoves(base) PROVE StatusInv'
  BY <1>4 DEF MainMoves, StatusInv, HasPosted
<1> QED
  BY <1>1, <1>2, <1>3, <1>4, JobStep DEF StatusNext

\* The owner of a success on the head has not ended with a plain failure, however
\* many jobs race and whatever the service loses, except for a late call.
THEOREM FailureLeavesNoSuccessTheorem == StatusSpec => []FailureLeavesNoSuccess
<1>1. StatusInv => FailureLeavesNoSuccess
  BY DEF StatusInv, FailureLeavesNoSuccess, HasPosted
<1> QED
  BY <1>1, StatusInitially, StatusStep, PTL DEF StatusSpec
=============================================================================
