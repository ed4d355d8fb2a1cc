--------------------------- MODULE SingleUseGate ---------------------------
(***************************************************************************)
(* core/gate/reference-single-use-gate.mjs with the authorization record   *)
(* of core/authorization/reference-exact-authorization.mjs: one gate,      *)
(* concurrent consume() calls, a trusted clock that may fail or move       *)
(* backwards, and an observer and a downstream adapter that answer late,   *)
(* in any order, or with an error.                                         *)
(*                                                                         *)
(* JavaScript runs consume() without interruption between two awaits, so a *)
(* call has three steps: up to the observer, from the observer's answer to *)
(* the downstream call, and from the downstream answer to the end.         *)
(***************************************************************************)
EXTENDS Naturals, Sequences

CONSTANTS
    Calls,          \* slots for concurrent consume() calls
    Capabilities,   \* capability objects
    Profiles,       \* binding_profile values
    Actions,        \* action_commitment values
    Contexts,       \* context_commitment values
    MaxTime,        \* instants are 0..MaxTime
    MinLifetime,    \* MIN_LIFETIME_MS
    MaxLifetime,    \* MAX_LIFETIME_MS
    None            \* no value: nothing stored, or a clock or observer that failed

Times == 0..MaxTime

Executions == [profile : Profiles, action : Actions, context : Contexts]

Bindings == [exec : Executions, issued : Times, expires : Times]

ASSUME LifetimeAssumption == /\ MaxTime \in Nat
                             /\ MinLifetime \in Nat \ {0}
                             /\ MaxLifetime \in Nat

ASSUME NoneAssumption == None \notin Bindings

TerminalStates == {"REJECTED", "CONSUMED_SUCCESS", "CONSUMED_ERROR"}

\* "UNISSUED" stands for a capability that the gate's WeakMap does not hold.
States == {"UNISSUED", "AVAILABLE", "VALIDATING", "CONSUMING"} \union TerminalStates

VARIABLES
    capabilityState,    \* per capability: the state the gate keeps in a WeakMap
    binding,            \* per capability: the binding stored with it
    lastTrustedTimeMs,  \* the last accepted clock sample; 0 before the first
    call,               \* per slot: the suspended consume() call
    downstream          \* history: the calls of executeDownstream, in order

vars == <<capabilityState, binding, lastTrustedTimeMs, call, downstream>>

Idle == [pc |-> "idle", cap |-> None, first |-> 0]

Init == /\ capabilityState = [c \in Capabilities |-> "UNISSUED"]
        /\ binding = [c \in Capabilities |-> None]
        /\ lastTrustedTimeMs = 0
        /\ call = [k \in Calls |-> Idle]
        /\ downstream = <<>>

-----------------------------------------------------------------------------

SetState(c, s) == capabilityState' = [capabilityState EXCEPT ![c] = s]

\* validateBindingSnapshot and prepareReferenceExactAuthorizationRecord: the
\* lifetime is bounded and does not outlast the witness.  The clock is not read.
ValidBinding(b, witnessValidUntil) ==
    /\ b.expires >= b.issued + MinLifetime
    /\ b.expires <= b.issued + MaxLifetime
    /\ b.expires <= witnessValidUntil

Issue(c, b) ==
    /\ capabilityState[c] = "UNISSUED"
    /\ \E witnessValidUntil \in Times : ValidBinding(b, witnessValidUntil)
    /\ SetState(c, "AVAILABLE")
    /\ binding' = [binding EXCEPT ![c] = b]
    /\ UNCHANGED <<lastTrustedTimeMs, call, downstream>>

\* Mutant of Accepted: a clock that moved backwards is believed.
AcceptedAnyInstant(sample) == sample # None

\* sampleGateClock: a sample is accepted if the clock works and did not move
\* backwards; only an accepted sample is remembered.
Accepted(sample) == sample # None /\ sample >= lastTrustedTimeMs

SampleGateClock(sample) ==
    lastTrustedTimeMs' = IF Accepted(sample) THEN sample ELSE lastTrustedTimeMs

\* assertCapabilityActive: the window is half open.
CapabilityActive(c, now) == binding[c].issued <= now /\ now < binding[c].expires

ExactBindingMatches(b, observed) ==
    /\ b.exec.profile = observed.profile
    /\ b.exec.action = observed.action
    /\ b.exec.context = observed.context

\* Mutant of Consume: the capability is reserved only after the observer answered.
ConsumeUnreserved(k, c, sample) ==
    /\ call[k] = Idle
    /\ capabilityState[c] = "AVAILABLE"
    /\ SampleGateClock(sample)
    /\ Accepted(sample) /\ CapabilityActive(c, sample)
    /\ call' = [call EXCEPT ![k] = [pc |-> "observing", cap |-> c, first |-> sample]]
    /\ UNCHANGED <<capabilityState, binding, downstream>>

\* consume() up to the await of the observer: the capability is reserved before
\* the clock is read, and a failed check rejects it for good.
Consume(k, c, sample) ==
    /\ call[k] = Idle
    /\ capabilityState[c] = "AVAILABLE"
    /\ SampleGateClock(sample)
    /\ IF Accepted(sample) /\ CapabilityActive(c, sample)
       THEN /\ SetState(c, "VALIDATING")
            /\ call' = [call EXCEPT ![k] = [pc |-> "observing", cap |-> c, first |-> sample]]
       ELSE /\ SetState(c, "REJECTED")
            /\ UNCHANGED call
    /\ UNCHANGED <<binding, downstream>>

\* consume() with an unknown, foreign or used capability has no effect.
ConsumeStale(k, c) ==
    /\ call[k] = Idle
    /\ capabilityState[c] # "AVAILABLE"
    /\ UNCHANGED vars

\* Mutant of ObserverRejects: the capability becomes available again.
ObserverRejectsForRetry(k, observed) ==
    /\ call[k].pc = "observing"
    /\ IF observed = None THEN TRUE ELSE ~ExactBindingMatches(binding[call[k].cap], observed)
    /\ SetState(call[k].cap, "AVAILABLE")
    /\ call' = [call EXCEPT ![k] = Idle]
    /\ UNCHANGED <<binding, lastTrustedTimeMs, downstream>>

\* The observer failed, or its answer is malformed or names another execution:
\* rejected without reading the clock.
ObserverRejects(k, observed) ==
    /\ call[k].pc = "observing"
    /\ IF observed = None THEN TRUE ELSE ~ExactBindingMatches(binding[call[k].cap], observed)
    /\ SetState(call[k].cap, "REJECTED")
    /\ call' = [call EXCEPT ![k] = Idle]
    /\ UNCHANGED <<binding, lastTrustedTimeMs, downstream>>

\* Mutant of ObserverMatches: the window is not checked again before forwarding.
ObserverMatchesUnchecked(k, observed, sample) ==
    /\ call[k].pc = "observing"
    /\ observed # None
    /\ ExactBindingMatches(binding[call[k].cap], observed)
    /\ Accepted(sample)
    /\ SampleGateClock(sample)
    /\ SetState(call[k].cap, "CONSUMING")
    /\ downstream' = Append(downstream, [cap |-> call[k].cap, exec |-> observed,
                                         first |-> call[k].first, at |-> sample])
    /\ call' = [call EXCEPT ![k] = [call[k] EXCEPT !.pc = "executing"]]
    /\ UNCHANGED binding

\* The observed execution is the authorized one: the clock is read again, and
\* if the window is still open consumption starts and downstream is called with
\* the snapshot taken from the observer.
ObserverMatches(k, observed, sample) ==
    /\ call[k].pc = "observing"
    /\ observed # None
    /\ ExactBindingMatches(binding[call[k].cap], observed)
    /\ SampleGateClock(sample)
    /\ IF Accepted(sample) /\ CapabilityActive(call[k].cap, sample)
       THEN /\ SetState(call[k].cap, "CONSUMING")
            /\ downstream' = Append(downstream, [cap |-> call[k].cap, exec |-> observed,
                                                 first |-> call[k].first, at |-> sample])
            /\ call' = [call EXCEPT ![k] = [call[k] EXCEPT !.pc = "executing"]]
       ELSE /\ SetState(call[k].cap, "REJECTED")
            /\ call' = [call EXCEPT ![k] = Idle]
            /\ UNCHANGED downstream
    /\ UNCHANGED binding

\* Mutant of CompleteConsumption: an error of the adapter does not end the call.
CompleteConsumptionSwallowed(k, success) ==
    /\ call[k].pc = "executing"
    /\ success => capabilityState[call[k].cap] = "CONSUMING"
    /\ SetState(call[k].cap, IF success THEN "CONSUMED_SUCCESS" ELSE "CONSUMED_ERROR")
    /\ call' = IF success THEN [call EXCEPT ![k] = Idle] ELSE call
    /\ UNCHANGED <<binding, lastTrustedTimeMs, downstream>>

\* The downstream adapter answers, with a result or an error.
CompleteConsumption(k, success) ==
    /\ call[k].pc = "executing"
    /\ SetState(call[k].cap, IF success THEN "CONSUMED_SUCCESS" ELSE "CONSUMED_ERROR")
    /\ call' = [call EXCEPT ![k] = Idle]
    /\ UNCHANGED <<binding, lastTrustedTimeMs, downstream>>

-----------------------------------------------------------------------------

Observe(k) ==
    \E observed \in Executions \union {None} :
        \/ ObserverRejects(k, observed)
        \/ \E sample \in Times \union {None} : ObserverMatches(k, observed, sample)

Settle(k) == \E success \in BOOLEAN : CompleteConsumption(k, success)

Next ==
    \/ \E c \in Capabilities, b \in Bindings : Issue(c, b)
    \/ \E k \in Calls, c \in Capabilities :
          \/ \E sample \in Times \union {None} : Consume(k, c, sample)
          \/ ConsumeStale(k, c)
    \/ \E k \in Calls : Observe(k) \/ Settle(k)

Spec == Init /\ [][Next]_vars

\* The installed observer and adapter settle every promise they return.  The
\* gate has no timeout of its own, so nothing weaker ends a call.
FairSpec == Spec /\ \A k \in Calls : WF_vars(Observe(k)) /\ WF_vars(Settle(k))

-----------------------------------------------------------------------------
(* Properties *)

Forwards == DOMAIN downstream

\* A capability is in one of the documented states, and consume() never stores
\* anything else, in particular not one state for both outcomes.
TypeOK ==
    /\ capabilityState \in [Capabilities -> States]
    /\ binding \in [Capabilities -> Bindings \union {None}]
    /\ lastTrustedTimeMs \in Times
    /\ call \in [Calls -> [pc : {"idle", "observing", "executing"},
                           cap : Capabilities \union {None}, first : Times]]
    /\ downstream \in Seq([cap : Capabilities, exec : Executions, first : Times, at : Times])

\* However consume() calls interleave, a capability reaches the downstream
\* adapter at most once.
SingleForward ==
    \A i, j \in Forwards : downstream[i].cap = downstream[j].cap => i = j

\* Whatever reached the adapter is exactly the authorized execution, at an
\* instant inside the authorized window, as was the reservation before it.
ForwardIsAuthorized ==
    \A i \in Forwards :
        LET f == downstream[i]
            b == binding[f.cap]
        IN  /\ b # None
            /\ f.exec = b.exec
            /\ b.issued <= f.first /\ f.first < b.expires
            /\ b.issued <= f.at /\ f.at < b.expires

\* The adapter is called in the order of trusted time, over all capabilities
\* of the gate and never before the reservation it rests on, although the clock
\* may step backwards between two samples.
ForwardsInTimeOrder ==
    /\ \A i, j \in Forwards : i <= j => downstream[i].at <= downstream[j].at
    /\ \A i \in Forwards : /\ downstream[i].first <= downstream[i].at
                           /\ downstream[i].at <= lastTrustedTimeMs

\* The state of a capability agrees with the calls in flight: VALIDATING and
\* CONSUMING have exactly one owner each, and a capability was forwarded
\* exactly when its state says that consumption began.
StateAgreesWithCalls ==
    \A c \in Capabilities :
        LET Owners(pc) == {k \in Calls : call[k].pc = pc /\ call[k].cap = c}
        IN  /\ \A k, l \in Owners("observing") \union Owners("executing") : k = l
            /\ capabilityState[c] = "VALIDATING" <=> Owners("observing") # {}
            /\ capabilityState[c] = "CONSUMING" <=> Owners("executing") # {}
            /\ capabilityState[c] \in {"CONSUMING", "CONSUMED_SUCCESS", "CONSUMED_ERROR"}
                  <=> \E i \in Forwards : downstream[i].cap = c

\* Every consume() call ends, so no reserved capability stays half consumed,
\* provided the observer and the adapter answer.
CallsSettle == \A k \in Calls : call[k] # Idle ~> call[k] = Idle

Lifecycle == INSTANCE CapabilityLifecycle WITH
    state <- capabilityState,
    forwards <- [i \in Forwards |-> downstream[i].cap]

\* The capabilities of a gate live the life drawn in the README: each step moves
\* one capability one step on, a terminal one is never rearmed, and downstream
\* is called at the step into CONSUMING and at no other.
ImplementsLifecycle == Lifecycle!Spec
=============================================================================
