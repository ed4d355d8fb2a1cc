--------------------------- MODULE ProviderGateway ---------------------------
(***************************************************************************)
(* wallet-guard/provider.mjs in its controlled host                        *)
(* (controlled-host.mjs), with the witness supplier                        *)
(* (witness-authorization.mjs), the trust life cycle (WitnessTrust), the   *)
(* policy (WalletPolicy) and the single-use gate (SingleUseGate) it is     *)
(* composed of.                                                            *)
(*                                                                         *)
(* request() runs without interruption up to the gate's first await, and   *)
(* the observer it installs has no await either.  So a request has three   *)
(* steps: Authorize (from the page's call to the observer's answer),       *)
(* Resume (the gate's second half, executeDownstream and the provider      *)
(* call), ProviderAnswers; and a fourth, Release, when the host notices.   *)
(* The context, the trusted identities and the other requests change       *)
(* between them.                                                           *)
(***************************************************************************)
EXTENDS WitnessTrust, WalletPolicy, Sequences

CONSTANTS
    Rpcs,               \* requests that the page may send
    Views,              \* [origin, chain, account] the host may be in
    Policy,             \* the policy installed at creation
    Lifetime,           \* capabilityLifetimeMs
    MinLifetime,        \* of the gate
    MaxLifetime,        \* of the gate
    FirstIdentities,    \* what the operator may have enrolled before the first request
    MaxSensitiveCalls,  \* MAX_SENSITIVE_CALLS of the host
    MaxRequests,        \* bound: calls of request() that pass the host
    MaxRevision         \* bound: changes of the trusted identities after that

ASSUME GatewayAssumption ==
    /\ Lifetime \in MinLifetime..MaxLifetime
    /\ MaxRequests \in Nat /\ MaxSensitiveCalls \in Nat /\ MaxRevision \in Nat
    /\ \A records \in FirstIdentities, k \in Keys :
          records[k] # None => records[k] \in [role : Roles, enrolled : {0}, until : Times,
              status : {"active"}, predecessor : {None}, transition : {None}]

\* The gate of the gateway issues one capability per authorized request and
\* consumes it in the same call.
Calls == 1..MaxRequests

Capabilities == Calls

Profiles == {"wallet-guard"}

Actions == {WalletGuardIntent(k, v, r) : k \in Calls, v \in Views, r \in Rpcs}

\* commitContext: the view and the hash of the policy.
Contexts == {<<v, Policy>> : v \in Views}

VARIABLES
    capabilityState, binding, lastTrustedTimeMs, call, downstream,  \* of the gate
    context,    \* the host's live origin, chain and account
    request,    \* per request id: the promise the page holds and what it rests on
    used,       \* usedRunIds, usedPreflightHashes and usedWitnessHashes
    log         \* the host's sensitiveCalls, each with the view live at the call

gateVars == <<capabilityState, binding, lastTrustedTimeMs, call, downstream>>

gatewayVars == <<trustVars, gateVars, context, request, used, log>>

Gate == INSTANCE SingleUseGate

Unused == [pc |-> "unused", rpc |-> None, observed |-> None, result |-> None, sent |-> FALSE]

GatewayInit ==
    /\ identities \in FirstIdentities
    /\ revision = 0 /\ trustClock = 0 /\ verified = {}
    /\ Gate!Init
    /\ context \in Views
    /\ request = [k \in Calls |-> Unused]
    /\ used = [runs |-> {}, receipts |-> {}, acks |-> {}]
    /\ log = <<>>

-----------------------------------------------------------------------------
(* Helpers *)

InFlight == {k \in Calls : request[k].pc \in {"waiting", "settled"}}

\* Mutant of HostAdmits: calls that are still under way are not counted.
HostAdmitsByLog == Len(log) < MaxSensitiveCalls

\* request() of the host: room is reserved before the gateway is called.
HostAdmits == Len(log) + Cardinality(InFlight) < MaxSensitiveCalls

\* requestCounter: ids are never reused, also when the request is declined.
IsNextId(k) == /\ request[k].pc = "unused"
               /\ \A j \in 1..(k - 1) : request[j].pc # "unused"

Admitted(k) == IsNextId(k) /\ HostAdmits

Settle(k) == request' = [request EXCEPT ![k].pc = "settled"]

\* captureWalletGuardTrustedContext: exactly one synchronous delivery counts.
CaptureTrustedContext(terminals) == IF terminals = <<"context">> THEN context ELSE None

\* sampleTrustedContext: what sampling the live context may give.
Sampled == {CaptureTrustedContext(terminals) :
               terminals \in {<<>>, <<"context">>, <<"failure">>, <<"context", "context">>}}

Allows(k, v, rpc) ==
    /\ Normalizes(v, rpc)
    /\ Evaluate(WalletGuardIntent(k, v, rpc), Policy, "not_run") = "ALLOW"

Execution(k, v, rpc) ==
    [profile |-> "wallet-guard", action |-> WalletGuardIntent(k, v, rpc), context |-> <<v, Policy>>]

-----------------------------------------------------------------------------
(* The witness supplier, witness-authorization.mjs *)

\* assertVerifiedEvidenceContinuity, assertReceiptBinding and the two checks of
\* the window: the result is about this evidence, the receipt about this
\* request, and the identities are trusted to the end of the capability.
SupplierAccepts(result, e, action, issued, expires) ==
    /\ ResultIsAbout(result, e.envelope, e.ack)
    /\ result.until <= e.ack.until
    /\ e.envelope.receipt.phase = "preflight" /\ e.envelope.receipt.outcome = "allow"
    /\ e.envelope.receipt.action = action
    /\ e.envelope.receipt.occurred <= issued
    /\ issued <= result.now /\ result.now < expires
    /\ expires <= result.until

-----------------------------------------------------------------------------
(* request() of the gateway *)

\* The context cannot be sampled, the request does not normalize, or the policy
\* does not allow it: neither the clock nor the supplier is asked.
Decline(k, rpc) ==
    /\ Admitted(k)
    /\ None \in Sampled \/ ~Allows(k, context, rpc)
    /\ request' = [request EXCEPT ![k] = [Unused EXCEPT !.pc = "settled"]]
    /\ UNCHANGED <<trustVars, gateVars, context, used, log>>

\* The clock fails, or the supplier does because there is no evidence, it does not
\* verify, or it is about something else.  The trust life cycle keeps the clock
\* sample of a verification it made.
RefuseAuthorization(k, rpc, sample) ==
    /\ Admitted(k)
    /\ Allows(k, context, rpc)
    /\ trustClock' = IF SampleAccepted(sample) THEN sample ELSE trustClock
    /\ request' = [request EXCEPT ![k] = [Unused EXCEPT !.pc = "settled"]]
    /\ UNCHANGED <<identities, revision, verified, gateVars, context, used, log>>

\* Mutant of Replayed: only the receipt is remembered.
ReplayedReceipt(receipt, ack) == receipt \in used.receipts

Replayed(receipt, ack) ==
    \/ receipt.run \in used.runs
    \/ receipt \in used.receipts
    \/ ack \in used.acks

\* The replay identities are reserved before the capability is issued, for good.
Reserve(receipt, ack) ==
    used' = [runs |-> used.runs \union {receipt.run},
             receipts |-> used.receipts \union {receipt},
             acks |-> used.acks \union {ack}]

\* issueReferenceAuthorizationForTest and consume() up to the observer's answer.
IssueAndConsume(k, b, witnessValidUntil, sample) ==
    /\ Gate!ValidBinding(b, witnessValidUntil)
    /\ binding' = [binding EXCEPT ![k] = b]
    /\ Gate!SampleGateClock(sample)
    /\ IF Gate!Accepted(sample) /\ b.issued <= sample /\ sample < b.expires
       THEN /\ Gate!SetState(k, "VALIDATING")
            /\ call' = [call EXCEPT ![k] = [pc |-> "observing", cap |-> k, first |-> sample]]
       ELSE /\ Gate!SetState(k, "REJECTED")
            /\ UNCHANGED call
    /\ UNCHANGED downstream

\* observeBinding runs in the context the request was authorized in; it can
\* still fail.
Authorize(k, rpc, e, verifiedAt) ==
    /\ Admitted(k)
    /\ Allows(k, context, rpc)
    /\ VerifyAuthorizationCandidate(e, verifiedAt)
    /\ \E issued \in Times, consumedAt \in Samples, sampled \in Sampled :
          LET exec == Execution(k, context, rpc)
              result == VerificationResult(e, verifiedAt)
              b == [exec |-> exec, issued |-> issued, expires |-> issued + Lifetime]
          IN  /\ SupplierAccepts(result, e, exec.action, b.issued, b.expires)
              /\ ~Replayed(result.receipt, result.ack)
              /\ Reserve(result.receipt, result.ack)
              /\ IssueAndConsume(k, b, result.until, consumedAt)
              /\ request' = [request EXCEPT ![k] =
                    [pc |-> IF capabilityState'[k] = "REJECTED" THEN "settled" ELSE "waiting",
                     rpc |-> rpc, result |-> result, sent |-> FALSE,
                     observed |-> IF sampled = None THEN None ELSE exec]]
    /\ UNCHANGED <<context, log>>

-----------------------------------------------------------------------------
(* The second half: gate, executeDownstream and the provider *)

\* Mutant of ExecuteDownstream: the prepared request is sent without a new sample.
ExecuteDownstreamUnsampled(k, sampled) ==
    IF Len(log) < MaxSensitiveCalls
    THEN /\ log' = Append(log, [id |-> k, view |-> context, rpc |-> request[k].rpc])
         /\ request' = [request EXCEPT ![k].sent = TRUE]
    ELSE UNCHANGED <<log, request>>

\* executeDownstream: the context is sampled and compared, intent and policy are
\* evaluated again and the provider is called, in one step.  A failure
\* reaches the gate as a rejected promise.
ExecuteDownstream(k, sampled) ==
    IF /\ sampled # None
       /\ <<sampled, Policy>> = request[k].observed.context
       /\ WalletGuardIntent(k, sampled, request[k].rpc) = request[k].observed.action
       /\ Allows(k, sampled, request[k].rpc)
       /\ Len(log) < MaxSensitiveCalls
    THEN /\ log' = Append(log, [id |-> k, view |-> context, rpc |-> request[k].rpc])
         /\ request' = [request EXCEPT ![k].sent = TRUE]
    ELSE UNCHANGED <<log, request>>

\* The observer failed, or the gate rejects the capability at its second check.
ResumeRejected(k, sample) ==
    /\ \/ Gate!ObserverRejects(k, request[k].observed)
       \/ Gate!ObserverMatches(k, request[k].observed, sample) /\ downstream' = downstream
    /\ Settle(k)
    /\ UNCHANGED <<trustVars, context, used, log>>

ResumeForwarding(k, sample, sampled) ==
    /\ Gate!ObserverMatches(k, request[k].observed, sample)
    /\ downstream' # downstream
    /\ ExecuteDownstream(k, sampled)
    /\ UNCHANGED <<trustVars, context, used>>

\* Success needs a request that was sent.
ProviderAnswers(k, success) ==
    /\ success => request[k].sent
    /\ Gate!CompleteConsumption(k, success)
    /\ Settle(k)
    /\ UNCHANGED <<trustVars, context, used, log>>

\* The finally clause of the host.
Release(k) ==
    /\ request[k].pc = "settled"
    /\ request' = [request EXCEPT ![k].pc = "done"]
    /\ UNCHANGED <<trustVars, gateVars, context, used, log>>

\* setTrustedOrigin, setChainId and setAccounts of the host.
ContextChanges(view) ==
    /\ context' = view
    /\ UNCHANGED <<trustVars, gateVars, request, used, log>>

TrustChanges ==
    /\ revision < MaxRevision
    /\ AdminStep
    /\ UNCHANGED <<gateVars, context, request, used, log>>

-----------------------------------------------------------------------------

RequestStep(k) ==
    /\ Admitted(k)
    /\ \E rpc \in Rpcs :
          \/ Decline(k, rpc)
          \/ \E sample \in Samples : RefuseAuthorization(k, rpc, sample)
          \/ \E e \in Evidence, verifiedAt \in Times : Authorize(k, rpc, e, verifiedAt)

ResumeStep(k) ==
    \E sample \in Samples :
        \/ ResumeRejected(k, sample)
        \/ \E sampled \in Sampled : ResumeForwarding(k, sample, sampled)

GatewayNext ==
    \/ \E k \in Calls : \/ RequestStep(k) \/ ResumeStep(k) \/ Release(k)
                        \/ \E success \in BOOLEAN : ProviderAnswers(k, success)
    \/ \E view \in Views : ContextChanges(view)
    \/ TrustChanges

GatewaySpec == GatewayInit /\ [][GatewayNext]_gatewayVars

-----------------------------------------------------------------------------
(* Properties *)

\* Whatever reaches the provider is the request the page made, in the context it
\* was authorized in and still allowed there; the capability was in its window; the
\* window lies inside a verification result that names this action; and the keys
\* behind the result had their roles and were not retired before it was given.
SentIsBacked ==
    \A i \in DOMAIN log :
        LET k == log[i].id
            r == request[k].result
            b == binding[k]
        IN  /\ b.exec = Execution(k, log[i].view, log[i].rpc)
            /\ log[i].rpc = request[k].rpc /\ Allows(k, log[i].view, log[i].rpc)
            /\ \E j \in DOMAIN downstream : /\ downstream[j].cap = k
                                            /\ b.issued <= downstream[j].at
                                            /\ downstream[j].at < b.expires
            /\ r \in verified
            /\ r.receipt.action = b.exec.action /\ r.receipt.occurred <= b.issued
            /\ b.issued <= r.now /\ b.expires <= r.until

\* A run, a receipt and an acknowledgement back at most one capability, and a
\* request is sent at most once.
EvidenceUsedOnce ==
    /\ \A j, k \in Calls :
          LET a == request[j].result
              b == request[k].result
          IN  a # None /\ b # None /\ j # k =>
                  a.receipt.run # b.receipt.run /\ a.receipt # b.receipt /\ a.ack # b.ack
    /\ \A i, j \in DOMAIN log : log[i].id = log[j].id => i = j

\* The host never has to turn away a request it admitted: there is room in its log
\* for every request under way that has not been sent yet.
AdmittedHasRoom ==
    Len(log) + Cardinality({k \in InFlight : ~request[k].sent}) <= MaxSensitiveCalls
=============================================================================
