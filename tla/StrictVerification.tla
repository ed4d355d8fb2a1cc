-------------------------- MODULE StrictVerification --------------------------
(***************************************************************************)
(* The strict profile: core/strict-verification/                           *)
(* pom-rx-v01-profiled-verifier.mjs with its five checkers, the verdict's  *)
(* truth table, and the policy capability that binds a verifier.           *)
(*                                                                         *)
(* A capability lives as long as the callback it is given to; the callback *)
(* may use it several times, keep it, or open another one inside.  What is *)
(* measured on disk may change between two measurements.                   *)
(***************************************************************************)
EXTENDS ReceiptChain

CONSTANTS
    MaxCapabilities,        \* bound: capabilities made
    LocalPolicies,          \* [accepted : set of [verifier, runtime], withdrawn : set of [verifier, at]]
    Instants,               \* trusted evaluation instants
    Verifiers,              \* artifact digests that may be measured
    Pinned                  \* the digest the host pinned

VARIABLES
    capabilities,       \* the capabilities made so far: [active, used, policy, instant]
    consulted,          \* history: how often each was taken to its policy
    measured,           \* the digest of the verifier's files on disk
    verdict             \* the last verdict: [capability, verifier, status]

strictVars == <<capabilities, consulted, measured, verdict>>

StrictInit == /\ capabilities = <<>>
              /\ consulted = <<>>
              /\ measured = Pinned
              /\ verdict = [capability |-> 0, verifier |-> Pinned, status |-> "indeterminate"]

-----------------------------------------------------------------------------
(* The verdict on a chain *)

Adjacent(receipts) == {<<receipts[i - 1], receipts[i]>> : i \in 2..Len(receipts)}

\* What every checker asks for before it looks; a violation is an internal error.
CheckerAccepts(receipts) ==
    /\ Len(receipts) \in 1..Len(Phases)
    /\ receipts[1].phase = "preflight"
    /\ \A pair \in Adjacent(receipts) : PhaseIndex(pair[2]) = PhaseIndex(pair[1]) + 1
    /\ \A r \in Range(receipts) : r.outcome \in PhaseOutcomes[r.phase] /\ r.results # {}

ActionContinuity(receipts) ==
    {"ACTION_CONTINUITY" : pair \in {q \in Adjacent(receipts) : q[1].action # q[2].action}}

InputContinuity(receipts) ==
    {"INPUT_CONTINUITY" : pair \in {q \in Adjacent(receipts) : q[1].input # q[2].input}}

ExecutionAssertionConsistency(receipts) ==
    {"EXECUTION_ASSERTION_CONFLICT" : r \in {x \in Range(receipts) :
        x.phase = "execution" /\ x.outcome = "accepted" /\ x.results # {"pass"}}}

ReconciliationAssertionConsistency(receipts) ==
    {"RECONCILIATION_ASSERTION_CONFLICT" : r \in {x \in Range(receipts) :
        x.phase = "reconciliation" /\ x.outcome = "matched" /\ x.results # {"pass"}}}

ReceiptIdUniqueness(receipts) ==
    {"DUPLICATE_RECEIPT_ID" : i \in {j \in DOMAIN receipts : \E l \in 1..j - 1 :
        receipts[l].id = receipts[j].id}}

StrictInvariants(receipts) ==
    ActionContinuity(receipts) \union InputContinuity(receipts)
    \union ExecutionAssertionConsistency(receipts)
    \union ReconciliationAssertionConsistency(receipts)
    \union ReceiptIdUniqueness(receipts)

LinkDiagnostics(receipts) ==
    UNION {{d[2] : d \in {x \in
        {<<PhaseIndex(pair[2]) # PhaseIndex(pair[1]) + 1, "CHAIN_PHASE_INVALID">>,
         <<pair[2].previous # CommitPomRxReceipt(pair[1]), "RECEIPT_HASH_LINK_INVALID">>,
         <<pair[2].occurred < pair[1].occurred, "CHAIN_TIMESTAMP_INVALID">>,
         <<pair[2].shared # receipts[1].shared, "CHAIN_SHARED_FIELD_CHANGED">>} : x[1]}}
        : pair \in Adjacent(receipts)}

\* Mutant of CheckBaseChain: a rejected execution may be reconciled.
CheckBaseChainReconciled(receipts, allowPartial) ==
    LET n == Len(receipts)
        first == receipts[1]
        execution == FirstOf(receipts, "execution")
        reconciled == FirstOf(receipts, "reconciliation") # {}
    IN  IF first.phase # "preflight" THEN {"CHAIN_PHASE_INVALID"}
        ELSE LinkDiagnostics(receipts) \union {d[2] : d \in {x \in
            {<<first.outcome = "deny" /\ n # 1, "CHAIN_PHASE_INVALID">>,
             <<first.outcome = "allow" /\ ~allowPartial /\ n < 2, "PARTIAL_CHAIN_FORBIDDEN">>,
             <<~allowPartial /\ ~reconciled /\ \E e \in execution : e.outcome = "accepted",
               "PARTIAL_CHAIN_FORBIDDEN">>} : x[1]}}

\* Every error is collected, and only a wrong first phase ends the search.
CheckBaseChain(receipts, allowPartial) ==
    LET n == Len(receipts)
        first == receipts[1]
        execution == FirstOf(receipts, "execution")
        reconciled == FirstOf(receipts, "reconciliation") # {}
    IN  IF first.phase # "preflight" THEN {"CHAIN_PHASE_INVALID"}
        ELSE LinkDiagnostics(receipts) \union {d[2] : d \in {x \in
            {<<first.outcome = "deny" /\ n # 1, "CHAIN_PHASE_INVALID">>,
             <<first.outcome = "allow" /\ ~allowPartial /\ n < 2, "PARTIAL_CHAIN_FORBIDDEN">>,
             <<~allowPartial /\ ~reconciled /\ \E e \in execution : e.outcome = "accepted",
               "PARTIAL_CHAIN_FORBIDDEN">>,
             <<reconciled /\ \E e \in execution : e.outcome = "rejected",
               "CHAIN_PHASE_INVALID">>} : x[1]}}

CommitStrictReceipts(receipts) ==
    /\ Len(receipts) \in 1..Len(Phases)
    /\ \A r \in Range(receipts) : ValidatePomRxReceipt(r)

StructuralErrorCodes ==
    {"RECEIPT_HASH_LINK_INVALID", "CHAIN_PHASE_INVALID", "CHAIN_TIMESTAMP_INVALID",
     "CHAIN_SHARED_FIELD_CHANGED", "PARTIAL_CHAIN_FORBIDDEN", "ACTION_CONTINUITY",
     "INPUT_CONTINUITY", "EXECUTION_ASSERTION_CONFLICT", "RECONCILIATION_ASSERTION_CONFLICT",
     "DUPLICATE_RECEIPT_ID"}

\* verifyPomRxChainProfiled once the verifier is bound.
StrictVerdict(receipts, allowPartial) ==
    LET base == CheckBaseChain(receipts, allowPartial)
    IN  CASE ~CommitStrictReceipts(receipts) ->
                [status |-> "indeterminate", codes |-> {"SCHEMA_INVALID"}]
          [] CommitStrictReceipts(receipts) /\ base # {} ->
                [status |-> "nonconformant", codes |-> base]
          [] CommitStrictReceipts(receipts) /\ base = {} /\ ~CheckerAccepts(receipts) ->
                [status |-> "indeterminate", codes |-> {"INTERNAL_VERIFIER_ERROR"}]
          [] OTHER ->
                [status |-> IF StrictInvariants(receipts) = {} THEN "conformant"
                                                               ELSE "nonconformant",
                 codes |-> StrictInvariants(receipts)]

\* validateTruthTable, without which no verdict is given.
TruthTable(v) ==
    v.status = CASE v.codes = {} -> "conformant"
                 [] v.codes # {} /\ v.codes \subseteq StructuralErrorCodes -> "nonconformant"
                 [] OTHER -> "indeterminate"

-----------------------------------------------------------------------------
(* Capabilities *)

\* withFreshPomRxPolicyCapability up to the callback.
WithFreshCapability(policy, instant) ==
    /\ Len(capabilities) < MaxCapabilities
    /\ capabilities' = Append(capabilities,
          [active |-> TRUE, used |-> FALSE, policy |-> policy, instant |-> instant])
    /\ consulted' = Append(consulted, 0)
    /\ UNCHANGED <<measured, verdict>>

\* Callbacks are synchronous, so the innermost one returns first.
CallbackReturns(k) ==
    /\ capabilities[k].active
    /\ \A l \in DOMAIN capabilities : capabilities[l].active => l <= k
    /\ capabilities' = [capabilities EXCEPT ![k].active = FALSE]
    /\ UNCHANGED <<consulted, measured, verdict>>

\* inspect...HostPins and verifyPomRxArtifactIdentity: what has to hold before the
\* capability is taken to its policy.
Bindable(c) == c.active /\ ~c.used /\ measured = Pinned

\* No withdrawal of the verifier is in effect, and the policy accepts it on this runtime.
PolicySelects(c, verifier, runtime) ==
    /\ \A w \in c.policy.withdrawn : w.verifier = verifier => w.at > c.instant
    /\ [verifier |-> verifier, runtime |-> runtime] \in c.policy.accepted

\* Mutant of UsedUp: a binding that the policy refuses leaves the capability unused.
UsedUpOnSuccess(c, runtime) == [c EXCEPT !.used = @ \/ (Bindable(c) /\ PolicySelects(c, measured, runtime))]

\* bindFreshPomRxPolicyCapability sets used before it asks the policy anything.
UsedUp(c, runtime) == [c EXCEPT !.used = @ \/ Bindable(c)]

\* The whole of verifyPomRxChainProfiled with valid options; a capability may be
\* presented again, or after its callback returned.
VerifyPomRxChainProfiled(k, runtime, allowPartial) ==
    LET c == capabilities[k]
        bound == Bindable(c) /\ PolicySelects(c, measured, runtime)
    IN  /\ capabilities' = [capabilities EXCEPT ![k] = UsedUp(c, runtime)]
        /\ consulted' = [consulted EXCEPT ![k] = @ + IF Bindable(c) THEN 1 ELSE 0]
        /\ verdict' = [capability |-> k, verifier |-> measured,
                       status |-> IF bound THEN StrictVerdict(chain, allowPartial).status
                                           ELSE "indeterminate"]
        /\ UNCHANGED measured

\* Somebody replaces the verifier's files.
FilesChange(digest) ==
    /\ measured' = digest
    /\ UNCHANGED <<capabilities, consulted, verdict>>

StrictNext ==
    \/ \E policy \in LocalPolicies, instant \in Instants : WithFreshCapability(policy, instant)
    \/ \E k \in DOMAIN capabilities :
          \/ CallbackReturns(k)
          \/ \E runtime \in {"runtime", "other"}, allowPartial \in BOOLEAN :
                VerifyPomRxChainProfiled(k, runtime, allowPartial)
    \/ \E digest \in Verifiers : FilesChange(digest)

StrictSpec == StrictInit /\ [][StrictNext]_strictVars

-----------------------------------------------------------------------------
(* Properties *)

\* The two verifiers, written apart, agree: the strict one finds a chain sound exactly
\* when the published one does, calls it conformant only then and only when
\* action and input never changed, and always fits its verdict to the truth table:
\* no chain makes a checker fail or a verdict impossible.
StrictRefinesLegacy ==
    \A allowPartial \in BOOLEAN :
        LET v == StrictVerdict(chain, allowPartial)
            legacy == VerifyPomRxChain(chain, allowPartial)
        IN  /\ TruthTable(v) /\ "INTERNAL_VERIFIER_ERROR" \notin v.codes
            /\ legacy <=> /\ v.status # "indeterminate"
                          /\ CommitStrictReceipts(chain) => CheckBaseChain(chain, allowPartial) = {}
            /\ v.status = "conformant" =>
                  /\ legacy
                  /\ \A r \in Range(chain) : r.action = chain[1].action /\ r.input = chain[1].input

\* A verdict on the receipts is given at most once per capability, by the pinned files
\* and under the policy the capability was made with: a capability that the
\* policy refused once gives none, whatever runtime or files it is presented with later.
VerdictIsEarned ==
    LET k == verdict.capability
    IN  verdict.status # "indeterminate" =>
            /\ consulted[k] = 1
            /\ verdict.verifier = Pinned
            /\ \E runtime \in {"runtime", "other"} : PolicySelects(capabilities[k], Pinned, runtime)
=============================================================================
