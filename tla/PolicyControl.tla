---------------------------- MODULE PolicyControl ----------------------------
(***************************************************************************)
(* wallet-guard/policy-controller.mjs: one policy, its revision and its    *)
(* kill switch, changed by compare-and-set.                                *)
(*                                                                         *)
(* Every operation holds the lock from its first line to its last.  The    *)
(* calls are synchronous, but a call nested in another one is what the     *)
(* lock is for; so an operation enters in one step and does its work in    *)
(* another.  Operators act on a snapshot they read earlier.                *)
(***************************************************************************)
EXTENDS WalletPolicy

CONSTANTS
    Operators,      \* callers of the controller
    Policies,       \* normalised candidates, with their id
    FirstPolicy,    \* the policy the controller is created with
    Intents,        \* intents that are evaluated
    Simulations,    \* simulation statuses
    LastRevision    \* Number.MAX_SAFE_INTEGER

ASSUME ControlAssumption == LastRevision \in Nat /\ FirstPolicy.killSwitch \in BOOLEAN

VARIABLES
    current,        \* the published snapshot: [policy, revision]
    operation,      \* the operation that holds the lock, or Unlocked
    seen,           \* per operator: the snapshot it read last
    killed,         \* history: a kill was reported since the operation entered
    answer          \* history: the last evaluation

controlVars == <<current, operation, seen, killed, answer>>

Unlocked == [kind |-> "none"]

ControlInit == /\ current = [policy |-> FirstPolicy, revision |-> 0]
               /\ operation = Unlocked
               /\ seen = [o \in Operators |-> current]
               /\ killed = FALSE
               /\ answer = [decision |-> "DENY", revision |-> 0]

ReadSnapshot(o) ==
    /\ seen' = [seen EXCEPT ![o] = current]
    /\ UNCHANGED <<current, operation, killed, answer>>

\* Mutant of EnterOperation: a kill that changes nothing needs no lock.
EnterOperationToChange(requested) ==
    IF requested.kind = "kill" /\ requested.base = current /\ current.policy.killSwitch
    THEN killed' = TRUE /\ UNCHANGED <<current, operation, seen, answer>>
    ELSE /\ operation = Unlocked
         /\ operation' = requested
         /\ killed' = FALSE
         /\ UNCHANGED <<current, seen, answer>>

\* A nested call fails and changes nothing.
EnterOperation(requested) ==
    /\ operation = Unlocked
    /\ operation' = requested
    /\ killed' = FALSE
    /\ UNCHANGED <<current, seen, answer>>

LeaveOperation == operation' = Unlocked /\ UNCHANGED seen

\* expected_revision is that of the snapshot the operator read.
IsFresh == operation.base.revision = current.revision

Publish(policy) == current' = [policy |-> policy, revision |-> current.revision + 1]

\* Replaces the policy, kill switch included, or fails.
ReplacePolicy ==
    /\ operation.kind = "replace"
    /\ LeaveOperation
    /\ IF IsFresh /\ operation.policy.id = FirstPolicy.id /\ current.revision < LastRevision
       THEN Publish(operation.policy)
       ELSE UNCHANGED current
    /\ UNCHANGED <<killed, answer>>

EngageKillSwitch ==
    /\ operation.kind = "kill"
    /\ LeaveOperation
    /\ IF IsFresh /\ ~current.policy.killSwitch /\ current.revision < LastRevision
       THEN Publish([current.policy EXCEPT !.killSwitch = TRUE])
       ELSE UNCHANGED current
    /\ killed' = (IsFresh /\ current'.policy.killSwitch)
    /\ UNCHANGED answer

EvaluateCurrent ==
    /\ operation.kind = "evaluate"
    /\ LeaveOperation
    /\ answer' = [decision |-> Evaluate(operation.intent, current.policy, operation.simulation),
                  revision |-> current.revision]
    /\ UNCHANGED <<current, killed>>

Requests(o) ==
    {[kind |-> "replace", base |-> seen[o], policy |-> p] : p \in Policies}
    \union {[kind |-> "kill", base |-> seen[o]]}
    \union {[kind |-> "evaluate", intent |-> i, simulation |-> simulation] :
               i \in Intents, simulation \in Simulations}

ControlNext ==
    \/ \E o \in Operators : \/ ReadSnapshot(o)
                            \/ \E requested \in Requests(o) : EnterOperation(requested)
    \/ ReplacePolicy
    \/ EngageKillSwitch
    \/ EvaluateCurrent

ControlSpec == ControlInit /\ [][ControlNext]_controlVars

-----------------------------------------------------------------------------
(* Properties *)

\* A kill switch that was reported as engaged is cleared only by a replacement whose
\* author had read this very killed state, and that entered after the report;
\* until then every evaluation denies.
KillSwitchHolds ==
    [][/\ (current.policy.killSwitch /\ ~current'.policy.killSwitch) =>
             operation.base = current /\ ~killed
       /\ (current.policy.killSwitch /\ answer' # answer) => answer'.decision = "DENY"]_controlVars
=============================================================================
