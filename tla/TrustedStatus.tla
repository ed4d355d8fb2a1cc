---------------------------- MODULE TrustedStatus ----------------------------
(***************************************************************************)
(* Publication of the trusted commit status of one pull-request head:      *)
(* scripts/publish-trusted-pr-status.mjs and the script that withdraws it  *)
(* when the head departs, scripts/invalidate-trusted-pr-head-status.mjs.   *)
(*                                                                         *)
(* Several jobs may run for the same head while main moves.  A call to the *)
(* service takes effect and is answered, takes effect unanswered, is lost, *)
(* or outlives the 20 seconds its caller waits and takes effect later.     *)
(***************************************************************************)
EXTENDS Naturals, FiniteSets

CONSTANTS
    Publishers,     \* jobs that publish a status
    Bases,          \* commits main may be at
    Nobody          \* the status was never set

MaxAttempts == 3

VARIABLES
    main,           \* the commit main is at
    status,         \* the status of the head: [state, by, attempt]
    late,           \* calls that may still take effect
    publisher,      \* per job: [pc, state, base]
    attempts,       \* attempts of the withdrawing job, or MaxAttempts + 1 when it succeeded
    overtaken       \* history: a late call took effect after its job had invalidated

statusVars == <<main, status, late, publisher, attempts, overtaken>>

StatusInit ==
    /\ main \in Bases
    /\ status = [state |-> "pending", by |-> Nobody, attempt |-> 0]
    /\ late = {}
    /\ publisher \in [Publishers -> [pc : {"lookup"}, state : {"success", "failure"}, base : Bases]]
    /\ attempts = 0
    /\ overtaken = FALSE

-----------------------------------------------------------------------------
(* The service *)

\* A POST whose answer reaches the caller and is the one it asked for.
Posted(call) == status' = call /\ UNCHANGED late

\* A POST that fails for the caller, whatever became of it.
PostFailed(call) ==
    \/ status' = call /\ UNCHANGED late
    \/ UNCHANGED <<status, late>>
    \/ late' = late \union {call} /\ UNCHANGED status

LateCall(call) ==
    /\ call \in late
    /\ late' = late \ {call}
    /\ status' = call
    /\ overtaken' = (overtaken \/ (call.by \in Publishers /\ publisher[call.by].pc = "failed"))
    /\ UNCHANGED <<main, publisher, attempts>>

MainMoves(base) ==
    /\ main' = base
    /\ UNCHANGED <<status, late, publisher, attempts, overtaken>>

-----------------------------------------------------------------------------
(* A job *)

Goto(p, pc) ==
    /\ publisher' = [publisher EXCEPT ![p].pc = pc]
    /\ UNCHANGED <<main, attempts, overtaken>>

\* The first lookup; its failure is thrown at once.
LookupBase(p) ==
    /\ publisher[p].pc = "lookup"
    /\ \/ main = publisher[p].base /\ Goto(p, "post")
       \/ Goto(p, "refused")
    /\ UNCHANGED <<status, late>>

PostStatus(p) ==
    LET call == [state |-> publisher[p].state, by |-> p, attempt |-> 0]
    IN  /\ publisher[p].pc = "post"
        /\ \/ Posted(call) /\ Goto(p, "confirm")
           \/ PostFailed(call) /\ Goto(p, "invalidate")

\* Mutant of ConfirmBase: a failure of the second lookup is only thrown.
ConfirmBaseThrowing(p) ==
    /\ publisher[p].pc = "confirm"
    /\ \/ main = publisher[p].base /\ Goto(p, "published")
       \/ Goto(p, "failed")
    /\ UNCHANGED <<status, late>>

\* The second lookup.
ConfirmBase(p) ==
    /\ publisher[p].pc = "confirm"
    /\ \/ main = publisher[p].base /\ Goto(p, "published")
       \/ Goto(p, "invalidate")
    /\ UNCHANGED <<status, late>>

\* invalidateUncertainPublication: the cause is thrown again, or with the failure of
\* the invalidation as an AggregateError.
InvalidateUncertainPublication(p) ==
    LET call == [state |-> "pending", by |-> p, attempt |-> 0]
    IN  /\ publisher[p].pc = "invalidate"
        /\ \/ Posted(call) /\ Goto(p, "failed")
           \/ PostFailed(call) /\ Goto(p, "unresolved")

\* The job is cancelled.
Cancel(p) ==
    /\ publisher[p].pc \in {"lookup", "post", "confirm", "invalidate"}
    /\ Goto(p, "cancelled")
    /\ UNCHANGED <<status, late>>

-----------------------------------------------------------------------------
(* The withdrawing job *)

InvalidateTrustedPrHead ==
    LET call == [state |-> "pending", by |-> Nobody, attempt |-> attempts]
    IN  /\ attempts < MaxAttempts
        /\ \/ Posted(call) /\ attempts' = MaxAttempts + 1
           \/ PostFailed(call) /\ attempts' = attempts + 1
        /\ UNCHANGED <<main, publisher, overtaken>>

StatusNext ==
    \/ \E p \in Publishers : \/ LookupBase(p) \/ PostStatus(p) \/ ConfirmBase(p)
                             \/ InvalidateUncertainPublication(p) \/ Cancel(p)
    \/ InvalidateTrustedPrHead
    \/ \E call \in late : LateCall(call)
    \/ \E base \in Bases : MainMoves(base)

StatusSpec == StatusInit /\ [][StatusNext]_statusVars

-----------------------------------------------------------------------------
(* Properties *)

\* Whoever set a success on the head has not reported a plain failure: such a job never
\* posted, or invalidated what it posted; unless the service applied a call that
\* the job had given up on.
FailureLeavesNoSuccess ==
    status.state = "success" =>
        publisher[status.by].pc \notin {"refused", "failed"} \/ overtaken
=============================================================================
