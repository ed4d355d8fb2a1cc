---------------------------- MODULE BridgeServer ----------------------------
(***************************************************************************)
(* wallet-guard/prototype/server.mjs: the loopback server between the      *)
(* gateway and the browser that holds the wallet, with the callback        *)
(* transport (trusted-provider-transport.mjs) that hands it the one        *)
(* sensitive command of the session (maxSensitiveCalls is 1).              *)
(*                                                                         *)
(* `req' holds the HTTP requests: what was sent, and where its handler is  *)
(* suspended.  Reading the body and the check before it are merged with    *)
(* the check after it, which repeats it: arriving later is the same as     *)
(* reading slowly.  The journal is used through its abstract contract,     *)
(* OperationRecord, which OperationJournal implements.                     *)
(***************************************************************************)
EXTENDS Naturals, Sequences

CONSTANTS
    Requests,   \* HTTP requests that may be open at the same time
    Views,      \* chain views of the wallet and of the node
    Hashes,     \* transaction hashes
    Command,    \* the one command of the session
    None

Kinds == {"handshake", "deny", "allow", "next", "view", "arm", "dispatched", "result", "settle", "close"}

\* What POST /bridge/result may carry: outcome and the observed wallet context.  A
\* malformed body is treated like an error in a changed context.
Outcomes == Hashes \union {"USER_REJECTED", "INTERNAL_ERROR"}

Results == [outcome : Outcomes, contextMatches : BOOLEAN]

Causes == {"TIMEOUT", "DISPATCH_ACK_TIMEOUT", "SETTLEMENT_TIMEOUT", "DISPATCH_ACK_UNAVAILABLE",
           "RESULT_AFTER_CLOSURE", "UNTRUSTED_LATE_CONTEXT", "INTERNAL_ERROR", "BRIDGE_CLOSED",
           "JOURNAL_WRITE_FAILED", "OBSERVATION_FAILED"}

Statuses == {"AWAITING_LATE_RESULT", "RETAINING_HASH", "OBSERVING", "OBSERVED",
             "OBSERVATION_FAILED", "JOURNAL_WRITE_FAILED"}

\* What state.ambiguous may hold.
Ambiguities == [cause : Causes, hash : Hashes \union {None}, status : Statuses]

ASSUME NoneAssumption == None \notin Outcomes /\ None \notin Ambiguities

VARIABLES
    srv,        \* flags of the server's state object; pending: state.pending !== null,
                \* journaled: operationJournal !== null
    op,         \* the pending object, which handlers keep after it is dropped
    amb,        \* state.ambiguous
    transport,  \* the callback transport's promise
    disk,       \* the journal record on disk
    queue,      \* journalTail: the writes that wait or run
    writes,     \* the promise of each write
    req         \* the HTTP requests

vars == <<srv, op, amb, transport, disk, queue, writes, req>>

Record == INSTANCE OperationRecord WITH Operations <- {Command}, record <- disk

Ready == [revision |-> 0, state |-> "READY", operation |-> None, hash |-> None,
          terminal |-> "none"]

Init ==
    /\ \E journaled \in BOOLEAN :
          srv = [journaled |-> journaled, connected |-> FALSE, closed |-> FALSE,
                 stopping |-> FALSE, pending |-> FALSE, operationInFlight |-> FALSE,
                 journalFailed |-> FALSE, journalClosed |-> FALSE]
    /\ op = [delivered |-> FALSE, view |-> None, arming |-> FALSE, armed |-> FALSE,
             dispatching |-> FALSE, dispatched |-> FALSE, resultProcessing |-> FALSE,
             receipt |-> FALSE, raw |-> None, candidate |-> None, timer |-> "off"]
    /\ amb = None
    /\ transport = "none"
    /\ disk = Ready
    /\ queue = <<>>
    /\ writes = [w \in {"arm", "dispatch", "hash"} |-> "none"]
    /\ req = [r \in Requests |-> [kind |-> "next", body |-> None, at |-> "idle", reply |-> "none"]]

-----------------------------------------------------------------------------
(* Requests *)

At(r, kind, place) == req[r].kind = kind /\ req[r].at = place

Reply(r, reply) == req' = [req EXCEPT ![r] = [kind |-> req[r].kind, body |-> None,
                                              at |-> "replied", reply |-> reply]]

Await(r, place) == req' = [req EXCEPT ![r].at = place]

\* A client sends a request.
Send(r, kind, body) ==
    /\ req[r].at \in {"idle", "replied", "lost"}
    /\ req' = [req EXCEPT ![r] = [kind |-> kind, body |-> body, at |-> "sent", reply |-> "none"]]

\* A request that arrives while the server stops.
RefuseWhileStopping(r) ==
    /\ req[r].at = "sent" /\ srv.stopping
    /\ Reply(r, "error")
    /\ UNCHANGED <<srv, op, amb, transport, disk, queue, writes>>

Arrives(r, kind) == At(r, kind, "sent") /\ ~srv.stopping

-----------------------------------------------------------------------------
(* persistFact, retainCandidate, markAmbiguous *)

\* persistFact: writes run one after the other.
Persist(write) == /\ queue' = Append(queue, write)
                  /\ writes' = [writes EXCEPT ![write] = "queued"]

\* Mutants of Marked: the last cause wins; the observation starts before the hash
\* is retained.
MarkedLatest(cause, candidate) ==
    [cause  |-> cause,
     hash   |-> candidate,
     status |-> IF candidate = None THEN "AWAITING_LATE_RESULT"
                ELSE IF srv.journaled THEN "RETAINING_HASH" ELSE "OBSERVING"]

MarkedObserving(cause, candidate) ==
    [cause  |-> IF amb = None THEN cause ELSE amb.cause,
     hash   |-> IF amb = None THEN candidate ELSE amb.hash,
     status |-> IF candidate = None THEN "AWAITING_LATE_RESULT" ELSE "OBSERVING"]

\* What markAmbiguous, and reconcileAmbiguousCandidate in it, make of amb.
Marked(cause, candidate) ==
    LET known == IF amb = None
                 THEN [cause |-> cause, hash |-> None, status |-> "AWAITING_LATE_RESULT"]
                 ELSE amb
    IN  IF candidate = None \/ known.hash # None \/ srv.journalFailed
        THEN known
        ELSE [known EXCEPT !.hash = candidate,
                           !.status = IF ~srv.journaled THEN "OBSERVING"
                                      ELSE IF op.candidate \in {None, candidate}
                                      THEN "RETAINING_HASH" ELSE "JOURNAL_WRITE_FAILED"]

\* retainCandidate: the first candidate is reserved and written, a later call
\* shares the write.
Retain(candidate) ==
    IF srv.journaled /\ candidate # None /\ writes["hash"] = "none"
    THEN /\ Persist("hash")
         /\ op' = [op EXCEPT !.candidate = candidate, !.timer = "off"]
    ELSE /\ UNCHANGED <<queue, writes>>
         /\ op' = [op EXCEPT !.timer = "off"]

\* markAmbiguous for a pending command that is dropped or was dropped before;
\* reportFailure settles the transport unless it is settled.
Abandon(cause, candidate) ==
    /\ amb' = Marked(cause, candidate)
    /\ Retain(IF amb' # amb /\ amb'.status = "RETAINING_HASH" THEN candidate ELSE None)
    /\ transport' = IF transport = "inflight" THEN "failed" ELSE transport

\* The command is dropped before it was delivered or could reach the wallet.
Cancel == /\ op' = [op EXCEPT !.timer = "off"]
          /\ transport' = "failed"
          /\ UNCHANGED <<amb, queue, writes>>

CloseSession == srv' = [srv EXCEPT !.pending = FALSE, !.closed = TRUE]

GiveUp(cause, candidate) == CloseSession /\ Abandon(cause, candidate)

Drop == CloseSession /\ Cancel

-----------------------------------------------------------------------------
(* /api/handshake, /bridge/next *)

Handshake(r) ==
    /\ Arrives(r, "handshake")
    /\ IF srv.connected \/ srv.closed THEN Reply(r, "error") ELSE Await(r, "node")
    /\ UNCHANGED <<srv, op, amb, transport, disk, queue, writes>>

\* The node's view is there; another handshake or a close may have come first.
HandshakeCaptured(r, nodeView) ==
    /\ At(r, "handshake", "node")
    /\ IF srv.connected \/ srv.closed \/ nodeView # req[r].body
       THEN Reply(r, "error") /\ UNCHANGED srv
       ELSE Reply(r, "ok") /\ srv' = [srv EXCEPT !.connected = TRUE]
    /\ UNCHANGED <<op, amb, transport, disk, queue, writes>>

\* GET /bridge/next: the command is handed out once.
NextCommand(r) ==
    /\ Arrives(r, "next")
    /\ IF srv.closed \/ ~srv.pending \/ op.delivered
       THEN /\ Reply(r, IF srv.closed THEN "closed" ELSE "empty")
            /\ UNCHANGED op
       ELSE /\ Reply(r, "command")
            /\ op' = [op EXCEPT !.delivered = TRUE]
    /\ UNCHANGED <<srv, amb, transport, disk, queue, writes>>

-----------------------------------------------------------------------------
(* /bridge/view, /bridge/arm, /bridge/dispatched *)

BindView(r) ==
    /\ Arrives(r, "view")
    /\ IF srv.pending /\ op.delivered /\ op.view = None THEN Await(r, "node") ELSE Reply(r, "error")
    /\ UNCHANGED <<srv, op, amb, transport, disk, queue, writes>>

\* The node's view is there: bind it, or end the session if the wallet's differs
\* or the chain is no longer the one of the handshake.
BindViewCaptured(r, nodeView, sameGenesis) ==
    /\ At(r, "view", "node")
    /\ IF ~srv.pending \/ srv.closed \/ op.view # None
       THEN /\ Reply(r, "error")
            /\ UNCHANGED <<srv, op, amb, transport, queue, writes>>
       ELSE IF nodeView # req[r].body \/ ~sameGenesis
       THEN /\ Drop /\ Reply(r, "error")
       ELSE /\ op' = [op EXCEPT !.view = nodeView]
            /\ Reply(r, "ok")
            /\ UNCHANGED <<srv, amb, transport, queue, writes>>
    /\ UNCHANGED disk

\* captureNodeChainView fails, in a handshake or a view binding.
CaptureFails(r) ==
    /\ req[r].at = "node"
    /\ Reply(r, "error")
    /\ UNCHANGED <<srv, op, amb, transport, disk, queue, writes>>

Armed(r) == /\ op' = [op EXCEPT !.arming = TRUE, !.armed = TRUE, !.timer = "dispatchAck"]
            /\ Reply(r, "ok")

\* Mutant of Arm: the acknowledgement does not wait for the journal.
ArmBeforeWrite(r) ==
    /\ Arrives(r, "arm")
    /\ IF ~srv.pending \/ srv.closed \/ op.view = None \/ op.armed \/ op.arming
       THEN Reply(r, "error") /\ UNCHANGED <<op, queue, writes>>
       ELSE Armed(r) /\ Persist("arm")
    /\ UNCHANGED <<srv, amb, transport, disk>>

Arm(r) ==
    /\ Arrives(r, "arm")
    /\ IF ~srv.pending \/ srv.closed \/ op.view = None \/ op.armed \/ op.arming
       THEN /\ Reply(r, "error")
            /\ UNCHANGED <<srv, op, amb, transport, queue, writes>>
       ELSE IF op.view # req[r].body
       THEN /\ Drop /\ Reply(r, "error")
       ELSE /\ IF srv.journaled
               THEN /\ op' = [op EXCEPT !.arming = TRUE]
                    /\ Persist("arm") /\ Await(r, "write")
               ELSE Armed(r) /\ UNCHANGED <<queue, writes>>
            /\ UNCHANGED <<srv, amb, transport>>
    /\ UNCHANGED disk

\* The write of arm has ended; deadlines kept running meanwhile.
ArmPersisted(r) ==
    /\ At(r, "arm", "write") /\ writes["arm"] # "queued"
    /\ IF writes["arm"] = "failed" \/ ~srv.pending \/ srv.closed \/ op.armed
       THEN Reply(r, "error") /\ UNCHANGED op
       ELSE Armed(r)
    /\ UNCHANGED <<srv, amb, transport, disk, queue, writes>>

\* Mutant of Dispatched: the deadline is not renewed.
DispatchedUntimed(r) == /\ op' = [op EXCEPT !.dispatching = TRUE, !.dispatched = TRUE,
                                            !.timer = "off"]
                        /\ Reply(r, "ok")

Dispatched(r) == /\ op' = [op EXCEPT !.dispatching = TRUE, !.dispatched = TRUE, !.timer = "result"]
                 /\ Reply(r, "ok")

SignalDispatched(r) ==
    /\ Arrives(r, "dispatched")
    /\ IF ~srv.pending \/ srv.closed \/ ~op.armed \/ op.dispatched \/ op.dispatching
       THEN Reply(r, "error") /\ UNCHANGED <<op, queue, writes>>
       ELSE IF srv.journaled
       THEN /\ op' = [op EXCEPT !.dispatching = TRUE]
            /\ Persist("dispatch") /\ Await(r, "write")
       ELSE Dispatched(r) /\ UNCHANGED <<queue, writes>>
    /\ UNCHANGED <<srv, amb, transport, disk>>

DispatchPersisted(r) ==
    /\ At(r, "dispatched", "write") /\ writes["dispatch"] # "queued"
    /\ IF writes["dispatch"] = "failed" \/ ~srv.pending \/ srv.closed \/ op.dispatched
       THEN Reply(r, "error") /\ UNCHANGED op
       ELSE Dispatched(r)
    /\ UNCHANGED <<srv, amb, transport, disk, queue, writes>>
-----------------------------------------------------------------------------
(* /bridge/result *)

\* extractBoundTransactionCandidate: the hash counts whatever the context is.
Candidate(result) == IF result.outcome \in Hashes THEN result.outcome ELSE None

\* parseWalletGuardBridgeResponse rejects a changed context.
Parses(result) == result.contextMatches

\* No command waits for this result: it can only complete an ambiguous one.
LateResult(r) ==
    /\ Arrives(r, "result") /\ ~(srv.pending /\ op.delivered)
    /\ LET candidate == Candidate(req[r].body)
       IN  IF amb = None \/ candidate = None
           THEN Reply(r, "error") /\ UNCHANGED <<srv, op, amb, transport, queue, writes>>
           ELSE IF amb.status # "AWAITING_LATE_RESULT"
           THEN Reply(r, "error") /\ UNCHANGED <<srv, op, amb, transport, queue, writes>>
           ELSE GiveUp(amb.cause, candidate) /\ Await(r, "reconcile")
    /\ UNCHANGED disk

RefuseResult(r) ==
    /\ Arrives(r, "result") /\ srv.pending /\ op.delivered
    /\ op.receipt \/ op.resultProcessing \/ ~op.armed
    /\ Reply(r, "error")
    /\ UNCHANGED <<srv, op, amb, transport, disk, queue, writes>>

Awaited(r) == /\ Arrives(r, "result") /\ srv.pending /\ op.armed
              /\ ~op.receipt /\ ~op.resultProcessing

\* Mutant of UnacknowledgedResult: the hash is not looked at.
UnacknowledgedResultDropped(r) ==
    /\ Awaited(r) /\ ~op.dispatched
    /\ GiveUp("DISPATCH_ACK_UNAVAILABLE", None)
    /\ Await(r, "reconcile")
    /\ UNCHANGED disk

\* Without a dispatch acknowledgement a result never becomes a normal success.
\* (resultProcessing is set too, but is read only while the command is pending.)
UnacknowledgedResult(r) ==
    /\ Awaited(r) /\ ~op.dispatched
    /\ GiveUp("DISPATCH_ACK_UNAVAILABLE", Candidate(req[r].body))
    /\ Await(r, "reconcile")
    /\ UNCHANGED disk

\* A trusted hash or rejection is kept for settlement; anything else is ambiguous.
ClassifyResult(r) ==
    LET result == req[r].body
    IN  IF Parses(result) /\ result.outcome # "INTERNAL_ERROR"
        THEN /\ op' = [op EXCEPT !.receipt = TRUE, !.raw = result.outcome,
                                  !.candidate = Candidate(result), !.resultProcessing = TRUE,
                                  !.timer = "settlement"]
             /\ Reply(r, "receipt")
             /\ UNCHANGED <<srv, amb, transport, queue, writes>>
        ELSE /\ GiveUp(IF Parses(result) THEN result.outcome ELSE "UNTRUSTED_LATE_CONTEXT",
                       Candidate(result))
             /\ Await(r, "reconcile")

\* Mutant of ReceiveResult: the dispatch need not be acknowledged.
ReceiveResultUndispatched(r) ==
    /\ Awaited(r)
    /\ IF srv.journaled /\ Candidate(req[r].body) # None
       THEN /\ op' = [op EXCEPT !.candidate = Candidate(req[r].body), !.resultProcessing = TRUE]
            /\ Persist("hash") /\ Await(r, "write")
            /\ UNCHANGED <<srv, amb, transport>>
       ELSE ClassifyResult(r)
    /\ UNCHANGED disk

ReceiveResult(r) ==
    /\ Awaited(r) /\ op.dispatched
    /\ IF srv.journaled /\ Candidate(req[r].body) # None
       THEN /\ op' = [op EXCEPT !.candidate = Candidate(req[r].body), !.resultProcessing = TRUE]
            /\ Persist("hash") /\ Await(r, "write")
            /\ UNCHANGED <<srv, amb, transport>>
       ELSE ClassifyResult(r)
    /\ UNCHANGED disk

\* The hash is retained, or the journal failed; the command may be gone.
ResultPersisted(r) ==
    /\ At(r, "result", "write") /\ writes["hash"] # "queued"
    /\ IF writes["hash"] = "failed"
       THEN Reply(r, "error") /\ UNCHANGED <<srv, op, amb, transport, queue, writes>>
       ELSE IF ~srv.pending \/ srv.closed
       THEN GiveUp("RESULT_AFTER_CLOSURE", op.candidate) /\ Await(r, "reconcile")
       ELSE ClassifyResult(r)
    /\ UNCHANGED disk

Reconciling == amb # None /\ amb.status \in {"RETAINING_HASH", "OBSERVING"}

\* The handler has waited for reconciliationPromise.
ResultReconciled(r) ==
    /\ At(r, "result", "reconcile") /\ ~Reconciling
    /\ Reply(r, "ambiguous")
    /\ UNCHANGED <<srv, op, amb, transport, disk, queue, writes>>

\* The rest of reconcileAmbiguousCandidate, after the hash is on disk ...
ReconcileRetained ==
    /\ amb # None /\ amb.status = "RETAINING_HASH" /\ writes["hash"] = "done"
    /\ amb' = [amb EXCEPT !.status = "OBSERVING"]
    /\ UNCHANGED <<srv, op, transport, disk, queue, writes, req>>

\* ... and after observeTransaction.
ReconcileObserved(status) ==
    /\ amb # None /\ amb.status = "OBSERVING"
    /\ amb' = [amb EXCEPT !.status = status]
    /\ UNCHANGED <<srv, op, transport, disk, queue, writes, req>>
-----------------------------------------------------------------------------
(* /bridge/settle, /bridge/close, deadlines *)

\* The receipt is checked and consumed in one step, and the transport gets the
\* result that was kept.
Settle(r) ==
    /\ Arrives(r, "settle")
    /\ IF srv.closed \/ ~srv.pending \/ ~op.receipt \/ req[r].body = "otherReceipt"
       THEN Reply(r, "error") /\ UNCHANGED <<srv, op, transport>>
       ELSE /\ op' = [op EXCEPT !.receipt = FALSE, !.timer = "off"]
            /\ transport' = IF op.raw \in Hashes THEN "resolved" ELSE "rejected"
            /\ srv' = [srv EXCEPT !.pending = FALSE, !.closed = op.raw \notin Hashes]
            /\ Reply(r, "ok")
    /\ UNCHANGED <<amb, disk, queue, writes>>

\* Mutant of Close: the command is dropped without a trace.
CloseUnmarked(r) ==
    /\ Arrives(r, "close")
    /\ IF srv.pending THEN Drop
       ELSE CloseSession /\ UNCHANGED <<op, amb, transport, queue, writes>>
    /\ Reply(r, "ok")
    /\ UNCHANGED disk

\* The code the page gives for closing is not told apart from BRIDGE_CLOSED.
Close(r) ==
    /\ Arrives(r, "close")
    /\ IF ~srv.pending
       THEN /\ srv' = [srv EXCEPT !.closed = TRUE]
            /\ UNCHANGED <<op, amb, transport, queue, writes>>
       ELSE IF op.delivered THEN GiveUp("BRIDGE_CLOSED", op.candidate) ELSE Drop
    /\ Reply(r, "ok")
    /\ UNCHANGED disk

\* Mutant of Deadline: the transport is not told.
DeadlineUnreported ==
    /\ srv.pending /\ op.timer # "off"
    /\ CloseSession
    /\ amb' = IF op.delivered THEN Marked("TIMEOUT", None) ELSE amb
    /\ op' = [op EXCEPT !.timer = "off"]
    /\ UNCHANGED <<transport, disk, queue, writes, req>>

\* The timer of the pending command fires; there is one at a time.
Deadline ==
    /\ srv.pending /\ op.timer # "off"
    /\ IF op.delivered
       THEN GiveUp(CASE op.timer = "dispatchAck" -> "DISPATCH_ACK_TIMEOUT"
                     [] op.timer = "settlement" -> "SETTLEMENT_TIMEOUT"
                     [] OTHER -> "TIMEOUT", op.candidate)
       ELSE Drop
    /\ UNCHANGED <<disk, req>>

-----------------------------------------------------------------------------
(* /api/allow, the gateway and the dispatcher *)

Finish(r, reply) == /\ Reply(r, reply)
                    /\ srv' = [srv EXCEPT !.operationInFlight = FALSE]

\* /api/deny asks the gateway at once, for a request that it does not forward.
Allow(r) ==
    /\ Arrives(r, "allow") \/ Arrives(r, "deny")
    /\ IF ~srv.connected \/ srv.closed \/ srv.operationInFlight
       THEN Reply(r, "error") /\ UNCHANGED srv
       ELSE /\ Await(r, IF req[r].kind = "allow" THEN "baseline" ELSE "gateway")
            /\ srv' = [srv EXCEPT !.operationInFlight = TRUE]
    /\ UNCHANGED <<op, amb, transport, disk, queue, writes>>

BaselineCaptured(r) ==
    /\ At(r, "allow", "baseline")
    /\ IF srv.closed THEN Finish(r, "error") ELSE Await(r, "gateway") /\ UNCHANGED srv
    /\ UNCHANGED <<op, amb, transport, disk, queue, writes>>

\* The baseline cannot be captured, the chain is another one, or the gateway does
\* not forward.
AllowRefused(r) ==
    /\ req[r].at \in {"baseline", "gateway"}
    /\ Finish(r, "error")
    /\ UNCHANGED <<op, amb, transport, disk, queue, writes>>

\* The transport accepts one sensitive call and hands it to the dispatcher.
Forward(r) ==
    /\ At(r, "allow", "gateway") /\ transport = "none"
    /\ Await(r, "transport")
    /\ IF srv.closed \/ srv.pending
       THEN transport' = "failed" /\ UNCHANGED <<srv, op>>
       ELSE /\ srv' = [srv EXCEPT !.pending = TRUE]
            /\ op' = [op EXCEPT !.timer = "command"]
            /\ transport' = "inflight"
    /\ UNCHANGED <<amb, disk, queue, writes>>

\* gateway.request ends: without a journal the handler waits for the
\* reconciliation, otherwise it answers at once.
AllowEnds(r) ==
    /\ At(r, "allow", "transport") /\ transport # "inflight"
    /\ IF transport = "resolved"
       THEN Await(r, "observe") /\ UNCHANGED srv
       ELSE /\ srv.journaled \/ ~Reconciling
            /\ Finish(r, IF amb = None THEN "error" ELSE "ambiguous")
    /\ UNCHANGED <<op, amb, transport, disk, queue, writes>>

AllowObserved(r) ==
    /\ At(r, "allow", "observe")
    /\ Finish(r, "ok")
    /\ UNCHANGED <<op, amb, transport, disk, queue, writes>>

AllowUnobserved(r) ==
    /\ At(r, "allow", "observe")
    /\ Reply(r, "ambiguous")
    /\ srv' = [srv EXCEPT !.operationInFlight = FALSE, !.closed = TRUE]
    /\ amb' = [cause |-> IF amb = None THEN "OBSERVATION_FAILED" ELSE amb.cause,
               hash |-> op.raw, status |-> "OBSERVATION_FAILED"]
    /\ UNCHANGED <<op, transport, disk, queue, writes>>

-----------------------------------------------------------------------------
(* The journal, through its contract *)

Succeeds(write) == CASE write = "arm"      -> Record!Arm
                     [] write = "dispatch" -> Record!MarkDispatched
                     [] write = "hash"     -> Record!RetainHash /\ disk'.hash = op.candidate

JournalWrites ==
    /\ queue # <<>> /\ ~srv.journalFailed
    /\ Succeeds(Head(queue))
    /\ queue' = Tail(queue)
    /\ writes' = [writes EXCEPT ![Head(queue)] = "done"]
    /\ UNCHANGED <<srv, op, amb, transport, req>>

\* Mutant of JournalFails: nobody who waits for the write is told.
JournalFailsSilently ==
    /\ queue # <<>>
    /\ UNCHANGED disk
    /\ queue' = Tail(queue)
    /\ srv' = [srv EXCEPT !.journalFailed = TRUE, !.closed = TRUE, !.pending = FALSE]
    /\ op' = [op EXCEPT !.timer = "off"]
    /\ amb' = [cause  |-> IF amb = None THEN "JOURNAL_WRITE_FAILED" ELSE amb.cause,
               hash   |-> op.candidate,
               status |-> "JOURNAL_WRITE_FAILED"]
    /\ transport' = IF transport = "inflight" THEN "failed" ELSE transport
    /\ UNCHANGED <<writes, req>>

\* The write at the head fails, before or after it has replaced the record; the
\* writes behind it fail in their turn.
JournalFails ==
    /\ queue # <<>>
    /\ UNCHANGED disk \/ (~srv.journalFailed /\ Succeeds(Head(queue)))
    /\ queue' = Tail(queue)
    /\ writes' = [writes EXCEPT ![Head(queue)] = "failed"]
    /\ srv' = [srv EXCEPT !.journalFailed = TRUE, !.closed = TRUE, !.pending = FALSE]
    /\ op' = [op EXCEPT !.timer = "off"]
    /\ amb' = [cause  |-> IF amb = None THEN "JOURNAL_WRITE_FAILED" ELSE amb.cause,
               hash   |-> IF op.candidate # None THEN op.candidate
                          ELSE IF amb = None THEN None ELSE amb.hash,
               status |-> "JOURNAL_WRITE_FAILED"]
    /\ transport' = IF transport = "inflight" THEN "failed" ELSE transport
    /\ UNCHANGED req
-----------------------------------------------------------------------------
(* close() of the server object *)

Stop ==
    /\ ~srv.stopping
    /\ srv' = [srv EXCEPT !.stopping = TRUE, !.closed = TRUE, !.pending = FALSE]
    /\ IF ~srv.pending
       THEN UNCHANGED <<op, amb, transport, queue, writes>>
       ELSE IF op.delivered THEN Abandon("BRIDGE_CLOSED", op.candidate) ELSE Cancel
    /\ UNCHANGED <<disk, req>>

\* The open connections have ended and the journal's writes too.
Stopped ==
    /\ srv.stopping /\ ~srv.journalClosed
    /\ \A r \in Requests : req[r].at \in {"idle", "sent", "replied", "lost"}
    /\ queue = <<>>
    /\ srv' = [srv EXCEPT !.journalClosed = TRUE]
    /\ UNCHANGED <<op, amb, transport, disk, queue, writes, req>>

-----------------------------------------------------------------------------
(* Specification *)

Bodies(kind) == CASE kind \in {"handshake", "view", "arm"} -> Views
                  [] kind = "result" -> Results
                  [] kind = "settle" -> {"receipt", "otherReceipt"}
                  [] OTHER -> {None}

\* Any client, in particular one that repeats or reorders requests.  One request
\* is on its way at a time: sending touches nothing that a handler reads, so it
\* may as well come right before the arrival.
Client(r) ==
    /\ \A q \in Requests : req[q].at # "sent"
    /\ \E kind \in Kinds : \E body \in Bodies(kind) : Send(r, kind, body)
    /\ UNCHANGED <<srv, op, amb, transport, disk, queue, writes>>

Handler(r) ==
    \/ RefuseWhileStopping(r)
    \/ Handshake(r) \/ \E v \in Views : HandshakeCaptured(r, v)
    \/ NextCommand(r)
    \/ BindView(r) \/ \E v \in Views, g \in BOOLEAN : BindViewCaptured(r, v, g)
    \/ CaptureFails(r)
    \/ Arm(r) \/ ArmPersisted(r)
    \/ SignalDispatched(r) \/ DispatchPersisted(r)
    \/ LateResult(r) \/ RefuseResult(r) \/ UnacknowledgedResult(r) \/ ReceiveResult(r)
    \/ ResultPersisted(r) \/ ResultReconciled(r)
    \/ Settle(r) \/ Close(r)
    \/ Allow(r) \/ BaselineCaptured(r) \/ AllowRefused(r) \/ Forward(r)
    \/ AllowEnds(r) \/ AllowObserved(r) \/ AllowUnobserved(r)

Journal == JournalWrites \/ JournalFails

Reconcile == \/ ReconcileRetained
             \/ \E status \in {"OBSERVED", "OBSERVATION_FAILED"} : ReconcileObserved(status)

Server == \/ \E r \in Requests : Handler(r)
          \/ Deadline \/ Journal \/ Reconcile \/ Stop \/ Stopped

Next == Server \/ \E r \in Requests : Client(r)

Spec == Init /\ [][Next]_vars

\* The event loop runs every handler, timers fire, and every call to the node,
\* the observer and the file system ends, perhaps with an error.
Fairness == /\ \A r \in Requests : WF_vars(Handler(r))
            /\ WF_vars(Deadline) /\ WF_vars(Journal) /\ WF_vars(Reconcile) /\ WF_vars(Stopped)

FairSpec == Spec /\ Fairness
-----------------------------------------------------------------------------
(* Properties *)

Flags == [{"journaled", "connected", "closed", "stopping", "pending", "operationInFlight",
           "journalFailed", "journalClosed"} -> BOOLEAN]

Pendings == [delivered : BOOLEAN, view : Views \union {None}, arming : BOOLEAN, armed : BOOLEAN,
             dispatching : BOOLEAN, dispatched : BOOLEAN, resultProcessing : BOOLEAN,
             receipt : BOOLEAN, raw : Outcomes \union {None}, candidate : Hashes \union {None},
             timer : {"off", "command", "dispatchAck", "result", "settlement"}]

DiskRecords == [revision : 0..3, state : {"READY", "ARMED", "DISPATCHED", "HASH_OBSERVED"},
                operation : {Command, None}, hash : Hashes \union {None}, terminal : {"none"}]

StateTypes ==
    /\ srv \in Flags
    /\ op \in Pendings
    /\ amb \in Ambiguities \union {None}
    /\ transport \in {"none", "inflight", "resolved", "rejected", "failed"}
    /\ disk \in DiskRecords
    /\ queue \in Seq({"arm", "dispatch", "hash"})
    /\ writes \in [{"arm", "dispatch", "hash"} -> {"none", "queued", "done", "failed"}]

RequestTypes ==
    /\ DOMAIN req = Requests
    /\ \A r \in Requests :
          /\ DOMAIN req[r] = {"kind", "body", "at", "reply"}
          /\ req[r].kind \in Kinds
          /\ req[r].body \in Bodies(req[r].kind) \union {None}
          /\ req[r].at \in {"idle", "sent", "node", "write", "reconcile", "baseline", "gateway",
                           "transport", "observe", "replied", "lost"}
          /\ req[r].reply \in {"none", "ok", "error", "closed", "empty", "command", "receipt",
                              "ambiguous"}

\* The state of the server is well formed: what it keeps as a candidate is a bare
\* hash, the causes and statuses are those of server.mjs, and revisions fit the journal.
TypeOK == StateTypes /\ RequestTypes

\* A command is pending exactly while the gateway waits for it, in an open session
\* without ambiguity and under a running deadline: no path drops it without
\* settling the transport, and none leaves it without a timer.
PendingIsLive ==
    /\ srv.pending <=> transport = "inflight"
    /\ srv.pending => ~srv.closed /\ op.timer # "off" /\ amb = None

\* Arm, dispatch and the settlement receipt are acknowledged only after the
\* journal has them, for the very hash that is then delivered.
AcknowledgedIsDurable ==
    srv.journaled =>
        /\ op.armed => disk.state # "READY"
        /\ op.dispatched => disk.state \in {"DISPATCHED", "HASH_OBSERVED"}
        /\ op.raw \in Hashes => disk.hash = op.raw

\* No observation starts from a hash that is not retained, and none after a
\* storage failure.
ObservedIsRetained ==
    srv.journaled /\ amb # None =>
        (amb.status \in {"OBSERVING", "OBSERVED", "OBSERVATION_FAILED"} =>
            ~srv.journalFailed /\ amb.hash # None /\ disk.hash = amb.hash)

\* A success went through every stage and is never also ambiguous, unless the
\* observation after it failed.
SuccessIsClean ==
    transport = "resolved" =>
        /\ op.view # None /\ op.armed /\ op.dispatched /\ op.raw \in Hashes
        /\ amb = None \/ amb.cause = "OBSERVATION_FAILED"

\* Ambiguity is never withdrawn: its first cause and its hash stay, the session
\* stays closed, and the outcome of the transport does not change any more.
AmbiguityIsFinal ==
    [][amb # None =>
          /\ amb' # None /\ amb'.cause = amb.cause
          /\ amb.hash \in {None, amb'.hash}
          /\ srv'.closed /\ ~srv'.pending
          /\ transport' = transport]_vars
=============================================================================
