---------------------------- MODULE BridgeSession ----------------------------
(***************************************************************************)
(* The prototype server together with the page it serves                   *)
(* (prototype/public/browser-bridge.js), the wallet and a network that     *)
(* may lose a request or an answer.  The page has at most one request of   *)
(* each kind open, so requests are named by their kind.                    *)
(*                                                                         *)
(* Waiting for the answer to /bridge/close is not modelled as a state of   *)
(* the page: the wait is bounded by a timeout that may come at once.       *)
(***************************************************************************)
EXTENDS BridgeServer

ASSUME KindsAssumption == Requests = Kinds

\* A hash is not a state of the wallet.
ASSUME WalletAssumption == "idle" \notin Hashes /\ "prompt" \notin Hashes

VARIABLES
    browser,    \* pc of bridgeLoop and processBoundCommand, and the page's flags
    wallet,     \* the sensitive call: idle, prompt, or what it returned
    event       \* history: how far the page was when a wallet event closed it

server == <<srv, op, amb, transport, disk, queue, writes>>

allVars == <<vars, browser, wallet, event>>

SessionInit ==
    /\ Init
    /\ browser = [pc |-> "start", closed |-> FALSE, view |-> None]
    /\ wallet = "idle"
    /\ event = "none"

-----------------------------------------------------------------------------
(* Helpers *)

Goto(pc) == browser' = [browser EXCEPT !.pc = pc]

Answer(kind, reply) == req[kind].at = "replied" /\ req[kind].reply = reply

Refused(kind) == Answer(kind, "error") \/ req[kind].at = "lost"

\* closeBridge: sessionClosed is set at once, the request is sent once.
CloseThen(pc) ==
    /\ browser' = [browser EXCEPT !.pc = pc, !.closed = TRUE]
    /\ IF req["close"].at = "idle" THEN Send("close", "close", None) ELSE UNCHANGED req

-----------------------------------------------------------------------------
(* Connecting, buttons and wallet events *)

Connect(v) ==
    /\ browser.pc = "start"
    /\ Send("handshake", "handshake", v)
    /\ Goto("connecting")
    /\ UNCHANGED wallet

Connected ==
    /\ browser.pc = "connecting"
    /\ \/ Answer("handshake", "ok") /\ Goto("poll")
       \/ Refused("handshake") /\ Goto("start")
    /\ UNCHANGED <<req, wallet>>

Running == browser.pc \notin {"start", "connecting"}

\* The button is disabled by its first click and when bridgeLoop ends.  The Deny
\* button is left out: all it moves is operationInFlight, see BridgeServer.
ClickAllow ==
    /\ Running /\ browser.pc # "end" /\ req["allow"].at = "idle"
    /\ Send("allow", "allow", None)
    /\ UNCHANGED <<browser, wallet>>

\* accountsChanged, chainChanged or disconnect.  The history tells whether the
\* page had submitted the settlement or else called the wallet by then.
WalletEvent ==
    /\ Running /\ ~browser.closed
    /\ CloseThen(browser.pc)
    /\ event' = CASE req["settle"].at # "idle" -> "submitted"
                  [] req["settle"].at = "idle" /\ wallet # "idle" -> "called"
                  [] OTHER -> "open"
    /\ UNCHANGED wallet

-----------------------------------------------------------------------------
(* bridgeLoop *)

Poll ==
    /\ browser.pc = "poll"
    /\ IF browser.closed THEN Goto("end") /\ UNCHANGED req
                         ELSE Goto("polling") /\ Send("next", "next", None)
    /\ UNCHANGED wallet

Polled ==
    /\ browser.pc = "polling"
    /\ \/ Answer("next", "command") /\ Goto("sample") /\ UNCHANGED req
       \/ Answer("next", "empty") /\ Goto("poll") /\ UNCHANGED req
       \/ /\ Answer("next", "closed") \/ Answer("next", "error")
          /\ browser' = [browser EXCEPT !.pc = "poll", !.closed = TRUE] /\ UNCHANGED req
       \/ req["next"].at = "lost" /\ CloseThen("poll")
    /\ UNCHANGED wallet

-----------------------------------------------------------------------------
(* processBoundCommand, before the wallet is called *)

\* Two equal samples of the wallet in the expected context.
Sample(v) ==
    /\ browser.pc = "sample"
    /\ browser' = [browser EXCEPT !.pc = "binding", !.view = v]
    /\ Send("view", "view", v)
    /\ UNCHANGED wallet

\* A sample fails, differs from the one before or shows another context.
SampleFails ==
    /\ browser.pc \in {"sample", "resample"}
    /\ CloseThen("poll")
    /\ UNCHANGED wallet

Bound ==
    /\ browser.pc = "binding"
    /\ \/ Answer("view", "ok") /\ Goto(IF browser.closed THEN "poll" ELSE "resample") /\ UNCHANGED req
       \/ Refused("view") /\ CloseThen("poll")
    /\ UNCHANGED wallet

\* The view is still the bound one; an event may have closed the session.
Resample ==
    /\ browser.pc = "resample"
    /\ IF browser.closed THEN Goto("poll") /\ UNCHANGED req
                         ELSE Goto("arming") /\ Send("arm", "arm", browser.view)
    /\ UNCHANGED wallet

\* The page discards an acknowledgement that is older than 250 ms, and the
\* server's dispatch deadline is at least 1000 ms after it.
FreshAcknowledgement ==
    /\ Answer("arm", "ok")
    /\ ~(amb # None /\ amb.cause = "DISPATCH_ACK_TIMEOUT")

\* The last check, the wallet call and the dispatch signal are one step.
Invoke ==
    /\ browser.pc = "arming" /\ FreshAcknowledgement
    /\ IF browser.closed
       THEN Goto("poll") /\ UNCHANGED <<req, wallet>>
       ELSE /\ wallet' = "prompt"
            /\ Goto("dispatching")
            /\ Send("dispatched", "dispatched", None)

\* The arm acknowledgement is refused, lost or late, or the wallet throws.
ArmFails ==
    /\ browser.pc = "arming"
    /\ CloseThen("poll")
    /\ UNCHANGED wallet

-----------------------------------------------------------------------------
(* processBoundCommand, after the wallet is called *)

\* The wallet answers when its user decides, in whatever state the page is.
WalletAnswers(outcome) ==
    /\ wallet = "prompt"
    /\ wallet' = outcome
    /\ UNCHANGED <<req, browser>>

DispatchAcknowledged ==
    /\ browser.pc = "dispatching"
    /\ Answer("dispatched", "ok")
    /\ Goto("outcome")
    /\ UNCHANGED <<req, wallet>>

\* Refused, lost or late.
DispatchUnacknowledged ==
    /\ browser.pc = "dispatching"
    /\ CloseThen("outcome")
    /\ UNCHANGED wallet

\* The outcome goes to the server with the context sampled after it, which is
\* unavailable once the session is closed.
Deliver(sampleMatches) ==
    /\ browser.pc = "outcome" /\ wallet # "prompt"
    /\ Goto("delivering")
    /\ Send("result", "result", [outcome |-> wallet,
                                 contextMatches |-> sampleMatches /\ ~browser.closed])
    /\ UNCHANGED wallet

Delivered ==
    /\ browser.pc = "delivering"
    /\ \/ Answer("result", "receipt") /\ Goto("finalSample") /\ UNCHANGED req
       \/ /\ Answer("result", "ambiguous")
          /\ browser' = [browser EXCEPT !.pc = "poll", !.closed = TRUE] /\ UNCHANGED req
    /\ UNCHANGED wallet

\* Mutant of FinalSample: the context is sampled again, the session flag is not
\* looked at.
FinalSampleUnchecked(matches) ==
    /\ browser.pc = "finalSample"
    /\ IF ~matches
       THEN CloseThen("poll")
       ELSE Goto("settling") /\ Send("settle", "settle", "receipt")
    /\ UNCHANGED wallet

\* settleRetainedResult: the final context and the session flag decide.
FinalSample(matches) ==
    /\ browser.pc = "finalSample"
    /\ IF browser.closed \/ ~matches
       THEN CloseThen("poll")
       ELSE Goto("settling") /\ Send("settle", "settle", "receipt")
    /\ UNCHANGED wallet

Settled ==
    /\ browser.pc = "settling" /\ Answer("settle", "ok")
    /\ browser' = [browser EXCEPT !.pc = "poll", !.closed = @ \/ wallet \notin Hashes]
    /\ UNCHANGED <<req, wallet>>

\* The result or the settlement is refused, lost or late.
DeliveryFails ==
    /\ browser.pc \in {"delivering", "settling"}
    /\ CloseThen("poll")
    /\ UNCHANGED wallet

-----------------------------------------------------------------------------
(* The network, and the composed system *)

\* The answer that the page waits for; it may have given up on others.
WaitsFor(kind) == \/ kind = "handshake" /\ browser.pc = "connecting"
                  \/ kind = "next" /\ browser.pc = "polling"
                  \/ kind = "view" /\ browser.pc = "binding"

\* Requests with a timeout of their own need no lost answers.
Lose(kind) ==
    /\ req[kind].at = "sent" \/ (req[kind].at = "replied" /\ WaitsFor(kind))
    /\ req' = [req EXCEPT ![kind].at = "lost", ![kind].body = None, ![kind].reply = "none"]
    /\ UNCHANGED <<browser, wallet>>

PageStep ==
    \/ Connected \/ Poll \/ Polled
    \/ \E v \in Views : Sample(v)
    \/ SampleFails \/ Bound \/ Resample \/ Invoke \/ ArmFails
    \/ DispatchAcknowledged \/ DispatchUnacknowledged
    \/ \E b \in BOOLEAN : Deliver(b) \/ FinalSample(b)
    \/ Delivered \/ Settled \/ DeliveryFails

Page ==
    /\ \/ WalletEvent
       \/ /\ \/ \E v \in Views : Connect(v)
             \/ ClickAllow \/ PageStep
             \/ \E outcome \in Outcomes : WalletAnswers(outcome)
             \/ \E kind \in Kinds : Lose(kind)
          /\ UNCHANGED event
    /\ UNCHANGED server

SessionNext == Page \/ (Server /\ UNCHANGED <<browser, wallet, event>>)

SessionSpec == SessionInit /\ [][SessionNext]_allVars
\* As Fairness, and the page goes on when it can.  Its user, the wallet and the
\* network owe nothing.
FairSessionSpec == SessionSpec /\ Fairness /\ WF_allVars(PageStep /\ UNCHANGED <<server, event>>)

-----------------------------------------------------------------------------
(* Properties *)

\* The wallet is called only for a command that the server has armed for the view
\* the page sampled last and, with a journal, that is on disk as armed: a crash
\* after the call finds a record of it.
WalletNeedsArm ==
    wallet # "idle" =>
        /\ op.armed /\ op.view = browser.view
        /\ srv.journaled => disk.state # "READY"

\* Once the wallet was called the server never forgets it: when the command is no
\* longer pending it was settled with what the wallet answered, or is ambiguous.
InvokedIsAccounted ==
    wallet # "idle" /\ ~srv.pending =>
        \/ amb # None
        \/ transport = "resolved" /\ wallet = op.raw
        \/ transport = "rejected" /\ wallet = "USER_REJECTED"

\* When the page learns that its hash arrived, the hash is on disk or reported as
\* not retained; without a journal it is in memory.  It is turned away only
\* after a storage failure or while the server stops.
HashIsKept ==
    wallet \in Hashes /\ req["result"].at = "replied" =>
        IF req["result"].reply = "error"
        THEN srv.journalFailed \/ srv.stopping
        ELSE \/ srv.journaled /\ disk.hash = wallet
             \/ ~srv.journaled /\ op.candidate = wallet
             \/ /\ amb # None /\ amb.hash = wallet
                /\ srv.journaled => amb.status = "JOURNAL_WRITE_FAILED"

\* A wallet event closes the page for good: before the call the wallet is never
\* called, and up to the settlement the command never ends as a success.  Once the
\* wallet was called it ends as ambiguous, also when the request to close is lost
\* and the wallet is back in its old context at the final sample.
EventIsFinal ==
    event # "none" =>
        /\ browser.closed
        /\ event = "open" => wallet = "idle"
        /\ event # "submitted" => transport # "resolved"
        /\ event = "called" /\ ~srv.pending => amb # None

\* An allow request is answered, whatever the page and the wallet do.
AllowAnswered == req["allow"].at = "sent" ~> req["allow"].at \in {"replied", "lost"}

\* close() of the server ends with the journal released after its last write, and no
\* handler, timer or reconciliation asks for another one ever after.
StopEnds == srv.stopping ~> [](srv.journalClosed /\ queue = <<>>)
=============================================================================
