------------------------- MODULE BridgeSessionProofs -------------------------
(***************************************************************************)
(* What the page, the wallet and the server keep together, for any views   *)
(* and hashes, whatever the network loses.  The server's own part is       *)
(* ServerInv of BridgeServerProofs.                                        *)
(***************************************************************************)
EXTENDS BridgeSession, BridgeServerProofs

Places == {"start", "connecting", "poll", "polling", "sample", "binding", "resample", "arming",
           "dispatching", "outcome", "delivering", "finalSample", "settling", "end"}

PageTypes ==
    /\ browser \in [pc : Places, closed : BOOLEAN, view : Views \union {None}]
    /\ wallet \in Outcomes \union {"idle", "prompt"}

Opened(kind) == req[kind].at # "idle"

KindInv == \A kind \in Kinds : Opened(kind) => req[kind].kind = kind

\* The page takes each step of a command once: it samples before it opens the view
\* request, binds before it arms, and calls the wallet before it delivers a result.
PageInv ==
    /\ browser.pc \in {"sample", "binding", "resample"} => ~Opened("arm")
    /\ browser.pc \in {"binding", "resample"} => Opened("view") /\ browser.view \in Views
    /\ browser.pc = "arming" => wallet = "idle"
    /\ browser.pc \in {"dispatching", "outcome"} => ~Opened("result") /\ wallet # "idle"
    /\ ~Opened("view") => ~Opened("arm")
    /\ ~Opened("arm") => wallet = "idle"
    /\ Opened("result") => wallet \in Outcomes

\* The page has the command, or the answer with it.
Commanded == browser.pc = "sample" \/ (browser.pc = "polling" /\ Answer("next", "command"))

\* The command is handed out once, before the page asks to bind a view.
CommandInv ==
    /\ Commanded => ~Opened("view") /\ op.delivered
    /\ Opened("view") => op.delivered

ViewInv ==
    /\ op.view # None => Opened("view") /\ op.view = browser.view
    /\ req["view"].at \in {"sent", "node"} => req["view"].body = browser.view

ArmInv == Answer("arm", "ok") => op.armed

\* The wallet is called for an armed command, and what the server keeps as the
\* outcome is what the wallet answered.
WalletInv ==
    /\ wallet # "idle" => op.armed
    /\ op.raw # None => wallet = op.raw /\ op.raw # "INTERNAL_ERROR"

\* How an armed command can end.
OutcomeInv ==
    /\ op.armed /\ ~srv.pending => amb # None \/ transport \in {"resolved", "rejected"}
    /\ transport \in {"resolved", "rejected"} => op.raw # None
    /\ transport = "rejected" => op.raw \notin Hashes

FailureInv ==
    /\ amb # None => (amb.status = "JOURNAL_WRITE_FAILED" <=> srv.journalFailed)
    /\ \A w \in {"arm", "dispatch", "hash"} : writes[w] = "failed" => srv.journalFailed

\* The server has not seen a result.
Unanswered ==
    /\ ~op.resultProcessing /\ op.candidate = None /\ op.raw = None
    /\ amb # None => /\ amb.hash = None
                     /\ amb.status \in {"AWAITING_LATE_RESULT", "JOURNAL_WRITE_FAILED"}

ResultInv ==
    /\ req["result"].at \in {"idle", "sent", "write", "reconcile", "replied", "lost"}
    /\ req["result"].at \in {"sent", "write"} => req["result"].body.outcome = wallet
    /\ req["result"].at \in {"idle", "sent"} => Unanswered
    /\ req["result"].at = "reconcile" /\ wallet \in Hashes => amb # None /\ amb.hash = wallet

SessionInv == /\ ServerInv /\ PageTypes /\ KindInv /\ PageInv /\ CommandInv /\ ViewInv /\ ArmInv
              /\ WalletInv /\ OutcomeInv /\ FailureInv /\ ResultInv /\ HashIsKept

-----------------------------------------------------------------------------
(* What a step of the server leaves of the link to the page *)

Linked == WalletInv /\ OutcomeInv /\ FailureInv

\* The stages the page relies on are not taken back.
Keeps == (op.delivered => op'.delivered) /\ (op.armed => op'.armed)

\* The hash is on disk, in memory, or reported as not retained.
Kept(h) == \/ srv.journaled /\ disk.hash = h
           \/ ~srv.journaled /\ op.candidate = h
           \/ amb # None /\ amb.hash = h /\ (srv.journaled => amb.status = "JOURNAL_WRITE_FAILED")

\* What the result handler relies on while others run.
Holds ==
    /\ Unanswered => Unanswered'
    /\ amb # None => amb' # None /\ amb.hash \in {None, amb'.hash}
    /\ \A h \in Hashes : Kept(h) => Kept(h)'
    /\ srv.journalFailed => srv'.journalFailed
    /\ srv.stopping => srv'.stopping

\* The fields of the pending object that the page and its properties depend on.
SameOp == /\ op'.delivered = op.delivered /\ op'.view = op.view /\ op'.armed = op.armed
          /\ op'.raw = op.raw /\ op'.candidate = op.candidate
          /\ op'.resultProcessing = op.resultProcessing

SameFlags == /\ srv'.pending = srv.pending /\ srv'.journaled = srv.journaled
             /\ srv'.journalFailed = srv.journalFailed /\ (srv.stopping => srv'.stopping)

\* No write is reported as failed that was not before.
SameFailures == \A w \in {"arm", "dispatch", "hash"} : writes'[w] = "failed" => writes[w] = "failed"

LEMMA QuietLinks ==
    ASSUME Linked, SameOp, SameFlags, SameFailures, UNCHANGED <<amb, transport, disk, wallet>>
    PROVE  Linked' /\ Keeps /\ Holds
<1>1. Linked'
  BY DEF Linked, WalletInv, OutcomeInv, FailureInv, SameOp, SameFlags, SameFailures
<1>2. Keeps /\ Holds
  BY DEF Keeps, Holds, Unanswered, Kept, SameOp, SameFlags
<1> QED
  BY <1>1, <1>2

\* The same when the command is delivered, bound or armed.
LEMMA StageLinks ==
    ASSUME Linked, SameFlags, SameFailures, UNCHANGED <<amb, transport, disk, wallet>>,
           op.delivered => op'.delivered, op'.armed = op.armed \/ (srv.pending /\ op'.armed),
           op'.raw = op.raw, op'.candidate = op.candidate,
           op'.resultProcessing = op.resultProcessing
    PROVE  Linked' /\ Keeps /\ Holds
<1>1. Linked'
  BY DEF Linked, WalletInv, OutcomeInv, FailureInv, SameFlags, SameFailures
<1>2. Keeps /\ Holds
  BY DEF Keeps, Holds, Unanswered, Kept, SameFlags
<1> QED
  BY <1>1, <1>2

LEMMA DropLinks ==
    ASSUME ServerInv, Linked, ~op.armed, Cancel, disk' = disk, wallet' = wallet,
           srv'.journaled = srv.journaled, srv'.journalFailed = srv.journalFailed,
           srv.stopping => srv'.stopping
    PROVE  Linked' /\ Keeps /\ Holds
<1>1. SameOp
  BY DEF Cancel, SameOp, ServerInv, StateInv, StateTypes, Pendings
<1>2. transport' = "failed" /\ UNCHANGED <<amb, queue, writes>>
  BY DEF Cancel
<1>3. Linked'
  BY <1>1, <1>2 DEF Linked, WalletInv, OutcomeInv, FailureInv, SameOp
<1>4. Keeps /\ Holds
  BY <1>1, <1>2 DEF Keeps, Holds, Unanswered, Kept, SameOp
<1> QED
  BY <1>3, <1>4

\* markAmbiguous; outside the result handler it is given the hash that is reserved.
LEMMA AbandonLinks ==
    ASSUME ServerInv, Linked, NEW cause \in Causes, NEW candidate \in Hashes \union {None},
           op.candidate \in {None, candidate}, Abandon(cause, candidate), disk' = disk,
           wallet' = wallet, srv'.journaled = srv.journaled,
           srv'.journalFailed = srv.journalFailed, srv.stopping => srv'.stopping
    PROVE  /\ Linked' /\ Keeps /\ (candidate = op.candidate => Holds)
           /\ op'.view = op.view /\ op'.raw = op.raw
<1> DEFINE kept == IF amb' # amb /\ amb'.status = "RETAINING_HASH" THEN candidate ELSE None
<1>1. /\ StateInv /\ amb' = Marked(cause, candidate) /\ Retain(kept)
      /\ transport' = IF transport = "inflight" THEN "failed" ELSE transport
  BY DEF ServerInv, Abandon
<1>2. /\ amb' \in Ambiguities /\ amb' # None
      /\ \/ amb # None /\ amb' = amb
         \/ /\ amb = None /\ candidate = None /\ amb'.hash = None
            /\ amb'.status = "AWAITING_LATE_RESULT"
         \/ /\ amb' # amb /\ candidate # None /\ amb'.hash = candidate /\ ~srv.journalFailed
            /\ amb # None => amb.hash = None
            /\ amb'.status \in {"RETAINING_HASH", "OBSERVING"}
  BY <1>1, MarkedIs, NoneAssumption
<1>3. kept \in {None, candidate}
  OBVIOUS
<1> HIDE DEF kept
<1>4. /\ op'.view = op.view /\ op'.raw = op.raw /\ op'.delivered = op.delivered
      /\ op'.armed = op.armed /\ op'.resultProcessing = op.resultProcessing
      /\ \/ op'.candidate = op.candidate /\ UNCHANGED <<queue, writes>>
         \/ op'.candidate = candidate /\ srv.journaled /\ candidate # None /\ Persist("hash")
  BY <1>1, <1>3, RetainIs
<1>5. SameFailures
  <2>1. writes \in [{"arm", "dispatch", "hash"} -> {"none", "queued", "done", "failed"}]
    BY <1>1 DEF StateInv, StateTypes
  <2> QED
    BY <1>4, <2>1 DEF SameFailures, Persist
<1>6. srv.journalFailed => amb # None
  BY <1>1 DEF StateInv, EndInv
<1>7. Linked'
  <2>1. WalletInv' /\ OutcomeInv'
    BY <1>1, <1>2, <1>4 DEF Linked, WalletInv, OutcomeInv
  <2>2. FailureInv'
    BY <1>2, <1>5, <1>6 DEF Linked, FailureInv, SameFailures
  <2> QED
    BY <2>1, <2>2 DEF Linked
<1>8. ASSUME candidate = op.candidate PROVE Holds
  <2>1. Unanswered => Unanswered'
    BY <1>2, <1>4, <1>8 DEF Unanswered
  <2>2. None \notin Hashes
    BY NoneAssumption DEF Outcomes
  <2>3. \A h \in Hashes : Kept(h) => Kept(h)'
    BY <1>2, <1>4, <1>8, <2>2 DEF Kept
  <2> QED
    BY <1>2, <2>1, <2>3 DEF Holds
<1>9. Keeps
  BY <1>4 DEF Keeps
<1> QED
  BY <1>4, <1>7, <1>8, <1>9

LEMMA SettleLinks ==
    ASSUME ServerInv, Linked, op.receipt, wallet' = wallet,
           op' = [op EXCEPT !.receipt = FALSE, !.timer = "off"],
           transport' = IF op.raw \in Hashes THEN "resolved" ELSE "rejected",
           srv' = [srv EXCEPT !.pending = FALSE, !.closed = op.raw \notin Hashes],
           UNCHANGED <<amb, disk, queue, writes>>
    PROVE  Linked' /\ Keeps /\ Holds /\ SameOp
<1>1. SameOp
  BY DEF SameOp, ServerInv, StateInv, StateTypes, Pendings
<1>2. /\ srv'.journaled = srv.journaled /\ srv'.journalFailed = srv.journalFailed
      /\ srv'.stopping = srv.stopping
  BY DEF ServerInv, StateInv, StateTypes, Flags
<1>3. op.raw # None
  BY DEF ServerInv, StateInv, StageInv
<1>4. Linked'
  BY <1>1, <1>2, <1>3 DEF Linked, WalletInv, OutcomeInv, FailureInv, SameOp
<1>5. Keeps /\ Holds
  BY <1>1, <1>2 DEF Keeps, Holds, Unanswered, Kept, SameOp
<1> QED
  BY <1>1, <1>4, <1>5

LEMMA ForwardLinks ==
    ASSUME ServerInv, Linked, NEW r \in Requests, Forward(r), wallet' = wallet
    PROVE  Linked' /\ Keeps /\ Holds /\ SameOp
<1>1. ~op.armed /\ transport' \notin {"resolved", "rejected"}
  BY DEF ServerInv, StateInv, StageInv, Forward
<1>2. SameOp
  BY DEF SameOp, ServerInv, StateInv, StateTypes, Pendings, Forward
<1>3. /\ srv'.journaled = srv.journaled /\ srv'.journalFailed = srv.journalFailed
      /\ srv'.stopping = srv.stopping
  BY DEF ServerInv, StateInv, StateTypes, Flags, Forward
<1>4. UNCHANGED <<amb, disk, queue, writes>>
  BY DEF Forward
<1>5. Linked'
  BY <1>1, <1>2, <1>3, <1>4 DEF Linked, WalletInv, OutcomeInv, FailureInv, SameOp
<1>6. Keeps /\ Holds
  BY <1>2, <1>3, <1>4 DEF Keeps, Holds, Unanswered, Kept, SameOp
<1> QED
  BY <1>2, <1>5, <1>6

\* A hash on disk stays there.
LEMMA WriteLinks ==
    ASSUME ServerInv, NEW w \in {"arm", "dispatch", "hash"}, Succeeds(w), disk.hash # None
    PROVE  disk'.hash = disk.hash
<1>1. StateInv /\ disk.state = "HASH_OBSERVED"
  BY DEF ServerInv, StateInv, DiskInv
<1> QED
  BY <1>1, WriteIs

LEMMA JournalWritesLinks ==
    ASSUME ServerInv, Linked, JournalWrites, wallet' = wallet
    PROVE  Linked' /\ Keeps /\ Holds /\ SameOp
<1>1. /\ Head(queue) \in {"arm", "dispatch", "hash"} /\ writes'[Head(queue)] = "done"
      /\ \A v \in {"arm", "dispatch", "hash"} : v # Head(queue) => writes'[v] = writes[v]
  BY EndedIs DEF ServerInv, JournalWrites
<1>2. UNCHANGED <<srv, op, amb, transport, req>> /\ Succeeds(Head(queue))
  BY DEF JournalWrites
<1>3. disk.hash # None => disk'.hash = disk.hash
  BY <1>1, <1>2, WriteLinks
<1>4. None \notin Hashes
  BY NoneAssumption DEF Outcomes
<1>5. Linked'
  BY <1>1, <1>2 DEF Linked, WalletInv, OutcomeInv, FailureInv
<1>6. Keeps /\ Holds /\ SameOp
  BY <1>2, <1>3, <1>4 DEF Keeps, Holds, Unanswered, Kept, SameOp
<1> QED
  BY <1>5, <1>6

LEMMA JournalFailsLinks ==
    ASSUME ServerInv, Linked, JournalFails, wallet' = wallet
    PROVE  Linked' /\ Keeps /\ Holds /\ SameOp
<1>1. /\ Head(queue) \in {"arm", "dispatch", "hash"} /\ writes[Head(queue)] = "queued"
  BY EndedIs DEF ServerInv, JournalFails
<1>2. srv.journaled
  BY <1>1 DEF ServerInv, StateInv, WriteInv
<1>3. disk.hash # None => disk'.hash = disk.hash
  BY <1>1, WriteLinks DEF JournalFails
<1>4. None \notin Hashes
  BY NoneAssumption DEF Outcomes
<1>5. SameOp
  BY DEF SameOp, ServerInv, StateInv, StateTypes, Pendings, JournalFails
<1>6. srv'.journaled = srv.journaled /\ srv'.journalFailed /\ srv'.stopping = srv.stopping
  BY DEF ServerInv, StateInv, StateTypes, Flags, JournalFails
<1>7. amb' = [cause  |-> IF amb = None THEN "JOURNAL_WRITE_FAILED" ELSE amb.cause,
              hash   |-> IF op.candidate # None THEN op.candidate
                         ELSE IF amb = None THEN None ELSE amb.hash,
              status |-> "JOURNAL_WRITE_FAILED"]
  BY DEF JournalFails
<1>8. amb' \in Ambiguities
  <2>1. op.candidate \in Hashes \union {None} /\ amb \in Ambiguities \union {None}
    BY DEF ServerInv, StateInv, StateTypes, Pendings
  <2>2. amb # None => amb.cause \in Causes /\ amb.hash \in Hashes \union {None}
    BY <2>1 DEF Ambiguities
  <2> QED
    BY <1>7, <2>1, <2>2 DEF Ambiguities, Causes, Statuses
<1>9. /\ amb' # None /\ amb'.status = "JOURNAL_WRITE_FAILED"
      /\ amb'.hash = IF op.candidate # None THEN op.candidate
                     ELSE IF amb = None THEN None ELSE amb.hash
  BY <1>7, <1>8, NoneAssumption
<1>10. amb # None /\ op.candidate # None => amb.hash = op.candidate
  BY DEF ServerInv, StateInv, HashInv
<1>11. transport' = IF transport = "inflight" THEN "failed" ELSE transport
  BY DEF JournalFails
<1>12. Linked'
  BY <1>5, <1>6, <1>9, <1>11 DEF Linked, WalletInv, OutcomeInv, FailureInv, SameOp
<1>13. Unanswered => Unanswered'
  BY <1>5, <1>9 DEF Unanswered, SameOp
<1>14. \A h \in Hashes : Kept(h) => Kept(h)'
  BY <1>2, <1>3, <1>4, <1>6, <1>9, <1>10 DEF Kept
<1>15. Keeps /\ Holds
  BY <1>5, <1>6, <1>9, <1>10, <1>13, <1>14 DEF Keeps, Holds, SameOp
<1> QED
  BY <1>5, <1>12, <1>15

LEMMA ReconcileLinks ==
    ASSUME ServerInv, Linked, Reconcile, wallet' = wallet
    PROVE  Linked' /\ Keeps /\ Holds /\ SameOp
<1>1. PICK status \in {"OBSERVING", "OBSERVED", "OBSERVATION_FAILED"} :
          /\ amb # None /\ amb.status \in {"RETAINING_HASH", "OBSERVING"}
          /\ amb' = [amb EXCEPT !.status = status]
  BY DEF Reconcile, ReconcileRetained, ReconcileObserved
<1>2. UNCHANGED <<srv, op, transport, disk, queue, writes>>
  BY DEF Reconcile, ReconcileRetained, ReconcileObserved
<1>3. amb \in Ambiguities
  BY <1>1 DEF ServerInv, StateInv, StateTypes
<1>4. amb' \in Ambiguities /\ amb'.hash = amb.hash /\ amb'.status = status
  BY <1>1, <1>3 DEF Ambiguities, Statuses
<1>5. amb' # None
  BY <1>4, NoneAssumption
<1>6. Linked'
  BY <1>1, <1>2, <1>4, <1>5 DEF Linked, WalletInv, OutcomeInv, FailureInv
<1>7. Keeps /\ Holds /\ SameOp
  BY <1>1, <1>2, <1>4, <1>5 DEF Keeps, Holds, Unanswered, Kept, SameOp
<1> QED
  BY <1>6, <1>7

LEMMA UnobservedLinks ==
    ASSUME ServerInv, Linked, NEW r \in Requests, AllowUnobserved(r), wallet' = wallet
    PROVE  Linked' /\ Keeps /\ Holds /\ SameOp
<1>1. transport = "resolved" /\ amb = None
  BY DEF ServerInv, RequestInv, Suspended, AllowUnobserved, At
<1>2. /\ srv'.journaled = srv.journaled /\ srv'.journalFailed = srv.journalFailed
      /\ srv'.stopping = srv.stopping /\ srv'.pending = srv.pending
  BY DEF ServerInv, StateInv, StateTypes, Flags, AllowUnobserved
<1>3. op.raw \in Hashes /\ op.raw # None /\ ~srv.journalFailed
  BY <1>1 DEF ServerInv, StateInv, EndInv, Linked, OutcomeInv
<1>4. amb'.status = "OBSERVATION_FAILED" /\ UNCHANGED <<op, transport, disk, queue, writes>>
  BY DEF AllowUnobserved
<1>5. Linked'
  BY <1>1, <1>2, <1>3, <1>4 DEF Linked, WalletInv, OutcomeInv, FailureInv
<1>6. Keeps /\ Holds /\ SameOp
  BY <1>1, <1>2, <1>3, <1>4 DEF Keeps, Holds, Unanswered, Kept, SameOp
<1> QED
  BY <1>5, <1>6

-----------------------------------------------------------------------------
(* What a step of the server leaves of the page's requests *)

LEMMA LinkedInv == SessionInv => Linked
  BY DEF SessionInv, Linked

\* One request moves; the others and the page keep what they rely on.
LEMMA RequestMoves ==
    ASSUME SessionInv, ServerInv', Linked', Keeps, UNCHANGED <<browser, wallet>>,
           NEW r \in Kinds, \A q \in Kinds : q # r => req'[q] = req[q],
           req'[r].kind = req[r].kind, Opened(r)' <=> Opened(r),
           r = "next" => CommandInv', r = "arm" => ArmInv',
           IF r = "view" THEN ViewInv' ELSE op'.view = op.view,
           IF r = "result" THEN ResultInv' /\ HashIsKept' ELSE Holds
    PROVE  SessionInv'
<1>1. {"next", "view", "arm", "result"} \subseteq Kinds
  BY DEF Kinds
<1>2. \A q \in Kinds : (Opened(q)' <=> Opened(q)) /\ req'[q].kind = req[q].kind
  BY DEF Opened
<1>3. PageTypes' /\ KindInv'
  BY <1>2 DEF SessionInv, PageTypes, KindInv
<1>4. PageInv'
  BY <1>1, <1>2 DEF SessionInv, PageInv
<1>5. CommandInv'
  <2>1. CASE r # "next"
    BY <1>1, <1>2, <2>1 DEF SessionInv, CommandInv, Commanded, Answer, Keeps
  <2> QED
    BY <2>1
<1>6. ViewInv'
  <2>1. CASE r # "view"
    BY <1>1, <1>2, <2>1 DEF SessionInv, ViewInv
  <2> QED
    BY <2>1
<1>7. ArmInv'
  <2>1. CASE r # "arm"
    BY <1>1, <2>1 DEF SessionInv, ArmInv, Answer, Keeps
  <2> QED
    BY <2>1
<1>8. ResultInv' /\ HashIsKept'
  <2>1. CASE r # "result"
    <3>1. req'["result"] = req["result"] /\ Holds
      BY <1>1, <2>1
    <3>2. None \notin Hashes
      BY NoneAssumption DEF Outcomes
    <3>3. ResultInv'
      BY <3>1, <3>2 DEF SessionInv, ResultInv, Holds
    <3>4. HashIsKept'
      BY <3>1 DEF SessionInv, HashIsKept, Holds, Kept
    <3> QED
      BY <3>3, <3>4
  <2> QED
    BY <2>1
<1> QED
  BY <1>3, <1>4, <1>5, <1>6, <1>7, <1>8 DEF SessionInv, Linked

\* An answer.
LEMMA ReplyIs ==
    ASSUME SessionInv, NEW r \in Kinds, NEW reply, Reply(r, reply)
    PROVE  /\ \A q \in Kinds : q # r => req'[q] = req[q]
           /\ req'[r].kind = req[r].kind /\ req'[r].at = "replied" /\ req'[r].reply = reply
  BY KindsAssumption DEF SessionInv, ServerInv, RequestTypes, Reply

\* The handler goes on waiting.
LEMMA AwaitIs ==
    ASSUME SessionInv, NEW r \in Kinds, NEW place, Await(r, place)
    PROVE  /\ \A q \in Kinds : q # r => req'[q] = req[q]
           /\ req'[r].kind = req[r].kind /\ req'[r].at = place /\ req'[r].body = req[r].body
<1>1. DOMAIN req = Kinds /\ DOMAIN req[r] = {"kind", "body", "at", "reply"}
  BY KindsAssumption DEF SessionInv, ServerInv, RequestTypes
<1>2. \A q \in Kinds : q # r => req'[q] = req[q]
  BY <1>1 DEF Await
<1>3. req'[r] = [req[r] EXCEPT !.at = place]
  BY <1>1 DEF Await
<1> QED
  BY <1>1, <1>2, <1>3

\* A handler answers; an answer that means something to the page is handled apart.
LEMMA PlainReply ==
    ASSUME SessionInv, ServerInv', Linked', Keeps, Holds, op'.view = op.view,
           UNCHANGED <<browser, wallet>>, NEW r \in Kinds, Opened(r), NEW reply, Reply(r, reply),
           r \in {"next", "arm", "result"} => reply = "error",
           r = "result" => srv'.journalFailed \/ srv'.stopping
    PROVE  SessionInv'
<1>1. /\ \A q \in Kinds : q # r => req'[q] = req[q]
      /\ req'[r].kind = req[r].kind /\ req'[r].at = "replied" /\ req'[r].reply = reply
  BY ReplyIs
<1>2. (Opened(r)' <=> Opened(r)) /\ \A q \in Kinds : Opened(q)' <=> Opened(q)
  BY <1>1 DEF Opened
<1>3. ASSUME r = "next" PROVE CommandInv'
  BY <1>1, <1>2, <1>3 DEF SessionInv, CommandInv, Commanded, Answer, Keeps, Kinds
<1>4. ASSUME r = "arm" PROVE ArmInv'
  BY <1>1, <1>4 DEF ArmInv, Answer
<1>5. ASSUME r = "view" PROVE ViewInv'
  BY <1>1, <1>2, <1>5 DEF SessionInv, ViewInv, Kinds
<1>6. ASSUME r = "result" PROVE ResultInv' /\ HashIsKept'
  BY <1>1, <1>6 DEF ResultInv, HashIsKept
<1> QED
  BY <1>1, <1>2, <1>3, <1>4, <1>5, <1>6, RequestMoves

LEMMA PlainAwait ==
    ASSUME SessionInv, ServerInv', Linked', Keeps, Holds, op'.view = op.view,
           UNCHANGED <<browser, wallet>>, NEW r \in Kinds, Opened(r), r # "result",
           NEW place \in {"node", "write", "reconcile", "baseline", "gateway", "transport", "observe"},
           Await(r, place), r = "view" => req[r].at = "sent"
    PROVE  SessionInv'
<1>1. /\ \A q \in Kinds : q # r => req'[q] = req[q]
      /\ req'[r].kind = req[r].kind /\ req'[r].at = place /\ req'[r].body = req[r].body
  BY AwaitIs
<1>2. (Opened(r)' <=> Opened(r)) /\ \A q \in Kinds : Opened(q)' <=> Opened(q)
  BY <1>1 DEF Opened
<1>3. ASSUME r = "next" PROVE CommandInv'
  BY <1>1, <1>2, <1>3 DEF SessionInv, CommandInv, Commanded, Answer, Keeps, Kinds
<1>4. ASSUME r = "arm" PROVE ArmInv'
  BY <1>1, <1>4 DEF ArmInv, Answer
<1>5. ASSUME r = "view" PROVE ViewInv'
  BY <1>1, <1>2, <1>5 DEF SessionInv, ViewInv, Kinds
<1> QED
  BY <1>1, <1>2, <1>3, <1>4, <1>5, RequestMoves

\* No request moves.
LEMMA NothingMoves ==
    ASSUME SessionInv, ServerInv', Linked', Keeps, Holds, op'.view = op.view,
           UNCHANGED <<browser, wallet, req>>
    PROVE  SessionInv'
<1>1. "close" \in Kinds /\ Opened("close")' = Opened("close")
  BY DEF Kinds, Opened
<1> QED
  BY <1>1, RequestMoves

-----------------------------------------------------------------------------
(* The handlers *)

\* An open request is named by its kind.
LEMMA NamedByKind ==
    ASSUME SessionInv, NEW r \in Kinds, NEW kind, NEW place, At(r, kind, place), place # "idle"
    PROVE  r = kind /\ Opened(r)
  BY DEF SessionInv, KindInv, Opened, At

\* Only a flag changes that the page does not depend on.
LEMMA FlagLinks ==
    ASSUME SessionInv,
           \/ srv' = srv
           \/ \E b \in BOOLEAN : \/ srv' = [srv EXCEPT !.connected = b]
                                 \/ srv' = [srv EXCEPT !.operationInFlight = b]
                                 \/ srv' = [srv EXCEPT !.journalClosed = b]
                                 \/ srv' = [srv EXCEPT !.closed = b],
           UNCHANGED <<op, amb, transport, disk, writes, wallet>>
    PROVE  Linked' /\ Keeps /\ Holds /\ op'.view = op.view
<1>1. srv \in Flags
  BY DEF SessionInv, ServerInv, StateInv, StateTypes
<1>2. SameFlags
  BY <1>1 DEF Flags, SameFlags
<1>3. SameOp /\ SameFailures
  BY DEF SameOp, SameFailures
<1> QED
  BY <1>2, <1>3, QuietLinks, LinkedInv

LEMMA QuietHandlers ==
    ASSUME SessionInv, ServerInv', UNCHANGED <<browser, wallet>>, NEW r \in Kinds,
           \/ RefuseWhileStopping(r) \/ Handshake(r) \/ \E v \in Views : HandshakeCaptured(r, v)
           \/ CaptureFails(r) \/ BindView(r)
           \/ Allow(r) \/ BaselineCaptured(r) \/ AllowRefused(r)
           \/ AllowEnds(r) \/ AllowObserved(r)
    PROVE  SessionInv'
<1>1. Linked' /\ Keeps /\ Holds /\ op'.view = op.view
  <2>1. CASE \/ RefuseWhileStopping(r) \/ Handshake(r) \/ CaptureFails(r) \/ BindView(r)
    BY <2>1, FlagLinks DEF RefuseWhileStopping, Handshake, CaptureFails, BindView
  <2>2. CASE \E v \in Views : HandshakeCaptured(r, v)
    BY <2>2, FlagLinks, ZenonT(60) DEF HandshakeCaptured
  <2>3. CASE \/ Allow(r) \/ BaselineCaptured(r) \/ AllowRefused(r)
             \/ AllowEnds(r) \/ AllowObserved(r)
    BY <2>3, FlagLinks, ZenonT(60) DEF Allow, BaselineCaptured, AllowRefused, AllowEnds, AllowObserved, Finish
  <2> QED
    BY <2>1, <2>2, <2>3
<1>2. CASE RefuseWhileStopping(r)
  <2>1. Opened(r) /\ Reply(r, "error") /\ srv'.stopping
    BY <1>2 DEF RefuseWhileStopping, Opened
  <2> QED
    BY <1>1, <2>1, PlainReply
<1>3. CASE CaptureFails(r) \/ AllowRefused(r)
  <2>1. Opened(r) /\ Reply(r, "error") /\ r # "result"
    BY <1>3 DEF CaptureFails, AllowRefused, Finish, Opened, SessionInv, ResultInv
  <2> QED
    BY <1>1, <2>1, PlainReply
<1>4. CASE Handshake(r) \/ \E v \in Views : HandshakeCaptured(r, v)
  <2>1. r = "handshake" /\ Opened(r)
    BY <1>4, NamedByKind DEF Handshake, HandshakeCaptured, Arrives
  <2>2. Reply(r, "error") \/ Reply(r, "ok") \/ Await(r, "node")
    BY <1>4 DEF Handshake, HandshakeCaptured
  <2> QED
    BY <1>1, <2>1, <2>2, PlainReply, PlainAwait
<1>5. CASE BindView(r)
  <2>1. r = "view" /\ Opened(r) /\ req[r].at = "sent"
    BY <1>5, NamedByKind DEF BindView, Arrives, At
  <2>2. Reply(r, "error") \/ Await(r, "node")
    BY <1>5 DEF BindView
  <2> QED
    BY <1>1, <2>1, <2>2, PlainReply, PlainAwait
<1>6. CASE Allow(r) \/ BaselineCaptured(r) \/ AllowEnds(r) \/ AllowObserved(r)
  <2>1. r \in {"allow", "deny"} /\ Opened(r)
    BY <1>6, NamedByKind DEF Allow, BaselineCaptured, AllowEnds, AllowObserved, Arrives
  <2>2. \/ \E reply : Reply(r, reply)
        \/ \E place \in {"baseline", "gateway", "observe"} : Await(r, place)
    BY <1>6 DEF Allow, BaselineCaptured, AllowEnds, AllowObserved, Finish
  <2> QED
    BY <1>1, <2>1, <2>2, PlainReply, PlainAwait
<1> QED
  BY <1>2, <1>3, <1>4, <1>5, <1>6

LEMMA NextCommandLinks ==
    ASSUME SessionInv, ServerInv', UNCHANGED <<browser, wallet>>, NEW r \in Kinds, NextCommand(r)
    PROVE  SessionInv'
<1>1. r = "next" /\ Opened(r)
  BY NamedByKind DEF NextCommand, Arrives
<1>2. op \in Pendings
  BY DEF SessionInv, ServerInv, StateInv, StateTypes
<1>3. /\ op'.view = op.view /\ op'.armed = op.armed /\ op'.raw = op.raw
      /\ op'.candidate = op.candidate /\ op'.resultProcessing = op.resultProcessing
      /\ op.delivered => op'.delivered
  BY <1>2 DEF NextCommand, Pendings
<1>4. UNCHANGED <<srv, amb, transport, disk, queue, writes>>
  BY DEF NextCommand
<1>5. Linked' /\ Keeps /\ Holds
  BY <1>3, <1>4, StageLinks, LinkedInv DEF SameFlags, SameFailures
<1>6. PICK reply : /\ Reply(r, reply)
                   /\ reply = "command" => ~op.delivered /\ op'.delivered
  BY <1>2 DEF NextCommand, Pendings
<1>7. /\ \A q \in Kinds : q # r => req'[q] = req[q]
      /\ req'[r].kind = req[r].kind /\ req'[r].at = "replied" /\ req'[r].reply = reply
  BY <1>6, ReplyIs
<1>8. (Opened(r)' <=> Opened(r)) /\ \A q \in Kinds : Opened(q)' <=> Opened(q)
  BY <1>1, <1>7 DEF Opened
<1>9. CommandInv'
  BY <1>1, <1>3, <1>6, <1>7, <1>8 DEF SessionInv, CommandInv, Commanded, Answer, Kinds
<1> QED
  BY <1>1, <1>3, <1>5, <1>7, <1>8, <1>9, RequestMoves

LEMMA ClosingFlags ==
    ASSUME ServerInv, \/ CloseSession
                      \/ srv' = [srv EXCEPT !.stopping = TRUE, !.closed = TRUE, !.pending = FALSE]
    PROVE  /\ srv'.journaled = srv.journaled /\ srv'.journalFailed = srv.journalFailed
           /\ srv.stopping => srv'.stopping
  BY ZenonT(60) DEF ServerInv, StateInv, StateTypes, Flags, CloseSession

LEMMA BindViewCapturedLinks ==
    ASSUME SessionInv, ServerInv', UNCHANGED <<browser, wallet>>, NEW r \in Kinds,
           NEW v \in Views, NEW g \in BOOLEAN, BindViewCaptured(r, v, g)
    PROVE  SessionInv'
<1>1. r = "view" /\ Opened(r) /\ req[r].at = "node" /\ disk' = disk
  BY NamedByKind DEF BindViewCaptured, At
<1>2. op \in Pendings
  BY DEF SessionInv, ServerInv, StateInv, StateTypes
<1>3. CASE Reply(r, "error") /\ UNCHANGED <<srv, op, amb, transport, queue, writes>>
  <2>1. Linked' /\ Keeps /\ Holds
    BY <1>1, <1>3, FlagLinks
  <2> QED
    BY <1>1, <1>3, <2>1, PlainReply
<1>4. CASE op.view = None /\ Drop /\ Reply(r, "error")
  <2>1. ~op.armed
    BY <1>4 DEF SessionInv, ServerInv, StateInv, StageInv
  <2>2. Linked' /\ Keeps /\ Holds
    BY <1>1, <1>4, <2>1, ClosingFlags, DropLinks, LinkedInv DEF Drop, SessionInv
  <2>3. op'.view = op.view
    BY <1>2, <1>4 DEF Drop, Cancel, Pendings
  <2> QED
    BY <1>1, <1>4, <2>2, <2>3, PlainReply
<1>5. CASE /\ v = req[r].body /\ op' = [op EXCEPT !.view = v] /\ Reply(r, "ok")
           /\ UNCHANGED <<srv, amb, transport, queue, writes>>
  <2>1. /\ op'.view = v /\ op'.delivered = op.delivered /\ op'.armed = op.armed /\ op'.raw = op.raw
        /\ op'.candidate = op.candidate /\ op'.resultProcessing = op.resultProcessing
    BY <1>2, <1>5 DEF Pendings
  <2>2. Linked' /\ Keeps /\ Holds
    BY <1>1, <1>5, <2>1, StageLinks, LinkedInv DEF SameFlags, SameFailures
  <2>3. /\ \A q \in Kinds : q # r => req'[q] = req[q]
        /\ req'[r].kind = req[r].kind /\ req'[r].at = "replied"
    BY <1>5, ReplyIs
  <2>4. Opened(r)' <=> Opened(r)
    BY <1>1, <2>3 DEF Opened
  <2>5. v = browser.view
    BY <1>1, <1>5 DEF SessionInv, ViewInv
  <2>6. ViewInv'
    BY <1>1, <2>1, <2>3, <2>4, <2>5 DEF ViewInv
  <2> QED
    BY <1>1, <2>2, <2>3, <2>4, <2>6, RequestMoves
<1> QED
  BY <1>3, <1>4, <1>5 DEF BindViewCaptured

\* The fields that the arming and the dispatching of a command leave.
LEMMA ArmingIs ==
    ASSUME ServerInv,
           \/ op' = op
           \/ op' = [op EXCEPT !.arming = TRUE]
           \/ op' = [op EXCEPT !.dispatching = TRUE]
           \/ op' = [op EXCEPT !.dispatching = TRUE, !.dispatched = TRUE, !.timer = "result"]
    PROVE  SameOp
<1>1. op \in Pendings
  BY DEF ServerInv, StateInv, StateTypes
<1> QED
  BY <1>1, ZenonT(60) DEF SameOp, Pendings

LEMMA PersistingIs ==
    ASSUME ServerInv, NEW w \in {"arm", "dispatch", "hash"}, Persist(w) \/ writes' = writes
    PROVE  SameFailures
<1>1. writes \in [{"arm", "dispatch", "hash"} -> {"none", "queued", "done", "failed"}]
  BY DEF ServerInv, StateInv, StateTypes
<1> QED
  BY <1>1 DEF SameFailures, Persist

\* The command is armed, and the page may learn it.
LEMMA ArmedLinks ==
    ASSUME SessionInv, ServerInv', UNCHANGED <<browser, wallet>>, Opened("arm"), srv.pending,
           Armed("arm"), UNCHANGED <<srv, amb, transport, disk, queue, writes>>
    PROVE  SessionInv'
<1>1. op \in Pendings /\ "arm" \in Kinds
  BY DEF SessionInv, ServerInv, StateInv, StateTypes, Kinds
<1>2. /\ op'.view = op.view /\ op'.delivered = op.delivered /\ op'.armed /\ op'.raw = op.raw
      /\ op'.candidate = op.candidate /\ op'.resultProcessing = op.resultProcessing
  BY <1>1 DEF Armed, Pendings
<1>3. Linked' /\ Keeps /\ Holds
  BY <1>2, StageLinks, LinkedInv, ZenonT(60) DEF SameFlags, SameFailures
<1>4. /\ \A q \in Kinds : q # "arm" => req'[q] = req[q]
      /\ req'["arm"].kind = req["arm"].kind /\ req'["arm"].at = "replied"
  BY <1>1, ReplyIs DEF Armed
<1>5. Opened("arm")' <=> Opened("arm")
  BY <1>4 DEF Opened
<1>6. ArmInv'
  BY <1>2 DEF ArmInv
<1> QED
  BY <1>1, <1>2, <1>3, <1>4, <1>5, <1>6, RequestMoves

LEMMA ArmLinks ==
    ASSUME SessionInv, ServerInv', UNCHANGED <<browser, wallet>>, NEW r \in Kinds,
           Arm(r) \/ ArmPersisted(r)
    PROVE  SessionInv'
<1>1. r = "arm" /\ Opened(r) /\ disk' = disk
  BY NamedByKind DEF Arm, ArmPersisted, Arrives
<1>2. ServerInv /\ op \in Pendings
  BY DEF SessionInv, ServerInv, StateInv, StateTypes
<1>3. CASE Reply(r, "error") /\ UNCHANGED <<srv, op, amb, transport, queue, writes>>
  <2>1. Linked' /\ Keeps /\ Holds
    BY <1>1, <1>3, FlagLinks
  <2> QED
    BY <1>1, <1>3, <2>1, PlainReply
<1>4. CASE ~op.armed /\ Drop /\ Reply(r, "error")
  <2>1. Linked' /\ Keeps /\ Holds
    BY <1>1, <1>2, <1>4, ClosingFlags, DropLinks, LinkedInv DEF Drop
  <2>2. op'.view = op.view
    BY <1>2, <1>4 DEF Drop, Cancel, Pendings
  <2> QED
    BY <1>1, <1>4, <2>1, <2>2, PlainReply
<1>5. CASE /\ op' = [op EXCEPT !.arming = TRUE] /\ Persist("arm") /\ Await(r, "write")
           /\ UNCHANGED <<srv, amb, transport>>
  <2>1. SameOp /\ SameFailures
    BY <1>2, <1>5, ArmingIs, PersistingIs
  <2>2. Linked' /\ Keeps /\ Holds
    BY <1>1, <1>5, <2>1, QuietLinks, LinkedInv DEF SameFlags
  <2> QED
    BY <1>1, <1>5, <2>1, <2>2, PlainAwait DEF SameOp
<1>6. CASE srv.pending /\ Armed(r) /\ UNCHANGED <<srv, amb, transport, queue, writes>>
  BY <1>1, <1>6, ArmedLinks
<1> QED
  BY <1>3, <1>4, <1>5, <1>6 DEF Arm, ArmPersisted

LEMMA DispatchLinks ==
    ASSUME SessionInv, ServerInv', UNCHANGED <<browser, wallet>>, NEW r \in Kinds,
           SignalDispatched(r) \/ DispatchPersisted(r)
    PROVE  SessionInv'
<1>1. r = "dispatched" /\ Opened(r) /\ UNCHANGED <<srv, amb, transport, disk>>
  BY NamedByKind DEF SignalDispatched, DispatchPersisted, Arrives
<1>2. SameOp
  BY ArmingIs DEF SignalDispatched, DispatchPersisted, Dispatched, SessionInv
<1>3. SameFailures
  BY PersistingIs DEF SignalDispatched, DispatchPersisted, SessionInv
<1>4. Linked' /\ Keeps /\ Holds
  BY <1>1, <1>2, <1>3, QuietLinks, LinkedInv DEF SameFlags
<1>5. Reply(r, "error") \/ Reply(r, "ok") \/ Await(r, "write")
  BY DEF SignalDispatched, DispatchPersisted, Dispatched
<1> QED
  BY <1>1, <1>2, <1>4, <1>5, PlainReply, PlainAwait DEF SameOp

\* The result handler answers, or waits for the reconciliation.
LEMMA ResultReply ==
    ASSUME SessionInv, ServerInv', Linked', Keeps, op'.view = op.view,
           UNCHANGED <<browser, wallet>>, Opened("result"), NEW reply, Reply("result", reply),
           wallet \in Hashes => IF reply = "error" THEN srv'.journalFailed \/ srv'.stopping
                                ELSE Kept(wallet)'
    PROVE  SessionInv'
<1>1. "result" \in Kinds
  BY DEF Kinds
<1>2. /\ \A q \in Kinds : q # "result" => req'[q] = req[q]
      /\ req'["result"].kind = req["result"].kind
      /\ req'["result"].at = "replied" /\ req'["result"].reply = reply
  BY <1>1, ReplyIs
<1>3. Opened("result")' <=> Opened("result")
  BY <1>2 DEF Opened
<1>4. ResultInv'
  BY <1>2 DEF ResultInv
<1>5. HashIsKept'
  BY <1>2 DEF HashIsKept, Kept
<1> QED
  BY <1>1, <1>2, <1>3, <1>4, <1>5, RequestMoves

LEMMA ResultAwait ==
    ASSUME SessionInv, ServerInv', Linked', Keeps, op'.view = op.view,
           UNCHANGED <<browser, wallet>>, Opened("result"),
           \/ Await("result", "write") /\ req["result"].body.outcome = wallet
           \/ /\ Await("result", "reconcile")
              /\ wallet \in Hashes => amb' # None /\ amb'.hash = wallet
    PROVE  SessionInv'
<1>1. "result" \in Kinds
  BY DEF Kinds
<1>2. PICK place \in {"write", "reconcile"} :
          /\ Await("result", place)
          /\ place = "write" => req["result"].body.outcome = wallet
          /\ place = "reconcile" /\ wallet \in Hashes => amb' # None /\ amb'.hash = wallet
  OBVIOUS
<1>3. /\ \A q \in Kinds : q # "result" => req'[q] = req[q]
      /\ req'["result"].kind = req["result"].kind /\ req'["result"].at = place
      /\ req'["result"].body = req["result"].body
  BY <1>1, <1>2, AwaitIs
<1>4. Opened("result")' <=> Opened("result")
  BY <1>3 DEF Opened
<1>5. ResultInv'
  BY <1>2, <1>3 DEF ResultInv
<1>6. HashIsKept'
  BY <1>2, <1>3 DEF HashIsKept
<1> QED
  BY <1>1, <1>3, <1>4, <1>5, <1>6, RequestMoves

\* markAmbiguous takes the hash of a result unless it has that hash or storage failed.
LEMMA MarkedHash ==
    ASSUME StateInv, NEW cause \in Causes, NEW candidate \in Hashes,
           op.candidate \in {None, candidate}, amb' = Marked(cause, candidate),
           \/ amb # None /\ amb.hash = candidate
           \/ ~srv.journalFailed /\ (amb = None \/ amb.hash = None)
    PROVE  amb' # None /\ amb'.hash = candidate
<1>1. candidate # None
  BY NoneAssumption DEF Outcomes
<1>2. amb' \in Ambiguities /\ amb' # None
  BY MarkedIs, NoneAssumption
<1>3. CASE amb # None /\ amb.hash = candidate
  BY <1>1, <1>2, <1>3 DEF Marked
<1>4. CASE ~srv.journalFailed /\ (amb = None \/ amb.hash = None)
  <2> DEFINE known == IF amb = None
                      THEN [cause |-> cause, hash |-> None, status |-> "AWAITING_LATE_RESULT"]
                      ELSE amb
  <2>1. known \in Ambiguities /\ known.hash = None
    BY <1>4 DEF StateInv, StateTypes, Ambiguities, Statuses
  <2>2. \E status : amb' = [known EXCEPT !.hash = candidate, !.status = status]
    BY <1>1, <1>4, <2>1, ZenonT(60) DEF Marked
  <2> HIDE DEF known
  <2>3. amb'.hash = candidate
    BY <2>1, <2>2 DEF Ambiguities
  <2> QED
    BY <1>2, <2>3
<1> QED
  BY <1>3, <1>4

\* A result that waits to be examined is the wallet's answer, and the first one.
LEMMA ArrivedIs ==
    ASSUME SessionInv, NEW r \in Kinds, At(r, "result", "sent")
    PROVE  /\ r = "result" /\ Opened("result") /\ req["result"].body \in Results
           /\ req["result"].body.outcome = wallet /\ wallet # "idle" /\ op.armed /\ op.delivered
           /\ Unanswered /\ ~op.receipt
           /\ Candidate(req["result"].body) \in Hashes \union {None}
           /\ wallet \in Hashes => Candidate(req["result"].body) = wallet
           /\ Candidate(req["result"].body) # None => Candidate(req["result"].body) = wallet
<1>1. r = "result" /\ Opened("result") /\ req["result"].at = "sent"
  BY NamedByKind DEF At
<1>2. req["result"].body \in Results
  BY <1>1, KindsAssumption DEF SessionInv, ServerInv, RequestInv, Suspended
<1>3. wallet \in Outcomes /\ req["result"].body.outcome = wallet /\ Unanswered
  BY <1>1 DEF SessionInv, PageInv, ResultInv
<1>4. wallet # "idle"
  BY <1>3, WalletAssumption DEF Outcomes
<1>5. op.armed /\ op.delivered
  BY <1>4 DEF SessionInv, WalletInv, ServerInv, StateInv, StageInv
<1>6. ~op.receipt
  BY <1>3 DEF SessionInv, ServerInv, StateInv, StageInv, Unanswered
<1>7. /\ Candidate(req["result"].body) \in Hashes \union {None}
      /\ wallet \in Hashes => Candidate(req["result"].body) = wallet
      /\ Candidate(req["result"].body) # None => Candidate(req["result"].body) = wallet
  BY <1>2, <1>3, CandidateIs
<1> QED
  BY <1>1, <1>2, <1>3, <1>4, <1>5, <1>6, <1>7

\* The command is given up with the wallet's hash, if it has one.
LEMMA GiveUpLinks ==
    ASSUME SessionInv, ServerInv', UNCHANGED <<browser, wallet>>, Opened("result"),
           NEW cause \in Causes, NEW candidate \in Hashes \union {None},
           op.candidate \in {None, candidate}, wallet \in Hashes => candidate = wallet,
           wallet \in Hashes => \/ amb # None /\ amb.hash = candidate
                                \/ ~srv.journalFailed /\ (amb = None \/ amb.hash = None),
           GiveUp(cause, candidate), disk' = disk, Await("result", "reconcile")
    PROVE  SessionInv'
<1>1. ServerInv /\ StateInv /\ CloseSession /\ Abandon(cause, candidate)
  BY DEF SessionInv, ServerInv, GiveUp
<1>2. Linked' /\ Keeps /\ op'.view = op.view
  BY <1>1, ClosingFlags, AbandonLinks, LinkedInv
<1>3. wallet \in Hashes => amb' # None /\ amb'.hash = wallet
  BY <1>1, MarkedHash DEF Abandon
<1> QED
  BY <1>2, <1>3, ResultAwait

LEMMA ClassifyLinks ==
    ASSUME SessionInv, ServerInv', UNCHANGED <<browser, wallet>>, Opened("result"),
           srv.pending, req["result"].body \in Results, req["result"].body.outcome = wallet,
           op.candidate \in {None, Candidate(req["result"].body)},
           ClassifyResult("result"), disk' = disk
    PROVE  SessionInv'
<1> DEFINE candidate == Candidate(req["result"].body)
<1>1. /\ wallet \in Outcomes /\ candidate \in Hashes \union {None}
      /\ wallet \in Hashes => candidate = wallet
  BY CandidateIs
<1>2. ServerInv /\ op \in Pendings /\ amb = None /\ transport = "inflight" /\ ~srv.journalFailed
  BY DEF SessionInv, ServerInv, StateInv, StateTypes, PendingIsLive, EndInv
<1>3. CASE Parses(req["result"].body) /\ wallet # "INTERNAL_ERROR"
  <2>1. /\ op' = [op EXCEPT !.receipt = TRUE, !.raw = wallet, !.candidate = candidate,
                            !.resultProcessing = TRUE, !.timer = "settlement"]
        /\ Reply("result", "receipt") /\ UNCHANGED <<srv, amb, transport, queue, writes>>
    BY <1>3 DEF ClassifyResult
  <2> HIDE DEF candidate
  <2>2. /\ op'.raw = wallet /\ op'.candidate = candidate /\ op'.view = op.view
        /\ op'.armed = op.armed /\ op'.delivered = op.delivered
    BY <1>2, <2>1 DEF Pendings
  <2>3. Linked' /\ Keeps
    BY <1>2, <1>3, <2>1, <2>2, LinkedInv DEF Linked, WalletInv, OutcomeInv, FailureInv, Keeps
  <2>4. AcknowledgedIsDurable'
    BY ServerProperties, PTL
  <2>5. wallet \in Hashes => Kept(wallet)'
    BY <1>1, <2>1, <2>2, <2>4 DEF AcknowledgedIsDurable, Kept
  <2> QED
    BY <2>1, <2>2, <2>3, <2>5, ResultReply
<1>4. CASE ~(Parses(req["result"].body) /\ wallet # "INTERNAL_ERROR")
  <2>1. PICK cause \in Causes : GiveUp(cause, candidate) /\ Await("result", "reconcile")
    <3>1. CASE Parses(req["result"].body)
      BY <1>4, <3>1 DEF ClassifyResult, Causes
    <3>2. CASE ~Parses(req["result"].body)
      BY <3>2 DEF ClassifyResult, Causes
    <3> QED
      BY <3>1, <3>2
  <2>2. op.candidate \in {None, candidate}
    OBVIOUS
  <2> HIDE DEF candidate
  <2> QED
    BY <1>1, <1>2, <2>1, <2>2, GiveUpLinks
<1> QED
  BY <1>3, <1>4

LEMMA LateResultLinks ==
    ASSUME SessionInv, ServerInv', UNCHANGED <<browser, wallet>>, NEW r \in Kinds, LateResult(r)
    PROVE  SessionInv'
<1> DEFINE candidate == Candidate(req["result"].body)
<1>1. /\ r = "result" /\ Opened("result") /\ op.armed /\ op.delivered /\ Unanswered
      /\ candidate \in Hashes \union {None} /\ (wallet \in Hashes => candidate = wallet)
      /\ disk' = disk /\ ~(srv.pending /\ op.delivered)
  BY ArrivedIs DEF LateResult, Arrives
<1>2. amb # None
  BY <1>1 DEF SessionInv, OutcomeInv, Unanswered
<1>3. None \notin Hashes
  BY NoneAssumption DEF Outcomes
<1>4. CASE /\ Reply(r, "error") /\ UNCHANGED <<srv, op, amb, transport, queue, writes>>
           /\ candidate = None \/ amb.status # "AWAITING_LATE_RESULT"
  <2>1. Linked' /\ Keeps
    BY <1>1, <1>4, FlagLinks
  <2>2. wallet \in Hashes => srv'.journalFailed
    BY <1>1, <1>2, <1>3, <1>4 DEF Unanswered, SessionInv, FailureInv
  <2> QED
    BY <1>1, <1>4, <2>1, <2>2, ResultReply
<1>5. CASE /\ amb.status = "AWAITING_LATE_RESULT"
           /\ GiveUp(amb.cause, candidate) /\ Await(r, "reconcile")
  <2>1. amb.cause \in Causes
    BY <1>2 DEF SessionInv, ServerInv, StateInv, StateTypes, Ambiguities
  <2>2. op.candidate = None /\ amb.hash = None /\ ~srv.journalFailed
    BY <1>1, <1>2, <1>5 DEF Unanswered, SessionInv, FailureInv
  <2> HIDE DEF candidate
  <2> QED
    BY <1>1, <1>5, <2>1, <2>2, GiveUpLinks
<1> QED
  BY <1>1, <1>2, <1>4, <1>5 DEF LateResult

LEMMA FirstResultLinks ==
    ASSUME SessionInv, ServerInv', UNCHANGED <<browser, wallet>>, NEW r \in Kinds,
           RefuseResult(r) \/ UnacknowledgedResult(r) \/ ReceiveResult(r)
    PROVE  SessionInv'
<1> DEFINE candidate == Candidate(req["result"].body)
<1>1. /\ r = "result" /\ Opened("result") /\ op.armed /\ op.delivered /\ Unanswered
      /\ candidate \in Hashes \union {None} /\ (wallet \in Hashes => candidate = wallet)
      /\ req["result"].body \in Results /\ req["result"].body.outcome = wallet /\ ~op.receipt
      /\ disk' = disk /\ srv.pending
  BY ArrivedIs DEF RefuseResult, UnacknowledgedResult, ReceiveResult, Awaited, Arrives
<1>2. /\ ServerInv /\ op.candidate = None /\ op.raw = None /\ ~op.resultProcessing
      /\ amb = None /\ ~srv.journalFailed /\ op \in Pendings
  BY <1>1 DEF Unanswered, SessionInv, ServerInv, StateInv, StateTypes, PendingIsLive, EndInv
<1>3. ~RefuseResult(r)
  BY <1>1, <1>2 DEF RefuseResult
<1>4. CASE UnacknowledgedResult(r)
  <2>1. GiveUp("DISPATCH_ACK_UNAVAILABLE", candidate) /\ Await("result", "reconcile")
    BY <1>1, <1>4 DEF UnacknowledgedResult
  <2>2. "DISPATCH_ACK_UNAVAILABLE" \in Causes
    BY DEF Causes
  <2> HIDE DEF candidate
  <2> QED
    BY <1>1, <1>2, <2>1, <2>2, GiveUpLinks
<1>5. CASE /\ op' = [op EXCEPT !.candidate = candidate, !.resultProcessing = TRUE]
           /\ Persist("hash") /\ Await(r, "write") /\ UNCHANGED <<srv, amb, transport>>
  <2> HIDE DEF candidate
  <2>1. /\ op'.view = op.view /\ op'.delivered = op.delivered /\ op'.armed = op.armed
        /\ op'.raw = op.raw
    BY <1>2, <1>5 DEF Pendings
  <2>2. SameFailures
    BY <1>2, <1>5, PersistingIs
  <2>3. Linked' /\ Keeps
    BY <1>5, <2>1, <2>2, LinkedInv
       DEF Linked, WalletInv, OutcomeInv, FailureInv, SameFailures, Keeps
  <2> QED
    BY <1>1, <1>5, <2>1, <2>3, ResultAwait
<1>6. CASE ClassifyResult(r)
  BY <1>1, <1>2, <1>6, ClassifyLinks
<1> QED
  BY <1>1, <1>3, <1>4, <1>5, <1>6 DEF ReceiveResult

LEMMA ResultPersistedLinks ==
    ASSUME SessionInv, ServerInv', UNCHANGED <<browser, wallet>>, NEW r \in Kinds,
           ResultPersisted(r)
    PROVE  SessionInv'
<1>1. r = "result" /\ Opened("result") /\ req["result"].at = "write" /\ disk' = disk
  BY NamedByKind DEF ResultPersisted, At
<1>2. /\ req["result"].body \in Results /\ Candidate(req["result"].body) = op.candidate
      /\ srv.pending \/ amb # None
  BY <1>1, KindsAssumption DEF ResultPersisted, SessionInv, ServerInv, RequestInv, Suspended
<1>3. req["result"].body.outcome = wallet
  BY <1>1 DEF SessionInv, ResultInv
<1>4. op.candidate \in Hashes \union {None} /\ (wallet \in Hashes => op.candidate = wallet)
  BY <1>2, <1>3, CandidateIs
<1>5. None \notin Hashes
  BY NoneAssumption DEF Outcomes
<1>6. CASE /\ writes["hash"] = "failed" /\ Reply(r, "error")
           /\ UNCHANGED <<srv, op, amb, transport, queue, writes>>
  <2>1. Linked' /\ Keeps
    BY <1>1, <1>6, FlagLinks
  <2>2. srv'.journalFailed
    BY <1>6 DEF SessionInv, FailureInv
  <2> QED
    BY <1>1, <1>6, <2>1, <2>2, ResultReply
<1>7. CASE /\ ~srv.pending \/ srv.closed
           /\ GiveUp("RESULT_AFTER_CLOSURE", op.candidate) /\ Await(r, "reconcile")
  <2>1. amb # None
    BY <1>2, <1>7 DEF SessionInv, ServerInv, StateInv, PendingIsLive
  <2>2. wallet \in Hashes => amb.hash = op.candidate
    BY <1>4, <1>5, <2>1 DEF SessionInv, ServerInv, StateInv, HashInv
  <2>3. "RESULT_AFTER_CLOSURE" \in Causes
    BY DEF Causes
  <2> QED
    BY <1>1, <1>4, <1>7, <2>1, <2>2, <2>3, GiveUpLinks
<1>8. CASE srv.pending /\ ClassifyResult(r)
  BY <1>1, <1>2, <1>3, <1>8, ClassifyLinks
<1> QED
  BY <1>6, <1>7, <1>8 DEF ResultPersisted

LEMMA ResultReconciledLinks ==
    ASSUME SessionInv, ServerInv', UNCHANGED <<browser, wallet>>, NEW r \in Kinds,
           ResultReconciled(r)
    PROVE  SessionInv'
<1>1. r = "result" /\ Opened("result") /\ req["result"].at = "reconcile"
  BY NamedByKind DEF ResultReconciled, At
<1>2. /\ Reply(r, "ambiguous") /\ ~Reconciling
      /\ UNCHANGED <<srv, op, amb, transport, disk, queue, writes>>
  BY DEF ResultReconciled
<1>3. Linked' /\ Keeps
  BY <1>2, FlagLinks
<1>4. ASSUME wallet \in Hashes PROVE Kept(wallet)'
  <2>1. amb # None /\ amb.hash = wallet /\ wallet # None
    BY <1>1, <1>4, NoneAssumption DEF SessionInv, ResultInv, Outcomes
  <2>2. amb.status \in {"OBSERVED", "OBSERVATION_FAILED", "JOURNAL_WRITE_FAILED"}
    <3>1. amb.status \in Statuses
      BY <2>1 DEF SessionInv, ServerInv, StateInv, StateTypes, Ambiguities
    <3>2. amb.status # "AWAITING_LATE_RESULT"
      BY <2>1 DEF SessionInv, ServerInv, StateInv, HashInv
    <3> QED
      BY <1>2, <2>1, <3>1, <3>2 DEF Reconciling, Statuses
  <2>3. srv.journaled /\ amb.status # "JOURNAL_WRITE_FAILED" => disk.hash = wallet
    BY <2>1, <2>2 DEF SessionInv, ServerInv, StateInv, ObservedIsRetained
  <2> QED
    BY <1>2, <2>1, <2>2, <2>3 DEF Kept
<1> QED
  BY <1>1, <1>2, <1>3, <1>4, ResultReply

LEMMA SettleRequestLinks ==
    ASSUME SessionInv, ServerInv', UNCHANGED <<browser, wallet>>, NEW r \in Kinds, Settle(r)
    PROVE  SessionInv'
<1>1. r = "settle" /\ Opened(r) /\ UNCHANGED <<amb, disk, queue, writes>> /\ ServerInv
  BY NamedByKind DEF Settle, Arrives, SessionInv
<1>2. CASE Reply(r, "error") /\ UNCHANGED <<srv, op, transport>>
  <2>1. Linked' /\ Keeps /\ Holds
    BY <1>1, <1>2, FlagLinks
  <2> QED
    BY <1>1, <1>2, <2>1, PlainReply
<1>3. CASE /\ op.receipt /\ op' = [op EXCEPT !.receipt = FALSE, !.timer = "off"]
           /\ transport' = IF op.raw \in Hashes THEN "resolved" ELSE "rejected"
           /\ srv' = [srv EXCEPT !.pending = FALSE, !.closed = op.raw \notin Hashes]
           /\ Reply(r, "ok")
  <2>1. Linked' /\ Keeps /\ Holds /\ SameOp
    BY <1>1, <1>3, SettleLinks, LinkedInv
  <2> QED
    BY <1>1, <1>3, <2>1, PlainReply DEF SameOp
<1> QED
  BY <1>2, <1>3 DEF Settle

\* A command that is dropped or given up outside the result handler.
LEMMA EndLinks ==
    ASSUME SessionInv, wallet' = wallet, disk' = disk,
           \/ CloseSession
           \/ srv' = [srv EXCEPT !.stopping = TRUE, !.closed = TRUE, !.pending = FALSE],
           \/ op.delivered /\ \E cause \in Causes : Abandon(cause, op.candidate)
           \/ ~op.delivered /\ Cancel
    PROVE  Linked' /\ Keeps /\ Holds /\ op'.view = op.view
<1>1. /\ ServerInv /\ Linked /\ srv'.journaled = srv.journaled
      /\ srv'.journalFailed = srv.journalFailed /\ (srv.stopping => srv'.stopping)
  BY ClosingFlags, LinkedInv DEF SessionInv
<1>2. op \in Pendings
  BY <1>1 DEF ServerInv, StateInv, StateTypes
<1>3. CASE \E cause \in Causes : Abandon(cause, op.candidate)
  <2>1. op.candidate \in Hashes \union {None}
    BY <1>2 DEF Pendings
  <2> QED
    BY <1>1, <1>3, <2>1, AbandonLinks
<1>4. CASE ~op.delivered /\ Cancel
  <2>1. ~op.armed
    BY <1>1, <1>4 DEF ServerInv, StateInv, StageInv
  <2>2. op'.view = op.view
    BY <1>2, <1>4 DEF Cancel, Pendings
  <2> QED
    BY <1>1, <1>4, <2>1, <2>2, DropLinks
<1> QED
  BY <1>3, <1>4

LEMMA CloseLinks ==
    ASSUME SessionInv, ServerInv', UNCHANGED <<browser, wallet>>, NEW r \in Kinds, Close(r)
    PROVE  SessionInv'
<1>1. r = "close" /\ Opened(r) /\ Reply(r, "ok") /\ disk' = disk
  BY NamedByKind DEF Close, Arrives
<1>2. Linked' /\ Keeps /\ Holds /\ op'.view = op.view
  <2>1. CASE ~srv.pending
    BY <2>1, FlagLinks, ZenonT(60) DEF Close
  <2>2. CASE srv.pending
    <3>1. "BRIDGE_CLOSED" \in Causes
      BY DEF Causes
    <3> QED
      BY <1>1, <2>2, <3>1, EndLinks DEF Close, GiveUp, Drop
  <2> QED
    BY <2>1, <2>2
<1> QED
  BY <1>1, <1>2, PlainReply

LEMMA ForwardAndObserveLinks ==
    ASSUME SessionInv, ServerInv', UNCHANGED <<browser, wallet>>, NEW r \in Kinds,
           Forward(r) \/ AllowUnobserved(r)
    PROVE  SessionInv'
<1>1. r = "allow" /\ Opened(r) /\ ServerInv /\ Linked /\ r \in Requests
  BY NamedByKind, KindsAssumption, LinkedInv DEF Forward, AllowUnobserved, SessionInv
<1>2. Linked' /\ Keeps /\ Holds /\ op'.view = op.view
  BY <1>1, ForwardLinks, UnobservedLinks DEF SameOp
<1>3. Reply(r, "ambiguous") \/ Await(r, "transport")
  BY DEF Forward, AllowUnobserved
<1> QED
  BY <1>1, <1>2, <1>3, PlainReply, PlainAwait

-----------------------------------------------------------------------------
(* The server as a whole *)

LEMMA SessionHandlerStep ==
    ASSUME SessionInv, ServerInv', UNCHANGED <<browser, wallet>>, NEW r \in Kinds, Handler(r)
    PROVE  SessionInv'
<1>1. CASE \/ RefuseWhileStopping(r) \/ Handshake(r) \/ \E v \in Views : HandshakeCaptured(r, v)
           \/ CaptureFails(r) \/ BindView(r) \/ Allow(r) \/ BaselineCaptured(r)
           \/ AllowRefused(r) \/ AllowEnds(r) \/ AllowObserved(r)
  BY <1>1, QuietHandlers
<1>2. CASE NextCommand(r) \/ \E v \in Views, g \in BOOLEAN : BindViewCaptured(r, v, g)
  BY <1>2, NextCommandLinks, BindViewCapturedLinks
<1>3. CASE Arm(r) \/ ArmPersisted(r) \/ SignalDispatched(r) \/ DispatchPersisted(r)
  BY <1>3, ArmLinks, DispatchLinks
<1>4. CASE \/ LateResult(r) \/ RefuseResult(r) \/ UnacknowledgedResult(r) \/ ReceiveResult(r)
           \/ ResultPersisted(r) \/ ResultReconciled(r)
  BY <1>4, LateResultLinks, FirstResultLinks, ResultPersistedLinks, ResultReconciledLinks
<1>5. CASE Settle(r) \/ Close(r) \/ Forward(r) \/ AllowUnobserved(r)
  BY <1>5, SettleRequestLinks, CloseLinks, ForwardAndObserveLinks
<1> QED
  BY <1>1, <1>2, <1>3, <1>4, <1>5 DEF Handler

LEMMA SessionServerStep ==
    ASSUME SessionInv, Server, UNCHANGED <<browser, wallet>>
    PROVE  SessionInv'
<1>1. ServerInv /\ ServerInv' /\ Linked
  BY ServerStep, LinkedInv DEF SessionInv
<1>2. CASE \E r \in Requests : Handler(r)
  BY <1>1, <1>2, SessionHandlerStep, KindsAssumption
<1>3. CASE Deadline
  <2>1. /\ CloseSession /\ UNCHANGED <<disk, req>>
        /\ \/ op.delivered /\ \E cause \in Causes : Abandon(cause, op.candidate)
           \/ ~op.delivered /\ Cancel
    <3>1. CASE ~op.delivered
      BY <1>3, <3>1 DEF Deadline, Drop
    <3>2. CASE op.delivered /\ op.timer = "dispatchAck"
      BY <1>3, <3>2 DEF Deadline, GiveUp, Causes
    <3>3. CASE op.delivered /\ op.timer # "dispatchAck" /\ op.timer = "settlement"
      BY <1>3, <3>3 DEF Deadline, GiveUp, Causes
    <3>4. CASE op.delivered /\ op.timer # "dispatchAck" /\ op.timer # "settlement"
      BY <1>3, <3>4 DEF Deadline, GiveUp, Causes
    <3> QED
      BY <3>1, <3>2, <3>3, <3>4
  <2> QED
    BY <1>1, <2>1, EndLinks, NothingMoves
<1>4. CASE Stop
  <2>1. CASE ~srv.pending
    <3>1. SameFlags /\ SameOp /\ SameFailures /\ UNCHANGED <<amb, transport, disk, req>>
      BY <1>1, <1>4, <2>1, ZenonT(60) DEF Stop, SameFlags, SameOp, SameFailures, ServerInv, StateInv,
                              StateTypes, Flags
    <3>2. Linked' /\ Keeps /\ Holds
      BY <1>1, <3>1, QuietLinks
    <3> QED
      BY <1>1, <3>1, <3>2, NothingMoves DEF SameOp
  <2>2. CASE srv.pending
    <3>1. "BRIDGE_CLOSED" \in Causes
      BY DEF Causes
    <3>2. Linked' /\ Keeps /\ Holds /\ op'.view = op.view
      BY <1>4, <2>2, <3>1, EndLinks DEF Stop
    <3> QED
      BY <1>1, <1>4, <3>2, NothingMoves DEF Stop
  <2> QED
    BY <2>1, <2>2
<1>5. CASE Stopped
  <2>1. Linked' /\ Keeps /\ Holds /\ op'.view = op.view
    BY <1>5, FlagLinks, ZenonT(60) DEF Stopped
  <2> QED
    BY <1>1, <1>5, <2>1, NothingMoves DEF Stopped
<1>6. CASE Journal \/ Reconcile
  <2>1. Linked' /\ Keeps /\ Holds /\ op'.view = op.view
    BY <1>1, <1>6, JournalWritesLinks, JournalFailsLinks, ReconcileLinks DEF Journal, SameOp
  <2>2. req' = req
    BY <1>6 DEF Journal, JournalWrites, JournalFails, Reconcile, ReconcileRetained,
                ReconcileObserved
  <2> QED
    BY <1>1, <2>1, <2>2, NothingMoves
<1> QED
  BY <1>2, <1>3, <1>4, <1>5, <1>6 DEF Server

-----------------------------------------------------------------------------
(* The page, the wallet and the network *)

\* A step of the page leaves the server alone.
LEMMA PageLinks ==
    ASSUME SessionInv, UNCHANGED server, wallet' = wallet
    PROVE  Linked' /\ Keeps /\ Holds /\ op'.view = op.view
<1>1. SameOp /\ SameFlags /\ SameFailures /\ UNCHANGED <<amb, transport, disk>>
  BY DEF server, SameOp, SameFlags, SameFailures
<1> QED
  BY <1>1, QuietLinks, LinkedInv DEF SameOp

LEMMA PageServer ==
    ASSUME SessionInv, UNCHANGED server,
           \/ req' = req
           \/ \E kind \in Kinds : \E body \in Bodies(kind) : Send(kind, kind, body)
    PROVE  ServerInv'
<1>1. CASE req' = req
  BY <1>1, NextStep DEF SessionInv, server, vars
<1>2. CASE \E kind \in Kinds : \E body \in Bodies(kind) : Send(kind, kind, body)
  BY <1>2, SendStep, KindsAssumption DEF SessionInv, server
<1> QED
  BY <1>1, <1>2

\* What a request is after it is sent.
LEMMA SendIs ==
    ASSUME SessionInv, NEW kind \in Kinds, NEW body, Send(kind, kind, body)
    PROVE  /\ \A q \in Kinds : q # kind => req'[q] = req[q]
           /\ req'[kind].kind = kind /\ req'[kind].body = body /\ req'[kind].at = "sent"
           /\ KindInv'
<1>1. DOMAIN req = Kinds
  BY KindsAssumption DEF SessionInv, ServerInv, RequestTypes
<1>2. /\ \A q \in Kinds : q # kind => req'[q] = req[q]
      /\ req'[kind].kind = kind /\ req'[kind].body = body /\ req'[kind].at = "sent"
  BY <1>1 DEF Send
<1> QED
  BY <1>2 DEF SessionInv, KindInv, Opened

\* The page goes on to a place that asks nothing of its requests, or one that the
\* place before it prepared.
Advances ==
    \/ browser'.pc = browser.pc
    \/ browser'.pc \in {"start", "connecting", "poll", "end", "delivering", "finalSample", "settling"}
    \/ browser.pc = "polling" /\ Answer("next", "command") /\ browser'.pc = "sample"
    \/ browser.pc = "binding" /\ browser'.pc = "resample"
    \/ browser.pc = "dispatching" /\ browser'.pc = "outcome"

LEMMA PageElsewhere ==
    ASSUME SessionInv, ServerInv', UNCHANGED server, wallet' = wallet, PageTypes', KindInv',
           browser'.view = browser.view, Advances,
           \A q \in {"next", "view", "arm", "result"} : req'[q] = req[q]
    PROVE  SessionInv'
<1>1. Linked'
  BY PageLinks
<1>2. \A q \in {"next", "view", "arm", "result"} : Opened(q)' <=> Opened(q)
  BY DEF Opened
<1>3. PageInv'
  BY <1>2 DEF SessionInv, PageInv, CommandInv, Commanded, Advances
<1>4. UNCHANGED <<srv, op, amb, disk>>
  BY DEF server
<1>5. CommandInv'
  BY <1>2, <1>4 DEF SessionInv, CommandInv, Commanded, Answer, Advances
<1>6. ViewInv' /\ ArmInv'
  BY <1>2, <1>4 DEF SessionInv, ViewInv, ArmInv, Answer
<1>7. ResultInv' /\ HashIsKept'
  BY <1>4 DEF SessionInv, ResultInv, Unanswered, HashIsKept
<1> QED
  BY <1>1, <1>3, <1>5, <1>6, <1>7 DEF SessionInv, Linked

\* The page only moves on.
LEMMA PageMovesOn ==
    ASSUME SessionInv, UNCHANGED server, UNCHANGED <<req, wallet>>, Advances,
           NEW pc \in Places, NEW closed \in BOOLEAN,
           \/ browser' = [browser EXCEPT !.pc = pc]
           \/ browser' = [browser EXCEPT !.pc = pc, !.closed = closed]
    PROVE  SessionInv'
<1>1. browser \in [pc : Places, closed : BOOLEAN, view : Views \union {None}]
  BY DEF SessionInv, PageTypes
<1>2. browser' \in [pc : Places, closed : BOOLEAN, view : Views \union {None}]
  BY <1>1, ZenonT(60)
<1>3. browser'.view = browser.view
  BY <1>1, ZenonT(60)
<1>4. ServerInv' /\ PageTypes' /\ KindInv'
  BY <1>2, PageServer DEF SessionInv, PageTypes, KindInv, Opened
<1> QED
  BY <1>3, <1>4, PageElsewhere

\* closeBridge, and where the page goes on.
LEMMA ClosesAndMovesOn ==
    ASSUME SessionInv, UNCHANGED server, wallet' = wallet, NEW pc \in Places, CloseThen(pc),
           \/ pc = browser.pc \/ pc = "poll" \/ (browser.pc = "dispatching" /\ pc = "outcome")
    PROVE  SessionInv'
<1>1. browser \in [pc : Places, closed : BOOLEAN, view : Views \union {None}]
  BY DEF SessionInv, PageTypes
<1>2. browser' = [browser EXCEPT !.pc = pc, !.closed = TRUE]
  BY DEF CloseThen
<1>3. browser' \in [pc : Places, closed : BOOLEAN, view : Views \union {None}]
  BY <1>1, <1>2, ZenonT(60)
<1>4. browser'.pc = pc /\ browser'.view = browser.view
  BY <1>1, <1>2
<1>5. Advances
  BY <1>4 DEF Advances
<1>6. CASE req' = req
  BY <1>2, <1>5, <1>6, PageMovesOn, ZenonT(60)
<1>7. CASE Send("close", "close", None)
  <2>1. "close" \in Kinds /\ None \in Bodies("close")
    BY DEF Kinds, Bodies
  <2>2. ServerInv'
    BY <1>7, <2>1, PageServer
  <2>3. KindInv' /\ \A q \in Kinds : q # "close" => req'[q] = req[q]
    BY <1>7, <2>1, SendIs
  <2>4. \A q \in {"next", "view", "arm", "result"} : req'[q] = req[q]
    BY <2>3 DEF Kinds
  <2>5. PageTypes'
    BY <1>3 DEF PageTypes, SessionInv
  <2> QED
    BY <1>4, <1>5, <2>2, <2>3, <2>4, <2>5, PageElsewhere
<1> QED
  BY <1>6, <1>7 DEF CloseThen

\* The browser's record after a step.
LEMMA GotoIs ==
    ASSUME SessionInv, NEW pc \in Places, Goto(pc)
    PROVE  /\ browser' \in [pc : Places, closed : BOOLEAN, view : Views \union {None}]
           /\ browser'.pc = pc /\ browser'.view = browser.view /\ browser'.closed = browser.closed
<1>1. browser \in [pc : Places, closed : BOOLEAN, view : Views \union {None}]
  BY DEF SessionInv, PageTypes
<1>2. browser' \in [pc : Places, closed : BOOLEAN, view : Views \union {None}]
  BY <1>1 DEF Goto
<1> QED
  BY <1>1, <1>2 DEF Goto

\* Requests that nothing of the page's order hangs on.
LEMMA SendsElsewhere ==
    ASSUME SessionInv, UNCHANGED server, wallet' = wallet,
           NEW kind \in {"handshake", "allow", "settle"}, NEW body \in Bodies(kind),
           Send(kind, kind, body),
           \/ browser' = browser
           \/ \E pc \in {"connecting", "settling"} : Goto(pc)
    PROVE  SessionInv'
<1>1. kind \in Kinds
  BY DEF Kinds
<1>2. ServerInv'
  BY <1>1, PageServer
<1>3. KindInv' /\ \A q \in Kinds : q # kind => req'[q] = req[q]
  BY <1>1, SendIs
<1>4. \A q \in {"next", "view", "arm", "result"} : req'[q] = req[q]
  BY <1>3 DEF Kinds
<1>5. PageTypes' /\ browser'.view = browser.view /\ Advances
  <2>1. CASE browser' = browser
    BY <2>1 DEF SessionInv, PageTypes, Advances
  <2>2. ASSUME NEW pc \in {"connecting", "settling"}, Goto(pc)
        PROVE  PageTypes' /\ browser'.view = browser.view /\ Advances
    <3>1. pc \in Places
      BY DEF Places
    <3> QED
      BY <2>2, <3>1, GotoIs DEF PageTypes, SessionInv, Advances
  <2> QED
    BY <2>1, <2>2
<1> QED
  BY <1>2, <1>3, <1>4, <1>5, PageElsewhere

LEMMA PollStep == ASSUME SessionInv, UNCHANGED server, Poll PROVE SessionInv'
<1>1. CASE Goto("end") /\ UNCHANGED <<req, wallet>>
  <2>1. Advances /\ "end" \in Places
    BY <1>1, GotoIs DEF Advances, Places
  <2> QED
    BY <1>1, <2>1, PageMovesOn, ZenonT(60) DEF Goto
<1>2. CASE Goto("polling") /\ Send("next", "next", None) /\ wallet' = wallet
  <2>1. "next" \in Kinds /\ None \in Bodies("next") /\ "polling" \in Places
    BY DEF Kinds, Bodies, Places
  <2>2. ServerInv'
    BY <1>2, <2>1, PageServer
  <2>3. /\ KindInv' /\ \A q \in Kinds : q # "next" => req'[q] = req[q]
        /\ req'["next"].at = "sent"
    BY <1>2, <2>1, SendIs
  <2>4. PageTypes' /\ browser'.pc = "polling" /\ browser'.view = browser.view
    BY <1>2, <2>1, GotoIs DEF PageTypes, SessionInv
  <2>5. Linked' /\ UNCHANGED <<srv, op, amb, disk>>
    BY <1>2, PageLinks DEF server
  <2>6. \A q \in {"view", "arm", "result"} : req'[q] = req[q] /\ (Opened(q)' <=> Opened(q))
    BY <2>3 DEF Kinds, Opened
  <2>7. PageInv'
    BY <1>2, <2>4, <2>6 DEF SessionInv, PageInv
  <2>8. CommandInv'
    BY <2>3, <2>4, <2>5, <2>6 DEF SessionInv, CommandInv, Commanded, Answer
  <2>9. ViewInv' /\ ArmInv'
    BY <2>4, <2>5, <2>6 DEF SessionInv, ViewInv, ArmInv, Answer
  <2>10. ResultInv' /\ HashIsKept'
    BY <1>2, <2>5, <2>6 DEF SessionInv, ResultInv, Unanswered, HashIsKept
  <2> QED
    BY <2>2, <2>3, <2>4, <2>5, <2>7, <2>8, <2>9, <2>10 DEF SessionInv, Linked
<1> QED
  BY <1>1, <1>2 DEF Poll

\* The view request: the only place where the page's view changes.
LEMMA SampleStep ==
    ASSUME SessionInv, UNCHANGED server, NEW v \in Views, Sample(v) PROVE SessionInv'
<1>1. /\ browser.pc = "sample" /\ Send("view", "view", v) /\ wallet' = wallet
      /\ browser' = [browser EXCEPT !.pc = "binding", !.view = v]
  BY DEF Sample
<1>2. "view" \in Kinds /\ v \in Bodies("view")
  BY DEF Kinds, Bodies
<1>3. ServerInv'
  BY <1>1, <1>2, PageServer
<1>4. /\ KindInv' /\ \A q \in Kinds : q # "view" => req'[q] = req[q]
      /\ req'["view"].at = "sent" /\ req'["view"].body = v
  BY <1>1, <1>2, SendIs
<1>5. PageTypes' /\ browser'.pc = "binding" /\ browser'.view = v
  <2>1. browser \in [pc : Places, closed : BOOLEAN, view : Views \union {None}]
    BY DEF SessionInv, PageTypes
  <2>2. browser' \in [pc : Places, closed : BOOLEAN, view : Views \union {None}]
    BY <1>1, <2>1, ZenonT(60) DEF Places
  <2>3. browser'.pc = "binding" /\ browser'.view = v
    BY <1>1, <2>1
  <2> QED
    BY <1>1, <2>2, <2>3 DEF PageTypes, SessionInv
<1>6. Linked' /\ UNCHANGED <<srv, op, amb, disk>>
  BY <1>1, PageLinks DEF server
<1>7. ~Opened("view") /\ ~Opened("arm") /\ op.delivered /\ op.view = None
  BY <1>1 DEF SessionInv, CommandInv, Commanded, PageInv, ViewInv
<1>8. /\ \A q \in {"next", "arm", "result"} : req'[q] = req[q] /\ (Opened(q)' <=> Opened(q))
      /\ Opened("view")'
  BY <1>4 DEF Kinds, Opened
<1>9. PageInv'
  BY <1>1, <1>5, <1>7, <1>8 DEF SessionInv, PageInv
<1>10. CommandInv' /\ ViewInv' /\ ArmInv'
  BY <1>4, <1>5, <1>6, <1>7, <1>8 DEF SessionInv, CommandInv, Commanded, ViewInv, ArmInv, Answer
<1>11. ResultInv' /\ HashIsKept'
  BY <1>1, <1>6, <1>8 DEF SessionInv, ResultInv, Unanswered, HashIsKept
<1> QED
  BY <1>3, <1>4, <1>5, <1>6, <1>9, <1>10, <1>11 DEF SessionInv, Linked

LEMMA ResampleStep == ASSUME SessionInv, UNCHANGED server, Resample PROVE SessionInv'
<1>1. CASE Goto("poll") /\ UNCHANGED <<req, wallet>>
  <2>1. Advances /\ "poll" \in Places
    BY <1>1, GotoIs DEF Advances, Places
  <2> QED
    BY <1>1, <2>1, PageMovesOn, ZenonT(60) DEF Goto
<1>2. CASE Goto("arming") /\ Send("arm", "arm", browser.view) /\ wallet' = wallet
  <2>1. /\ ~Opened("arm") /\ Opened("view") /\ browser.view \in Views /\ wallet = "idle"
    BY DEF SessionInv, PageInv, Resample
  <2>2. "arm" \in Kinds /\ browser.view \in Bodies("arm") /\ "arming" \in Places
    BY <2>1 DEF Kinds, Bodies, Places
  <2>3. ServerInv'
    BY <1>2, <2>2, PageServer
  <2>4. /\ KindInv' /\ \A q \in Kinds : q # "arm" => req'[q] = req[q]
        /\ req'["arm"].at = "sent"
    BY <1>2, <2>2, SendIs
  <2>5. PageTypes' /\ browser'.pc = "arming" /\ browser'.view = browser.view
    BY <1>2, <2>2, GotoIs DEF PageTypes, SessionInv
  <2>6. Linked' /\ UNCHANGED <<srv, op, amb, disk>>
    BY <1>2, PageLinks DEF server
  <2>7. \A q \in {"next", "view", "result"} : req'[q] = req[q] /\ (Opened(q)' <=> Opened(q))
    BY <2>4 DEF Kinds, Opened
  <2>8. PageInv'
    BY <1>2, <2>1, <2>5, <2>7 DEF SessionInv, PageInv
  <2>9. CommandInv' /\ ViewInv' /\ ArmInv'
    BY <2>4, <2>5, <2>6, <2>7 DEF SessionInv, CommandInv, Commanded, ViewInv, ArmInv, Answer
  <2>10. ResultInv' /\ HashIsKept'
    BY <1>2, <2>6, <2>7 DEF SessionInv, ResultInv, Unanswered, HashIsKept
  <2> QED
    BY <2>3, <2>4, <2>5, <2>6, <2>8, <2>9, <2>10, ZenonT(60) DEF SessionInv, Linked
<1> QED
  BY <1>1, <1>2 DEF Resample

\* Before the wallet has answered no result was sent, and the server keeps none.
LEMMA NoResultYet ==
    ASSUME SessionInv, wallet \in {"idle", "prompt"}
    PROVE  wallet \notin Outcomes /\ ~Opened("result") /\ Unanswered /\ op.raw = None
<1>1. wallet \notin Outcomes
  BY WalletAssumption DEF Outcomes
<1>2. ~Opened("result")
  BY <1>1 DEF SessionInv, PageInv
<1>3. Unanswered
  BY <1>2 DEF SessionInv, ResultInv, Opened
<1> QED
  BY <1>1, <1>2, <1>3 DEF Unanswered

\* The wallet is called for an armed command, or answers, before any result.
LEMMA WalletMoves ==
    ASSUME SessionInv, UNCHANGED server, wallet \in {"idle", "prompt"}, op.armed,
           wallet' \in Outcomes \union {"prompt"}, req'["result"] = req["result"]
    PROVE  Linked' /\ ResultInv' /\ HashIsKept'
<1>1. UNCHANGED <<srv, op, amb, transport, disk, queue, writes>>
  BY DEF server
<1>2. ~Opened("result") /\ Unanswered /\ op.raw = None
  BY NoResultYet
<1>3. Linked'
  BY <1>1, <1>2 DEF SessionInv, Linked, WalletInv, OutcomeInv, FailureInv
<1>4. ResultInv' /\ HashIsKept'
  BY <1>1, <1>2 DEF ResultInv, Unanswered, HashIsKept, Opened
<1> QED
  BY <1>3, <1>4

LEMMA InvokeStep == ASSUME SessionInv, UNCHANGED server, Invoke PROVE SessionInv'
<1>1. CASE Goto("poll") /\ UNCHANGED <<req, wallet>>
  <2>1. Advances /\ "poll" \in Places
    BY <1>1, GotoIs DEF Advances, Places
  <2> QED
    BY <1>1, <2>1, PageMovesOn, ZenonT(60) DEF Goto
<1>2. CASE wallet' = "prompt" /\ Goto("dispatching") /\ Send("dispatched", "dispatched", None)
  <2>1. wallet = "idle" /\ op.armed /\ Opened("arm") /\ Opened("view")
    BY DEF SessionInv, PageInv, ArmInv, Invoke, FreshAcknowledgement, Answer, Opened
  <2>2. "dispatched" \in Kinds /\ None \in Bodies("dispatched") /\ "dispatching" \in Places
    BY DEF Kinds, Bodies, Places
  <2>3. ServerInv'
    BY <1>2, <2>2, PageServer
  <2>4. KindInv' /\ \A q \in Kinds : q # "dispatched" => req'[q] = req[q]
    BY <1>2, <2>2, SendIs
  <2>5. PageTypes' /\ browser'.pc = "dispatching" /\ browser'.view = browser.view
    BY <1>2, <2>2, GotoIs DEF PageTypes, SessionInv
  <2>6. \A q \in {"next", "view", "arm", "result"} : req'[q] = req[q] /\ (Opened(q)' <=> Opened(q))
    BY <2>4 DEF Kinds, Opened
  <2>7. Linked' /\ ResultInv' /\ HashIsKept'
    BY <1>2, <2>1, <2>6, WalletMoves
  <2>8. ~Opened("result") /\ UNCHANGED <<srv, op, amb, disk>>
    BY <2>1, NoResultYet DEF server
  <2>9. PageInv'
    BY <1>2, <2>1, <2>5, <2>6, <2>8 DEF PageInv
  <2>10. CommandInv' /\ ViewInv' /\ ArmInv'
    BY <2>5, <2>6, <2>8 DEF SessionInv, CommandInv, Commanded, ViewInv, ArmInv, Answer
  <2> QED
    BY <2>3, <2>4, <2>5, <2>7, <2>9, <2>10 DEF SessionInv, Linked
<1> QED
  BY <1>1, <1>2 DEF Invoke

LEMMA WalletAnswersStep ==
    ASSUME SessionInv, UNCHANGED server, NEW outcome \in Outcomes, WalletAnswers(outcome)
    PROVE  SessionInv'
<1>1. wallet = "prompt" /\ wallet' = outcome /\ req' = req /\ browser' = browser
  BY DEF WalletAnswers
<1>2. op.armed /\ Opened("arm") /\ browser.pc # "arming"
  BY <1>1 DEF SessionInv, WalletInv, PageInv
<1>3. ~Opened("result") /\ UNCHANGED <<srv, op, amb, disk>>
  BY <1>1, NoResultYet DEF server
<1>4. Linked' /\ ResultInv' /\ HashIsKept'
  BY <1>1, <1>2, WalletMoves
<1>5. ServerInv' /\ KindInv'
  BY <1>1, PageServer DEF SessionInv, KindInv, Opened
<1>6. outcome # "idle"
  BY WalletAssumption DEF Outcomes
<1>7. PageTypes' /\ PageInv'
  BY <1>1, <1>2, <1>3, <1>6 DEF SessionInv, PageTypes, PageInv, Opened
<1>8. CommandInv' /\ ViewInv' /\ ArmInv'
  BY <1>1, <1>3 DEF SessionInv, CommandInv, Commanded, ViewInv, ArmInv, Answer, Opened
<1> QED
  BY <1>4, <1>5, <1>7, <1>8 DEF SessionInv, Linked

LEMMA DeliverResultStep ==
    ASSUME SessionInv, UNCHANGED server, NEW matches \in BOOLEAN, Deliver(matches)
    PROVE  SessionInv'
<1>1. PICK body : body = [outcome |-> wallet, contextMatches |-> matches /\ ~browser.closed]
  BY ZenonT(60)
<1>2. Goto("delivering") /\ wallet' = wallet
  BY DEF Deliver
<1>3. ~Opened("result") /\ wallet \in Outcomes /\ wallet # "idle"
  BY DEF SessionInv, PageInv, PageTypes, Deliver
<1>4. Unanswered
  BY <1>3 DEF SessionInv, ResultInv, Opened
<1>5. browser.closed \in BOOLEAN
  BY DEF SessionInv, PageTypes
<1>6. body \in Results /\ body.outcome = wallet
  BY <1>1, <1>3, <1>5 DEF Results
<1>7. "result" \in Kinds /\ body \in Bodies("result") /\ "delivering" \in Places
  BY <1>6 DEF Kinds, Bodies, Places
<1>8. Send("result", "result", body)
  BY <1>1 DEF Deliver
<1>9. ServerInv'
  BY <1>7, <1>8, PageServer
<1>10. /\ KindInv' /\ \A q \in Kinds : q # "result" => req'[q] = req[q]
       /\ req'["result"].at = "sent" /\ req'["result"].body = body
  BY <1>7, <1>8, SendIs
<1>11. PageTypes' /\ browser'.pc = "delivering" /\ browser'.view = browser.view
  BY <1>2, <1>7, GotoIs DEF PageTypes, SessionInv
<1>12. Linked' /\ UNCHANGED <<srv, op, amb, disk>>
  BY <1>2, PageLinks DEF server
<1>13. \A q \in {"next", "view", "arm"} : req'[q] = req[q] /\ (Opened(q)' <=> Opened(q))
  BY <1>10 DEF Kinds, Opened
<1>14. PageInv'
  BY <1>2, <1>3, <1>11, <1>13 DEF SessionInv, PageInv
<1>15. CommandInv' /\ ViewInv' /\ ArmInv'
  BY <1>11, <1>12, <1>13 DEF SessionInv, CommandInv, Commanded, ViewInv, ArmInv, Answer
<1>16. ResultInv' /\ HashIsKept'
  BY <1>2, <1>4, <1>6, <1>10, <1>12 DEF ResultInv, Unanswered, HashIsKept
<1> QED
  BY <1>9, <1>10, <1>11, <1>12, <1>14, <1>15, <1>16 DEF SessionInv, Linked

\* A request or an answer is lost: to the page it is neither refused nor answered.
LEMMA LoseStep == ASSUME SessionInv, UNCHANGED server, NEW kind \in Kinds, Lose(kind) PROVE SessionInv'
<1>1. PICK x : x = [kind |-> req[kind].kind, body |-> None, at |-> "lost", reply |-> "none"]
  BY ZenonT(60)
<1>2. /\ DOMAIN x = {"kind", "body", "at", "reply"} /\ x.kind = req[kind].kind
      /\ x.body = None /\ x.at = "lost" /\ x.reply = "none"
  BY <1>1
<1>3. /\ DOMAIN req = Kinds /\ DOMAIN req[kind] = {"kind", "body", "at", "reply"}
      /\ req[kind].kind \in Kinds /\ kind \in Requests
  BY KindsAssumption DEF SessionInv, ServerInv, RequestTypes
<1>4. /\ \A q \in Kinds : q # kind => req'[q] = req[q]
      /\ DOMAIN req' = Kinds
      /\ req'[kind] = [req[kind] EXCEPT !.at = "lost", !.body = None, !.reply = "none"]
  BY <1>3 DEF Lose
<1>5. req'[kind] = x
  BY <1>1, <1>3, <1>4, ZenonT(60)
<1>6. req' = [req EXCEPT ![kind] = x]
  BY <1>3, <1>4, <1>5, ZenonT(60) DEF Lose
<1>7. UNCHANGED <<srv, op, amb, transport, disk, queue, writes>> /\ UNCHANGED <<browser, wallet>>
  BY DEF server, Lose
<1>8. StateInv' /\ Continue(Requests \ {kind})
  BY <1>3, <1>7, OtherFlag DEF SessionInv, ServerInv
<1>9. Suspended(kind)'
  BY <1>2, <1>5 DEF Suspended, At
<1>10. ServerInv
  BY DEF SessionInv
<1>11. ServerInv'
  BY <1>2, <1>3, <1>6, <1>8, <1>9, <1>10, MovesOn, ZenonT(60)
<1>12. Linked' /\ Keeps /\ Holds /\ op'.view = op.view
  BY <1>7, PageLinks
<1>13. Opened(kind)' /\ Opened(kind) /\ req'[kind].kind = req[kind].kind
  BY <1>2, <1>5 DEF Opened, Lose
<1>14. kind = "next" => CommandInv'
  <2>1. SUFFICES ASSUME kind = "next" PROVE CommandInv'
    OBVIOUS
  <2>2. req'["view"] = req["view"] /\ req'["next"].at = "lost"
    BY <1>2, <1>4, <1>5, <2>1 DEF Kinds
  <2> QED
    BY <1>7, <2>2 DEF SessionInv, CommandInv, Commanded, Answer, Opened
<1>15. kind = "arm" => ArmInv'
  BY <1>2, <1>5 DEF ArmInv, Answer
<1>16. kind = "view" => ViewInv'
  BY <1>2, <1>5, <1>7, <1>13 DEF SessionInv, ViewInv
<1>17. kind = "result" => ResultInv' /\ HashIsKept'
  BY <1>2, <1>5 DEF ResultInv, HashIsKept
<1> QED
  BY <1>4, <1>7, <1>11, <1>12, <1>13, <1>14, <1>15, <1>16, <1>17, RequestMoves, ZenonT(60)

\* The steps of the page that send nothing, or only close the session.
LEMMA GoesOn ==
    ASSUME SessionInv, UNCHANGED server,
           \/ Connected \/ Polled \/ SampleFails \/ Bound \/ ArmFails \/ WalletEvent
           \/ DispatchAcknowledged \/ DispatchUnacknowledged \/ Delivered \/ Settled \/ DeliveryFails
    PROVE  SessionInv'
<1>1. {"start", "poll", "sample", "resample", "outcome", "finalSample"} \subseteq Places
  BY DEF Places
<1>2. ASSUME UNCHANGED <<req, wallet>>, NEW pc \in Places, Goto(pc),
             \/ pc \in {"start", "poll", "finalSample"}
             \/ browser.pc = "polling" /\ Answer("next", "command") /\ pc = "sample"
             \/ browser.pc = "binding" /\ pc = "resample"
             \/ browser.pc = "dispatching" /\ pc = "outcome"
      PROVE  SessionInv'
  <2>1. Advances
    BY <1>2, GotoIs DEF Advances
  <2> QED
    BY <1>2, <2>1, PageMovesOn, ZenonT(60) DEF Goto
<1>3. ASSUME UNCHANGED <<req, wallet>>, NEW closed \in BOOLEAN,
             browser' = [browser EXCEPT !.pc = "poll", !.closed = closed]
      PROVE  SessionInv'
  <2>1. browser \in [pc : Places, closed : BOOLEAN, view : Views \union {None}]
    BY DEF SessionInv, PageTypes
  <2>2. Advances
    BY <1>3, <2>1 DEF Advances
  <2> QED
    BY <1>1, <1>3, <2>2, PageMovesOn, ZenonT(60)
<1>4. CASE Connected
  BY <1>1, <1>2, <1>4 DEF Connected
<1>5. CASE Polled
  <2>1. CASE req["next"].at = "lost" /\ CloseThen("poll")
    BY <1>1, <1>5, <2>1, ClosesAndMovesOn DEF Polled
  <2>2. CASE browser' = [browser EXCEPT !.pc = "poll", !.closed = TRUE] /\ UNCHANGED req
    BY <1>3, <1>5, <2>2, ZenonT(60) DEF Polled
  <2> QED
    BY <1>1, <1>2, <1>5, <2>1, <2>2 DEF Polled
<1>6. CASE SampleFails \/ ArmFails \/ DeliveryFails
  BY <1>1, <1>6, ClosesAndMovesOn DEF SampleFails, ArmFails, DeliveryFails
<1>7. CASE Bound
  <2>1. CASE CloseThen("poll")
    BY <1>1, <1>7, <2>1, ClosesAndMovesOn DEF Bound
  <2> QED
    BY <1>1, <1>2, <1>7, <2>1 DEF Bound
<1>8. CASE WalletEvent
  <2>1. browser.pc \in Places
    BY DEF SessionInv, PageTypes
  <2> QED
    BY <1>8, <2>1, ClosesAndMovesOn DEF WalletEvent
<1>9. CASE DispatchAcknowledged
  BY <1>1, <1>2, <1>9 DEF DispatchAcknowledged
<1>10. CASE DispatchUnacknowledged
  BY <1>1, <1>10, ClosesAndMovesOn DEF DispatchUnacknowledged
<1>11. CASE Delivered
  BY <1>1, <1>2, <1>3, <1>11, ZenonT(60) DEF Delivered
<1>12. CASE Settled
  <2>1. (browser.closed \/ wallet \notin Hashes) \in BOOLEAN
    OBVIOUS
  <2>2. browser' = [browser EXCEPT !.pc = "poll", !.closed = browser.closed \/ wallet \notin Hashes]
    BY <1>12 DEF Settled
  <2> QED
    BY <1>3, <1>12, <2>1, <2>2, ZenonT(60) DEF Settled
<1> QED
  BY <1>4, <1>5, <1>6, <1>7, <1>8, <1>9, <1>10, <1>11, <1>12

LEMMA FinalSampleStep ==
    ASSUME SessionInv, UNCHANGED server, NEW matches \in BOOLEAN, FinalSample(matches)
    PROVE  SessionInv'
<1>1. CASE CloseThen("poll")
  BY <1>1, ClosesAndMovesOn DEF FinalSample, Places
<1>2. CASE Goto("settling") /\ Send("settle", "settle", "receipt")
  <2>1. "receipt" \in Bodies("settle")
    BY DEF Bodies
  <2> QED
    BY <1>2, <2>1, SendsElsewhere DEF FinalSample
<1> QED
  BY <1>1, <1>2 DEF FinalSample

LEMMA PageStepPreserves == ASSUME SessionInv, Page PROVE SessionInv'
<1>1. UNCHANGED server
  BY DEF Page
<1>2. ASSUME NEW v \in Views, Connect(v) PROVE SessionInv'
  <2>1. v \in Bodies("handshake")
    BY DEF Bodies
  <2> QED
    BY <1>1, <1>2, <2>1, SendsElsewhere DEF Connect
<1>3. CASE ClickAllow
  <2>1. None \in Bodies("allow")
    BY DEF Bodies
  <2> QED
    BY <1>1, <1>3, <2>1, SendsElsewhere DEF ClickAllow
<1>4. ASSUME NEW v \in Views, Sample(v) PROVE SessionInv'
  BY <1>1, <1>4, SampleStep
<1>5. ASSUME NEW b \in BOOLEAN, Deliver(b) \/ FinalSample(b) PROVE SessionInv'
  BY <1>1, <1>5, DeliverResultStep, FinalSampleStep
<1>6. CASE PageStep \/ WalletEvent
  BY <1>1, <1>4, <1>5, <1>6, GoesOn, PollStep, ResampleStep, InvokeStep DEF PageStep
<1>7. ASSUME NEW outcome \in Outcomes, WalletAnswers(outcome) PROVE SessionInv'
  BY <1>1, <1>7, WalletAnswersStep
<1>8. ASSUME NEW kind \in Kinds, Lose(kind) PROVE SessionInv'
  BY <1>1, <1>8, LoseStep
<1> QED
  BY <1>2, <1>3, <1>6, <1>7, <1>8 DEF Page

-----------------------------------------------------------------------------
(* The invariant *)

LEMMA SessionInitially == ASSUME SessionInit PROVE SessionInv
<1>1. ServerInv
  BY ServerInitially DEF SessionInit
<1>2. /\ wallet = "idle" /\ browser \in [pc : Places, closed : BOOLEAN, view : Views \union {None}]
      /\ browser.pc = "start"
  BY DEF SessionInit, Places
<1>3. \A kind \in Kinds : ~Opened(kind) /\ req[kind].at = "idle"
  BY KindsAssumption DEF SessionInit, Init, Opened
<1>4. {"next", "view", "arm", "result"} \subseteq Kinds
  BY DEF Kinds
<1>5. /\ ~op.armed /\ ~op.delivered /\ ~op.resultProcessing
      /\ op.view = None /\ op.raw = None /\ op.candidate = None
      /\ amb = None /\ transport = "none"
      /\ \A w \in {"arm", "dispatch", "hash"} : writes[w] = "none"
  BY DEF SessionInit, Init
<1>6. PageTypes /\ KindInv /\ PageInv
  BY <1>2, <1>3, <1>4 DEF PageTypes, KindInv, PageInv
<1>7. CommandInv /\ ViewInv /\ ArmInv
  BY <1>2, <1>3, <1>4, <1>5 DEF CommandInv, Commanded, ViewInv, ArmInv, Answer
<1>8. WalletInv /\ OutcomeInv /\ FailureInv
  BY <1>2, <1>5 DEF WalletInv, OutcomeInv, FailureInv
<1>9. ResultInv /\ HashIsKept
  BY <1>3, <1>4, <1>5 DEF ResultInv, Unanswered, HashIsKept
<1> QED
  BY <1>1, <1>6, <1>7, <1>8, <1>9 DEF SessionInv

LEMMA SessionStep == SessionInv /\ [SessionNext]_allVars => SessionInv'
<1>1. ASSUME SessionInv, Page PROVE SessionInv'
  BY <1>1, PageStepPreserves
<1>2. ASSUME SessionInv, Server, UNCHANGED <<browser, wallet, event>> PROVE SessionInv'
  BY <1>2, SessionServerStep
<1>3. ASSUME SessionInv, UNCHANGED allVars PROVE SessionInv'
  <2>1. UNCHANGED server /\ UNCHANGED <<req, browser, wallet>>
    BY <1>3 DEF allVars, vars, server
  <2>2. ServerInv' /\ PageTypes' /\ KindInv' /\ Advances
    BY <1>3, <2>1, PageServer DEF SessionInv, PageTypes, KindInv, Opened, Advances
  <2> QED
    BY <1>3, <2>1, <2>2, PageElsewhere
<1> QED
  BY <1>1, <1>2, <1>3 DEF SessionNext

\* What the page, the wallet and the server keep together holds in every state.
LEMMA SessionInvariant == SessionSpec => []SessionInv
<1>1. SessionInit => SessionInv
  BY SessionInitially
<1> QED
  BY <1>1, SessionStep, PTL DEF SessionSpec

-----------------------------------------------------------------------------
(* Wallet events *)

\* The transport got the outcome that was kept.
Succeeded == transport \in {"resolved", "rejected"}

\* Before the settlement is submitted nothing can succeed, and after an event it is
\* not submitted any more.
EventInv ==
    /\ event \in {"none", "open", "called", "submitted"}
    /\ event # "none" => browser.closed
    /\ event = "open" => wallet = "idle"
    /\ event = "called" => wallet # "idle"
    /\ event \in {"open", "called"} => ~Opened("settle")
    /\ Succeeded => Opened("settle")

\* A handler works on an open request of its own and leaves the others alone.
LEMMA HandlerIsOpen ==
    ASSUME SessionInv, NEW r \in Kinds, Handler(r)
    PROVE  Opened(r) /\ \E x : Reply(r, x) \/ (Await(r, x) /\ x # "idle")
<1>1. CASE RefuseWhileStopping(r) \/ Handshake(r) \/ \E v \in Views : HandshakeCaptured(r, v)
  BY <1>1 DEF RefuseWhileStopping, Handshake, HandshakeCaptured, Arrives, At, Opened
<1>2. CASE \/ NextCommand(r) \/ BindView(r) \/ CaptureFails(r)
           \/ \E v \in Views, g \in BOOLEAN : BindViewCaptured(r, v, g)
  BY <1>2 DEF NextCommand, BindView, BindViewCaptured, CaptureFails, Arrives, At, Opened
<1>3. CASE Arm(r) \/ ArmPersisted(r) \/ SignalDispatched(r) \/ DispatchPersisted(r)
  BY <1>3 DEF Arm, ArmPersisted, SignalDispatched, DispatchPersisted, Armed, Dispatched, Arrives,
              At, Opened
<1>4. CASE LateResult(r) \/ RefuseResult(r) \/ UnacknowledgedResult(r)
  <2>1. Arrives(r, "result")
    BY <1>4 DEF LateResult, RefuseResult, UnacknowledgedResult, Awaited
  <2>2. Reply(r, "error") \/ Await(r, "reconcile")
    BY <1>4 DEF LateResult, RefuseResult, UnacknowledgedResult
  <2> QED
    BY <2>1, <2>2 DEF Arrives, At, Opened
<1>5. CASE ReceiveResult(r) \/ ResultPersisted(r) \/ ResultReconciled(r)
  BY <1>5 DEF ReceiveResult, ResultPersisted, ResultReconciled, ClassifyResult, Awaited, Arrives,
              At, Opened
<1>6. CASE Settle(r) \/ Close(r) \/ Allow(r) \/ BaselineCaptured(r) \/ AllowRefused(r)
  BY <1>6 DEF Settle, Close, Allow, BaselineCaptured, AllowRefused, Finish, Arrives, At, Opened
<1>7. CASE Forward(r) \/ AllowEnds(r) \/ AllowObserved(r) \/ AllowUnobserved(r)
  BY <1>7 DEF Forward, AllowEnds, AllowObserved, AllowUnobserved, Finish, At, Opened
<1> QED
  BY <1>1, <1>2, <1>3, <1>4, <1>5, <1>6, <1>7 DEF Handler

\* Only the settlement makes the transport succeed.
LEMMA HandlerSucceeds ==
    ASSUME NEW r \in Kinds, Handler(r), ~Settle(r)
    PROVE  Succeeded' => Succeeded
<1>1. ASSUME \/ Cancel \/ \E cause, candidate : Abandon(cause, candidate)
             \/ UNCHANGED transport
      PROVE  Succeeded' => Succeeded
  BY <1>1 DEF Cancel, Abandon, Succeeded
<1>2. CASE RefuseWhileStopping(r) \/ Handshake(r) \/ \E v \in Views : HandshakeCaptured(r, v)
  BY <1>1, <1>2 DEF RefuseWhileStopping, Handshake, HandshakeCaptured
<1>3. CASE \/ NextCommand(r) \/ BindView(r) \/ CaptureFails(r)
           \/ \E v \in Views, g \in BOOLEAN : BindViewCaptured(r, v, g)
  BY <1>1, <1>3 DEF NextCommand, BindView, BindViewCaptured, CaptureFails, Drop
<1>4. CASE Arm(r) \/ ArmPersisted(r) \/ SignalDispatched(r) \/ DispatchPersisted(r)
  BY <1>1, <1>4 DEF Arm, ArmPersisted, SignalDispatched, DispatchPersisted, Drop
<1>5. CASE LateResult(r) \/ RefuseResult(r) \/ UnacknowledgedResult(r)
  BY <1>1, <1>5 DEF LateResult, RefuseResult, UnacknowledgedResult, GiveUp
<1>6. CASE ReceiveResult(r) \/ ResultPersisted(r) \/ ResultReconciled(r)
  BY <1>1, <1>6 DEF ReceiveResult, ResultPersisted, ResultReconciled, ClassifyResult, GiveUp
<1>7. CASE Close(r) \/ Allow(r) \/ BaselineCaptured(r) \/ AllowRefused(r)
  BY <1>1, <1>7 DEF Close, Allow, BaselineCaptured, AllowRefused, Drop, GiveUp
<1>8. CASE Forward(r)
  BY <1>8 DEF Forward, Succeeded
<1>9. CASE AllowEnds(r) \/ AllowObserved(r) \/ AllowUnobserved(r)
  BY <1>1, <1>9 DEF AllowEnds, AllowObserved, AllowUnobserved
<1> QED
  BY <1>2, <1>3, <1>4, <1>5, <1>6, <1>7, <1>8, <1>9 DEF Handler

\* A step of the server opens no settlement, and nothing succeeds without one.
LEMMA ServerSucceeds ==
    ASSUME SessionInv, Server
    PROVE  /\ Opened("settle")' <=> Opened("settle")
           /\ Succeeded' => Succeeded \/ Opened("settle")
<1>1. ASSUME NEW r \in Kinds, Handler(r)
      PROVE  /\ Opened("settle")' <=> Opened("settle")
             /\ Succeeded' => Succeeded \/ Opened("settle")
  <2>1. Opened(r)
    BY <1>1, HandlerIsOpen
  <2>2. /\ \A q \in Kinds : q # r => req'[q] = req[q]
        /\ Opened(r)'
    <3>1. PICK x : Reply(r, x) \/ (Await(r, x) /\ x # "idle")
      BY <1>1, HandlerIsOpen
    <3>2. CASE Reply(r, x)
      BY <3>2, ReplyIs DEF Opened
    <3>3. CASE Await(r, x) /\ x # "idle"
      BY <3>3, AwaitIs DEF Opened
    <3> QED
      BY <3>1, <3>2, <3>3
  <2>3. Opened("settle")' <=> Opened("settle")
    BY <2>1, <2>2 DEF Opened, Kinds
  <2>4. CASE Settle(r)
    <3>1. r = "settle"
      BY <2>4, NamedByKind DEF Settle, Arrives
    <3> QED
      BY <2>1, <2>3, <3>1
  <2> QED
    BY <1>1, <2>3, <2>4, HandlerSucceeds
<1>2. CASE Deadline \/ Stop \/ Stopped \/ Journal \/ Reconcile
  <2>1. UNCHANGED req
    BY <1>2 DEF Deadline, Stop, Stopped, Journal, JournalWrites, JournalFails, Reconcile,
                ReconcileRetained, ReconcileObserved
  <2>2. Succeeded' => Succeeded
    BY <1>2 DEF Deadline, Stop, Stopped, Journal, JournalWrites, JournalFails, Reconcile,
                ReconcileRetained, ReconcileObserved, Drop, GiveUp, Cancel, Abandon, Succeeded
  <2> QED
    BY <2>1, <2>2 DEF Opened
<1> QED
  BY <1>1, <1>2, KindsAssumption DEF Server

LEMMA EventPage == ASSUME SessionInv, EventInv, Page PROVE EventInv'
<1>1. UNCHANGED server /\ (Succeeded' <=> Succeeded)
  BY DEF Page, server, Succeeded
<1>2. ASSUME UNCHANGED event, browser.closed => browser'.closed, UNCHANGED wallet,
             Opened("settle") => Opened("settle")',
             Opened("settle")' => Opened("settle") \/ ~browser.closed
      PROVE  EventInv'
  BY <1>1, <1>2 DEF EventInv
<1>3. ASSUME NEW pc, CloseThen(pc)
      PROVE  browser'.closed /\ (Opened("settle")' <=> Opened("settle"))
  <2>1. browser'.closed
    BY <1>3 DEF CloseThen, SessionInv, PageTypes
  <2>2. Opened("settle")' <=> Opened("settle")
    BY <1>3, KindsAssumption DEF CloseThen, Send, Opened, SessionInv, ServerInv, RequestTypes, Kinds
  <2> QED
    BY <2>1, <2>2
<1>4. ASSUME NEW pc, Goto(pc) PROVE browser'.closed = browser.closed
  BY <1>4 DEF Goto, SessionInv, PageTypes
<1>5. ASSUME NEW kind \in Kinds, NEW body, Send(kind, kind, body)
      PROVE  /\ Opened("settle") => Opened("settle")'
             /\ kind # "settle" => (Opened("settle")' <=> Opened("settle"))
  BY <1>5, KindsAssumption DEF Send, Opened, SessionInv, ServerInv, RequestTypes, Kinds
<1>6. ASSUME UNCHANGED req PROVE Opened("settle")' <=> Opened("settle")
  BY <1>6 DEF Opened
<1>7. CASE WalletEvent
  <2>1. browser'.closed /\ (Opened("settle")' <=> Opened("settle")) /\ UNCHANGED wallet
    BY <1>3, <1>7 DEF WalletEvent
  <2>2. event' \in {"open", "called", "submitted"}
    BY <1>7 DEF WalletEvent
  <2>3. /\ event' = "open" => wallet = "idle" /\ ~Opened("settle")
        /\ event' = "called" => wallet # "idle" /\ ~Opened("settle")
    BY <1>7 DEF WalletEvent, Opened
  <2> QED
    BY <1>1, <2>1, <2>2, <2>3 DEF EventInv
<1>8. ASSUME NEW v \in Views, Connect(v), UNCHANGED event PROVE EventInv'
  BY <1>2, <1>4, <1>5, <1>8 DEF Connect, Kinds
<1>9. ASSUME ClickAllow, UNCHANGED event PROVE EventInv'
  BY <1>2, <1>5, <1>9 DEF ClickAllow, Kinds
<1>10. ASSUME NEW kind \in Kinds, Lose(kind), UNCHANGED event PROVE EventInv'
  <2>1. Opened("settle")' <=> Opened("settle")
    BY <1>10, KindsAssumption DEF Lose, Opened, SessionInv, ServerInv, RequestTypes, Kinds
  <2> QED
    BY <1>2, <1>10, <2>1 DEF Lose
<1>11. ASSUME NEW outcome \in Outcomes, WalletAnswers(outcome), UNCHANGED event PROVE EventInv'
  <2>1. outcome # "idle"
    BY WalletAssumption DEF Outcomes
  <2>2. UNCHANGED browser /\ (Opened("settle")' <=> Opened("settle"))
    BY <1>6, <1>11 DEF WalletAnswers
  <2> QED
    BY <1>1, <1>11, <2>1, <2>2 DEF WalletAnswers, EventInv
<1>12. ASSUME Invoke, UNCHANGED event PROVE EventInv'
  <2>1. CASE browser.closed
    BY <1>2, <1>4, <1>6, <1>12, <2>1 DEF Invoke
  <2>2. CASE ~browser.closed
    <3>1. event = "none" /\ (Opened("settle")' <=> Opened("settle"))
      BY <1>5, <1>12, <2>2 DEF Invoke, EventInv, Kinds
    <3> QED
      BY <1>1, <1>12, <3>1 DEF EventInv
  <2> QED
    BY <2>1, <2>2
<1>13. ASSUME PageStep, ~Invoke, UNCHANGED event PROVE EventInv'
  <2>1. CASE Connected \/ Poll \/ Resample \/ DispatchAcknowledged
    BY <1>2, <1>4, <1>5, <1>6, <1>13, <2>1 DEF Connected, Poll, Resample, DispatchAcknowledged, Kinds
  <2>2. CASE Polled \/ Delivered \/ Settled
    <3>1. UNCHANGED wallet /\ (Opened("settle")' <=> Opened("settle"))
      BY <1>3, <1>6, <2>2 DEF Polled, Delivered, Settled
    <3>2. browser.closed => browser'.closed
      BY <1>3, <1>4, <2>2 DEF Polled, Delivered, Settled, SessionInv, PageTypes
    <3> QED
      BY <1>2, <1>13, <3>1, <3>2
  <2>3. CASE SampleFails \/ Bound \/ ArmFails \/ DispatchUnacknowledged \/ DeliveryFails
    BY <1>2, <1>3, <1>4, <1>6, <1>13, <2>3
       DEF SampleFails, Bound, ArmFails, DispatchUnacknowledged, DeliveryFails
  <2>4. ASSUME NEW v \in Views, Sample(v) PROVE EventInv'
    <3>1. browser'.closed = browser.closed
      BY <2>4 DEF Sample, SessionInv, PageTypes
    <3> QED
      BY <1>2, <1>5, <1>13, <2>4, <3>1 DEF Sample, Kinds
  <2>5. ASSUME NEW b \in BOOLEAN, Deliver(b) PROVE EventInv'
    BY <1>2, <1>4, <1>5, <1>13, <2>5 DEF Deliver, Kinds
  <2>6. ASSUME NEW b \in BOOLEAN, FinalSample(b) PROVE EventInv'
    BY <1>2, <1>3, <1>4, <1>5, <1>13, <2>6 DEF FinalSample, Kinds
  <2> QED
    BY <1>13, <2>1, <2>2, <2>3, <2>4, <2>5, <2>6 DEF PageStep
<1> QED
  BY <1>7, <1>8, <1>9, <1>10, <1>11, <1>12, <1>13 DEF Page

LEMMA EventInvariant == SessionSpec => []EventInv
<1>1. SessionInit => EventInv
  BY KindsAssumption DEF SessionInit, Init, EventInv, Succeeded, Opened, Kinds
<1>2. SessionInv /\ EventInv /\ [SessionNext]_allVars => EventInv'
  <2>1. ASSUME SessionInv, EventInv, Server, UNCHANGED <<browser, wallet, event>> PROVE EventInv'
    BY <2>1, ServerSucceeds DEF EventInv
  <2>2. ASSUME EventInv, UNCHANGED allVars PROVE EventInv'
    BY <2>2 DEF EventInv, Succeeded, Opened, allVars, vars
  <2> QED
    BY <2>1, <2>2, EventPage DEF SessionNext
<1> QED
  BY <1>1, <1>2, SessionInvariant, PTL DEF SessionSpec

-----------------------------------------------------------------------------
(* The results *)

\* browser-bridge.js and server.mjs: the wallet is called only for a command that is
\* armed for the page's view and, with a journal, on disk as armed, for every set of
\* views and hashes, whatever is lost and whenever the journal fails.
THEOREM WalletNeedsArmTheorem == SessionSpec => []WalletNeedsArm
<1>1. SessionInv => WalletNeedsArm
  BY ZenonT(60) DEF SessionInv, WalletNeedsArm, WalletInv, ViewInv, ServerInv, StateInv, StageInv, WriteInv,
         DiskInv
<1> QED
  BY <1>1, SessionInvariant, PTL

\* server.mjs: once the wallet was called, a command that is no longer pending was
\* settled with what the wallet answered, or is ambiguous.
THEOREM InvokedIsAccountedTheorem == SessionSpec => []InvokedIsAccounted
<1>1. ASSUME SessionInv PROVE InvokedIsAccounted
  <2>1. SUFFICES ASSUME wallet # "idle", ~srv.pending, amb = None
                 PROVE  \/ transport = "resolved" /\ wallet = op.raw
                        \/ transport = "rejected" /\ wallet = "USER_REJECTED"
    BY DEF InvokedIsAccounted
  <2>2. transport \in {"resolved", "rejected"} /\ op.raw # None
    BY <1>1, <2>1 DEF SessionInv, WalletInv, OutcomeInv
  <2>3. wallet = op.raw /\ op.raw # "INTERNAL_ERROR" /\ (transport = "rejected" => op.raw \notin Hashes)
    BY <1>1, <2>2 DEF SessionInv, WalletInv, OutcomeInv
  <2>4. op.raw \in Outcomes
    BY <1>1, <2>2 DEF SessionInv, ServerInv, StateInv, StateTypes, Pendings
  <2> QED
    BY <2>2, <2>3, <2>4 DEF Outcomes
<1> QED
  BY <1>1, SessionInvariant, PTL

\* server.mjs: a hash that the page delivered is kept, or reported as not retained,
\* when the page learns that it arrived.
THEOREM HashIsKeptTheorem == SessionSpec => []HashIsKept
<1>1. SessionInv => HashIsKept
  BY DEF SessionInv
<1> QED
  BY <1>1, SessionInvariant, PTL

\* browser-bridge.js: a wallet event closes the page for good.  The wallet is not
\* called after it, and a command that was called but not submitted for settlement
\* ends as ambiguous, whatever is lost and whatever the samples show.
THEOREM EventIsFinalTheorem == SessionSpec => []EventIsFinal
<1>1. ASSUME SessionInv, EventInv PROVE EventIsFinal
  <2>1. ASSUME event # "none", event # "submitted"
        PROVE  transport # "resolved" /\ transport # "rejected"
    BY <1>1, <2>1 DEF EventInv, Succeeded
  <2>2. ASSUME event = "called", ~srv.pending PROVE amb # None
    <3>1. op.armed
      BY <1>1, <2>2 DEF SessionInv, WalletInv, EventInv
    <3> QED
      BY <1>1, <2>1, <2>2, <3>1 DEF SessionInv, OutcomeInv
  <2> QED
    BY <1>1, <2>1, <2>2 DEF EventIsFinal, EventInv
<1> QED
  BY <1>1, SessionInvariant, EventInvariant, PTL
=============================================================================
