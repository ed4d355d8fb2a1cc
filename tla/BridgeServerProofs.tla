------------------------- MODULE BridgeServerProofs -------------------------
(***************************************************************************)
(* What BridgeServer keeps for any number of requests that are open at the *)
(* same time, any views and any hashes, whatever the client sends and in   *)
(* whatever order deadlines, writes and observations end.                  *)
(***************************************************************************)
EXTENDS BridgeServer, TLAPS

\* The stages of a command come one after the other, and a result is examined once.
StageInv ==
    /\ op.armed => op.view # None
    /\ op.view # None => op.delivered
    /\ op.delivered => transport # "none"
    /\ op.dispatched => op.armed
    /\ op.raw # None => op.dispatched /\ op.resultProcessing
    /\ op.receipt => op.raw # None
    /\ op.raw \in Hashes => op.candidate = op.raw
    /\ op.candidate # None => op.resultProcessing \/ amb # None

\* What ends a session: an ambiguity, a storage failure, a success.
EndInv ==
    /\ amb # None => srv.closed /\ op.delivered
    /\ srv.journalFailed => amb # None
    /\ transport = "resolved" =>
          op.raw \in Hashes /\ (amb = None \/ amb.cause = "OBSERVATION_FAILED")

\* The hash of an ambiguity is the one that is written, or none.
HashInv ==
    amb # None =>
        /\ op.candidate # None => amb.hash = op.candidate
        /\ amb.status = "AWAITING_LATE_RESULT" => amb.hash = None
        /\ amb.status = "RETAINING_HASH" =>
              srv.journaled /\ ~srv.journalFailed /\ op.candidate # None

\* Each fact is written at most once, the queue holds what is not written yet, and
\* a stage that was reached with a journal is on disk.
WriteInv ==
    /\ \A w \in {"arm", "dispatch", "hash"} : writes[w] # "none" => srv.journaled /\ op.delivered
    /\ writes["arm"] # "none" => op.arming
    /\ writes["dispatch"] # "none" => op.dispatching
    /\ writes["hash"] # "none" => op.candidate # None
    /\ srv.journaled => /\ op.armed => writes["arm"] = "done"
                        /\ op.dispatched => writes["dispatch"] = "done"
                        /\ op.raw \in Hashes => writes["hash"] = "done"

QueueInv ==
    /\ \A i \in DOMAIN queue : writes[queue[i]] = "queued"
    /\ \A i, j \in DOMAIN queue : queue[i] = queue[j] => i = j

DiskInv ==
    /\ writes["arm"] = "done" => disk.state # "READY"
    /\ writes["dispatch"] = "done" => disk.state \in {"DISPATCHED", "HASH_OBSERVED"}
    /\ writes["hash"] = "done" => disk.hash = op.candidate
    /\ disk.hash # None => disk.state = "HASH_OBSERVED"
    /\ disk.state = "ARMED" => disk.revision = 1
    /\ disk.state = "DISPATCHED" => disk.revision = 2

\* What a suspended handler may rely on when it goes on.
Suspended(r) ==
    /\ At(r, "view", "node") => op.delivered
    /\ At(r, "arm", "write") => writes["arm"] # "none" /\ op.view # None
    /\ At(r, "dispatched", "write") => writes["dispatch"] # "none" /\ op.armed
    /\ At(r, "result", "sent") => req[r].body \in Results
    /\ At(r, "result", "write") =>
          /\ req[r].body \in Results /\ Candidate(req[r].body) = op.candidate
          /\ writes["hash"] # "none" /\ op.dispatched /\ op.resultProcessing
          /\ op.raw = None /\ (srv.pending \/ amb # None)
    /\ req[r].at \in {"transport", "observe"} =>
          /\ transport # "none"
          /\ transport = "resolved" => amb = None
    /\ req[r].at = "observe" => transport = "resolved"

RequestInv == \A r \in Requests : Suspended(r)

\* The handlers of S that a step leaves alone can still rely on that.
Continue(S) == \A q \in S : Suspended(q) /\ req'[q] = req[q] => Suspended(q)'

\* One handler examines the result, and one waits for the transport.
AloneInv ==
    \A q, r \in Requests :
        \/ At(q, "result", "write") /\ At(r, "result", "write")
        \/ req[q].at \in {"transport", "observe"} /\ req[r].at \in {"transport", "observe"}
        => q = r

StateInv == /\ StateTypes /\ PendingIsLive /\ StageInv /\ EndInv /\ HashInv /\ ObservedIsRetained
            /\ WriteInv /\ QueueInv /\ DiskInv

ServerInv == StateInv /\ RequestTypes /\ RequestInv /\ AloneInv

-----------------------------------------------------------------------------
(* What a step leaves of the server's state *)

\* Flags that no stage depends on; a session without a command may close.
LEMMA FlagsStep ==
    ASSUME StateInv, srv' \in Flags, srv'.pending = srv.pending, srv'.journaled = srv.journaled,
           srv'.journalFailed = srv.journalFailed,
           srv'.closed = srv.closed \/ (srv'.closed = TRUE /\ ~srv.pending),
           UNCHANGED <<op, amb, transport, disk, queue, writes>>
    PROVE  StateInv' /\ Continue(Requests)
<1>1. StateTypes'
  BY DEF StateInv, StateTypes
<1>2. PendingIsLive' /\ StageInv' /\ EndInv' /\ HashInv' /\ ObservedIsRetained'
  BY DEF StateInv, PendingIsLive, StageInv, EndInv, HashInv, ObservedIsRetained
<1>3. WriteInv' /\ QueueInv' /\ DiskInv'
  BY DEF StateInv, WriteInv, QueueInv, DiskInv
<1>4. Continue(Requests)
  BY DEF Continue, Suspended, At, StateInv, PendingIsLive, StageInv
<1> QED
  BY <1>4, <1>1, <1>2, <1>3 DEF StateInv

\* The command is dropped before it can have reached the wallet.
LEMMA DropStep ==
    ASSUME StateInv, srv.pending, ~op.dispatched,
           srv' \in Flags, srv'.pending = FALSE, srv'.closed = TRUE,
           srv'.journaled = srv.journaled, srv'.journalFailed = srv.journalFailed,
           Cancel, disk' = disk
    PROVE  StateInv' /\ Continue(Requests)
<1>1. op' \in Pendings
  BY DEF Cancel, StateInv, StateTypes, Pendings
<1>2. /\ op'.view = op.view /\ op'.candidate = op.candidate /\ op'.raw = op.raw
      /\ op'.delivered = op.delivered /\ op'.arming = op.arming /\ op'.armed = op.armed
      /\ op'.dispatching = op.dispatching /\ op'.dispatched = op.dispatched
      /\ op'.resultProcessing = op.resultProcessing /\ op'.receipt = op.receipt
  BY DEF Cancel, StateInv, StateTypes, Pendings
<1>3. transport' = "failed" /\ UNCHANGED <<amb, queue, writes>>
  BY DEF Cancel
<1>4. StateTypes'
  BY <1>1, <1>3 DEF StateInv, StateTypes
<1>5. PendingIsLive' /\ StageInv' /\ EndInv' /\ HashInv' /\ ObservedIsRetained'
  BY <1>2, <1>3 DEF StateInv, PendingIsLive, StageInv, EndInv, HashInv, ObservedIsRetained
<1>6. WriteInv' /\ QueueInv' /\ DiskInv'
  BY <1>2, <1>3 DEF StateInv, WriteInv, QueueInv, DiskInv
<1>7. Continue(Requests)
  BY <1>2, <1>3 DEF Continue, Suspended, At, StateInv, PendingIsLive, StageInv
<1> QED
  BY <1>7, <1>4, <1>5, <1>6 DEF StateInv

\* markAmbiguous: an ambiguity is left as it is, or it gets the hash it lacks.
LEMMA MarkedIs ==
    ASSUME StateInv, NEW cause \in Causes, NEW candidate \in Hashes \union {None},
           op.candidate \in {None, candidate}, amb' = Marked(cause, candidate)
    PROVE  /\ amb' \in Ambiguities
           /\ amb # None => amb'.cause = amb.cause
           /\ \/ amb # None /\ amb' = amb
              \/ /\ amb = None /\ candidate = None /\ amb'.hash = None
                 /\ amb'.status = "AWAITING_LATE_RESULT"
              \/ /\ amb' # amb /\ candidate # None /\ amb'.hash = candidate /\ ~srv.journalFailed
                 /\ amb # None => amb.hash = None
                 /\ srv.journaled => amb'.status = "RETAINING_HASH"
                 /\ ~srv.journaled => amb'.status = "OBSERVING"
<1> DEFINE known == IF amb = None
                    THEN [cause |-> cause, hash |-> None, status |-> "AWAITING_LATE_RESULT"]
                    ELSE amb
<1>1. /\ known \in Ambiguities
      /\ amb = None => known.hash = None /\ known.status = "AWAITING_LATE_RESULT"
      /\ amb # None => known = amb
  BY DEF Ambiguities, Statuses, StateInv, StateTypes
<1>2. srv.journalFailed => amb # None
  BY DEF StateInv, EndInv
<1>3. CASE candidate = None \/ known.hash # None \/ srv.journalFailed
  <2>1. amb' = known
    BY <1>3 DEF Marked
  <2> HIDE DEF known
  <2> QED
    BY <1>1, <1>2, <1>3, <2>1
<1>4. CASE ~(candidate = None \/ known.hash # None \/ srv.journalFailed)
  <2>1. amb' = [known EXCEPT !.hash = candidate,
                             !.status = IF ~srv.journaled THEN "OBSERVING" ELSE "RETAINING_HASH"]
    BY <1>4 DEF Marked
  <2> HIDE DEF known
  <2>2. amb' \in Ambiguities
    BY <1>1, <2>1, ZenonT(60) DEF Ambiguities, Statuses
  <2>3. /\ amb'.cause = known.cause /\ amb'.hash = candidate
        /\ amb'.status = IF ~srv.journaled THEN "OBSERVING" ELSE "RETAINING_HASH"
    BY <1>1, <2>1 DEF Ambiguities
  <2>4. amb' # amb
    BY <1>1, <1>4, <2>2, <2>3, NoneAssumption
  <2> QED
    BY <1>1, <1>4, <2>2, <2>3, <2>4
<1> QED
  BY <1>3, <1>4

\* The write of a hash begins; the record of the command keeps the rest.
LEMMA RetainIs ==
    ASSUME StateInv, NEW candidate \in Hashes \union {None}, Retain(candidate)
    PROVE  /\ op' \in Pendings
           /\ op'.view = op.view /\ op'.raw = op.raw /\ op'.delivered = op.delivered
           /\ op'.arming = op.arming /\ op'.armed = op.armed /\ op'.dispatching = op.dispatching
           /\ op'.dispatched = op.dispatched /\ op'.resultProcessing = op.resultProcessing
           /\ op'.receipt = op.receipt
           /\ \/ op'.candidate = op.candidate /\ UNCHANGED <<queue, writes>>
                 /\ (srv.journaled /\ candidate # None => writes["hash"] # "none")
              \/ op'.candidate = candidate /\ candidate # None /\ srv.journaled
                 /\ writes["hash"] = "none" /\ Persist("hash")
<1>1. CASE srv.journaled /\ candidate # None /\ writes["hash"] = "none"
  BY <1>1, ZenonT(60) DEF Retain, StateInv, StateTypes, Pendings
<1>2. CASE ~(srv.journaled /\ candidate # None /\ writes["hash"] = "none")
  BY <1>2 DEF Retain, StateInv, StateTypes, Pendings
<1> QED
  BY <1>1, <1>2

\* A write joins the queue once.
LEMMA PersistIs ==
    ASSUME StateInv, NEW w \in {"arm", "dispatch", "hash"}, writes[w] = "none", Persist(w)
    PROVE  /\ queue' \in Seq({"arm", "dispatch", "hash"}) /\ QueueInv'
           /\ writes' \in [{"arm", "dispatch", "hash"} -> {"none", "queued", "done", "failed"}]
           /\ writes'[w] = "queued"
           /\ \A v \in {"arm", "dispatch", "hash"} : v # w => writes'[v] = writes[v]
<1>1. queue \in Seq({"arm", "dispatch", "hash"})
  BY DEF StateInv, StateTypes
<1>2. queue' = Append(queue, w) /\ writes' = [writes EXCEPT ![w] = "queued"]
  BY DEF Persist
<1>3. /\ writes' \in [{"arm", "dispatch", "hash"} -> {"none", "queued", "done", "failed"}]
      /\ writes'[w] = "queued"
      /\ \A v \in {"arm", "dispatch", "hash"} : v # w => writes'[v] = writes[v]
  BY <1>2 DEF StateInv, StateTypes
<1>4. /\ queue' \in Seq({"arm", "dispatch", "hash"}) /\ DOMAIN queue' = DOMAIN queue \union {Len(queue) + 1}
      /\ queue'[Len(queue) + 1] = w /\ \A i \in DOMAIN queue : queue'[i] = queue[i]
  BY <1>1, <1>2
<1>5. \A i \in DOMAIN queue : queue[i] \in {"arm", "dispatch", "hash"} /\ writes[queue[i]] = "queued"
  BY <1>1 DEF StateInv, QueueInv
<1>6. \A i \in DOMAIN queue : queue[i] # w
  BY <1>5
<1>7. \A i \in DOMAIN queue' : writes'[queue'[i]] = "queued"
  BY <1>3, <1>4, <1>5
<1>8. \A i, j \in DOMAIN queue : queue[i] = queue[j] => i = j
  BY DEF StateInv, QueueInv
<1>9. \A i, j \in DOMAIN queue' : queue'[i] = queue'[j] => i = j
  BY <1>4, <1>6, <1>8
<1> QED
  BY <1>3, <1>4, <1>7, <1>9 DEF QueueInv

\* markAmbiguous with the session closed: for a command that is pending, or again
\* for one that was dropped before.
LEMMA AbandonStep ==
    ASSUME StateInv, NEW cause \in Causes, NEW candidate \in Hashes \union {None},
           op.candidate \in {None, candidate}, op.delivered, srv.pending \/ amb # None,
           srv' \in Flags, srv'.pending = FALSE, srv'.closed = TRUE,
           srv'.journaled = srv.journaled, srv'.journalFailed = srv.journalFailed,
           Abandon(cause, candidate), disk' = disk
    PROVE  StateInv' /\ Continue(Requests)
<1> DEFINE kept == IF amb' # amb /\ amb'.status = "RETAINING_HASH" THEN candidate ELSE None
<1>1. /\ amb' = Marked(cause, candidate) /\ Retain(kept)
      /\ transport' = IF transport = "inflight" THEN "failed" ELSE transport
  BY DEF Abandon
<1>2. /\ amb' \in Ambiguities
      /\ amb # None => amb'.cause = amb.cause
      /\ \/ amb # None /\ amb' = amb
         \/ /\ amb = None /\ candidate = None /\ amb'.hash = None
            /\ amb'.status = "AWAITING_LATE_RESULT"
         \/ /\ amb' # amb /\ candidate # None /\ amb'.hash = candidate /\ ~srv.journalFailed
            /\ amb # None => amb.hash = None
            /\ srv.journaled => amb'.status = "RETAINING_HASH"
            /\ ~srv.journaled => amb'.status = "OBSERVING"
  BY <1>1, MarkedIs
<1>3. kept \in Hashes \union {None} /\ (kept # None => kept = candidate /\ amb'.hash = candidate)
      /\ (amb' # amb /\ amb'.status = "RETAINING_HASH" => kept = candidate)
  BY <1>2
<1> HIDE DEF kept
<1>4. /\ op' \in Pendings
      /\ op'.view = op.view /\ op'.raw = op.raw /\ op'.delivered = op.delivered
      /\ op'.arming = op.arming /\ op'.armed = op.armed /\ op'.dispatching = op.dispatching
      /\ op'.dispatched = op.dispatched /\ op'.resultProcessing = op.resultProcessing
      /\ op'.receipt = op.receipt
      /\ \/ op'.candidate = op.candidate /\ UNCHANGED <<queue, writes>>
            /\ (srv.journaled /\ kept # None => writes["hash"] # "none")
         \/ op'.candidate = kept /\ kept # None /\ srv.journaled
            /\ writes["hash"] = "none" /\ Persist("hash")
  BY <1>1, <1>3, RetainIs, ZenonT(60)
<1>5. amb' # None
  BY <1>2, NoneAssumption
<1>6. /\ queue' \in Seq({"arm", "dispatch", "hash"}) /\ QueueInv'
      /\ writes' \in [{"arm", "dispatch", "hash"} -> {"none", "queued", "done", "failed"}]
      /\ writes'["arm"] = writes["arm"] /\ writes'["dispatch"] = writes["dispatch"]
      /\ writes'["hash"] = writes["hash"] \/ (writes'["hash"] = "queued" /\ op'.candidate # None
            /\ srv.journaled /\ writes["hash"] = "none")
  <2>1. CASE UNCHANGED <<queue, writes>>
    BY <2>1 DEF StateInv, StateTypes, QueueInv
  <2>2. CASE op'.candidate # None /\ srv.journaled /\ writes["hash"] = "none" /\ Persist("hash")
    BY <2>2, PersistIs
  <2> QED
    BY <1>4, <2>1, <2>2
<1>7. StateTypes'
  BY <1>1, <1>2, <1>4, <1>6 DEF StateInv, StateTypes
<1>8. PendingIsLive'
  BY <1>1 DEF StateInv, StateTypes, PendingIsLive
<1>9. op'.candidate \in {op.candidate, candidate} /\ (op.candidate # None => op'.candidate = op.candidate)
  BY <1>3, <1>4
<1>10. op.raw \in Hashes => op'.candidate = op.raw
  BY <1>9, NoneAssumption DEF StateInv, StageInv, Outcomes
<1>11. StageInv'
  BY <1>1, <1>4, <1>5, <1>10 DEF StateInv, StageInv
<1>12. EndInv'
  BY <1>1, <1>2, <1>4, <1>5 DEF StateInv, EndInv, PendingIsLive
<1>13. HashInv'
  <2>1. CASE amb # None /\ amb' = amb
    <3>1. op'.candidate = op.candidate
      BY <1>3, <1>4, <2>1 DEF kept
    <3> QED
      BY <2>1, <3>1 DEF StateInv, HashInv
  <2>2. CASE amb'.hash = None /\ candidate = None /\ amb'.status = "AWAITING_LATE_RESULT"
    BY <1>9, <2>2 DEF HashInv
  <2>3. CASE /\ amb' # amb /\ candidate # None /\ amb'.hash = candidate /\ ~srv.journalFailed
             /\ srv.journaled => amb'.status = "RETAINING_HASH"
             /\ ~srv.journaled => amb'.status = "OBSERVING"
    <3>1. op'.candidate \in {None, candidate}
      BY <1>9
    <3>2. srv.journaled => op'.candidate # None
      BY <1>3, <1>4, <2>3 DEF StateInv, WriteInv
    <3> QED
      BY <2>3, <3>1, <3>2 DEF HashInv
  <2> QED
    BY <1>2, <2>1, <2>2, <2>3
<1>14. ObservedIsRetained'
  BY <1>2 DEF StateInv, ObservedIsRetained
<1>15. WriteInv'
  BY <1>4, <1>6, <1>9 DEF StateInv, WriteInv
<1>16. DiskInv'
  BY <1>6, <1>9 DEF StateInv, DiskInv, WriteInv
<1>17. Continue(Requests)
  BY <1>1, <1>2, <1>4, <1>5, <1>6, <1>9 DEF Continue, Suspended, At, StateInv, PendingIsLive, StageInv
<1> QED
  BY <1>17, <1>6, <1>7, <1>8, <1>11, <1>12, <1>13, <1>14, <1>15, <1>16 DEF StateInv

-----------------------------------------------------------------------------
(* The stages of a pending command *)

LEMMA DeliverStep ==
    ASSUME StateInv, srv.pending, op' = [op EXCEPT !.delivered = TRUE],
           UNCHANGED <<srv, amb, transport, disk, queue, writes>>
    PROVE  StateInv' /\ Continue(Requests)
<1>1. /\ op' \in Pendings /\ op'.delivered = TRUE
      /\ op'.view = op.view /\ op'.raw = op.raw /\ op'.candidate = op.candidate
      /\ op'.arming = op.arming /\ op'.armed = op.armed /\ op'.dispatching = op.dispatching
      /\ op'.dispatched = op.dispatched /\ op'.resultProcessing = op.resultProcessing
      /\ op'.receipt = op.receipt /\ op'.timer = op.timer
  BY ZenonT(60) DEF StateInv, StateTypes, Pendings
<1>2. StateTypes'
  BY <1>1 DEF StateInv, StateTypes
<1>3. PendingIsLive' /\ StageInv' /\ EndInv' /\ HashInv' /\ ObservedIsRetained'
  BY <1>1 DEF StateInv, PendingIsLive, StageInv, EndInv, HashInv, ObservedIsRetained
<1>4. WriteInv' /\ QueueInv' /\ DiskInv'
  BY <1>1 DEF StateInv, WriteInv, QueueInv, DiskInv
<1>5. Continue(Requests)
  BY <1>1 DEF Continue, Suspended, At, StateInv, PendingIsLive, StageInv
<1> QED
  BY <1>5, <1>2, <1>3, <1>4 DEF StateInv

LEMMA BindStep ==
    ASSUME StateInv, op.delivered, op.view = None, NEW view \in Views,
           op' = [op EXCEPT !.view = view],
           UNCHANGED <<srv, amb, transport, disk, queue, writes>>
    PROVE  StateInv' /\ Continue(Requests)
<1>1. /\ op' \in Pendings /\ op'.delivered = op.delivered
      /\ op'.view = view /\ op'.raw = op.raw /\ op'.candidate = op.candidate
      /\ op'.arming = op.arming /\ op'.armed = op.armed /\ op'.dispatching = op.dispatching
      /\ op'.dispatched = op.dispatched /\ op'.resultProcessing = op.resultProcessing
      /\ op'.receipt = op.receipt /\ op'.timer = op.timer
  BY ZenonT(60) DEF StateInv, StateTypes, Pendings
<1>2. StateTypes'
  BY <1>1 DEF StateInv, StateTypes
<1>3. PendingIsLive' /\ StageInv' /\ EndInv' /\ HashInv' /\ ObservedIsRetained'
  BY <1>1 DEF StateInv, PendingIsLive, StageInv, EndInv, HashInv, ObservedIsRetained
<1>4. WriteInv' /\ QueueInv' /\ DiskInv'
  BY <1>1 DEF StateInv, WriteInv, QueueInv, DiskInv
<1>5. Continue(Requests)
  BY <1>1 DEF Continue, Suspended, At, StateInv, PendingIsLive, StageInv
<1> QED
  BY <1>5, <1>2, <1>3, <1>4 DEF StateInv

\* The command is armed once the journal has it.
LEMMA ArmedStep ==
    ASSUME StateInv, srv.pending, op.view # None, srv.journaled => writes["arm"] = "done",
           op' = [op EXCEPT !.arming = TRUE, !.armed = TRUE, !.timer = "dispatchAck"],
           UNCHANGED <<srv, amb, transport, disk, queue, writes>>
    PROVE  StateInv' /\ Continue(Requests)
<1>1. /\ op' \in Pendings /\ op'.delivered = op.delivered
      /\ op'.view = op.view /\ op'.raw = op.raw /\ op'.candidate = op.candidate
      /\ op'.arming = TRUE /\ op'.armed = TRUE /\ op'.dispatching = op.dispatching
      /\ op'.dispatched = op.dispatched /\ op'.resultProcessing = op.resultProcessing
      /\ op'.receipt = op.receipt /\ op'.timer = "dispatchAck"
  BY ZenonT(60) DEF StateInv, StateTypes, Pendings
<1>2. StateTypes'
  BY <1>1 DEF StateInv, StateTypes
<1>3. PendingIsLive' /\ StageInv' /\ EndInv' /\ HashInv' /\ ObservedIsRetained'
  BY <1>1 DEF StateInv, PendingIsLive, StageInv, EndInv, HashInv, ObservedIsRetained
<1>4. WriteInv' /\ QueueInv' /\ DiskInv'
  BY <1>1 DEF StateInv, WriteInv, QueueInv, DiskInv
<1>5. Continue(Requests)
  BY <1>1 DEF Continue, Suspended, At, StateInv, PendingIsLive, StageInv
<1> QED
  BY <1>5, <1>2, <1>3, <1>4 DEF StateInv

LEMMA DispatchedStep ==
    ASSUME StateInv, srv.pending, op.armed, srv.journaled => writes["dispatch"] = "done",
           op' = [op EXCEPT !.dispatching = TRUE, !.dispatched = TRUE, !.timer = "result"],
           UNCHANGED <<srv, amb, transport, disk, queue, writes>>
    PROVE  StateInv' /\ Continue(Requests)
<1>1. /\ op' \in Pendings /\ op'.delivered = op.delivered
      /\ op'.view = op.view /\ op'.raw = op.raw /\ op'.candidate = op.candidate
      /\ op'.arming = op.arming /\ op'.armed = op.armed /\ op'.dispatching = TRUE
      /\ op'.dispatched = TRUE /\ op'.resultProcessing = op.resultProcessing
      /\ op'.receipt = op.receipt /\ op'.timer = "result"
  BY ZenonT(60) DEF StateInv, StateTypes, Pendings
<1>2. StateTypes'
  BY <1>1 DEF StateInv, StateTypes
<1>3. PendingIsLive' /\ StageInv' /\ EndInv' /\ HashInv' /\ ObservedIsRetained'
  BY <1>1 DEF StateInv, PendingIsLive, StageInv, EndInv, HashInv, ObservedIsRetained
<1>4. WriteInv' /\ QueueInv' /\ DiskInv'
  BY <1>1 DEF StateInv, WriteInv, QueueInv, DiskInv
<1>5. Continue(Requests)
  BY <1>1 DEF Continue, Suspended, At, StateInv, PendingIsLive, StageInv
<1> QED
  BY <1>5, <1>2, <1>3, <1>4 DEF StateInv

\* A stage begins with its write: arming, dispatching, examining a hash.
LEMMA WritingStep ==
    ASSUME StateInv, srv.pending, srv.journaled, op.delivered,
           NEW w \in {"arm", "dispatch", "hash"}, writes[w] = "none", Persist(w),
           \/ w = "arm" /\ op' = [op EXCEPT !.arming = TRUE]
           \/ w = "dispatch" /\ op' = [op EXCEPT !.dispatching = TRUE]
           \/ /\ w = "hash" /\ op.raw = None /\ ~op.resultProcessing
              /\ \E h \in Hashes : op' = [op EXCEPT !.candidate = h, !.resultProcessing = TRUE],
           UNCHANGED <<srv, amb, transport, disk>>
    PROVE  StateInv' /\ Continue(Requests)
<1>1. /\ op' \in Pendings /\ op'.delivered = op.delivered
      /\ op'.view = op.view /\ op'.raw = op.raw
      /\ op'.armed = op.armed /\ op'.dispatched = op.dispatched
      /\ op'.receipt = op.receipt /\ op'.timer = op.timer
      /\ op.arming \/ w = "arm" => op'.arming
      /\ op.dispatching \/ w = "dispatch" => op'.dispatching
      /\ op.resultProcessing \/ w = "hash" => op'.resultProcessing
      /\ w # "hash" => op'.candidate = op.candidate
      /\ w = "hash" => op'.candidate \in Hashes /\ op.raw = None /\ ~op.resultProcessing
  <2>1. CASE w = "arm" /\ op' = [op EXCEPT !.arming = TRUE]
    BY <2>1, ZenonT(60) DEF StateInv, StateTypes, Pendings
  <2>2. CASE w = "dispatch" /\ op' = [op EXCEPT !.dispatching = TRUE]
    BY <2>2, ZenonT(60) DEF StateInv, StateTypes, Pendings
  <2>3. CASE /\ w = "hash" /\ op.raw = None /\ ~op.resultProcessing
             /\ \E h \in Hashes : op' = [op EXCEPT !.candidate = h, !.resultProcessing = TRUE]
    <3>1. PICK h \in Hashes : op' = [op EXCEPT !.candidate = h, !.resultProcessing = TRUE]
      BY <2>3, ZenonT(60)
    <3> QED
      BY <2>3, <3>1, ZenonT(60) DEF StateInv, StateTypes, Pendings
  <2> QED
    BY <2>1, <2>2, <2>3, ZenonT(60)
<1>2. /\ queue' \in Seq({"arm", "dispatch", "hash"}) /\ QueueInv'
      /\ writes' \in [{"arm", "dispatch", "hash"} -> {"none", "queued", "done", "failed"}]
      /\ writes'[w] = "queued"
      /\ \A v \in {"arm", "dispatch", "hash"} : v # w => writes'[v] = writes[v]
  BY PersistIs, ZenonT(60)
<1>3. StateTypes'
  BY <1>1, <1>2, ZenonT(60) DEF StateInv, StateTypes
<1>4. op.raw \in Hashes => op.raw # None
  BY NoneAssumption, ZenonT(60) DEF Outcomes
<1>5. PendingIsLive' /\ EndInv' /\ HashInv' /\ ObservedIsRetained'
  BY <1>1, ZenonT(60) DEF StateInv, PendingIsLive, EndInv, HashInv, ObservedIsRetained
<1>6. StageInv'
  BY <1>1, <1>4, ZenonT(60) DEF StateInv, StageInv
<1>7. op'.candidate = None => w # "hash"
  BY <1>1, NoneAssumption, ZenonT(60) DEF Outcomes
<1>8. WriteInv'
  BY <1>1, <1>2, <1>4, <1>7, ZenonT(60) DEF StateInv, WriteInv
<1>9. DiskInv'
  BY <1>1, <1>2, ZenonT(60) DEF StateInv, DiskInv
<1>10. Continue(Requests)
  <2>1. ASSUME NEW q \in Requests, Suspended(q), req'[q] = req[q] PROVE Suspended(q)'
    <3>1. At(q, "result", "write") => w # "hash"
      BY <1>1, <2>1, ZenonT(60) DEF Suspended
    <3>2. \A v \in {"arm", "dispatch", "hash"} : writes[v] # "none" => writes'[v] # "none"
      BY <1>2, ZenonT(60)
    <3> QED
      BY <1>1, <2>1, <3>1, <3>2, ZenonT(60) DEF Suspended, At
  <2> QED
    BY <2>1, ZenonT(60) DEF Continue
<1> QED
  BY <1>10, <1>2, <1>3, <1>5, <1>6, <1>8, <1>9, ZenonT(60) DEF StateInv

\* A trusted outcome is kept for settlement; a hash is on disk by then.
LEMMA KeptStep ==
    ASSUME StateInv, srv.pending, op.dispatched, NEW outcome \in Outcomes, NEW candidate,
           NEW r \in Requests, \A q \in Requests : At(q, "result", "write") => q = r,
           candidate = IF outcome \in Hashes THEN outcome ELSE None,
           writes["hash"] # "none" => op.candidate = candidate,
           srv.journaled /\ outcome \in Hashes => writes["hash"] = "done",
           op' = [op EXCEPT !.receipt = TRUE, !.raw = outcome, !.candidate = candidate,
                            !.resultProcessing = TRUE, !.timer = "settlement"],
           UNCHANGED <<srv, amb, transport, disk, queue, writes>>
    PROVE  StateInv' /\ Continue(Requests \ {r})
<1>1. candidate \in Hashes \union {None} /\ outcome # None
  BY NoneAssumption
<1>2. /\ op' \in Pendings /\ op'.delivered = op.delivered
      /\ op'.view = op.view /\ op'.raw = outcome /\ op'.candidate = candidate
      /\ op'.arming = op.arming /\ op'.armed = op.armed /\ op'.dispatching = op.dispatching
      /\ op'.dispatched = op.dispatched /\ op'.resultProcessing = TRUE
      /\ op'.receipt = TRUE /\ op'.timer = "settlement"
  BY <1>1, ZenonT(60) DEF StateInv, StateTypes, Pendings
<1>3. StateTypes'
  BY <1>2 DEF StateInv, StateTypes
<1>4. PendingIsLive' /\ EndInv' /\ HashInv' /\ ObservedIsRetained'
  BY <1>2 DEF StateInv, PendingIsLive, EndInv, HashInv, ObservedIsRetained
<1>5. StageInv'
  BY <1>1, <1>2 DEF StateInv, StageInv
<1>6. QueueInv' /\ DiskInv'
  BY <1>2 DEF StateInv, QueueInv, DiskInv
<1>7. WriteInv'
  BY <1>1, <1>2 DEF StateInv, WriteInv
<1>8. Continue(Requests \ {r})
  BY <1>2 DEF Continue, Suspended, At, StateInv, PendingIsLive, StageInv
<1> QED
  BY <1>8, <1>3, <1>4, <1>5, <1>6, <1>7 DEF StateInv

LEMMA SettleStep ==
    ASSUME StateInv, srv.pending, op.receipt,
           op' = [op EXCEPT !.receipt = FALSE, !.timer = "off"],
           transport' = IF op.raw \in Hashes THEN "resolved" ELSE "rejected",
           srv' = [srv EXCEPT !.pending = FALSE, !.closed = op.raw \notin Hashes],
           UNCHANGED <<amb, disk, queue, writes>>
    PROVE  StateInv' /\ Continue(Requests)
<1>1. /\ op' \in Pendings /\ op'.delivered = op.delivered
      /\ op'.view = op.view /\ op'.raw = op.raw /\ op'.candidate = op.candidate
      /\ op'.arming = op.arming /\ op'.armed = op.armed /\ op'.dispatching = op.dispatching
      /\ op'.dispatched = op.dispatched /\ op'.resultProcessing = op.resultProcessing
      /\ op'.receipt = FALSE
  BY ZenonT(60) DEF StateInv, StateTypes, Pendings
<1>2. (op.raw \notin Hashes) \in BOOLEAN
  OBVIOUS
<1>3. /\ srv' \in Flags /\ srv'.pending = FALSE /\ srv'.journaled = srv.journaled
      /\ srv'.journalFailed = srv.journalFailed
  BY <1>2, ZenonT(60) DEF StateInv, StateTypes, Flags
<1>4. amb = None /\ ~srv.journalFailed
  BY DEF StateInv, PendingIsLive, EndInv
<1>5. StateTypes'
  BY <1>1, <1>3 DEF StateInv, StateTypes
<1>6. PendingIsLive' /\ StageInv' /\ EndInv' /\ HashInv' /\ ObservedIsRetained'
  BY <1>1, <1>3, <1>4 DEF StateInv, PendingIsLive, StageInv, EndInv, HashInv, ObservedIsRetained
<1>7. WriteInv' /\ QueueInv' /\ DiskInv'
  BY <1>1, <1>3 DEF StateInv, WriteInv, QueueInv, DiskInv
<1>8. Continue(Requests)
  BY <1>1, <1>3, <1>4 DEF Continue, Suspended, At, StateInv, PendingIsLive, StageInv
<1> QED
  BY <1>8, <1>5, <1>6, <1>7 DEF StateInv

LEMMA ForwardStep ==
    ASSUME StateInv, transport = "none",
           \/ /\ srv.closed \/ srv.pending
              /\ transport' = "failed" /\ UNCHANGED <<srv, op>>
           \/ /\ ~srv.closed /\ ~srv.pending
              /\ srv' = [srv EXCEPT !.pending = TRUE] /\ op' = [op EXCEPT !.timer = "command"]
              /\ transport' = "inflight",
           UNCHANGED <<amb, disk, queue, writes>>
    PROVE  StateInv' /\ Continue(Requests)
<1>1. /\ op' \in Pendings /\ op'.delivered = op.delivered
      /\ op'.view = op.view /\ op'.raw = op.raw /\ op'.candidate = op.candidate
      /\ op'.arming = op.arming /\ op'.armed = op.armed /\ op'.dispatching = op.dispatching
      /\ op'.dispatched = op.dispatched /\ op'.resultProcessing = op.resultProcessing
      /\ op'.receipt = op.receipt
      /\ transport' = "inflight" => op'.timer = "command"
  BY DEF StateInv, StateTypes, Pendings
<1>2. /\ srv' \in Flags /\ srv'.closed = srv.closed /\ srv'.journaled = srv.journaled
      /\ srv'.journalFailed = srv.journalFailed
      /\ srv'.pending <=> transport' = "inflight"
      /\ srv'.pending => ~srv'.closed
      /\ transport' \in {"failed", "inflight"}
  <2>1. ~srv.pending /\ srv \in Flags
    BY DEF StateInv, StateTypes, PendingIsLive
  <2>2. CASE transport' = "failed" /\ srv' = srv
    BY <2>1, <2>2
  <2>3. CASE /\ ~srv.closed /\ srv' = [srv EXCEPT !.pending = TRUE] /\ transport' = "inflight"
    BY <2>1, <2>3, ZenonT(60) DEF Flags
  <2> QED
    BY <2>2, <2>3
<1>3. StateTypes'
  BY <1>1, <1>2 DEF StateInv, StateTypes
<1>4. PendingIsLive'
  BY <1>1, <1>2 DEF StateInv, PendingIsLive, EndInv
<1>5. StageInv' /\ EndInv' /\ HashInv' /\ ObservedIsRetained'
  BY <1>1, <1>2 DEF StateInv, StageInv, EndInv, HashInv, ObservedIsRetained
<1>6. WriteInv' /\ QueueInv' /\ DiskInv'
  BY <1>1, <1>2 DEF StateInv, WriteInv, QueueInv, DiskInv
<1>7. Continue(Requests)
  BY <1>1, <1>2 DEF Continue, Suspended, At, StateInv, PendingIsLive, StageInv
<1> QED
  BY <1>7, <1>3, <1>4, <1>5, <1>6 DEF StateInv

\* The observation of a success failed.
LEMMA UnobservedStep ==
    ASSUME StateInv, transport = "resolved", amb = None, NEW r \in Requests,
           \A q \in Requests : req[q].at \in {"transport", "observe"} => q = r,
           srv' = [srv EXCEPT !.operationInFlight = FALSE, !.closed = TRUE],
           amb' = [cause |-> "OBSERVATION_FAILED", hash |-> op.raw, status |-> "OBSERVATION_FAILED"],
           UNCHANGED <<op, transport, disk, queue, writes>>
    PROVE  StateInv' /\ Continue(Requests \ {r})
<1>1. /\ srv' \in Flags /\ srv'.closed = TRUE /\ srv'.pending = srv.pending
      /\ srv'.journaled = srv.journaled /\ srv'.journalFailed = srv.journalFailed
  BY ZenonT(60) DEF StateInv, StateTypes, Flags
<1>2. op.raw \in Hashes /\ op.raw # None /\ op.candidate = op.raw /\ op.delivered /\ ~srv.pending
      /\ ~srv.journalFailed
  BY NoneAssumption DEF StateInv, StageInv, EndInv, PendingIsLive, Outcomes
<1>3. srv.journaled => disk.hash = op.raw
  BY <1>2 DEF StateInv, WriteInv, DiskInv
<1>4. /\ amb' \in Ambiguities /\ amb' # None /\ amb'.cause = "OBSERVATION_FAILED"
      /\ amb'.hash = op.raw /\ amb'.status = "OBSERVATION_FAILED"
  <2>1. amb' \in Ambiguities
    BY <1>2 DEF Ambiguities, Causes, Statuses
  <2> QED
    BY <2>1, NoneAssumption
<1>5. StateTypes'
  BY <1>1, <1>4 DEF StateInv, StateTypes
<1>6. PendingIsLive' /\ StageInv' /\ EndInv'
  BY <1>1, <1>2, <1>4 DEF StateInv, PendingIsLive, StageInv, EndInv
<1>7. HashInv' /\ ObservedIsRetained'
  BY <1>1, <1>2, <1>3, <1>4 DEF HashInv, ObservedIsRetained
<1>8. WriteInv' /\ QueueInv' /\ DiskInv'
  BY <1>1 DEF StateInv, WriteInv, QueueInv, DiskInv
<1>9. Continue(Requests \ {r})
  BY <1>1, <1>2, <1>4 DEF Continue, Suspended, At, StateInv, PendingIsLive, StageInv
<1> QED
  BY <1>9, <1>5, <1>6, <1>7, <1>8 DEF StateInv

LEMMA ReconcileStep == ASSUME StateInv, Reconcile PROVE StateInv' /\ Continue(Requests)
<1>1. PICK status \in {"OBSERVING", "OBSERVED", "OBSERVATION_FAILED"} :
          /\ amb # None /\ amb' = [amb EXCEPT !.status = status]
          /\ \/ amb.status = "RETAINING_HASH" /\ writes["hash"] = "done"
             \/ amb.status = "OBSERVING"
          /\ UNCHANGED <<srv, op, transport, disk, queue, writes>>
  BY DEF Reconcile, ReconcileRetained, ReconcileObserved
<1>2. /\ amb' \in Ambiguities /\ amb'.cause = amb.cause /\ amb'.hash = amb.hash
      /\ amb'.status = status
  BY <1>1 DEF StateInv, StateTypes, Ambiguities, Statuses
<1>3. amb' # None
  BY <1>2, NoneAssumption
<1>4. StateTypes'
  BY <1>1, <1>2 DEF StateInv, StateTypes
<1>5. PendingIsLive' /\ StageInv' /\ EndInv'
  BY <1>1, <1>2, <1>3 DEF StateInv, PendingIsLive, StageInv, EndInv
<1>6. HashInv'
  BY <1>1, <1>2, <1>3 DEF StateInv, HashInv
<1>7. ObservedIsRetained'
  BY <1>1, <1>2 DEF StateInv, ObservedIsRetained, HashInv, DiskInv
<1>8. WriteInv' /\ QueueInv' /\ DiskInv'
  BY <1>1 DEF StateInv, WriteInv, QueueInv, DiskInv
<1>9. Continue(Requests)
  BY <1>1, <1>3 DEF Continue, Suspended, At, StateInv, PendingIsLive, StageInv
<1> QED
  BY <1>9, <1>4, <1>5, <1>6, <1>7, <1>8 DEF StateInv

-----------------------------------------------------------------------------
(* The journal *)

\* A write takes the record on disk one state further.
LEMMA WriteIs ==
    ASSUME StateInv, NEW w \in {"arm", "dispatch", "hash"}, Succeeds(w)
    PROVE  /\ disk' \in DiskRecords
           /\ \/ /\ w = "arm" /\ disk.state = "READY" /\ disk'.state = "ARMED"
                 /\ disk'.revision = 1 /\ disk'.hash = disk.hash
              \/ /\ w = "dispatch" /\ disk.state = "ARMED" /\ disk'.state = "DISPATCHED"
                 /\ disk'.revision = 2 /\ disk'.hash = disk.hash
              \/ /\ w = "hash" /\ disk.state \in {"ARMED", "DISPATCHED"}
                 /\ disk'.state = "HASH_OBSERVED" /\ disk'.hash = op.candidate
<1>1. disk \in DiskRecords /\ (disk.state = "ARMED" => disk.revision = 1)
      /\ (disk.state = "DISPATCHED" => disk.revision = 2)
  BY DEF StateInv, StateTypes, DiskInv
<1>2. CASE w = "arm"
  <2>1. Record!Arm
    BY <1>2 DEF Succeeds
  <2>2. /\ disk.state = "READY"
        /\ disk' = [disk EXCEPT !.revision = 1, !.state = "ARMED", !.operation = Command]
    BY <2>1 DEF Record!Arm
  <2>3. 1 \in 0..3
    OBVIOUS
  <2>4. disk' \in DiskRecords
    BY <1>1, <2>2, <2>3, ZenonT(60) DEF DiskRecords
  <2>5. disk'.state = "ARMED" /\ disk'.revision = 1 /\ disk'.hash = disk.hash
    BY <1>1, <2>2 DEF DiskRecords
  <2> QED
    BY <1>2, <2>2, <2>4, <2>5
<1>3. CASE w = "dispatch"
  <2>1. Record!MarkDispatched
    BY <1>3 DEF Succeeds
  <2>2. /\ disk.state = "ARMED"
        /\ disk' = [disk EXCEPT !.revision = 2, !.state = "DISPATCHED"]
    BY <2>1 DEF Record!MarkDispatched
  <2>3. 2 \in 0..3
    OBVIOUS
  <2>4. disk' \in DiskRecords
    BY <1>1, <2>2, <2>3, ZenonT(60) DEF DiskRecords
  <2>5. disk'.state = "DISPATCHED" /\ disk'.revision = 2 /\ disk'.hash = disk.hash
    BY <1>1, <2>2 DEF DiskRecords
  <2> QED
    BY <1>3, <2>2, <2>4, <2>5
<1>4. CASE w = "hash"
  <2>1. Record!RetainHash /\ disk'.hash = op.candidate
    BY <1>4 DEF Succeeds
  <2>2. PICK h \in Hashes :
           /\ disk.state \in {"ARMED", "DISPATCHED"}
           /\ disk' = [disk EXCEPT !.revision = disk.revision + 1, !.state = "HASH_OBSERVED",
                                   !.hash = h]
    BY <2>1, ZenonT(60) DEF Record!RetainHash
  <2>3. disk.revision + 1 \in 0..3
    BY <1>1, <2>2
  <2>4. disk' \in DiskRecords /\ disk'.state = "HASH_OBSERVED"
    BY <1>1, <2>2, <2>3, ZenonT(60) DEF DiskRecords
  <2> QED
    BY <1>4, <2>1, <2>2, <2>4
<1> QED
  BY <1>2, <1>3, <1>4

\* A write leaves the queue once it has ended.
LEMMA EndedIs ==
    ASSUME StateInv, queue # <<>>, NEW end \in {"done", "failed"}, queue' = Tail(queue),
           writes' = [writes EXCEPT ![Head(queue)] = end]
    PROVE  /\ Head(queue) \in {"arm", "dispatch", "hash"} /\ writes[Head(queue)] = "queued"
           /\ queue' \in Seq({"arm", "dispatch", "hash"}) /\ QueueInv'
           /\ writes' \in [{"arm", "dispatch", "hash"} -> {"none", "queued", "done", "failed"}]
           /\ writes'[Head(queue)] = end
           /\ \A v \in {"arm", "dispatch", "hash"} : v # Head(queue) => writes'[v] = writes[v]
<1>1. queue \in Seq({"arm", "dispatch", "hash"})
  BY DEF StateInv, StateTypes
<1>2. /\ Len(queue) \in Nat \ {0} /\ DOMAIN queue = 1..Len(queue) /\ Head(queue) = queue[1]
      /\ 1 \in DOMAIN queue
  BY <1>1
<1>3. queue[1] \in {"arm", "dispatch", "hash"} /\ writes[queue[1]] = "queued"
  BY <1>1, <1>2 DEF StateInv, QueueInv
<1>4. /\ queue' \in Seq({"arm", "dispatch", "hash"}) /\ DOMAIN queue' = 1..(Len(queue) - 1)
      /\ \A i \in DOMAIN queue' : queue'[i] = queue[i + 1] /\ i + 1 \in DOMAIN queue /\ i + 1 # 1
  BY <1>1, <1>2
<1>5. /\ writes' \in [{"arm", "dispatch", "hash"} -> {"none", "queued", "done", "failed"}]
      /\ writes'[Head(queue)] = end
      /\ \A v \in {"arm", "dispatch", "hash"} : v # Head(queue) => writes'[v] = writes[v]
  BY <1>2, <1>3 DEF StateInv, StateTypes
<1>6. /\ \A i \in DOMAIN queue : writes[queue[i]] = "queued" /\ queue[i] \in {"arm", "dispatch", "hash"}
      /\ \A i, j \in DOMAIN queue : queue[i] = queue[j] => i = j
  BY <1>1 DEF StateInv, QueueInv
<1>7. \A i \in DOMAIN queue' : writes'[queue'[i]] = "queued"
  <2> SUFFICES ASSUME NEW i \in DOMAIN queue' PROVE writes'[queue'[i]] = "queued"
    OBVIOUS
  <2>1. queue[i + 1] # queue[1] /\ queue'[i] = queue[i + 1] /\ i + 1 \in DOMAIN queue
    BY <1>2, <1>4, <1>6
  <2> QED
    BY <1>2, <1>5, <1>6, <2>1
<1>8. ASSUME NEW i \in DOMAIN queue', NEW j \in DOMAIN queue', queue'[i] = queue'[j] PROVE i = j
  <2>1. i + 1 = j + 1
    BY <1>4, <1>6, <1>8
  <2> QED
    BY <1>2, <1>4, <2>1
<1> QED
  BY <1>2, <1>3, <1>4, <1>5, <1>7, <1>8 DEF QueueInv

LEMMA JournalWritesStep == ASSUME StateInv, JournalWrites PROVE StateInv' /\ Continue(Requests)
<1>1. /\ queue # <<>> /\ ~srv.journalFailed /\ Succeeds(Head(queue)) /\ queue' = Tail(queue)
      /\ writes' = [writes EXCEPT ![Head(queue)] = "done"]
      /\ UNCHANGED <<srv, op, amb, transport>>
  BY DEF JournalWrites
<1>2. PICK w \in {"arm", "dispatch", "hash"} :
         /\ w = Head(queue) /\ writes[w] = "queued" /\ writes'[w] = "done"
         /\ queue' \in Seq({"arm", "dispatch", "hash"}) /\ QueueInv'
         /\ writes' \in [{"arm", "dispatch", "hash"} -> {"none", "queued", "done", "failed"}]
         /\ \A v \in {"arm", "dispatch", "hash"} : v # w => writes'[v] = writes[v]
  BY <1>1, EndedIs
<1>3. /\ disk' \in DiskRecords
      /\ \/ /\ w = "arm" /\ disk.state = "READY" /\ disk'.state = "ARMED"
            /\ disk'.revision = 1 /\ disk'.hash = disk.hash
         \/ /\ w = "dispatch" /\ disk.state = "ARMED" /\ disk'.state = "DISPATCHED"
            /\ disk'.revision = 2 /\ disk'.hash = disk.hash
         \/ /\ w = "hash" /\ disk.state \in {"ARMED", "DISPATCHED"}
            /\ disk'.state = "HASH_OBSERVED" /\ disk'.hash = op.candidate
  BY <1>1, <1>2, WriteIs
<1>4. StateTypes'
  BY <1>1, <1>2, <1>3 DEF StateInv, StateTypes
<1>5. PendingIsLive' /\ StageInv' /\ EndInv' /\ HashInv'
  BY <1>1 DEF StateInv, PendingIsLive, StageInv, EndInv, HashInv
<1>6. disk.hash = None
  BY <1>3 DEF StateInv, DiskInv
<1>7. ObservedIsRetained'
  BY <1>1, <1>6 DEF StateInv, ObservedIsRetained
<1>8. WriteInv'
  BY <1>1, <1>2 DEF StateInv, WriteInv
<1>9. DiskInv'
  BY <1>1, <1>2, <1>3, <1>6 DEF StateInv, DiskInv
<1>10. Continue(Requests)
  BY <1>1, <1>2 DEF Continue, Suspended, At, StateInv, PendingIsLive, StageInv
<1> QED
  BY <1>10, <1>2, <1>4, <1>5, <1>7, <1>8, <1>9 DEF StateInv

\* A failed write may have replaced the record nevertheless.
LEMMA JournalFailsStep == ASSUME StateInv, JournalFails PROVE StateInv' /\ Continue(Requests)
<1>1. /\ queue # <<>> /\ queue' = Tail(queue)
      /\ writes' = [writes EXCEPT ![Head(queue)] = "failed"]
      /\ UNCHANGED disk \/ Succeeds(Head(queue))
      /\ srv' = [srv EXCEPT !.journalFailed = TRUE, !.closed = TRUE, !.pending = FALSE]
      /\ op' = [op EXCEPT !.timer = "off"]
      /\ amb' = [cause  |-> IF amb = None THEN "JOURNAL_WRITE_FAILED" ELSE amb.cause,
                 hash   |-> IF op.candidate # None THEN op.candidate
                            ELSE IF amb = None THEN None ELSE amb.hash,
                 status |-> "JOURNAL_WRITE_FAILED"]
      /\ transport' = IF transport = "inflight" THEN "failed" ELSE transport
  BY DEF JournalFails
<1>2. PICK w \in {"arm", "dispatch", "hash"} :
         /\ w = Head(queue) /\ writes[w] = "queued" /\ writes'[w] = "failed"
         /\ queue' \in Seq({"arm", "dispatch", "hash"}) /\ QueueInv'
         /\ writes' \in [{"arm", "dispatch", "hash"} -> {"none", "queued", "done", "failed"}]
         /\ \A v \in {"arm", "dispatch", "hash"} : v # w => writes'[v] = writes[v]
  BY <1>1, EndedIs
<1>3. /\ srv' \in Flags /\ srv'.closed = TRUE /\ srv'.pending = FALSE /\ srv'.journalFailed = TRUE
      /\ srv'.journaled = srv.journaled
  BY <1>1, ZenonT(60) DEF StateInv, StateTypes, Flags
<1>4. /\ op' \in Pendings /\ op'.delivered = op.delivered
      /\ op'.view = op.view /\ op'.raw = op.raw /\ op'.candidate = op.candidate
      /\ op'.arming = op.arming /\ op'.armed = op.armed /\ op'.dispatching = op.dispatching
      /\ op'.dispatched = op.dispatched /\ op'.resultProcessing = op.resultProcessing
      /\ op'.receipt = op.receipt
  BY <1>1 DEF StateInv, StateTypes, Pendings
<1>5. /\ amb' \in Ambiguities /\ amb'.status = "JOURNAL_WRITE_FAILED"
      /\ amb # None => amb'.cause = amb.cause
      /\ op.candidate # None => amb'.hash = op.candidate
  <2>1. /\ (IF amb = None THEN "JOURNAL_WRITE_FAILED" ELSE amb.cause) \in Causes
        /\ (IF op.candidate # None THEN op.candidate
            ELSE IF amb = None THEN None ELSE amb.hash) \in Hashes \union {None}
    BY DEF StateInv, StateTypes, Ambiguities, Causes, Pendings
  <2> QED
    BY <1>1, <2>1 DEF Ambiguities, Statuses
<1>6. amb' # None
  BY <1>5, NoneAssumption
<1>7. srv.journaled /\ op.delivered
  BY <1>2 DEF StateInv, WriteInv
<1>8. /\ disk' \in DiskRecords
      /\ \/ disk' = disk
         \/ /\ w = "arm" /\ disk.state = "READY" /\ disk'.state = "ARMED"
            /\ disk'.revision = 1 /\ disk'.hash = disk.hash
         \/ /\ w = "dispatch" /\ disk.state = "ARMED" /\ disk'.state = "DISPATCHED"
            /\ disk'.revision = 2 /\ disk'.hash = disk.hash
         \/ /\ w = "hash" /\ disk.state \in {"ARMED", "DISPATCHED"}
            /\ disk'.state = "HASH_OBSERVED" /\ disk'.hash = op.candidate
  <2>1. CASE UNCHANGED disk
    BY <2>1 DEF StateInv, StateTypes
  <2>2. CASE Succeeds(w)
    BY <2>2, WriteIs
  <2> QED
    BY <1>1, <1>2, <2>1, <2>2
<1>9. StateTypes'
  BY <1>1, <1>2, <1>3, <1>4, <1>5, <1>8 DEF StateInv, StateTypes
<1>10. PendingIsLive' /\ StageInv'
  BY <1>1, <1>3, <1>4, <1>6 DEF StateInv, StateTypes, PendingIsLive, StageInv
<1>11. transport # "resolved"
  <2>1. CASE transport = "resolved"
    <3>1. op.raw \in Hashes /\ op.raw # None
      BY <2>1, NoneAssumption DEF StateInv, EndInv, Outcomes
    <3>2. op.dispatched /\ op.armed
      BY <3>1 DEF StateInv, StageInv
    <3>3. writes["arm"] = "done" /\ writes["dispatch"] = "done" /\ writes["hash"] = "done"
      BY <1>7, <3>1, <3>2 DEF StateInv, WriteInv
    <3> QED
      BY <1>2, <3>3
  <2> QED
    BY <2>1
<1>12. EndInv'
  BY <1>1, <1>3, <1>4, <1>6, <1>7, <1>11 DEF EndInv
<1>13. HashInv' /\ ObservedIsRetained'
  BY <1>4, <1>5 DEF HashInv, ObservedIsRetained
<1>14. WriteInv'
  BY <1>2, <1>3, <1>4 DEF StateInv, WriteInv
<1>15. DiskInv'
  BY <1>2, <1>4, <1>8 DEF StateInv, DiskInv
<1>16. Continue(Requests)
  BY <1>1, <1>2, <1>4, <1>6, <1>11 DEF Continue, Suspended, At, StateInv, PendingIsLive, StageInv
<1> QED
  BY <1>16, <1>2, <1>9, <1>10, <1>12, <1>13, <1>14, <1>15 DEF StateInv

-----------------------------------------------------------------------------
(* What a step leaves of the requests *)

LEMMA MovesOn ==
    ASSUME ServerInv, StateInv', NEW r \in Requests, Continue(Requests \ {r}), NEW x,
           req' = [req EXCEPT ![r] = x], DOMAIN x = {"kind", "body", "at", "reply"},
           x.kind \in Kinds, x.body \in Bodies(x.kind) \union {None},
           x.at \in {"sent", "node", "write", "reconcile", "baseline", "gateway", "transport",
                     "observe", "replied", "lost"},
           x.reply \in {"none", "ok", "error", "closed", "empty", "command", "receipt",
                        "ambiguous"},
           Suspended(r)',
           x.kind = "result" /\ x.at = "write" =>
               \A q \in Requests : At(q, "result", "write") => q = r,
           x.at \in {"transport", "observe"} =>
               \A q \in Requests : req[q].at \in {"transport", "observe"} => q = r
    PROVE  ServerInv'
<1>1. /\ DOMAIN req' = Requests /\ req'[r] = x
      /\ \A q \in Requests : q # r => req'[q] = req[q]
  BY DEF ServerInv, RequestTypes
<1>2. RequestTypes'
  <2>1. ASSUME NEW q \in Requests
        PROVE  /\ DOMAIN req'[q] = {"kind", "body", "at", "reply"}
               /\ req'[q].kind \in Kinds
               /\ req'[q].body \in Bodies(req'[q].kind) \union {None}
               /\ req'[q].at \in {"idle", "sent", "node", "write", "reconcile", "baseline",
                                  "gateway", "transport", "observe", "replied", "lost"}
               /\ req'[q].reply \in {"none", "ok", "error", "closed", "empty", "command",
                                     "receipt", "ambiguous"}
    <3>1. CASE q = r
      BY <1>1, <3>1
    <3>2. CASE q # r
      BY <1>1, <3>2 DEF ServerInv, RequestTypes
    <3> QED
      BY <3>1, <3>2
  <2> QED
    BY <1>1, <2>1 DEF RequestTypes, Bodies
<1>3. RequestInv'
  <2>1. ASSUME NEW q \in Requests, q # r PROVE Suspended(q)'
    BY <1>1, <2>1 DEF ServerInv, RequestInv, Continue
  <2> QED
    BY <2>1 DEF RequestInv
<1>4. AloneInv'
  BY <1>1 DEF ServerInv, AloneInv, At
<1> QED
  BY <1>2, <1>3, <1>4 DEF ServerInv

\* The handler answers.
LEMMA Replies ==
    ASSUME ServerInv, StateInv', NEW r \in Requests, Continue(Requests \ {r}),
           NEW reply \in {"ok", "error", "closed", "empty", "command", "receipt", "ambiguous"},
           Reply(r, reply)
    PROVE  ServerInv'
<1> DEFINE x == [kind |-> req[r].kind, body |-> None, at |-> "replied", reply |-> reply]
<1>1. req' = [req EXCEPT ![r] = x]
  BY DEF Reply
<1>2. /\ DOMAIN x = {"kind", "body", "at", "reply"} /\ x.kind = req[r].kind /\ x.body = None
      /\ x.at = "replied" /\ x.reply = reply
  OBVIOUS
<1> HIDE DEF x
<1>3. req'[r] = x /\ x.kind \in Kinds
  BY <1>1, <1>2 DEF ServerInv, RequestTypes
<1>4. Suspended(r)'
  BY <1>2, <1>3 DEF Suspended, At
<1> QED
  BY <1>1, <1>2, <1>3, <1>4, MovesOn, ZenonT(60)

\* The handler awaits something else.
LEMMA Awaits ==
    ASSUME ServerInv, StateInv', NEW r \in Requests, Continue(Requests \ {r}),
           NEW place \in {"node", "write", "reconcile", "baseline", "gateway", "transport",
                          "observe"},
           Await(r, place),
           req'[r].kind = req[r].kind /\ req'[r].body = req[r].body /\ req'[r].at = place
               => Suspended(r)',
           place = "write" /\ req[r].kind = "result" =>
               \A q \in Requests : ~At(q, "result", "write"),
           place \in {"transport", "observe"} =>
               \A q \in Requests : req[q].at \in {"transport", "observe"} => q = r
    PROVE  ServerInv'
<1> DEFINE x == [req[r] EXCEPT !.at = place]
<1>1. req' = [req EXCEPT ![r] = x]
  BY DEF Await
<1>2. DOMAIN req = Requests /\ DOMAIN req[r] = {"kind", "body", "at", "reply"}
  BY DEF ServerInv, RequestTypes
<1>3. /\ DOMAIN x = {"kind", "body", "at", "reply"} /\ x.kind = req[r].kind
      /\ x.body = req[r].body /\ x.at = place /\ x.reply = req[r].reply
  BY <1>2
<1> HIDE DEF x
<1>4. req'[r] = x
  BY <1>1, <1>2
<1>5. Suspended(r)'
  BY <1>3, <1>4
<1>6. /\ x.kind \in Kinds /\ x.body \in Bodies(x.kind) \union {None}
      /\ x.reply \in {"none", "ok", "error", "closed", "empty", "command", "receipt", "ambiguous"}
  BY <1>3 DEF ServerInv, RequestTypes
<1> QED
  BY <1>1, <1>3, <1>5, <1>6, MovesOn, ZenonT(60)

LEMMA AwaitsElsewhere ==
    ASSUME ServerInv, StateInv', NEW r \in Requests, Continue(Requests \ {r}),
           NEW place \in {"node", "reconcile", "baseline", "gateway"}, Await(r, place),
           place = "node" /\ req[r].kind = "view" => op'.delivered
    PROVE  ServerInv'
<1>1. req'[r].kind = req[r].kind /\ req'[r].body = req[r].body /\ req'[r].at = place
          => Suspended(r)'
  BY DEF Suspended, At
<1> QED
  BY <1>1, Awaits

\* No request moves.
LEMMA NoneMoves ==
    ASSUME ServerInv, StateInv', Continue(Requests), req' = req
    PROVE  ServerInv'
<1>1. RequestTypes' /\ AloneInv'
  BY DEF ServerInv, RequestTypes, AloneInv, At, Bodies
<1>2. RequestInv'
  BY DEF ServerInv, RequestInv, Continue
<1> QED
  BY <1>1, <1>2 DEF ServerInv

-----------------------------------------------------------------------------
(* The handlers *)

\* The state stays, or one of the flags that no stage depends on changes.
LEMMA OtherFlag ==
    ASSUME StateInv, NEW r \in Requests,
           \/ srv' = srv
           \/ \E b \in BOOLEAN : \/ srv' = [srv EXCEPT !.connected = b]
                                 \/ srv' = [srv EXCEPT !.operationInFlight = b]
                                 \/ srv' = [srv EXCEPT !.journalClosed = b]
           \/ srv' = [srv EXCEPT !.closed = TRUE] /\ ~srv.pending,
           UNCHANGED <<op, amb, transport, disk, queue, writes>>
    PROVE  StateInv' /\ Continue(Requests) /\ Continue(Requests \ {r})
<1>1. srv \in Flags
  BY DEF StateInv, StateTypes
<1>2. /\ srv' \in Flags /\ srv'.pending = srv.pending /\ srv'.journaled = srv.journaled
      /\ srv'.journalFailed = srv.journalFailed
      /\ srv'.closed = srv.closed \/ (srv'.closed = TRUE /\ ~srv.pending)
  <2>1. CASE srv' = srv
    BY <1>1, <2>1 DEF Flags
  <2>2. ASSUME NEW b \in BOOLEAN, srv' = [srv EXCEPT !.connected = b] PROVE <1>2
    BY <1>1, <2>2 DEF Flags
  <2>3. ASSUME NEW b \in BOOLEAN, srv' = [srv EXCEPT !.operationInFlight = b] PROVE <1>2
    BY <1>1, <2>3 DEF Flags
  <2>4. ASSUME NEW b \in BOOLEAN, srv' = [srv EXCEPT !.journalClosed = b] PROVE <1>2
    BY <1>1, <2>4 DEF Flags
  <2>5. CASE srv' = [srv EXCEPT !.closed = TRUE] /\ ~srv.pending
    BY <1>1, <2>5, ZenonT(60) DEF Flags
  <2> QED
    BY <2>1, <2>2, <2>3, <2>4, <2>5, ZenonT(60)
<1>3. StateInv' /\ Continue(Requests)
  BY <1>2, FlagsStep, ZenonT(60)
<1> QED
  BY <1>3 DEF Continue

\* CloseSession, or the same with the server stopping.
LEMMA ClosedIs ==
    ASSUME StateInv, \/ CloseSession
                     \/ srv' = [srv EXCEPT !.stopping = TRUE, !.closed = TRUE, !.pending = FALSE]
    PROVE  /\ srv' \in Flags /\ srv'.pending = FALSE /\ srv'.closed = TRUE
           /\ srv'.journaled = srv.journaled /\ srv'.journalFailed = srv.journalFailed
  BY ZenonT(60) DEF StateInv, StateTypes, Flags, CloseSession

LEMMA Dropped ==
    ASSUME StateInv, NEW r \in Requests, srv.pending, ~op.dispatched, Drop, disk' = disk
    PROVE  StateInv' /\ Continue(Requests) /\ Continue(Requests \ {r})
<1>1. StateInv' /\ Continue(Requests)
  BY ClosedIs, DropStep DEF Drop
<1> QED
  BY <1>1 DEF Continue

LEMMA GivenUp ==
    ASSUME StateInv, NEW r \in Requests, NEW cause \in Causes,
           NEW candidate \in Hashes \union {None},
           op.candidate \in {None, candidate}, op.delivered, srv.pending \/ amb # None,
           GiveUp(cause, candidate), disk' = disk
    PROVE  StateInv' /\ Continue(Requests) /\ Continue(Requests \ {r})
<1>1. StateInv' /\ Continue(Requests)
  BY ClosedIs, AbandonStep, ZenonT(60) DEF GiveUp
<1> QED
  BY <1>1 DEF Continue

LEMMA ConnectingSteps ==
    ASSUME ServerInv, NEW r \in Requests,
           \/ RefuseWhileStopping(r) \/ Handshake(r) \/ \E v \in Views : HandshakeCaptured(r, v)
           \/ CaptureFails(r) \/ BindView(r)
    PROVE  ServerInv'
<1> USE DEF ServerInv
<1>1. CASE RefuseWhileStopping(r)
  BY <1>1, OtherFlag, Replies, ZenonT(60) DEF RefuseWhileStopping
<1>2. CASE Handshake(r)
  <2>1. StateInv' /\ Continue(Requests \ {r}) /\ req[r].kind # "view"
    BY <1>2, OtherFlag DEF Handshake, Arrives, At
  <2> QED
    BY <1>2, <2>1, Replies, AwaitsElsewhere DEF Handshake
<1>3. ASSUME NEW v \in Views, HandshakeCaptured(r, v) PROVE ServerInv'
  <2>1. StateInv' /\ Continue(Requests \ {r})
    BY <1>3, OtherFlag, ZenonT(60) DEF HandshakeCaptured
  <2> QED
    BY <1>3, <2>1, Replies DEF HandshakeCaptured
<1>4. CASE CaptureFails(r)
  BY <1>4, OtherFlag, Replies, ZenonT(60) DEF CaptureFails
<1>5. CASE BindView(r)
  <2>1. StateInv' /\ Continue(Requests \ {r})
    BY <1>5, OtherFlag DEF BindView
  <2>2. CASE op.delivered /\ Await(r, "node")
    <3>1. op'.delivered
      BY <1>5, <2>2 DEF BindView
    <3> QED
      BY <2>1, <2>2, <3>1, AwaitsElsewhere
  <2>3. CASE Reply(r, "error")
    BY <2>1, <2>3, Replies
  <2> QED
    BY <1>5, <2>2, <2>3 DEF BindView
<1> QED
  BY <1>1, <1>2, <1>3, <1>4, <1>5

LEMMA NextCommandStep ==
    ASSUME ServerInv, NEW r \in Requests, NextCommand(r)
    PROVE  ServerInv'
<1>1. CASE srv.closed \/ ~srv.pending \/ op.delivered
  <2>1. StateInv' /\ Continue(Requests \ {r})
    BY <1>1, OtherFlag DEF NextCommand, ServerInv
  <2> QED
    BY <1>1, <2>1, Replies DEF NextCommand
<1>2. CASE ~(srv.closed \/ ~srv.pending \/ op.delivered)
  <2>1. StateInv' /\ Continue(Requests)
    BY <1>2, DeliverStep DEF NextCommand, ServerInv
  <2>2. Continue(Requests \ {r})
    BY <2>1 DEF Continue
  <2> QED
    BY <1>2, <2>1, <2>2, Replies DEF NextCommand
<1> QED
  BY <1>1, <1>2

LEMMA BindViewCapturedStep ==
    ASSUME ServerInv, NEW r \in Requests, NEW v \in Views, NEW g \in BOOLEAN,
           BindViewCaptured(r, v, g)
    PROVE  ServerInv'
<1>1. op.delivered
  BY DEF BindViewCaptured, ServerInv, RequestInv, Suspended
<1>2. StateInv
  BY DEF ServerInv
<1>3. CASE ~srv.pending \/ srv.closed \/ op.view # None
  <2>1. StateInv' /\ Continue(Requests \ {r})
    BY <1>2, <1>3, OtherFlag DEF BindViewCaptured
  <2> QED
    BY <1>3, <2>1, Replies DEF BindViewCaptured
<1>4. CASE srv.pending /\ op.view = None /\ Drop /\ Reply(r, "error")
  <2>1. ~op.dispatched
    BY <1>2, <1>4 DEF StateInv, StageInv
  <2>2. StateInv' /\ Continue(Requests \ {r})
    BY <1>2, <1>4, <2>1, Dropped DEF BindViewCaptured
  <2> QED
    BY <1>4, <2>2, Replies
<1>5. CASE /\ op.view = None /\ op' = [op EXCEPT !.view = v] /\ Reply(r, "ok")
           /\ UNCHANGED <<srv, amb, transport, queue, writes>>
  <2>1. StateInv' /\ Continue(Requests)
    BY <1>1, <1>2, <1>5, BindStep DEF BindViewCaptured
  <2>2. Continue(Requests \ {r})
    BY <2>1 DEF Continue
  <2> QED
    BY <1>5, <2>1, <2>2, Replies
<1> QED
  BY <1>3, <1>4, <1>5 DEF BindViewCaptured

\* A handler that begins the write of its stage waits for it.
LEMMA WritesAndWaits ==
    ASSUME ServerInv, NEW r \in Requests, NEW kind \in {"arm", "dispatched"},
           req[r].kind = kind, srv.pending, srv.journaled, op.delivered,
           NEW w, \/ kind = "arm" /\ w = "arm" /\ ~op.arming /\ op.view # None
                  \/ kind = "dispatched" /\ w = "dispatch" /\ ~op.dispatching /\ op.armed,
           \/ w = "arm" /\ op' = [op EXCEPT !.arming = TRUE]
           \/ w = "dispatch" /\ op' = [op EXCEPT !.dispatching = TRUE],
           Persist(w), Await(r, "write"), UNCHANGED <<srv, amb, transport, disk>>
    PROVE  ServerInv'
<1>1. w \in {"arm", "dispatch", "hash"} /\ writes[w] = "none"
  BY DEF ServerInv, StateInv, WriteInv
<1>2. StateInv' /\ Continue(Requests)
  BY <1>1, WritingStep, ZenonT(60) DEF ServerInv
<1>3. Continue(Requests \ {r})
  BY <1>2 DEF Continue
<1>4. op \in Pendings /\ writes \in [{"arm", "dispatch", "hash"} -> {"none", "queued", "done", "failed"}]
  BY DEF ServerInv, StateInv, StateTypes
<1>5. op'.view = op.view /\ op'.armed = op.armed
  BY <1>4 DEF Pendings
<1>6. writes'[w] # "none"
  BY <1>1, <1>4 DEF Persist
<1>7. ASSUME req'[r].kind = req[r].kind, req'[r].at = "write" PROVE Suspended(r)'
  BY <1>5, <1>6, <1>7 DEF Suspended, At
<1> QED
  BY <1>2, <1>3, <1>7, Awaits

LEMMA ArmStep == ASSUME ServerInv, NEW r \in Requests, Arm(r) PROVE ServerInv'
<1>1. StateInv /\ req[r].kind = "arm" /\ disk' = disk
  BY DEF ServerInv, Arm, Arrives, At
<1>2. CASE Reply(r, "error") /\ UNCHANGED <<srv, op, amb, transport, queue, writes>>
  <2>1. StateInv' /\ Continue(Requests \ {r})
    BY <1>1, <1>2, OtherFlag
  <2> QED
    BY <1>2, <2>1, Replies
<1>3. CASE srv.pending /\ ~op.armed /\ Drop /\ Reply(r, "error")
  <2>1. ~op.dispatched
    BY <1>1, <1>3 DEF StateInv, StageInv
  <2>2. StateInv' /\ Continue(Requests \ {r})
    BY <1>1, <1>3, <2>1, Dropped
  <2> QED
    BY <1>3, <2>2, Replies
<1>4. CASE /\ srv.pending /\ op.view # None /\ ~op.arming /\ srv.journaled
           /\ op' = [op EXCEPT !.arming = TRUE] /\ Persist("arm") /\ Await(r, "write")
           /\ UNCHANGED <<srv, amb, transport>>
  <2>1. op.delivered
    BY <1>1, <1>4 DEF StateInv, StageInv
  <2> QED
    BY <1>1, <1>4, <2>1, WritesAndWaits
<1>5. CASE /\ srv.pending /\ op.view # None /\ ~srv.journaled /\ Armed(r)
           /\ UNCHANGED <<srv, amb, transport, queue, writes>>
  <2>1. StateInv' /\ Continue(Requests)
    BY <1>1, <1>5, ArmedStep DEF Armed
  <2>2. Continue(Requests \ {r})
    BY <2>1 DEF Continue
  <2> QED
    BY <1>5, <2>1, <2>2, Replies DEF Armed
<1> QED
  BY <1>2, <1>3, <1>4, <1>5 DEF Arm

LEMMA ArmPersistedStep == ASSUME ServerInv, NEW r \in Requests, ArmPersisted(r) PROVE ServerInv'
<1>1. StateInv /\ writes["arm"] # "none" /\ op.view # None
  BY DEF ServerInv, RequestInv, Suspended, ArmPersisted
<1>2. CASE Reply(r, "error") /\ UNCHANGED op
  <2>1. StateInv' /\ Continue(Requests \ {r})
    BY <1>1, <1>2, OtherFlag DEF ArmPersisted
  <2> QED
    BY <1>2, <2>1, Replies
<1>3. CASE writes["arm"] # "failed" /\ srv.pending /\ Armed(r)
  <2>1. writes["arm"] = "done"
    BY <1>1, <1>3 DEF ArmPersisted, StateInv, StateTypes
  <2>2. StateInv' /\ Continue(Requests)
    BY <1>1, <1>3, <2>1, ArmedStep DEF Armed, ArmPersisted
  <2>3. Continue(Requests \ {r})
    BY <2>2 DEF Continue
  <2> QED
    BY <1>3, <2>2, <2>3, Replies DEF Armed
<1> QED
  BY <1>2, <1>3 DEF ArmPersisted

LEMMA SignalDispatchedStep ==
    ASSUME ServerInv, NEW r \in Requests, SignalDispatched(r) PROVE ServerInv'
<1>1. StateInv /\ req[r].kind = "dispatched" /\ UNCHANGED <<srv, amb, transport, disk>>
  BY DEF ServerInv, SignalDispatched, Arrives, At
<1>2. CASE Reply(r, "error") /\ UNCHANGED <<op, queue, writes>>
  <2>1. StateInv' /\ Continue(Requests \ {r})
    BY <1>1, <1>2, OtherFlag
  <2> QED
    BY <1>2, <2>1, Replies
<1>3. CASE /\ srv.pending /\ op.armed /\ ~op.dispatching /\ srv.journaled
           /\ op' = [op EXCEPT !.dispatching = TRUE] /\ Persist("dispatch") /\ Await(r, "write")
  <2>1. op.delivered
    BY <1>1, <1>3 DEF StateInv, StageInv
  <2> QED
    BY <1>1, <1>3, <2>1, WritesAndWaits
<1>4. CASE /\ srv.pending /\ op.armed /\ ~srv.journaled /\ Dispatched(r)
           /\ UNCHANGED <<queue, writes>>
  <2>1. StateInv' /\ Continue(Requests)
    BY <1>1, <1>4, DispatchedStep DEF Dispatched
  <2>2. Continue(Requests \ {r})
    BY <2>1 DEF Continue
  <2> QED
    BY <1>4, <2>1, <2>2, Replies DEF Dispatched
<1> QED
  BY <1>2, <1>3, <1>4 DEF SignalDispatched

LEMMA DispatchPersistedStep ==
    ASSUME ServerInv, NEW r \in Requests, DispatchPersisted(r) PROVE ServerInv'
<1>1. StateInv /\ writes["dispatch"] # "none" /\ op.armed
  BY DEF ServerInv, RequestInv, Suspended, DispatchPersisted
<1>2. CASE Reply(r, "error") /\ UNCHANGED op
  <2>1. StateInv' /\ Continue(Requests \ {r})
    BY <1>1, <1>2, OtherFlag DEF DispatchPersisted
  <2> QED
    BY <1>2, <2>1, Replies
<1>3. CASE writes["dispatch"] # "failed" /\ srv.pending /\ Dispatched(r)
  <2>1. writes["dispatch"] = "done"
    BY <1>1, <1>3 DEF DispatchPersisted, StateInv, StateTypes
  <2>2. StateInv' /\ Continue(Requests)
    BY <1>1, <1>3, <2>1, DispatchedStep DEF Dispatched, DispatchPersisted
  <2>3. Continue(Requests \ {r})
    BY <2>2 DEF Continue
  <2> QED
    BY <1>3, <2>2, <2>3, Replies DEF Dispatched
<1> QED
  BY <1>2, <1>3 DEF DispatchPersisted

\* What a result may carry.
LEMMA CandidateIs ==
    ASSUME NEW result \in Results
    PROVE  /\ result.outcome \in Outcomes
           /\ Candidate(result) = IF result.outcome \in Hashes THEN result.outcome ELSE None
           /\ Candidate(result) \in Hashes \union {None}
           /\ Candidate(result) # None => result.outcome \in Hashes
           /\ result.outcome \in Hashes => Candidate(result) # None
  BY NoneAssumption DEF Results, Candidate, Outcomes

\* The command is given up, and the handler waits for the reconciliation.
LEMMA GivesUp ==
    ASSUME ServerInv, NEW r \in Requests, NEW cause \in Causes,
           NEW candidate \in Hashes \union {None},
           op.candidate \in {None, candidate}, op.delivered, srv.pending \/ amb # None,
           GiveUp(cause, candidate), disk' = disk, Await(r, "reconcile")
    PROVE  ServerInv'
<1>1. StateInv' /\ Continue(Requests \ {r})
  BY GivenUp, ZenonT(60) DEF ServerInv
<1> QED
  BY <1>1, AwaitsElsewhere

LEMMA ClassifyResultStep ==
    ASSUME ServerInv, NEW r \in Requests, srv.pending, op.dispatched, req[r].body \in Results,
           op.candidate \in {None, Candidate(req[r].body)},
           writes["hash"] # "none" => op.candidate = Candidate(req[r].body),
           srv.journaled /\ Candidate(req[r].body) # None => writes["hash"] = "done",
           \A q \in Requests : At(q, "result", "write") => q = r,
           ClassifyResult(r), disk' = disk
    PROVE  ServerInv'
<1> DEFINE outcome == req[r].body.outcome
           candidate == Candidate(req[r].body)
<1>1. /\ outcome \in Outcomes /\ candidate \in Hashes \union {None}
      /\ candidate = IF outcome \in Hashes THEN outcome ELSE None
      /\ outcome \in Hashes => candidate # None
  BY CandidateIs
<1>2. StateInv /\ op.delivered
  BY DEF ServerInv, StateInv, StageInv
<1>3. CASE /\ op' = [op EXCEPT !.receipt = TRUE, !.raw = outcome, !.candidate = candidate,
                              !.resultProcessing = TRUE, !.timer = "settlement"]
           /\ Reply(r, "receipt") /\ UNCHANGED <<srv, amb, transport, queue, writes>>
  <2> HIDE DEF outcome, candidate
  <2>1. srv.journaled /\ outcome \in Hashes => writes["hash"] = "done"
    BY <1>1 DEF candidate
  <2>2. writes["hash"] # "none" => op.candidate = candidate
    BY DEF candidate
  <2>3. StateInv' /\ Continue(Requests \ {r})
    BY <1>1, <1>2, <1>3, <2>1, <2>2, KeptStep, ZenonT(60)
  <2> QED
    BY <1>3, <2>3, Replies
<1>4. ASSUME NEW cause \in Causes, GiveUp(cause, candidate), Await(r, "reconcile")
      PROVE  ServerInv'
  <2> HIDE DEF candidate
  <2>1. op.candidate \in {None, candidate}
    BY DEF candidate
  <2> QED
    BY <1>1, <1>2, <1>4, <2>1, GivesUp
<1>5. CASE Parses(req[r].body) /\ outcome # "INTERNAL_ERROR"
  BY <1>3, <1>5 DEF ClassifyResult
<1>6. CASE Parses(req[r].body) /\ outcome = "INTERNAL_ERROR"
  <2>1. GiveUp("INTERNAL_ERROR", candidate) /\ Await(r, "reconcile")
    BY <1>6 DEF ClassifyResult
  <2> QED
    BY <1>4, <2>1 DEF Causes
<1>7. CASE ~Parses(req[r].body)
  <2>1. GiveUp("UNTRUSTED_LATE_CONTEXT", candidate) /\ Await(r, "reconcile")
    BY <1>7 DEF ClassifyResult
  <2> QED
    BY <1>4, <2>1 DEF Causes
<1> QED
  BY <1>5, <1>6, <1>7

LEMMA LateResultStep == ASSUME ServerInv, NEW r \in Requests, LateResult(r) PROVE ServerInv'
<1>1. StateInv /\ disk' = disk /\ req[r].body \in Results
  BY DEF ServerInv, RequestInv, Suspended, LateResult, Arrives
<1>2. CASE Reply(r, "error") /\ UNCHANGED <<srv, op, amb, transport, queue, writes>>
  <2>1. StateInv' /\ Continue(Requests \ {r})
    BY <1>1, <1>2, OtherFlag
  <2> QED
    BY <1>2, <2>1, Replies
<1>3. CASE /\ amb # None /\ amb.status = "AWAITING_LATE_RESULT"
           /\ GiveUp(amb.cause, Candidate(req[r].body)) /\ Await(r, "reconcile")
  <2>1. amb.cause \in Causes
    BY <1>1, <1>3 DEF StateInv, StateTypes, Ambiguities
  <2>2. op.delivered /\ op.candidate = None
    BY <1>1, <1>3 DEF StateInv, EndInv, HashInv
  <2>3. Candidate(req[r].body) \in Hashes \union {None}
    BY <1>1, CandidateIs
  <2> QED
    BY <1>1, <1>3, <2>1, <2>2, <2>3, GivesUp
<1> QED
  BY <1>2, <1>3 DEF LateResult

\* The first result for a command that was delivered and armed.
LEMMA AwaitedIs ==
    ASSUME ServerInv, NEW r \in Requests, Awaited(r)
    PROVE  /\ StateInv /\ srv.pending /\ op.delivered /\ op.candidate = None /\ op.raw = None
           /\ ~op.resultProcessing /\ req[r].kind = "result" /\ req[r].body \in Results
           /\ writes["hash"] = "none"
           /\ \A q \in Requests : ~At(q, "result", "write")
<1>1. req[r].kind = "result" /\ req[r].body \in Results
  BY DEF ServerInv, RequestInv, Suspended, Awaited, Arrives, At
<1>2. StateInv /\ srv.pending /\ op.delivered /\ op.candidate = None /\ op.raw = None
  BY DEF ServerInv, StateInv, StageInv, PendingIsLive, Awaited
<1>3. writes["hash"] = "none"
  BY <1>2 DEF StateInv, WriteInv
<1>4. ~op.resultProcessing
  BY DEF Awaited
<1>5. \A q \in Requests : ~At(q, "result", "write")
  BY <1>4 DEF ServerInv, RequestInv, Suspended
<1> QED
  BY <1>1, <1>2, <1>3, <1>4, <1>5

LEMMA UnacknowledgedResultStep ==
    ASSUME ServerInv, NEW r \in Requests, UnacknowledgedResult(r) PROVE ServerInv'
<1>1. srv.pending /\ op.delivered /\ op.candidate = None /\ req[r].body \in Results
  BY AwaitedIs DEF UnacknowledgedResult
<1>2. Candidate(req[r].body) \in Hashes \union {None}
  BY <1>1, CandidateIs
<1> QED
  BY <1>1, <1>2, GivesUp DEF UnacknowledgedResult, Causes

LEMMA ReceiveResultStep == ASSUME ServerInv, NEW r \in Requests, ReceiveResult(r) PROVE ServerInv'
<1> DEFINE candidate == Candidate(req[r].body)
<1>1. /\ StateInv /\ srv.pending /\ op.delivered /\ op.candidate = None /\ op.raw = None
      /\ ~op.resultProcessing /\ req[r].kind = "result" /\ req[r].body \in Results
      /\ writes["hash"] = "none" /\ \A q \in Requests : ~At(q, "result", "write")
      /\ op.dispatched /\ disk' = disk
  BY AwaitedIs DEF ReceiveResult
<1>2. candidate \in Hashes \union {None}
  BY <1>1, CandidateIs
<1>3. CASE ~(srv.journaled /\ candidate # None)
  <2>1. ClassifyResult(r)
    BY <1>3 DEF ReceiveResult
  <2> QED
    BY <1>1, <1>3, <2>1, ClassifyResultStep
<1>4. CASE srv.journaled /\ candidate # None
  <2>1. /\ op' = [op EXCEPT !.candidate = candidate, !.resultProcessing = TRUE]
        /\ Persist("hash") /\ Await(r, "write") /\ UNCHANGED <<srv, amb, transport>>
    BY <1>4 DEF ReceiveResult
  <2>2. candidate \in Hashes
    BY <1>2, <1>4
  <2> HIDE DEF candidate
  <2>3. StateInv' /\ Continue(Requests)
    BY <1>1, <1>4, <2>1, <2>2, WritingStep, ZenonT(60)
  <2>4. Continue(Requests \ {r})
    BY <2>3 DEF Continue
  <2>5. op \in Pendings /\ writes \in [{"arm", "dispatch", "hash"} -> {"none", "queued", "done", "failed"}]
    BY <1>1 DEF StateInv, StateTypes
  <2>6. op'.candidate = candidate /\ op'.dispatched /\ op'.resultProcessing /\ op'.raw = None
    BY <1>1, <2>1, <2>5 DEF Pendings
  <2>7. writes'["hash"] # "none" /\ srv'.pending
    BY <1>1, <2>1, <2>5 DEF Persist
  <2>8. ASSUME req'[r].kind = req[r].kind, req'[r].body = req[r].body, req'[r].at = "write"
        PROVE  Suspended(r)'
    BY <1>1, <2>6, <2>7, <2>8 DEF Suspended, At, candidate, Candidate
  <2> QED
    BY <1>1, <2>1, <2>3, <2>4, <2>8, Awaits
<1> QED
  BY <1>3, <1>4

LEMMA ResultPersistedStep ==
    ASSUME ServerInv, NEW r \in Requests, ResultPersisted(r) PROVE ServerInv'
<1>1. /\ StateInv /\ disk' = disk
      /\ req[r].body \in Results /\ Candidate(req[r].body) = op.candidate
      /\ writes["hash"] # "none" /\ op.dispatched /\ (srv.pending \/ amb # None)
  BY DEF ServerInv, RequestInv, Suspended, ResultPersisted
<1>2. CASE Reply(r, "error") /\ UNCHANGED <<srv, op, amb, transport, queue, writes>>
  <2>1. StateInv' /\ Continue(Requests \ {r})
    BY <1>1, <1>2, OtherFlag
  <2> QED
    BY <1>2, <2>1, Replies
<1>3. CASE GiveUp("RESULT_AFTER_CLOSURE", op.candidate) /\ Await(r, "reconcile")
  <2>1. op.delivered /\ op.candidate \in Hashes \union {None}
    BY <1>1 DEF StateInv, StateTypes, StageInv, Pendings
  <2> QED
    BY <1>1, <1>3, <2>1, GivesUp DEF Causes
<1>4. CASE writes["hash"] # "failed" /\ srv.pending /\ ClassifyResult(r)
  <2>1. writes["hash"] = "done"
    BY <1>1, <1>4 DEF ResultPersisted, StateInv, StateTypes
  <2>2. \A q \in Requests : At(q, "result", "write") => q = r
    BY DEF ServerInv, AloneInv, ResultPersisted
  <2> QED
    BY <1>1, <1>4, <2>1, <2>2, ClassifyResultStep
<1> QED
  BY <1>2, <1>3, <1>4 DEF ResultPersisted

\* Answers that leave the session as it is.
LEMMA AnsweringSteps ==
    ASSUME ServerInv, NEW r \in Requests, RefuseResult(r) \/ ResultReconciled(r)
    PROVE  ServerInv'
<1>1. StateInv' /\ Continue(Requests \ {r})
  BY OtherFlag DEF ServerInv, RefuseResult, ResultReconciled
<1>2. Reply(r, "error") \/ Reply(r, "ambiguous")
  BY DEF RefuseResult, ResultReconciled
<1> QED
  BY <1>1, <1>2, Replies

LEMMA SettleRequestStep == ASSUME ServerInv, NEW r \in Requests, Settle(r) PROVE ServerInv'
<1>1. StateInv /\ UNCHANGED <<amb, disk, queue, writes>>
  BY DEF ServerInv, Settle
<1>2. CASE Reply(r, "error") /\ UNCHANGED <<srv, op, transport>>
  <2>1. StateInv' /\ Continue(Requests \ {r})
    BY <1>1, <1>2, OtherFlag
  <2> QED
    BY <1>2, <2>1, Replies
<1>3. CASE /\ srv.pending /\ op.receipt
           /\ op' = [op EXCEPT !.receipt = FALSE, !.timer = "off"]
           /\ transport' = IF op.raw \in Hashes THEN "resolved" ELSE "rejected"
           /\ srv' = [srv EXCEPT !.pending = FALSE, !.closed = op.raw \notin Hashes]
           /\ Reply(r, "ok")
  <2>1. StateInv' /\ Continue(Requests)
    BY <1>1, <1>3, SettleStep
  <2>2. Continue(Requests \ {r})
    BY <2>1 DEF Continue
  <2> QED
    BY <1>3, <2>1, <2>2, Replies
<1> QED
  BY <1>2, <1>3 DEF Settle

LEMMA CloseRequestStep == ASSUME ServerInv, NEW r \in Requests, Close(r) PROVE ServerInv'
<1>1. StateInv /\ disk' = disk /\ Reply(r, "ok") /\ op.candidate \in Hashes \union {None}
  BY DEF ServerInv, StateInv, StateTypes, Pendings, Close
<1>2. CASE ~srv.pending
  <2>1. StateInv' /\ Continue(Requests \ {r})
    BY <1>1, <1>2, OtherFlag DEF Close
  <2> QED
    BY <1>1, <2>1, Replies
<1>3. CASE srv.pending /\ op.delivered
  <2>1. StateInv' /\ Continue(Requests \ {r})
    BY <1>1, <1>3, GivenUp, ZenonT(60) DEF Close, Causes
  <2> QED
    BY <1>1, <2>1, Replies
<1>4. CASE srv.pending /\ ~op.delivered
  <2>1. ~op.dispatched
    BY <1>1, <1>4 DEF StateInv, StageInv
  <2>2. StateInv' /\ Continue(Requests \ {r})
    BY <1>1, <1>4, <2>1, Dropped DEF Close
  <2> QED
    BY <1>1, <2>2, Replies
<1> QED
  BY <1>2, <1>3, <1>4

\* /api/allow and /api/deny up to the call of the transport.
LEMMA AllowSteps ==
    ASSUME ServerInv, NEW r \in Requests, Allow(r) \/ BaselineCaptured(r) \/ AllowRefused(r)
    PROVE  ServerInv'
<1>1. StateInv' /\ Continue(Requests \ {r})
  BY OtherFlag, ZenonT(60) DEF ServerInv, Allow, BaselineCaptured, AllowRefused, Finish
<1>2. Reply(r, "error") \/ Await(r, "baseline") \/ Await(r, "gateway")
  BY DEF Allow, BaselineCaptured, AllowRefused, Finish
<1> QED
  BY <1>1, <1>2, Replies, AwaitsElsewhere

LEMMA ForwardRequestStep == ASSUME ServerInv, NEW r \in Requests, Forward(r) PROVE ServerInv'
<1>1. StateInv' /\ Continue(Requests)
  BY ForwardStep DEF ServerInv, Forward
<1>2. Continue(Requests \ {r})
  BY <1>1 DEF Continue
<1>3. /\ req[r].kind = "allow" /\ transport = "none" /\ Await(r, "transport")
      /\ transport' \in {"failed", "inflight"}
  BY DEF Forward, At
<1>4. ASSUME req'[r].kind = req[r].kind, req'[r].at = "transport" PROVE Suspended(r)'
  BY <1>3, <1>4 DEF Suspended, At
<1>5. \A q \in Requests : req[q].at \notin {"transport", "observe"}
  BY <1>3 DEF ServerInv, RequestInv, Suspended
<1> QED
  BY <1>1, <1>2, <1>3, <1>4, <1>5, Awaits

LEMMA AllowEndsStep == ASSUME ServerInv, NEW r \in Requests, AllowEnds(r) PROVE ServerInv'
<1>1. StateInv' /\ Continue(Requests \ {r})
  BY OtherFlag, ZenonT(60) DEF ServerInv, AllowEnds, Finish
<1>2. CASE transport = "resolved" /\ Await(r, "observe")
  <2>1. req[r].kind = "allow" /\ req[r].at = "transport" /\ UNCHANGED <<transport, amb>>
    BY DEF AllowEnds, At
  <2>2. amb = None
    BY <1>2, <2>1 DEF ServerInv, RequestInv, Suspended
  <2>3. ASSUME req'[r].kind = req[r].kind, req'[r].at = "observe" PROVE Suspended(r)'
    BY <1>2, <2>1, <2>2, <2>3 DEF Suspended, At
  <2>4. \A q \in Requests : req[q].at \in {"transport", "observe"} => q = r
    BY <2>1 DEF ServerInv, AloneInv
  <2> QED
    BY <1>1, <1>2, <2>3, <2>4, Awaits
<1>3. CASE Reply(r, "error") \/ Reply(r, "ambiguous")
  BY <1>1, <1>3, Replies
<1> QED
  BY <1>2, <1>3 DEF AllowEnds, Finish

LEMMA ObservationSteps ==
    ASSUME ServerInv, NEW r \in Requests, AllowObserved(r) \/ AllowUnobserved(r)
    PROVE  ServerInv'
<1>1. CASE AllowObserved(r)
  <2>1. StateInv' /\ Continue(Requests \ {r})
    BY <1>1, OtherFlag, ZenonT(60) DEF ServerInv, AllowObserved, Finish
  <2> QED
    BY <1>1, <2>1, Replies DEF AllowObserved, Finish
<1>2. CASE AllowUnobserved(r)
  <2>1. transport = "resolved" /\ amb = None
    BY <1>2 DEF ServerInv, RequestInv, Suspended, AllowUnobserved, At
  <2>2. \A q \in Requests : req[q].at \in {"transport", "observe"} => q = r
    BY <1>2 DEF ServerInv, AloneInv, AllowUnobserved, At
  <2>3. StateInv' /\ Continue(Requests \ {r})
    BY <1>2, <2>1, <2>2, UnobservedStep DEF ServerInv, AllowUnobserved
  <2> QED
    BY <1>2, <2>3, Replies DEF AllowUnobserved
<1> QED
  BY <1>1, <1>2

-----------------------------------------------------------------------------
(* Deadlines, the journal, close() and the clients *)

\* markAmbiguous or a cancellation while no request moves.
LEMMA DeadlineStep == ASSUME ServerInv, Deadline PROVE ServerInv'
<1>1. StateInv /\ disk' = disk /\ req' = req /\ srv.pending /\ op.candidate \in Hashes \union {None}
  BY DEF ServerInv, StateInv, StateTypes, Pendings, Deadline
<1>2. ASSUME op.delivered, NEW cause \in Causes, GiveUp(cause, op.candidate)
      PROVE  StateInv' /\ Continue(Requests)
  BY <1>1, <1>2, ClosedIs, AbandonStep, ZenonT(60) DEF GiveUp
<1>3. ASSUME op.delivered
      PROVE  \E cause \in Causes : GiveUp(cause, op.candidate)
  <2>1. CASE op.timer = "dispatchAck"
    BY <1>3, <2>1 DEF Deadline, Causes
  <2>2. CASE op.timer # "dispatchAck" /\ op.timer = "settlement"
    BY <1>3, <2>2 DEF Deadline, Causes
  <2>3. CASE op.timer # "dispatchAck" /\ op.timer # "settlement"
    BY <1>3, <2>3 DEF Deadline, Causes
  <2> QED
    BY <2>1, <2>2, <2>3
<1>4. ASSUME ~op.delivered PROVE StateInv' /\ Continue(Requests)
  <2>1. ~op.dispatched
    BY <1>1, <1>4 DEF StateInv, StageInv
  <2> QED
    BY <1>1, <1>4, <2>1, ClosedIs, DropStep DEF Deadline, Drop
<1> QED
  BY <1>1, <1>2, <1>3, <1>4, NoneMoves

LEMMA StopStep == ASSUME ServerInv, Stop PROVE ServerInv'
<1>1. /\ StateInv /\ disk' = disk /\ req' = req /\ op.candidate \in Hashes \union {None}
      /\ srv \in Flags /\ srv' = [srv EXCEPT !.stopping = TRUE, !.closed = TRUE, !.pending = FALSE]
  BY DEF ServerInv, StateInv, StateTypes, Pendings, Stop
<1>2. /\ srv' \in Flags /\ srv'.pending = FALSE /\ srv'.closed = TRUE
      /\ srv'.journaled = srv.journaled /\ srv'.journalFailed = srv.journalFailed
  BY <1>1, ClosedIs
<1>3. CASE ~srv.pending
  <2>1. srv'.pending = srv.pending
    BY <1>1, <1>2, <1>3, ZenonT(60) DEF Flags
  <2>2. StateInv' /\ Continue(Requests)
    BY <1>1, <1>2, <1>3, <2>1, FlagsStep, ZenonT(60) DEF Stop
  <2> QED
    BY <1>1, <2>2, NoneMoves
<1>4. CASE srv.pending /\ op.delivered
  <2>1. StateInv' /\ Continue(Requests)
    BY <1>1, <1>2, <1>4, AbandonStep DEF Stop, Causes
  <2> QED
    BY <1>1, <2>1, NoneMoves
<1>5. CASE srv.pending /\ ~op.delivered
  <2>1. ~op.dispatched
    BY <1>1, <1>5 DEF StateInv, StageInv
  <2>2. StateInv' /\ Continue(Requests)
    BY <1>1, <1>2, <1>5, <2>1, DropStep DEF Stop
  <2> QED
    BY <1>1, <2>2, NoneMoves
<1> QED
  BY <1>3, <1>4, <1>5

LEMMA StoppedStep == ASSUME ServerInv, Stopped PROVE ServerInv'
<1>1. srv \in Flags /\ StateInv
  BY DEF ServerInv, StateInv, StateTypes
<1>2. /\ srv' \in Flags /\ srv'.pending = srv.pending /\ srv'.journaled = srv.journaled
      /\ srv'.journalFailed = srv.journalFailed /\ srv'.closed = srv.closed
  BY <1>1, ZenonT(60) DEF Stopped, Flags
<1>3. StateInv' /\ Continue(Requests)
  BY <1>1, <1>2, FlagsStep DEF Stopped
<1> QED
  BY <1>3, NoneMoves DEF Stopped

\* A request is sent, with what its kind carries.
LEMMA SendStep ==
    ASSUME ServerInv, NEW r \in Requests, NEW kind \in Kinds, NEW body \in Bodies(kind),
           Send(r, kind, body), UNCHANGED <<srv, op, amb, transport, disk, queue, writes>>
    PROVE  ServerInv'
<1> DEFINE x == [kind |-> kind, body |-> body, at |-> "sent", reply |-> "none"]
<1>1. StateInv' /\ Continue(Requests \ {r})
  BY OtherFlag DEF ServerInv
<1>2. /\ DOMAIN x = {"kind", "body", "at", "reply"} /\ x.kind = kind /\ x.body = body
      /\ x.at = "sent" /\ x.reply = "none"
  OBVIOUS
<1>3. req' = [req EXCEPT ![r] = x]
  BY DEF Send
<1> HIDE DEF x
<1>4. req'[r] = x
  BY <1>3 DEF ServerInv, RequestTypes
<1>5. kind = "result" => body \in Results
  BY DEF Bodies
<1>6. Suspended(r)'
  BY <1>2, <1>4, <1>5 DEF Suspended, At
<1> QED
  BY <1>1, <1>2, <1>3, <1>6, MovesOn, ZenonT(60)

-----------------------------------------------------------------------------
(* The invariant *)

LEMMA ServerInitially == ASSUME Init PROVE ServerInv
<1>1. srv \in Flags /\ ~srv.pending /\ ~srv.journalFailed
  <2>1. PICK journaled \in BOOLEAN :
            srv = [journaled |-> journaled, connected |-> FALSE, closed |-> FALSE,
                   stopping |-> FALSE, pending |-> FALSE, operationInFlight |-> FALSE,
                   journalFailed |-> FALSE, journalClosed |-> FALSE]
    BY ZenonT(60) DEF Init
  <2>2. srv \in [journaled : BOOLEAN, connected : BOOLEAN, closed : BOOLEAN, stopping : BOOLEAN,
                 pending : BOOLEAN, operationInFlight : BOOLEAN, journalFailed : BOOLEAN,
                 journalClosed : BOOLEAN]
    BY <2>1
  <2>3. ~srv.pending /\ ~srv.journalFailed
    BY <2>1
  <2>4. srv \in Flags
    BY <2>2 DEF Flags
  <2> QED
    BY <2>3, <2>4
<1>2. /\ op \in Pendings /\ ~op.delivered /\ op.view = None /\ ~op.armed /\ ~op.dispatched
      /\ ~op.receipt /\ op.raw = None /\ op.candidate = None
  BY DEF Init, Pendings
<1>3. disk \in DiskRecords /\ disk.hash = None /\ disk.state = "READY"
  <2>1. 0 \in 0..3
    OBVIOUS
  <2> QED
    BY <2>1 DEF Init, Ready, DiskRecords
<1>4. /\ amb = None /\ transport = "none" /\ queue = <<>> /\ queue \in Seq({"arm", "dispatch", "hash"})
      /\ writes \in [{"arm", "dispatch", "hash"} -> {"none", "queued", "done", "failed"}]
      /\ \A w \in {"arm", "dispatch", "hash"} : writes[w] = "none"
  BY DEF Init
<1>5. StateTypes
  BY <1>1, <1>2, <1>3, <1>4 DEF StateTypes
<1>6. None \notin Hashes
  BY NoneAssumption DEF Outcomes
<1>7. PendingIsLive /\ StageInv /\ EndInv /\ HashInv /\ ObservedIsRetained
  BY <1>1, <1>2, <1>4, <1>6 DEF PendingIsLive, StageInv, EndInv, HashInv, ObservedIsRetained
<1>8. WriteInv /\ QueueInv /\ DiskInv
  BY <1>2, <1>3, <1>4, <1>6 DEF WriteInv, QueueInv, DiskInv
<1>9. RequestTypes
  BY ZenonT(60) DEF Init, RequestTypes, Kinds
<1>10. \A r \in Requests : req[r].at = "idle"
  BY ZenonT(60) DEF Init
<1>11. RequestInv /\ AloneInv
  BY <1>10 DEF RequestInv, Suspended, AloneInv, At
<1> QED
  BY <1>5, <1>7, <1>8, <1>9, <1>11 DEF ServerInv, StateInv

LEMMA HandlerStep == ASSUME ServerInv, NEW r \in Requests, Handler(r) PROVE ServerInv'
<1>1. CASE \/ RefuseWhileStopping(r) \/ Handshake(r) \/ \E v \in Views : HandshakeCaptured(r, v)
           \/ CaptureFails(r) \/ BindView(r)
  BY <1>1, ConnectingSteps
<1>2. CASE NextCommand(r) \/ \E v \in Views, g \in BOOLEAN : BindViewCaptured(r, v, g)
  BY <1>2, NextCommandStep, BindViewCapturedStep
<1>3. CASE Arm(r) \/ ArmPersisted(r) \/ SignalDispatched(r) \/ DispatchPersisted(r)
  BY <1>3, ArmStep, ArmPersistedStep, SignalDispatchedStep, DispatchPersistedStep
<1>4. CASE LateResult(r) \/ UnacknowledgedResult(r) \/ ReceiveResult(r) \/ ResultPersisted(r)
  BY <1>4, LateResultStep, UnacknowledgedResultStep, ReceiveResultStep, ResultPersistedStep
<1>5. CASE RefuseResult(r) \/ ResultReconciled(r) \/ Settle(r) \/ Close(r)
  BY <1>5, AnsweringSteps, SettleRequestStep, CloseRequestStep
<1>6. CASE \/ Allow(r) \/ BaselineCaptured(r) \/ AllowRefused(r) \/ Forward(r)
           \/ AllowEnds(r) \/ AllowObserved(r) \/ AllowUnobserved(r)
  BY <1>6, AllowSteps, ForwardRequestStep, AllowEndsStep, ObservationSteps
<1> QED
  BY <1>1, <1>2, <1>3, <1>4, <1>5, <1>6 DEF Handler

LEMMA ServerStep == ASSUME ServerInv, Server PROVE ServerInv'
<1>1. CASE \E r \in Requests : Handler(r)
  BY <1>1, HandlerStep
<1>2. CASE Deadline
  BY <1>2, DeadlineStep
<1>3. CASE Journal
  <2>1. StateInv' /\ Continue(Requests)
    BY <1>3, JournalWritesStep, JournalFailsStep DEF Journal, ServerInv
  <2> QED
    BY <1>3, <2>1, NoneMoves DEF Journal, JournalWrites, JournalFails
<1>4. CASE Reconcile
  <2>1. StateInv' /\ Continue(Requests)
    BY <1>4, ReconcileStep DEF ServerInv
  <2> QED
    BY <1>4, <2>1, NoneMoves DEF Reconcile, ReconcileRetained, ReconcileObserved
<1>5. CASE Stop \/ Stopped
  BY <1>5, StopStep, StoppedStep
<1> QED
  BY <1>1, <1>2, <1>3, <1>4, <1>5 DEF Server

LEMMA NextStep == ServerInv /\ [Next]_vars => ServerInv'
<1> SUFFICES ASSUME ServerInv, [Next]_vars PROVE ServerInv'
  OBVIOUS
<1>1. CASE Server
  BY <1>1, ServerStep
<1>2. ASSUME NEW r \in Requests, Client(r) PROVE ServerInv'
  BY <1>2, SendStep DEF Client
<1>3. CASE UNCHANGED vars
  <2>1. StateInv /\ srv \in Flags
    BY DEF ServerInv, StateInv, StateTypes
  <2>2. StateInv' /\ Continue(Requests)
    BY <1>3, <2>1, FlagsStep DEF vars
  <2> QED
    BY <1>3, <2>2, NoneMoves DEF vars
<1> QED
  BY <1>1, <1>2, <1>3 DEF Next

\* What the invariant says of the properties.
LEMMA ServerProperties ==
    ServerInv => TypeOK /\ PendingIsLive /\ AcknowledgedIsDurable /\ ObservedIsRetained
                 /\ SuccessIsClean
<1> SUFFICES ASSUME ServerInv
             PROVE  TypeOK /\ PendingIsLive /\ AcknowledgedIsDurable /\ ObservedIsRetained
                    /\ SuccessIsClean
  OBVIOUS
<1>1. TypeOK /\ PendingIsLive /\ ObservedIsRetained
  BY DEF ServerInv, StateInv, TypeOK
<1>2. AcknowledgedIsDurable
  BY DEF ServerInv, StateInv, AcknowledgedIsDurable, WriteInv, DiskInv, StageInv
<1>3. SuccessIsClean
  <2>1. None \notin Hashes
    BY NoneAssumption DEF Outcomes
  <2> QED
    BY <2>1 DEF ServerInv, StateInv, SuccessIsClean, EndInv, StageInv
<1> QED
  BY <1>1, <1>2, <1>3

LEMMA ServerInvariant == Spec => []ServerInv
  BY ServerInitially, NextStep, PTL DEF Spec

-----------------------------------------------------------------------------
(* Theorems *)

\* The state of the server and of every open request stays well formed.
THEOREM ServerTypes == Spec => []TypeOK
  BY ServerInvariant, ServerProperties, PTL

\* A pending command is one the gateway waits for, in an open session, under a
\* deadline: whichever handler, timer or write drops it also settles the transport.
THEOREM PendingIsLiveTheorem == Spec => []PendingIsLive
  BY ServerInvariant, ServerProperties, PTL

\* Every stage that was acknowledged with a journal is on disk, with the very hash
\* that is delivered, whatever failed or was reordered before.
THEOREM AcknowledgedIsDurableTheorem == Spec => []AcknowledgedIsDurable
  BY ServerInvariant, ServerProperties, PTL

\* An ambiguous hash is observed only once it is retained.
THEOREM ObservedIsRetainedTheorem == Spec => []ObservedIsRetained
  BY ServerInvariant, ServerProperties, PTL

\* A success went through every stage, and only its own observation can make it
\* ambiguous afterwards.
THEOREM SuccessIsCleanTheorem == Spec => []SuccessIsClean
  BY ServerInvariant, ServerProperties, PTL

\* What a step may do to an ambiguity.
Final == /\ amb' # None /\ amb'.cause = amb.cause
         /\ amb.hash \in {None, amb'.hash}
         /\ transport' = transport

LEMMA AbandonFinal ==
    ASSUME StateInv, amb # None, NEW cause \in Causes, NEW candidate \in Hashes \union {None},
           op.candidate \in {None, candidate}, Abandon(cause, candidate)
    PROVE  Final
<1>1. /\ amb' \in Ambiguities /\ amb'.cause = amb.cause
      /\ amb' = amb \/ amb.hash = None
  BY MarkedIs DEF Abandon
<1>2. transport # "inflight"
  BY DEF StateInv, PendingIsLive
<1> QED
  BY <1>1, <1>2, NoneAssumption DEF Abandon, Final

\* Handlers that go on after the command was given up.
LEMMA HandlerFinal ==
    ASSUME ServerInv, amb # None, NEW r \in Requests, Handler(r)
    PROVE  Final
<1>1. /\ StateInv /\ ~srv.pending /\ srv.closed /\ op.delivered /\ transport # "none"
  BY DEF ServerInv, StateInv, PendingIsLive, EndInv, StageInv
<1>2. CASE UNCHANGED <<amb, transport>>
  BY <1>2 DEF Final
<1>3. CASE LateResult(r)
  <2>1. CASE UNCHANGED <<amb, transport>>
    BY <1>2, <2>1
  <2>2. CASE amb.status = "AWAITING_LATE_RESULT" /\ GiveUp(amb.cause, Candidate(req[r].body))
    <3>1. Candidate(req[r].body) \in Hashes \union {None}
      BY <1>3, CandidateIs DEF ServerInv, RequestInv, Suspended, LateResult, Arrives
    <3>2. amb.cause \in Causes
      BY <1>1 DEF StateInv, StateTypes, Ambiguities
    <3>3. op.candidate = None
      BY <1>1, <2>2 DEF StateInv, HashInv
    <3> QED
      BY <1>1, <2>2, <3>1, <3>2, <3>3, AbandonFinal DEF GiveUp
  <2> QED
    BY <1>3, <2>1, <2>2 DEF LateResult
<1>4. CASE ResultPersisted(r)
  <2>1. op.candidate \in Hashes \union {None}
    BY <1>1 DEF StateInv, StateTypes, Pendings
  <2>2. CASE UNCHANGED <<amb, transport>>
    BY <1>2, <2>2
  <2>3. CASE GiveUp("RESULT_AFTER_CLOSURE", op.candidate)
    BY <1>1, <2>1, <2>3, AbandonFinal DEF GiveUp, Causes
  <2> QED
    BY <1>1, <1>4, <2>2, <2>3 DEF ResultPersisted
<1>5. CASE \/ RefuseWhileStopping(r) \/ Handshake(r) \/ \E v \in Views : HandshakeCaptured(r, v)
           \/ CaptureFails(r) \/ BindView(r) \/ NextCommand(r)
  BY <1>2, <1>5 DEF RefuseWhileStopping, Handshake, HandshakeCaptured, CaptureFails, BindView,
                    NextCommand
<1>6. CASE \/ \E v \in Views, g \in BOOLEAN : BindViewCaptured(r, v, g)
           \/ Arm(r) \/ ArmPersisted(r) \/ SignalDispatched(r) \/ DispatchPersisted(r)
  BY <1>1, <1>2, <1>6 DEF BindViewCaptured, Arm, ArmPersisted, SignalDispatched, DispatchPersisted
<1>7. CASE UnacknowledgedResult(r) \/ ReceiveResult(r)
  BY <1>1, <1>7 DEF UnacknowledgedResult, ReceiveResult, Awaited
<1>8. CASE RefuseResult(r) \/ ResultReconciled(r) \/ Settle(r) \/ Close(r)
  BY <1>1, <1>2, <1>8 DEF RefuseResult, ResultReconciled, Settle, Close
<1>9. CASE \/ Allow(r) \/ BaselineCaptured(r) \/ AllowRefused(r) \/ Forward(r)
           \/ AllowEnds(r) \/ AllowObserved(r)
  BY <1>1, <1>2, <1>9 DEF Allow, BaselineCaptured, AllowRefused, Forward, AllowEnds, AllowObserved
<1>10. CASE AllowUnobserved(r)
  <2>1. amb = None
    BY <1>10 DEF ServerInv, RequestInv, Suspended, AllowUnobserved, At
  <2> QED
    BY <2>1
<1> QED
  BY <1>3, <1>4, <1>5, <1>6, <1>7, <1>8, <1>9, <1>10 DEF Handler

LEMMA ServerFinal == ASSUME ServerInv, amb # None, Server PROVE Final
<1>1. /\ StateInv /\ ~srv.pending /\ transport # "inflight" /\ amb \in Ambiguities
  BY DEF ServerInv, StateInv, StateTypes, PendingIsLive
<1>2. CASE \E r \in Requests : Handler(r)
  BY <1>2, HandlerFinal
<1>3. CASE Deadline \/ JournalWrites \/ Stop \/ Stopped
  BY <1>1, <1>3 DEF Deadline, JournalWrites, Stop, Stopped, Final
<1>4. CASE JournalFails
  <2>1. amb' = [cause  |-> amb.cause,
                hash   |-> IF op.candidate # None THEN op.candidate ELSE amb.hash,
                status |-> "JOURNAL_WRITE_FAILED"]
    BY <1>4 DEF JournalFails
  <2>2. amb'.cause = amb.cause /\ amb'.hash = IF op.candidate # None THEN op.candidate ELSE amb.hash
    BY <2>1
  <2>3. op.candidate # None => amb.hash = op.candidate
    BY <1>1 DEF StateInv, HashInv
  <2>4. amb' \in Ambiguities
    <3>1. op.candidate \in Hashes \union {None} /\ amb.cause \in Causes
          /\ amb.hash \in Hashes \union {None}
      BY <1>1 DEF StateInv, StateTypes, Pendings, Ambiguities
    <3> QED
      BY <2>1, <3>1 DEF Ambiguities, Statuses
  <2> QED
    BY <1>1, <1>4, <2>2, <2>3, <2>4, NoneAssumption DEF JournalFails, Final
<1>5. CASE Reconcile
  <2>1. PICK status \in Statuses : amb' = [amb EXCEPT !.status = status]
    BY <1>5 DEF Reconcile, ReconcileRetained, ReconcileObserved, Statuses
  <2>2. amb' \in Ambiguities /\ amb'.cause = amb.cause /\ amb'.hash = amb.hash
    BY <1>1, <2>1 DEF Ambiguities
  <2> QED
    BY <1>5, <2>2, NoneAssumption DEF Reconcile, ReconcileRetained, ReconcileObserved, Final
<1> QED
  BY <1>2, <1>3, <1>4, <1>5 DEF Server, Journal

\* An ambiguity is never withdrawn: whatever comes late, its cause and hash stay,
\* the session stays closed, and the answer to the gateway does not change.
THEOREM AmbiguityIsFinalTheorem == Spec => AmbiguityIsFinal
<1> DEFINE Kept == amb # None => /\ amb' # None /\ amb'.cause = amb.cause
                                 /\ amb.hash \in {None, amb'.hash}
                                 /\ srv'.closed /\ ~srv'.pending
                                 /\ transport' = transport
<1>1. ServerInv /\ ServerInv' /\ [Next]_vars => [Kept]_vars
  <2> SUFFICES ASSUME ServerInv, ServerInv', Next, amb # None PROVE Kept
    BY DEF Kept
  <2>1. Final
    BY ServerFinal DEF Next, Client, Final
  <2>2. srv'.closed /\ ~srv'.pending
    BY <2>1 DEF Final, ServerInv, StateInv, EndInv, PendingIsLive
  <2> QED
    BY <2>1, <2>2 DEF Final
<1> QED
  BY <1>1, ServerInvariant, PTL DEF Spec, AmbiguityIsFinal
=============================================================================
