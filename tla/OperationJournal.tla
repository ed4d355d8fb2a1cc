-------------------------- MODULE OperationJournal --------------------------
(***************************************************************************)
(* wallet-guard/prototype/durable-operation-journal.mjs: journal objects,  *)
(* in one process or several, that were given the same path.  Two files    *)
(* are shared: the journal and its ownership marker, the lock.             *)
(*                                                                         *)
(* `fs' is what the processes see and `disk' what the last fsync of the    *)
(* directory has made safe; power loss leaves each of the two entries as   *)
(* it is in one or the other.  The awaits of the code are step boundaries, *)
(* except that opening, writing and syncing the uniquely named temporary   *)
(* file is one step, since nobody else ever sees that file.                *)
(***************************************************************************)
EXTENDS Naturals, Sequences

CONSTANTS
    Journals,   \* objects returned by createWalletGuardDurableOperationJournal
    Operations, \* the commands that may be armed
    Hashes,     \* transaction hashes
    None

RecordStates == {"READY", "ARMED", "DISPATCHED", "HASH_OBSERVED", "TERMINAL"}

Terminals == {"AMBIGUOUS", "WALLET_ERROR", "MATCH_REFERENCE"}

Records == [revision  : 0..4,
            state     : RecordStates,
            operation : Operations \union {None},
            hash      : Hashes \union {None},
            terminal  : Terminals \union {"none"}]

ASSUME NoneAssumption == None \notin Journals \union Operations \union Hashes \union Records

Initial == [revision |-> 0, state |-> "READY", operation |-> None, hash |-> None,
            terminal |-> "none"]

\* The points where work is suspended, named for what it does next.
WriteSteps == {"temp", "rename", "syncDir"}

InitSteps == {"lock", "stat", "syncLock", "read"}

ReleaseSteps == {"verify", "rm", "syncRelease"}

VARIABLES
    fs,         \* lock: the journal that created it, or None; journal: its record, or None
    disk,
    lifecycle,  \* per journal; "DEAD" when its process is gone
    current,    \* per journal: the last confirmed record
    closing,    \* per journal: close() was called
    owns,       \* per journal: ownershipHandle and ownershipIdentity
    work,       \* per journal: the suspended work of inFlight or of close()
    opened,     \* history: the journals whose initialize() succeeded
    confirmed   \* history: the records that were confirmed to a caller

vars == <<fs, disk, lifecycle, current, closing, owns, work, opened, confirmed>>

Idle == [pc |-> "idle", next |-> None]

Init == /\ fs = [lock |-> None, journal |-> None]
        /\ disk = fs
        /\ lifecycle = [j \in Journals |-> "NEW"]
        /\ current = [j \in Journals |-> None]
        /\ closing = [j \in Journals |-> FALSE]
        /\ owns = [j \in Journals |-> "nothing"]
        /\ work = [j \in Journals |-> Idle]
        /\ opened = <<>>
        /\ confirmed = <<>>

-----------------------------------------------------------------------------
(* Helpers *)

Goto(j, pc) == work' = [work EXCEPT ![j].pc = pc]

\* The work of inFlight or of close() ends.
Settle(j, state) == /\ work' = [work EXCEPT ![j] = Idle]
                    /\ lifecycle' = [lifecycle EXCEPT ![j] = state]

\* How releaseOwnership leaves the journal: close() makes it CLOSED, a failed
\* initialize() FAULTED.
AfterRelease(j) == IF lifecycle[j] = "INITIALIZING" THEN "FAULTED" ELSE "CLOSED"

\* An error of the work: initialize() releases what it owns first, a transition
\* leaves the lock in place.
Fail(j) == IF lifecycle[j] = "INITIALIZING" /\ owns[j] # "nothing"
           THEN Goto(j, "verify") /\ UNCHANGED lifecycle
           ELSE Settle(j, "FAULTED")

-----------------------------------------------------------------------------
(* initialize() *)

Initialize(j) ==
    /\ lifecycle[j] = "NEW" /\ ~closing[j] /\ work[j] = Idle
    /\ lifecycle' = [lifecycle EXCEPT ![j] = "INITIALIZING"]
    /\ Goto(j, "lock")
    /\ UNCHANGED <<fs, disk, current, closing, owns, opened, confirmed>>

\* open(..., 'wx'): an existing lock is never taken over.
OpenLock(j) ==
    /\ work[j].pc = "lock"
    /\ IF fs.lock # None
       THEN /\ Fail(j)
            /\ UNCHANGED <<fs, owns>>
       ELSE /\ fs' = [fs EXCEPT !.lock = j]
            /\ owns' = [owns EXCEPT ![j] = "handle"]
            /\ Goto(j, "stat")
            /\ UNCHANGED lifecycle
    /\ UNCHANGED <<disk, current, closing, opened, confirmed>>

StatLock(j) ==
    /\ work[j].pc = "stat"
    /\ owns' = [owns EXCEPT ![j] = "identity"]
    /\ Goto(j, "syncLock")
    /\ UNCHANGED <<fs, disk, lifecycle, current, closing, opened, confirmed>>

SyncLock(j) ==
    /\ work[j].pc = "syncLock"
    /\ disk' = fs
    /\ Goto(j, "read")
    /\ UNCHANGED <<fs, lifecycle, current, closing, owns, opened, confirmed>>

\* A journal that is there, in whatever state, blocks initialization.
ReadJournal(j) ==
    /\ work[j].pc = "read"
    /\ IF fs.journal # None
       THEN Fail(j)
       ELSE /\ work' = [work EXCEPT ![j] = [pc |-> "temp", next |-> Initial]]
            /\ UNCHANGED lifecycle
    /\ UNCHANGED <<fs, disk, current, closing, owns, opened, confirmed>>

-----------------------------------------------------------------------------
(* Transitions *)

Writable(j, states) == /\ ~closing[j] /\ lifecycle[j] = "OPEN" /\ work[j] = Idle
                       /\ current[j].state \in states

\* transition(): the next record is built from the confirmed one.
Transition(j, next) ==
    /\ work' = [work EXCEPT ![j] = [pc |-> "check", next |-> next]]
    /\ UNCHANGED <<fs, disk, lifecycle, current, closing, owns, opened, confirmed>>

Arm(j, operation) ==
    /\ Writable(j, {"READY"})
    /\ Transition(j, [current[j] EXCEPT !.revision = @ + 1, !.state = "ARMED",
                                        !.operation = operation])

MarkDispatched(j) ==
    /\ Writable(j, {"ARMED"})
    /\ Transition(j, [current[j] EXCEPT !.revision = @ + 1, !.state = "DISPATCHED"])

RetainHash(j, hash) ==
    /\ Writable(j, {"ARMED", "DISPATCHED"})
    /\ Transition(j, [current[j] EXCEPT !.revision = @ + 1, !.state = "HASH_OBSERVED",
                                        !.hash = hash])

\* Mutant of Terminate: a match needs no hash.
TerminateUnbound(j, outcome) ==
    /\ Writable(j, {"ARMED", "DISPATCHED", "HASH_OBSERVED"})
    /\ outcome = "WALLET_ERROR" => current[j].state # "HASH_OBSERVED"
    /\ Transition(j, [current[j] EXCEPT !.revision = @ + 1, !.state = "TERMINAL",
                                        !.terminal = outcome])

Terminate(j, outcome) ==
    /\ Writable(j, {"ARMED", "DISPATCHED", "HASH_OBSERVED"})
    /\ outcome = "MATCH_REFERENCE" => current[j].state = "HASH_OBSERVED"
    /\ outcome = "WALLET_ERROR" => current[j].state # "HASH_OBSERVED"
    /\ Transition(j, [current[j] EXCEPT !.revision = @ + 1, !.state = "TERMINAL",
                                        !.terminal = outcome])

\* verifyOwnership() and requireRegularPrivateFile() before the write.
Check(j) ==
    /\ work[j].pc = "check"
    /\ IF owns[j] = "identity" /\ fs.lock = j /\ fs.journal # None
       THEN Goto(j, "temp") /\ UNCHANGED lifecycle
       ELSE Fail(j)
    /\ UNCHANGED <<fs, disk, current, closing, owns, opened, confirmed>>

-----------------------------------------------------------------------------
(* writeDurably() *)

WriteTemp(j) ==
    /\ work[j].pc = "temp"
    /\ Goto(j, "rename")
    /\ UNCHANGED <<fs, disk, lifecycle, current, closing, owns, opened, confirmed>>

Rename(j) ==
    /\ work[j].pc = "rename"
    /\ fs' = [fs EXCEPT !.journal = work[j].next]
    /\ Goto(j, "syncDir")
    /\ UNCHANGED <<disk, lifecycle, current, closing, owns, opened, confirmed>>

\* The directory is synchronised, the record becomes the confirmed one, and
\* initialize() opens the journal.
Confirm(j) ==
    /\ work[j].pc = "syncDir"
    /\ disk' = fs
    /\ current' = [current EXCEPT ![j] = work[j].next]
    /\ confirmed' = Append(confirmed, work[j].next)
    /\ opened' = IF lifecycle[j] = "INITIALIZING" THEN Append(opened, j) ELSE opened
    /\ Settle(j, "OPEN")
    /\ UNCHANGED <<fs, closing, owns>>

-----------------------------------------------------------------------------
(* close() and releaseOwnership() *)

Close(j) ==
    /\ ~closing[j] /\ lifecycle[j] # "DEAD"
    /\ closing' = [closing EXCEPT ![j] = TRUE]
    /\ UNCHANGED <<fs, disk, lifecycle, current, owns, work, opened, confirmed>>

\* Mutants of CloseProceeds: it does not wait for the work in flight; it is refused
\* after a fault.
CloseAtOnce(j) ==
    /\ closing[j] /\ work[j].pc \notin ReleaseSteps
    /\ lifecycle[j] \notin {"CLOSED", "DEAD"}
    /\ IF owns[j] = "nothing"
       THEN /\ lifecycle' = [lifecycle EXCEPT ![j] = "CLOSED"] /\ UNCHANGED <<fs, work, owns>>
       ELSE /\ fs' = [fs EXCEPT !.lock = None]
            /\ owns' = [owns EXCEPT ![j] = "nothing"]
            /\ lifecycle' = [lifecycle EXCEPT ![j] = "CLOSED"]
            /\ UNCHANGED work
    /\ UNCHANGED <<disk, current, closing, opened, confirmed>>

CloseUnlessFaulted(j) ==
    /\ closing[j] /\ work[j] = Idle
    /\ lifecycle[j] \notin {"CLOSED", "DEAD", "FAULTED"}
    /\ IF owns[j] = "nothing"
       THEN Settle(j, "CLOSED")
       ELSE Goto(j, "verify") /\ UNCHANGED lifecycle
    /\ UNCHANGED <<fs, disk, current, closing, owns, opened, confirmed>>

\* close() goes on once the work in flight has ended, with or without an error.
CloseProceeds(j) ==
    /\ closing[j] /\ work[j] = Idle
    /\ lifecycle[j] \notin {"CLOSED", "DEAD"}
    /\ IF owns[j] = "nothing"
       THEN Settle(j, "CLOSED")
       ELSE Goto(j, "verify") /\ UNCHANGED lifecycle
    /\ UNCHANGED <<fs, disk, current, closing, owns, opened, confirmed>>

EndRelease(j) == /\ owns' = [owns EXCEPT ![j] = "nothing"]
                 /\ Settle(j, AfterRelease(j))

\* A lock that cannot be recognised as one's own is left alone.
VerifyLock(j) ==
    /\ work[j].pc = "verify"
    /\ IF owns[j] = "identity" /\ fs.lock = j
       THEN Goto(j, "rm") /\ UNCHANGED <<lifecycle, owns>>
       ELSE EndRelease(j)
    /\ UNCHANGED <<fs, disk, current, closing, opened, confirmed>>

RemoveLock(j) ==
    /\ work[j].pc = "rm"
    /\ fs' = [fs EXCEPT !.lock = None]
    /\ Goto(j, "syncRelease")
    /\ UNCHANGED <<disk, lifecycle, current, closing, owns, opened, confirmed>>

Released(j) ==
    /\ work[j].pc = "syncRelease"
    /\ disk' = fs
    /\ EndRelease(j)
    /\ UNCHANGED <<fs, current, closing, opened, confirmed>>

-----------------------------------------------------------------------------
(* Failures *)

\* Mutant of IoError: a record whose directory could not be synchronised is removed.
IoErrorRemoves(j) ==
    /\ work[j] # Idle
    /\ IF work[j].pc \in ReleaseSteps
       THEN EndRelease(j)
       ELSE Fail(j) /\ UNCHANGED owns
    /\ fs' = IF work[j].pc = "syncDir" THEN [fs EXCEPT !.journal = None] ELSE fs
    /\ UNCHANGED <<disk, current, closing, opened, confirmed>>

\* The system call or the clock that suspended work waits for fails.
IoError(j) ==
    /\ work[j] # Idle
    /\ IF work[j].pc \in ReleaseSteps
       THEN EndRelease(j)
       ELSE Fail(j) /\ UNCHANGED owns
    /\ UNCHANGED <<fs, disk, current, closing, opened, confirmed>>

Dead(S) == /\ lifecycle' = [j \in Journals |-> IF j \in S THEN "DEAD" ELSE lifecycle[j]]
           /\ work' = [j \in Journals |-> IF j \in S THEN Idle ELSE work[j]]
           /\ owns' = [j \in Journals |-> IF j \in S THEN "nothing" ELSE owns[j]]

\* The process of a journal dies; its files stay.
ProcessCrash(j) ==
    /\ lifecycle[j] \notin {"NEW", "DEAD"}
    /\ Dead({j})
    /\ UNCHANGED <<fs, disk, current, closing, opened, confirmed>>

\* Every process dies, and each file is as it was before or after the changes
\* that were not synchronised.
PowerLoss ==
    /\ \E lock \in {fs.lock, disk.lock}, journal \in {fs.journal, disk.journal} :
          fs' = [lock |-> lock, journal |-> journal]
    /\ disk' = fs'
    /\ Dead({j \in Journals : lifecycle[j] # "NEW"})
    /\ UNCHANGED <<current, closing, opened, confirmed>>

-----------------------------------------------------------------------------
(* Specification *)

Call(j) ==
    \/ Initialize(j)
    \/ \E operation \in Operations : Arm(j, operation)
    \/ MarkDispatched(j)
    \/ \E hash \in Hashes : RetainHash(j, hash)
    \/ \E outcome \in Terminals : Terminate(j, outcome)
    \/ Close(j)

Step(j) ==
    \/ OpenLock(j) \/ StatLock(j) \/ SyncLock(j) \/ ReadJournal(j)
    \/ Check(j) \/ WriteTemp(j) \/ Rename(j) \/ Confirm(j)
    \/ CloseProceeds(j) \/ VerifyLock(j) \/ RemoveLock(j) \/ Released(j)
    \/ IoError(j)

Next == \/ \E j \in Journals : Call(j) \/ Step(j) \/ ProcessCrash(j)
        \/ PowerLoss

Spec == Init /\ [][Next]_vars

\* The event loop resumes work whose system call has ended, and every system
\* call ends, with or without an error.
FairSpec == Spec /\ \A j \in Journals : WF_vars(Step(j))

-----------------------------------------------------------------------------
(* Properties *)

Files == [lock : Journals \union {None}, journal : Records \union {None}]

\* Files, records and journal objects are well formed; the life cycle of an object
\* is not the state of its record.
TypeOK ==
    /\ fs \in Files
    /\ disk \in Files
    /\ lifecycle \in [Journals -> {"NEW", "INITIALIZING", "OPEN", "FAULTED", "CLOSED", "DEAD"}]
    /\ current \in [Journals -> Records \union {None}]
    /\ closing \in [Journals -> BOOLEAN]
    /\ owns \in [Journals -> {"nothing", "handle", "identity"}]
    /\ work \in [Journals -> [pc   : InitSteps \union {"check"} \union WriteSteps
                                        \union ReleaseSteps \union {"idle"},
                              next : Records \union {None}]]
    /\ opened \in Seq(Journals)
    /\ confirmed \in Seq(Records)

\* One writer: over all journals, processes, crashes and power failures at most one
\* initialize() on the path ever succeeds; whoever is about to write or is writing
\* holds the lock and is the only one, so that close() and a failed initialize()
\* never release it under a writer and never remove the lock of another journal.
SingleWriter ==
    /\ Len(opened) <= 1
    /\ \A j \in Journals : work[j].pc \in {"check"} \union WriteSteps =>
          /\ owns[j] = "identity"
          /\ fs.lock = j
          /\ \A l \in Journals \ {j} : work[l].pc \notin {"check"} \union WriteSteps

\* What was confirmed to a caller survives: the disk holds the last confirmed
\* record or the one written after it, for the same operation and hash.
ConfirmedIsDurable ==
    confirmed # <<>> =>
        LET last == confirmed[Len(confirmed)]
        IN  \A file \in {fs.journal, disk.journal} :
                /\ file # None
                /\ \/ file = last
                   \/ /\ file.revision = last.revision + 1
                      /\ last.operation \in {None, file.operation}
                      /\ last.hash \in {None, file.hash}

\* close() ends, whatever it has to wait for or fails.
CloseEnds == \A j \in Journals : closing[j] ~> lifecycle[j] \in {"CLOSED", "DEAD"}

Record == INSTANCE OperationRecord WITH record <- disk.journal

\* The safe copy of the journal implements the abstract record.
ImplementsRecord == Record!Spec
=============================================================================
