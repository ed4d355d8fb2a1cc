------------------------- MODULE DurableClaimStore -------------------------
(***************************************************************************)
(* core/gate/reference-durable-claim-store.mjs: at-most-once claiming of   *)
(* capabilities by several store objects, in several processes, that share *)
(* one directory of a local file system.                                   *)
(*                                                                         *)
(* `fs' is the file system as the processes see it, `disk' the part of it  *)
(* that fsync has made safe.  Power loss keeps all of `disk' and any part  *)
(* of the rest.  Every await of the code is a step boundary, and every     *)
(* system call may fail.  The uniquely named temporary file of a           *)
(* publication is seen by its own call only and is a field of that call.   *)
(***************************************************************************)
EXTENDS Naturals, Sequences

CONSTANTS
    Stores,         \* objects returned by createReferenceDurableClaimStore
    Calls,          \* slots for concurrent claim, complete and inspect calls
    Capabilities,
    Authorizations,
    None

Outcomes == {"CONSUMED_SUCCESS", "CONSUMED_ERROR"}

\* How much of a file's contents is safe: only "synced" contents survive power
\* loss, and a "torn" file does not parse.
Contents == {"written", "synced", "torn"}

ClaimRecords == [auth : Authorizations, data : Contents]

TerminalRecords == [auth : Authorizations, outcome : Outcomes, data : Contents]

FileSystem == [root     : BOOLEAN,
               dirs     : SUBSET Capabilities,
               claim    : [Capabilities -> ClaimRecords \union {None}],
               terminal : [Capabilities -> TerminalRecords \union {None}]]

\* The points where a call is suspended, named for what it does next.
PublishSteps == {"write", "syncTemp", "link", "unlink", "syncDir"}

Steps == {"idle", "root", "syncRoot", "reread", "readClaim", "readTerminal"}
            \union PublishSteps

HandleStates == {"OPEN", "FINALIZING", "FAILED_CLOSED"} \union Outcomes

Handles == [state : HandleStates, auth : Authorizations]

ASSUME NoneAssumption ==
    None \notin Stores \union Authorizations \union ClaimRecords \union TerminalRecords \union Handles

VARIABLES
    fs,
    disk,
    trustedRootPromise, \* per store: the memoised check of the root directory
    handleState,        \* per store and capability: the handle, or None
    call,               \* per slot: the suspended call
    ret,                \* per slot: what its last call returned
    granted,            \* history: authorizations of successful claim() calls
    completed           \* history: outcomes of successful complete() calls

vars == <<fs, disk, trustedRootPromise, handleState, call, ret, granted, completed>>

Idle == [pc |-> "idle", op |-> "none", store |-> None, cap |-> None, auth |-> None,
         outcome |-> "none", temp |-> "none", floor |-> 0]

Init == /\ \E r \in BOOLEAN, safe \in BOOLEAN :
              /\ safe => r
              /\ fs = [root |-> r, dirs |-> {},
                       claim |-> [c \in Capabilities |-> None],
                       terminal |-> [c \in Capabilities |-> None]]
              /\ disk = [fs EXCEPT !.root = safe]
        /\ trustedRootPromise = [s \in Stores |-> "none"]
        /\ handleState = [s \in Stores |-> [c \in Capabilities |-> None]]
        /\ call = [k \in Calls |-> Idle]
        /\ ret = [k \in Calls |-> "none"]
        /\ granted = [c \in Capabilities |-> <<>>]
        /\ completed = [c \in Capabilities |-> <<>>]

-----------------------------------------------------------------------------
(* Helpers *)

\* A call ends with an error code or a result.
Return(k, code) == /\ call' = [call EXCEPT ![k] = Idle]
                   /\ ret' = [ret EXCEPT ![k] = code]

Goto(k, pc) == /\ call' = [call EXCEPT ![k].pc = pc]
               /\ UNCHANGED ret

Whole(record) == record.data # "torn"

\* An error of complete() burns its handle; claim() has none to burn.
FailClosed(k) ==
    handleState' = IF call[k].op = "complete"
                   THEN [handleState EXCEPT ![call[k].store][call[k].cap].state = "FAILED_CLOSED"]
                   ELSE handleState

\* How far the acknowledged life of a capability has come: 0 before claim()
\* has returned, 1 after it, 2 after complete() has returned.
Acknowledged(c) == Len(granted[c]) + Len(completed[c])

-----------------------------------------------------------------------------
(* Entry of the three operations, and the root check they share *)

\* claim() and inspect() up to their first await; the first call of a store
\* starts the root check that all its calls share.
BeginOnRoot(k, s, op, c, a) ==
    /\ call[k].pc = "idle"
    /\ call' = [call EXCEPT ![k] = [Idle EXCEPT !.pc = "root", !.op = op, !.store = s,
                                                !.cap = c, !.auth = a,
                                                !.floor = Acknowledged(c)]]
    /\ ret' = [ret EXCEPT ![k] = "none"]
    /\ trustedRootPromise' =
          [trustedRootPromise EXCEPT ![s] = IF @ = "none" THEN "pending" ELSE @]
    /\ UNCHANGED <<fs, disk, handleState, granted, completed>>

\* Mutants of TrustRoot: the parent directory is not synchronised; reservations that
\* nobody holds any more are swept away.
TrustRootUnsynced(s) ==
    /\ trustedRootPromise[s] = "pending"
    /\ fs.root
    /\ trustedRootPromise' = [trustedRootPromise EXCEPT ![s] = "trusted"]
    /\ UNCHANGED <<fs, disk, handleState, call, ret, granted, completed>>

TrustRootSweeps(s) ==
    /\ trustedRootPromise[s] = "pending"
    /\ fs.root
    /\ LET stale == {c \in fs.dirs : /\ fs.terminal[c] = None
                                     /\ \A r \in Stores : handleState[r][c] = None
                                     /\ \A k \in Calls : call[k].cap = c => call[k].pc = "root"}
           Swept(files) == [files EXCEPT !.root = TRUE, !.dirs = @ \ stale,
                                         !.claim = [c \in Capabilities |->
                                             IF c \in stale THEN None ELSE files.claim[c]]]
       IN  fs' = Swept(fs) /\ disk' = Swept(disk)
    /\ trustedRootPromise' = [trustedRootPromise EXCEPT ![s] = "trusted"]
    /\ UNCHANGED <<handleState, call, ret, granted, completed>>

\* The root is a directory with safe ownership and mode, and its entry in the
\* parent directory is synchronised.
TrustRoot(s) ==
    /\ trustedRootPromise[s] = "pending"
    /\ fs.root
    /\ disk' = [disk EXCEPT !.root = TRUE]
    /\ trustedRootPromise' = [trustedRootPromise EXCEPT ![s] = "trusted"]
    /\ UNCHANGED <<fs, handleState, call, ret, granted, completed>>

\* The root is missing or unsafe, or a system call failed.  The rejected
\* promise is kept: the store never checks its root again.
RejectRoot(s) ==
    /\ trustedRootPromise[s] = "pending"
    /\ trustedRootPromise' = [trustedRootPromise EXCEPT ![s] = "rejected"]
    /\ UNCHANGED <<fs, disk, handleState, call, ret, granted, completed>>

\* Mutant of RootRejected: only claim() awaits the rejection.
RootRejectedForClaims(k) ==
    /\ call[k].pc = "root"
    /\ call[k].op = "claim"
    /\ trustedRootPromise[call[k].store] = "rejected"
    /\ Return(k, "ROOT_REJECTED")
    /\ UNCHANGED <<fs, disk, trustedRootPromise, handleState, granted, completed>>

RootRejected(k) ==
    /\ call[k].pc = "root"
    /\ trustedRootPromise[call[k].store] = "rejected"
    /\ Return(k, "ROOT_REJECTED")
    /\ UNCHANGED <<fs, disk, trustedRootPromise, handleState, granted, completed>>

HandleOpen(s, c) == handleState[s][c] # None /\ handleState[s][c].state = "OPEN"

\* complete() up to its first await: the handle is reserved synchronously.
BeginComplete(k, s, c, o) ==
    /\ call[k].pc = "idle"
    /\ HandleOpen(s, c)
    /\ call' = [call EXCEPT ![k] = [Idle EXCEPT !.pc = "reread", !.op = "complete",
                                                !.store = s, !.cap = c,
                                                !.auth = handleState[s][c].auth,
                                                !.outcome = o]]
    /\ ret' = [ret EXCEPT ![k] = "none"]
    /\ handleState' = [handleState EXCEPT ![s][c].state = "FINALIZING"]
    /\ UNCHANGED <<fs, disk, trustedRootPromise, granted, completed>>

\* complete() with a foreign handle or one that is no longer open.
StaleComplete(k, s, c) ==
    /\ call[k].pc = "idle"
    /\ ~HandleOpen(s, c)
    /\ Return(k, "STALE")
    /\ UNCHANGED <<fs, disk, trustedRootPromise, handleState, granted, completed>>

\* complete() with an outcome other than success and error leaves the handle open.
InvalidOutcome(k, s, c) ==
    /\ call[k].pc = "idle"
    /\ HandleOpen(s, c)
    /\ Return(k, "INVALID")
    /\ UNCHANGED <<fs, disk, trustedRootPromise, handleState, granted, completed>>

-----------------------------------------------------------------------------
(* claim(): the tombstone *)

\* Mutants of Mkdir: a second claim() under the recorded authorization resumes the
\* publication; an existing directory is no error, as with { recursive: true }.
MkdirResume(k) ==
    /\ call[k].pc = "root"
    /\ call[k].op = "claim"
    /\ trustedRootPromise[call[k].store] = "trusted"
    /\ IF call[k].cap \in fs.dirs
       THEN /\ IF fs.claim[call[k].cap] # None /\ fs.claim[call[k].cap].auth = call[k].auth
               THEN Goto(k, "syncDir")
               ELSE Return(k, "REPLAY")
            /\ UNCHANGED fs
       ELSE /\ fs' = [fs EXCEPT !.dirs = @ \union {call[k].cap}]
            /\ Goto(k, "syncRoot")
    /\ UNCHANGED <<disk, trustedRootPromise, handleState, granted, completed>>

MkdirRecursive(k) ==
    /\ call[k].pc = "root"
    /\ call[k].op = "claim"
    /\ trustedRootPromise[call[k].store] = "trusted"
    /\ fs' = [fs EXCEPT !.dirs = @ \union {call[k].cap}]
    /\ Goto(k, "syncRoot")
    /\ UNCHANGED <<disk, trustedRootPromise, handleState, granted, completed>>

Mkdir(k) ==
    /\ call[k].pc = "root"
    /\ call[k].op = "claim"
    /\ trustedRootPromise[call[k].store] = "trusted"
    /\ IF call[k].cap \in fs.dirs
       THEN /\ Return(k, "REPLAY")
            /\ UNCHANGED fs
       ELSE /\ fs' = [fs EXCEPT !.dirs = @ \union {call[k].cap}]
            /\ Goto(k, "syncRoot")
    /\ UNCHANGED <<disk, trustedRootPromise, handleState, granted, completed>>

\* fsync of the root makes every capability directory in it safe.
SyncRoot(k) ==
    /\ call[k].pc = "syncRoot"
    /\ disk' = [disk EXCEPT !.dirs = fs.dirs]
    /\ Goto(k, "write")
    /\ UNCHANGED <<fs, trustedRootPromise, handleState, granted, completed>>

-----------------------------------------------------------------------------
(* writeExclusiveDurable(): publication of claim.json by claim() and of    *)
(* terminal.json by complete()                                             *)

WriteTemp(k) ==
    /\ call[k].pc = "write"
    /\ call' = [call EXCEPT ![k].pc = "syncTemp", ![k].temp = "written"]
    /\ UNCHANGED <<fs, disk, trustedRootPromise, handleState, ret, granted, completed>>

SyncTemp(k) ==
    /\ call[k].pc = "syncTemp"
    /\ call' = [call EXCEPT ![k].pc = "link", ![k].temp = "synced"]
    /\ UNCHANGED <<fs, disk, trustedRootPromise, handleState, ret, granted, completed>>

\* The hard link never replaces a record that is already there.
LinkClaim(k) ==
    /\ call[k].pc = "link"
    /\ call[k].op = "claim"
    /\ IF fs.claim[call[k].cap] # None
       THEN /\ Return(k, "REPLAY")
            /\ UNCHANGED fs
       ELSE /\ fs' = [fs EXCEPT !.claim[call[k].cap] =
                                    [auth |-> call[k].auth, data |-> call[k].temp]]
            /\ Goto(k, "unlink")
    /\ UNCHANGED <<disk, trustedRootPromise, handleState, granted, completed>>

LinkTerminal(k) ==
    /\ call[k].pc = "link"
    /\ call[k].op = "complete"
    /\ IF fs.terminal[call[k].cap] # None
       THEN /\ Return(k, "REPLAY")
            /\ FailClosed(k)
            /\ UNCHANGED fs
       ELSE /\ fs' = [fs EXCEPT !.terminal[call[k].cap] =
                          [auth |-> call[k].auth, outcome |-> call[k].outcome,
                           data |-> call[k].temp]]
            /\ Goto(k, "unlink")
            /\ UNCHANGED handleState
    /\ UNCHANGED <<disk, trustedRootPromise, granted, completed>>

UnlinkTemp(k) ==
    /\ call[k].pc = "unlink"
    /\ call' = [call EXCEPT ![k].pc = "syncDir", ![k].temp = "none"]
    /\ UNCHANGED <<fs, disk, trustedRootPromise, handleState, ret, granted, completed>>

\* fsync of the capability directory makes both its records safe.
SyncedDirectory(c) == [disk EXCEPT !.claim[c] = fs.claim[c], !.terminal[c] = fs.terminal[c]]

\* The last await of claim(): the handle is created and the claim granted.
FinishClaim(k) ==
    /\ call[k].pc = "syncDir"
    /\ call[k].op = "claim"
    /\ disk' = SyncedDirectory(call[k].cap)
    /\ handleState' = [handleState EXCEPT ![call[k].store][call[k].cap] =
                                              [state |-> "OPEN", auth |-> call[k].auth]]
    /\ granted' = [granted EXCEPT ![call[k].cap] = Append(@, call[k].auth)]
    /\ Return(k, "GRANTED")
    /\ UNCHANGED <<fs, trustedRootPromise, completed>>

\* Mutant of FinishComplete: the directory is not synchronised.
FinishCompleteUnsynced(k) ==
    /\ call[k].pc = "syncDir"
    /\ call[k].op = "complete"
    /\ handleState' = [handleState EXCEPT ![call[k].store][call[k].cap].state = call[k].outcome]
    /\ completed' = [completed EXCEPT ![call[k].cap] = Append(@, call[k].outcome)]
    /\ Return(k, call[k].outcome)
    /\ UNCHANGED <<fs, disk, trustedRootPromise, granted>>

\* The last await of complete(): the handle takes its terminal state.
FinishComplete(k) ==
    /\ call[k].pc = "syncDir"
    /\ call[k].op = "complete"
    /\ disk' = SyncedDirectory(call[k].cap)
    /\ handleState' = [handleState EXCEPT ![call[k].store][call[k].cap].state = call[k].outcome]
    /\ completed' = [completed EXCEPT ![call[k].cap] = Append(@, call[k].outcome)]
    /\ Return(k, call[k].outcome)
    /\ UNCHANGED <<fs, trustedRootPromise, granted>>

\* complete() reads the persisted claim again before it publishes.
Reread(k) ==
    /\ call[k].pc = "reread"
    /\ LET claim == fs.claim[call[k].cap] IN
       IF claim # None /\ Whole(claim) /\ claim.auth = call[k].auth
       THEN /\ Goto(k, "write")
            /\ UNCHANGED handleState
       ELSE /\ Return(k, "CORRUPT")
            /\ FailClosed(k)
    /\ UNCHANGED <<fs, disk, trustedRootPromise, granted, completed>>

-----------------------------------------------------------------------------
(* inspect() *)

\* The result of an inspection, kept with its capability and with how far the
\* capability's life had been acknowledged when the inspection began.
Report(k, state) ==
    /\ call' = [call EXCEPT ![k] = [Idle EXCEPT !.cap = call[k].cap, !.floor = call[k].floor]]
    /\ ret' = [ret EXCEPT ![k] = state]

Lstat(k) ==
    /\ call[k].pc = "root"
    /\ call[k].op = "inspect"
    /\ trustedRootPromise[call[k].store] = "trusted"
    /\ IF call[k].cap \in fs.dirs THEN Goto(k, "readClaim") ELSE Report(k, "ABSENT")
    /\ UNCHANGED <<fs, disk, trustedRootPromise, handleState, granted, completed>>

\* Mutant of ReadClaim: terminal.json is not read.
ReadClaimOnly(k) ==
    /\ call[k].pc = "readClaim"
    /\ Report(k, IF fs.claim[call[k].cap] = None THEN "RESERVED_INCOMPLETE" ELSE "RESERVED")
    /\ UNCHANGED <<fs, disk, trustedRootPromise, handleState, granted, completed>>

ReadClaim(k) ==
    /\ call[k].pc = "readClaim"
    /\ LET claim == fs.claim[call[k].cap] IN
       IF claim = None \/ ~Whole(claim) \/ claim.auth # call[k].auth
       THEN Report(k, CASE claim = None  -> "RESERVED_INCOMPLETE"
                        [] claim # None /\ ~Whole(claim) -> "CORRUPT"
                        [] OTHER         -> "BINDING_MISMATCH")
       ELSE Goto(k, "readTerminal")
    /\ UNCHANGED <<fs, disk, trustedRootPromise, handleState, granted, completed>>

ReadTerminal(k) ==
    /\ call[k].pc = "readTerminal"
    /\ LET terminal == fs.terminal[call[k].cap] IN
       Report(k, CASE terminal = None -> "RESERVED"
                   [] terminal # None /\ Whole(terminal) /\ terminal.auth = call[k].auth
                                      -> terminal.outcome
                   [] OTHER           -> "CORRUPT")
    /\ UNCHANGED <<fs, disk, trustedRootPromise, handleState, granted, completed>>

-----------------------------------------------------------------------------
(* Failures *)

\* The system call a suspended call waits for fails with an I/O error.
IoError(k) ==
    /\ call[k].pc # "idle"
    /\ call[k].pc = "root" => trustedRootPromise[call[k].store] = "trusted"
    /\ Return(k, "IO")
    /\ FailClosed(k)
    /\ UNCHANGED <<fs, disk, trustedRootPromise, granted, completed>>

\* The process of a store dies: its calls, handles and root check are gone,
\* the file system is not.
ProcessCrash(s) ==
    /\ trustedRootPromise' = [trustedRootPromise EXCEPT ![s] = "none"]
    /\ handleState' = [handleState EXCEPT ![s] = [c \in Capabilities |-> None]]
    /\ call' = [k \in Calls |-> IF call[k].store = s THEN Idle ELSE call[k]]
    /\ ret' = [k \in Calls |-> IF call[k].store = s THEN "none" ELSE ret[k]]
    /\ UNCHANGED <<fs, disk, granted, completed>>

\* What is left of a record that reached the disk: unsynchronised contents
\* are lost with the power.
AfterPowerLoss(record) == IF record = None \/ record.data = "synced"
                          THEN record
                          ELSE [record EXCEPT !.data = "torn"]

\* The file system after power loss, when `root', `dirs', `claims' and
\* `terminals' name the entries that are kept.
Remains(root, dirs, claims, terminals) ==
    [root     |-> root,
     dirs     |-> IF root THEN dirs ELSE {},
     claim    |-> [c \in Capabilities |-> IF root /\ c \in dirs /\ c \in claims
                                          THEN AfterPowerLoss(fs.claim[c]) ELSE None],
     terminal |-> [c \in Capabilities |-> IF root /\ c \in dirs /\ c \in terminals
                                          THEN AfterPowerLoss(fs.terminal[c]) ELSE None]]

\* Every process dies.  Entries that were never synchronised survive or not,
\* one by one.
PowerLoss ==
    /\ \E root \in {disk.root, fs.root},
          dirs \in SUBSET fs.dirs,
          claims \in SUBSET {c \in Capabilities : fs.claim[c] # None},
          terminals \in SUBSET {c \in Capabilities : fs.terminal[c] # None} :
          /\ disk.dirs \subseteq dirs
          /\ {c \in Capabilities : disk.claim[c] # None} \subseteq claims
          /\ {c \in Capabilities : disk.terminal[c] # None} \subseteq terminals
          /\ fs' = Remains(root, dirs, claims, terminals)
          /\ disk' = fs'
    /\ trustedRootPromise' = [s \in Stores |-> "none"]
    /\ handleState' = [s \in Stores |-> [c \in Capabilities |-> None]]
    /\ call' = [k \in Calls |-> Idle]
    /\ ret' = [k \in Calls |-> "none"]
    /\ UNCHANGED <<granted, completed>>

\* The deployment creates a missing root directory; nothing says that it also
\* synchronises it.
ProvisionRoot ==
    /\ ~fs.root
    /\ fs' = [fs EXCEPT !.root = TRUE]
    /\ UNCHANGED <<disk, trustedRootPromise, handleState, call, ret, granted, completed>>

-----------------------------------------------------------------------------
(* Specification *)

Begin(k) ==
    \E s \in Stores, c \in Capabilities :
        \/ \E op \in {"claim", "inspect"}, a \in Authorizations : BeginOnRoot(k, s, op, c, a)
        \/ \E o \in Outcomes : BeginComplete(k, s, c, o)
        \/ StaleComplete(k, s, c)
        \/ InvalidOutcome(k, s, c)

Step(k) ==
    \/ RootRejected(k) \/ Mkdir(k) \/ SyncRoot(k)
    \/ WriteTemp(k) \/ SyncTemp(k) \/ LinkClaim(k) \/ LinkTerminal(k) \/ UnlinkTemp(k)
    \/ FinishClaim(k) \/ FinishComplete(k) \/ Reread(k)
    \/ Lstat(k) \/ ReadClaim(k) \/ ReadTerminal(k)
    \/ IoError(k)

ResolveRoot(s) == TrustRoot(s) \/ RejectRoot(s)

Next ==
    \/ \E k \in Calls : Begin(k) \/ Step(k)
    \/ \E s \in Stores : ResolveRoot(s) \/ ProcessCrash(s)
    \/ PowerLoss
    \/ ProvisionRoot

Spec == Init /\ [][Next]_vars

\* The event loop resumes every call whose system call has ended, and every
\* system call ends, with or without an error.
Fairness == /\ \A k \in Calls : WF_vars(Step(k))
            /\ \A s \in Stores : WF_vars(ResolveRoot(s))

\* Storage faults, which the store must survive without re-arming: a record
\* of an existing capability directory is damaged, or a damaged one appears.
StorageFault(c) ==
    /\ c \in fs.dirs
    /\ \E a \in Authorizations, o \in Outcomes :
          LET claim    == [auth |-> a, data |-> "torn"]
              terminal == [auth |-> a, outcome |-> o, data |-> "torn"]
          IN  \/ fs' = [fs EXCEPT !.claim[c] = claim]
              \/ fs' = [fs EXCEPT !.terminal[c] = terminal]
    /\ UNCHANGED <<disk, trustedRootPromise, handleState, call, ret, granted, completed>>

FaultySpec == /\ Init /\ [][Next \/ \E c \in Capabilities : StorageFault(c)]_vars
              /\ Fairness

-----------------------------------------------------------------------------
(* Properties *)

\* The records, handles and suspended calls of the store are well formed: a handle is
\* in one of the five states of complete(), never in the caller's word for an outcome.
TypeOK ==
    /\ fs \in FileSystem
    /\ disk \in FileSystem
    /\ trustedRootPromise \in [Stores -> {"none", "pending", "trusted", "rejected"}]
    /\ handleState \in [Stores -> [Capabilities -> Handles \union {None}]]
    /\ call \in [Calls -> [pc      : Steps,
                           op      : {"claim", "complete", "inspect", "none"},
                           store   : Stores \union {None},
                           cap     : Capabilities \union {None},
                           auth    : Authorizations \union {None},
                           outcome : Outcomes \union {"none"},
                           temp    : {"written", "synced", "none"},
                           floor   : Nat]]
    /\ granted \in [Capabilities -> Seq(Authorizations)]
    /\ completed \in [Capabilities -> Seq(Outcomes)]

\* Over all stores, processes and crashes, at most one claim() of a capability
\* ever returns success, whatever authorization it presents.
SingleClaim == \A c \in Capabilities : Len(granted[c]) <= 1

\* A claim() that returned success can no longer be lost: root, tombstone and
\* the complete claim.json with its authorization are all synchronised.
ClaimIsDurable ==
    \A c \in Capabilities : granted[c] # <<>> =>
        /\ disk.root
        /\ c \in disk.dirs
        /\ disk.claim[c] = [auth |-> granted[c][1], data |-> "synced"]

\* complete() succeeds at most once per capability, and the outcome it returned
\* is the one that is safe on disk, bound to the authorization that was granted.
CompletionIsDurable ==
    \A c \in Capabilities : completed[c] # <<>> =>
        /\ Len(completed[c]) = 1
        /\ granted[c] # <<>>
        /\ disk.terminal[c] = [auth |-> granted[c][1], outcome |-> completed[c][1],
                               data |-> "synced"]

\* A terminal record is published for a granted capability only, and carries
\* the authorization that was granted: a loser of the race, or a process that
\* crashed before its claim was granted, never closes a capability.
TerminalNeedsGrant ==
    \A c \in Capabilities : fs.terminal[c] # None =>
        /\ granted[c] # <<>>
        /\ fs.terminal[c].auth = granted[c][1]

\* Handles and disk agree: one store at most holds a handle, a terminal record
\* exists only under a handle that is being or has been closed, and a handle
\* that reports an outcome is backed by that outcome on disk.
HandleAgreesWithDisk ==
    \A s \in Stores, c \in Capabilities : handleState[s][c] # None =>
        /\ \A r \in Stores \ {s} : handleState[r][c] = None
        /\ handleState[s][c].state = "OPEN" => fs.terminal[c] = None
        /\ handleState[s][c].state \in Outcomes =>
              /\ disk.terminal[c] # None
              /\ disk.terminal[c].outcome = handleState[s][c].state

Rank(state) == CASE state \in {"ABSENT", "RESERVED_INCOMPLETE"} -> 0
                 [] state = "RESERVED"  -> 1
                 [] state \in Outcomes  -> 2

\* Reading is sound while the storage is: an inspection reports at least what had been
\* acknowledged before it began (no ABSENT or incomplete after a claim() returned, no
\* RESERVED after a complete() returned), across processes and crashes, and a
\* publication in progress, an interrupted one, or the remains of a crash
\* are never taken for a damaged record.
InspectionIsSound ==
    \A k \in Calls :
        /\ ret[k] # "CORRUPT"
        /\ ret[k] \in {"ABSENT", "RESERVED_INCOMPLETE", "RESERVED"} \union Outcomes
               => Rank(ret[k]) >= call[k].floor

\* What core/gate/README.md says of exclusive_claim_recorded=true: an inspection
\* that reports a claim record does so only after the store has completed its
\* exclusive claim-record write.  makeInspection sets the flag for every record
\* it can read, so a record that is linked and not yet synchronised also counts.
RecordedMeansCompleted ==
    \A k \in Calls :
        ret[k] \in {"RESERVED"} \union Outcomes /\ call[k].pc = "idle" /\ call[k].cap # None
            => granted[call[k].cap] # <<>>

ClaimRunning(c) == \E k \in Calls : /\ call[k].op = "claim"
                                    /\ call[k].cap = c
                                    /\ call[k].pc \in PublishSteps \union {"syncRoot"}

\* A capability whose tombstone is safe on disk and whose claim() is no longer
\* running stays as it is: it is not granted, and no later claim() gets as far as
\* publishing a record for it, so an interrupted claim is not re-armed.
NeverRearmed ==
    [][\A c \in Capabilities :
          disk.root /\ c \in disk.dirs /\ ~ClaimRunning(c) =>
             granted'[c] = granted[c] /\ ~ClaimRunning(c)']_vars

\* Every call returns, also when the root check it shares with other calls is
\* rejected.
CallsReturn == \A k \in Calls : call[k].pc # "idle" ~> call[k].pc = "idle"

Ledger == INSTANCE ClaimLedger WITH
    ledger <- [c \in Capabilities |->
                  IF ~disk.root \/ c \notin disk.dirs \/ disk.claim[c] = None
                  THEN <<>>
                  ELSE IF disk.terminal[c] = None
                       THEN <<disk.claim[c].auth>>
                       ELSE <<disk.claim[c].auth, disk.terminal[c].outcome>>]

\* The safe part of the file system implements the abstract ledger: claims and
\* outcomes are only ever added, once, through every crash.
ImplementsLedger == Ledger!Spec
=============================================================================
