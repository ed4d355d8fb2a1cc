----------------------- MODULE OperationJournalProofs -----------------------
(***************************************************************************)
(* The safety properties of OperationJournal, and that its safe copy       *)
(* implements OperationRecord, for any number of journal objects on one    *)
(* path, any operations and any hashes.                                    *)
(***************************************************************************)
EXTENDS OperationJournal, TLAPS

Writing == {"check"} \union WriteSteps

\* What the life cycle of a record says of its fields.
WellFormed(r) ==
    /\ r \in Records
    /\ r.state = "READY" => r = Initial
    /\ r.state = "ARMED" => r.revision = 1 /\ r.hash = None
    /\ r.state = "DISPATCHED" => r.revision = 2 /\ r.hash = None
    /\ r.state = "HASH_OBSERVED" => r.revision \in {2, 3} /\ r.hash # None

\* n is what one transition makes of r.
Succeeds(r, n) ==
    /\ WellFormed(r) /\ WellFormed(n)
    /\ n.revision = r.revision + 1
    /\ \/ /\ r.state = "READY" /\ n.state = "ARMED"
          /\ n.operation \in Operations /\ n.hash = r.hash /\ n.terminal = r.terminal
       \/ /\ r.state = "ARMED" /\ n.state = "DISPATCHED"
          /\ n.operation = r.operation /\ n.hash = r.hash /\ n.terminal = r.terminal
       \/ /\ r.state \in {"ARMED", "DISPATCHED"} /\ n.state = "HASH_OBSERVED"
          /\ n.operation = r.operation /\ n.hash \in Hashes /\ n.terminal = r.terminal
       \/ /\ r.state \in {"ARMED", "DISPATCHED", "HASH_OBSERVED"} /\ n.state = "TERMINAL"
          /\ n.operation = r.operation /\ n.hash = r.hash /\ n.terminal \in Terminals
          /\ n.terminal = "MATCH_REFERENCE" => r.hash # None
          /\ n.terminal = "WALLET_ERROR" => r.hash = None

LastConfirmed == confirmed[Len(confirmed)]

\* The lock is its owner's until the owner removes it, and suspended work is where
\* life cycle and ownership say.
OwnInv(j) ==
    /\ owns[j] # "nothing" => lifecycle[j] \in {"INITIALIZING", "OPEN", "FAULTED"}
    /\ owns[j] # "nothing" /\ work[j].pc # "syncRelease" => fs.lock = j
    /\ lifecycle[j] = "OPEN" => owns[j] = "identity"
    /\ work[j].pc = "idle" => work[j] = Idle /\ lifecycle[j] # "INITIALIZING"
    /\ work[j].pc \in InitSteps => lifecycle[j] = "INITIALIZING"
    /\ work[j].pc = "lock" => owns[j] = "nothing"
    /\ work[j].pc = "stat" => owns[j] = "handle"
    /\ work[j].pc \in {"syncLock", "read", "rm", "syncRelease"} \union Writing => owns[j] = "identity"
    /\ work[j].pc = "check" => lifecycle[j] = "OPEN"
    /\ work[j].pc \in WriteSteps => lifecycle[j] \in {"INITIALIZING", "OPEN"}
    /\ work[j].pc = "verify" => owns[j] # "nothing"

\* The open journal's record is the one on disk, up to the write it is making; the
\* write of initialize() is the first one ever.
RecordInv(j) ==
    /\ lifecycle[j] = "OPEN" =>
          /\ opened = <<j>> /\ confirmed # <<>> /\ current[j] = LastConfirmed
          /\ work[j].pc = "syncDir" => fs.journal = work[j].next
          /\ work[j].pc # "syncDir" => fs.journal = current[j] /\ disk.journal = current[j]
          /\ work[j].pc \in Writing => Succeeds(current[j], work[j].next)
    /\ lifecycle[j] = "INITIALIZING" /\ work[j].pc \in WriteSteps =>
          /\ work[j].next = Initial /\ confirmed = <<>>
          /\ fs.journal = IF work[j].pc = "syncDir" THEN Initial ELSE None

\* The disk is at most one transition behind, and neither file is behind what was
\* confirmed.
FileInv ==
    /\ \A file \in {fs.journal, disk.journal} : file = None \/ WellFormed(file)
    /\ \/ fs.journal = disk.journal
       \/ disk.journal = None /\ fs.journal = Initial
       \/ Succeeds(disk.journal, fs.journal)
    /\ confirmed # <<>> =>
          /\ WellFormed(LastConfirmed)
          /\ \A file \in {fs.journal, disk.journal} :
                file = LastConfirmed \/ Succeeds(LastConfirmed, file)
    /\ opened = <<>> <=> confirmed = <<>>
    /\ Len(opened) <= 1

IndInv == /\ TypeOK
          /\ FileInv
          /\ \A j \in Journals : OwnInv(j) /\ RecordInv(j)

-----------------------------------------------------------------------------
(* Helpers *)

Works == [pc   : InitSteps \union {"check"} \union WriteSteps \union ReleaseSteps \union {"idle"},
          next : Records \union {None}]

Lifecycles == {"NEW", "INITIALIZING", "OPEN", "FAULTED", "CLOSED", "DEAD"}

Pcs == {"lock", "stat", "syncLock", "read", "check", "temp", "rename", "syncDir", "verify", "rm",
        "syncRelease", "idle"}

LEMMA PcSets ==
    /\ Pcs = InitSteps \union {"check"} \union WriteSteps \union ReleaseSteps \union {"idle"}
    /\ Works = [pc : Pcs, next : Records \union {None}]
    /\ Idle \in Works /\ Idle.pc = "idle"
    /\ Initial \in Records /\ WellFormed(Initial) /\ Initial # None
<1>1. Pcs = InitSteps \union {"check"} \union WriteSteps \union ReleaseSteps \union {"idle"}
  BY DEF Pcs, InitSteps, WriteSteps, ReleaseSteps
<1>2. Works = [pc : Pcs, next : Records \union {None}]
  BY <1>1 DEF Works
<1>3. Idle \in Works /\ Idle.pc = "idle"
  BY <1>2 DEF Idle, Pcs
<1>4. Initial \in Records
  BY DEF Initial, Records, RecordStates
<1>5. WellFormed(Initial)
  BY <1>4 DEF WellFormed, Initial
<1> QED
  BY <1>1, <1>2, <1>3, <1>4, <1>5, NoneAssumption

LEMMA GotoEffect ==
    ASSUME TypeOK, NEW j \in Journals, NEW pc \in Pcs, Goto(j, pc)
    PROVE  /\ work' \in [Journals -> Works]
           /\ work'[j].pc = pc /\ work'[j].next = work[j].next
           /\ \A l \in Journals \ {j} : work'[l] = work[l]
<1>1. work \in [Journals -> [pc : Pcs, next : Records \union {None}]]
  BY PcSets DEF TypeOK, Works
<1> QED
  BY <1>1, PcSets DEF Goto

LEMMA SettleEffect ==
    ASSUME TypeOK, NEW j \in Journals, NEW state \in Lifecycles, Settle(j, state)
    PROVE  /\ work' \in [Journals -> Works] /\ lifecycle' \in [Journals -> Lifecycles]
           /\ work'[j] = Idle /\ lifecycle'[j] = state
           /\ \A l \in Journals \ {j} : work'[l] = work[l] /\ lifecycle'[l] = lifecycle[l]
<1>1. work \in [Journals -> Works] /\ lifecycle \in [Journals -> Lifecycles]
  BY DEF TypeOK, Works, Lifecycles
<1> QED
  BY <1>1, PcSets DEF Settle

\* A step that writes no record: the files keep their journal entry, no other journal
\* loses its lock, and the disk may catch up.
LEMMA LocalStep ==
    ASSUME IndInv, NEW j \in Journals,
           fs' \in Files, disk' \in Files,
           lifecycle' \in [Journals -> Lifecycles], closing' \in [Journals -> BOOLEAN],
           owns' \in [Journals -> {"nothing", "handle", "identity"}],
           work' \in [Journals -> Works],
           UNCHANGED <<current, opened, confirmed>>,
           fs'.journal = fs.journal,
           disk'.journal \in {disk.journal, fs.journal},
           \A l \in Journals \ {j} : /\ fs.lock = l => fs'.lock = l
                                     /\ lifecycle'[l] = lifecycle[l]
                                     /\ owns'[l] = owns[l]
                                     /\ work'[l] = work[l],
           OwnInv(j)', RecordInv(j)'
    PROVE  IndInv'
<1>1. TypeOK'
  BY DEF IndInv, TypeOK, Works, Lifecycles
<1>2. FileInv'
  BY DEF IndInv, FileInv, LastConfirmed
<1>3. ASSUME NEW l \in Journals \ {j} PROVE OwnInv(l)'
  BY DEF IndInv, OwnInv
<1>4. ASSUME NEW l \in Journals \ {j} PROVE RecordInv(l)'
  <2>1. RecordInv(l)
    BY DEF IndInv
  <2> QED
    BY <2>1 DEF RecordInv, LastConfirmed
<1> QED
  BY <1>1, <1>2, <1>3, <1>4 DEF IndInv

\* An error of initialize() or of a transition.
LEMMA FailStep ==
    ASSUME IndInv, NEW j \in Journals, work[j].pc \in InitSteps \union Writing, Fail(j),
           UNCHANGED <<fs, disk, current, closing, owns, opened, confirmed>>
    PROVE  IndInv'
<1> USE PcSets
<1>1. TypeOK /\ OwnInv(j) /\ RecordInv(j)
  BY DEF IndInv
<1>2. work[j].pc # "syncRelease" /\ work[j].pc # "idle"
  BY DEF InitSteps, Writing, WriteSteps
<1>3. CASE lifecycle[j] = "INITIALIZING" /\ owns[j] # "nothing"
  <2>1. Goto(j, "verify") /\ lifecycle' = lifecycle
    BY <1>3 DEF Fail
  <2>2. /\ work' \in [Journals -> Works] /\ work'[j].pc = "verify"
        /\ \A l \in Journals \ {j} : work'[l] = work[l]
    BY <1>1, <2>1, GotoEffect DEF Pcs
  <2>3. OwnInv(j)'
    BY <1>1, <1>2, <1>3, <2>1, <2>2 DEF OwnInv, InitSteps, WriteSteps, Writing
  <2>4. RecordInv(j)'
    BY <1>3, <2>1, <2>2 DEF RecordInv, WriteSteps
  <2> QED
    BY <1>1, <2>1, <2>2, <2>3, <2>4, LocalStep DEF TypeOK, Lifecycles
<1>4. CASE ~(lifecycle[j] = "INITIALIZING" /\ owns[j] # "nothing")
  <2>1. Settle(j, "FAULTED")
    BY <1>4 DEF Fail
  <2>2. /\ work' \in [Journals -> Works] /\ lifecycle' \in [Journals -> Lifecycles]
        /\ work'[j] = Idle /\ lifecycle'[j] = "FAULTED"
        /\ \A l \in Journals \ {j} : work'[l] = work[l] /\ lifecycle'[l] = lifecycle[l]
    BY <1>1, <2>1, SettleEffect DEF Lifecycles
  <2>3. OwnInv(j)'
    BY <1>1, <1>2, <2>2 DEF OwnInv, InitSteps, WriteSteps, Writing
  <2>4. RecordInv(j)'
    BY <2>2 DEF RecordInv
  <2> QED
    BY <1>1, <2>2, <2>3, <2>4, LocalStep DEF TypeOK
<1> QED
  BY <1>3, <1>4

\* releaseOwnership() ends, with or without an error.
LEMMA EndReleaseStep ==
    ASSUME IndInv, NEW j \in Journals, EndRelease(j), disk' \in {disk, fs},
           UNCHANGED <<fs, current, closing, opened, confirmed>>
    PROVE  IndInv'
<1> USE PcSets
<1>1. TypeOK /\ OwnInv(j) /\ RecordInv(j)
  BY DEF IndInv
<1>2. AfterRelease(j) \in {"FAULTED", "CLOSED"}
  BY DEF AfterRelease
<1>3. /\ work' \in [Journals -> Works] /\ lifecycle' \in [Journals -> Lifecycles]
      /\ work'[j] = Idle /\ lifecycle'[j] = AfterRelease(j)
      /\ \A l \in Journals \ {j} : work'[l] = work[l] /\ lifecycle'[l] = lifecycle[l]
  BY <1>1, <1>2, SettleEffect DEF EndRelease, Lifecycles
<1>4. /\ owns' \in [Journals -> {"nothing", "handle", "identity"}]
      /\ owns'[j] = "nothing"
      /\ \A l \in Journals \ {j} : owns'[l] = owns[l]
  BY <1>1 DEF EndRelease, TypeOK
<1>5. OwnInv(j)'
  BY <1>2, <1>3, <1>4 DEF OwnInv, InitSteps, WriteSteps, Writing
<1>6. RecordInv(j)'
  BY <1>2, <1>3 DEF RecordInv
<1> QED
  BY <1>1, <1>3, <1>4, <1>5, <1>6, LocalStep DEF TypeOK

-----------------------------------------------------------------------------
(* initialize() *)

LEMMA InitializeStep ==
    ASSUME IndInv, NEW j \in Journals, Initialize(j)
    PROVE  IndInv'
<1> USE PcSets
<1>1. TypeOK /\ OwnInv(j)
  BY DEF IndInv
<1>2. lifecycle[j] = "NEW" /\ owns[j] = "nothing"
  BY <1>1 DEF Initialize, OwnInv, TypeOK
<1>3. /\ work' \in [Journals -> Works] /\ work'[j].pc = "lock"
      /\ \A l \in Journals \ {j} : work'[l] = work[l]
  BY <1>1, GotoEffect DEF Initialize, Pcs
<1>4. /\ lifecycle' \in [Journals -> Lifecycles] /\ lifecycle'[j] = "INITIALIZING"
      /\ \A l \in Journals \ {j} : lifecycle'[l] = lifecycle[l]
  BY <1>1 DEF Initialize, TypeOK, Lifecycles
<1>5. UNCHANGED <<fs, disk, current, closing, owns, opened, confirmed>>
  BY DEF Initialize
<1>6. OwnInv(j)' /\ RecordInv(j)'
  BY <1>2, <1>3, <1>4, <1>5 DEF OwnInv, RecordInv, InitSteps, WriteSteps, Writing
<1> QED
  BY <1>1, <1>3, <1>4, <1>5, <1>6, LocalStep DEF TypeOK

LEMMA OpenLockStep ==
    ASSUME IndInv, NEW j \in Journals, OpenLock(j)
    PROVE  IndInv'
<1> USE PcSets
<1>1. TypeOK /\ OwnInv(j) /\ work[j].pc = "lock"
  BY DEF IndInv, OpenLock
<1>2. CASE fs.lock # None
  BY <1>1, <1>2, FailStep DEF OpenLock, InitSteps
<1>3. CASE fs.lock = None
  <2>1. /\ work' \in [Journals -> Works] /\ work'[j].pc = "stat"
        /\ \A l \in Journals \ {j} : work'[l] = work[l]
    BY <1>1, <1>3, GotoEffect DEF OpenLock, Pcs
  <2>2. /\ fs' \in Files /\ fs'.lock = j /\ fs'.journal = fs.journal
    BY <1>1, <1>3 DEF OpenLock, TypeOK, Files
  <2>3. /\ owns' \in [Journals -> {"nothing", "handle", "identity"}] /\ owns'[j] = "handle"
        /\ \A l \in Journals \ {j} : owns'[l] = owns[l]
    BY <1>1, <1>3 DEF OpenLock, TypeOK
  <2>4. UNCHANGED <<disk, lifecycle, current, closing, opened, confirmed>>
    BY <1>3 DEF OpenLock
  <2>5. OwnInv(j)' /\ RecordInv(j)'
    BY <1>1, <2>1, <2>2, <2>3, <2>4 DEF OwnInv, RecordInv, InitSteps, WriteSteps, Writing
  <2>6. \A l \in Journals : fs.lock # l
    BY <1>3, NoneAssumption
  <2> QED
    BY <1>1, <2>1, <2>2, <2>3, <2>4, <2>5, <2>6, LocalStep DEF TypeOK, Lifecycles
<1> QED
  BY <1>2, <1>3

LEMMA StatLockStep ==
    ASSUME IndInv, NEW j \in Journals, StatLock(j)
    PROVE  IndInv'
<1> USE PcSets
<1>1. TypeOK /\ OwnInv(j) /\ work[j].pc = "stat"
  BY DEF IndInv, StatLock
<1>2. /\ work' \in [Journals -> Works] /\ work'[j].pc = "syncLock"
      /\ \A l \in Journals \ {j} : work'[l] = work[l]
  BY <1>1, GotoEffect DEF StatLock, Pcs
<1>3. /\ owns' \in [Journals -> {"nothing", "handle", "identity"}] /\ owns'[j] = "identity"
      /\ \A l \in Journals \ {j} : owns'[l] = owns[l]
  BY <1>1 DEF StatLock, TypeOK
<1>4. UNCHANGED <<fs, disk, lifecycle, current, closing, opened, confirmed>>
  BY DEF StatLock
<1>5. OwnInv(j)' /\ RecordInv(j)'
  BY <1>1, <1>2, <1>3, <1>4 DEF OwnInv, RecordInv, InitSteps, WriteSteps, Writing
<1> QED
  BY <1>1, <1>2, <1>3, <1>4, <1>5, LocalStep DEF TypeOK, Lifecycles

LEMMA SyncLockStep ==
    ASSUME IndInv, NEW j \in Journals, SyncLock(j)
    PROVE  IndInv'
<1> USE PcSets
<1>1. TypeOK /\ OwnInv(j) /\ work[j].pc = "syncLock"
  BY DEF IndInv, SyncLock
<1>2. /\ work' \in [Journals -> Works] /\ work'[j].pc = "read"
      /\ \A l \in Journals \ {j} : work'[l] = work[l]
  BY <1>1, GotoEffect DEF SyncLock, Pcs
<1>3. disk' = fs /\ UNCHANGED <<fs, lifecycle, current, closing, owns, opened, confirmed>>
  BY DEF SyncLock
<1>4. OwnInv(j)' /\ RecordInv(j)'
  BY <1>1, <1>2, <1>3 DEF OwnInv, RecordInv, InitSteps, WriteSteps, Writing
<1> QED
  BY <1>1, <1>2, <1>3, <1>4, LocalStep DEF TypeOK, Lifecycles

LEMMA ReadJournalStep ==
    ASSUME IndInv, NEW j \in Journals, ReadJournal(j)
    PROVE  IndInv'
<1> USE PcSets
<1>1. TypeOK /\ OwnInv(j) /\ FileInv /\ work[j].pc = "read"
  BY DEF IndInv, ReadJournal
<1>2. CASE fs.journal # None
  BY <1>1, <1>2, FailStep DEF ReadJournal, InitSteps
<1>3. CASE fs.journal = None
  <2> DEFINE new == [pc |-> "temp", next |-> Initial]
  <2>1. work' = [work EXCEPT ![j] = new] /\ new \in Works
    BY <1>3 DEF ReadJournal, Works, WriteSteps
  <2>2. new.pc = "temp" /\ new.next = Initial
    OBVIOUS
  <2> HIDE DEF new
  <2>3. /\ work' \in [Journals -> Works] /\ work'[j] = new
        /\ \A l \in Journals \ {j} : work'[l] = work[l]
    BY <1>1, <2>1 DEF TypeOK, Works
  <2>4. UNCHANGED <<fs, disk, lifecycle, current, closing, owns, opened, confirmed>>
    BY <1>3 DEF ReadJournal
  <2>5. confirmed = <<>>
    BY <1>1, <1>3, NoneAssumption DEF FileInv, Succeeds, WellFormed
  <2>6. OwnInv(j)' /\ RecordInv(j)'
    BY <1>1, <1>3, <2>2, <2>3, <2>4, <2>5 DEF OwnInv, RecordInv, InitSteps, WriteSteps, Writing
  <2> QED
    BY <1>1, <2>3, <2>4, <2>6, LocalStep DEF TypeOK, Lifecycles
<1> QED
  BY <1>2, <1>3

-----------------------------------------------------------------------------
(* Transitions *)

\* A transition starts when its record succeeds the confirmed one.
LEMMA TransitionStep ==
    ASSUME IndInv, NEW j \in Journals, lifecycle[j] = "OPEN", work[j] = Idle,
           NEW next, Succeeds(current[j], next), Transition(j, next)
    PROVE  IndInv'
<1> USE PcSets
<1> DEFINE new == [pc |-> "check", next |-> next]
<1>1. TypeOK /\ OwnInv(j) /\ RecordInv(j) /\ next \in Records
  BY DEF IndInv, Succeeds, WellFormed
<1>2. work' = [work EXCEPT ![j] = new] /\ new \in Works
  BY <1>1 DEF Transition, Works
<1>3. new.pc = "check" /\ new.next = next
  OBVIOUS
<1> HIDE DEF new
<1>4. /\ work' \in [Journals -> Works] /\ work'[j] = new
      /\ \A l \in Journals \ {j} : work'[l] = work[l]
  BY <1>1, <1>2 DEF TypeOK, Works
<1>5. UNCHANGED <<fs, disk, lifecycle, current, closing, owns, opened, confirmed>>
  BY DEF Transition
<1>6. OwnInv(j)' /\ RecordInv(j)'
  BY <1>1, <1>3, <1>4, <1>5
     DEF OwnInv, RecordInv, LastConfirmed, InitSteps, WriteSteps, Writing
<1> QED
  BY <1>1, <1>4, <1>5, <1>6, LocalStep DEF TypeOK, Lifecycles

LEMMA WritableRecord ==
    ASSUME IndInv, NEW j \in Journals, NEW states, Writable(j, states)
    PROVE  /\ lifecycle[j] = "OPEN" /\ work[j] = Idle
           /\ WellFormed(current[j]) /\ current[j].state \in states
  BY DEF IndInv, RecordInv, FileInv, Writable

\* What arm(), markDispatched(), retainHash() and terminate() write succeeds the
\* confirmed record.
LEMMA ArmRecord ==
    ASSUME NEW r, WellFormed(r), r.state = "READY", NEW operation \in Operations
    PROVE  Succeeds(r, [r EXCEPT !.revision = @ + 1, !.state = "ARMED", !.operation = operation])
<1> DEFINE n == [r EXCEPT !.revision = @ + 1, !.state = "ARMED", !.operation = operation]
<1>1. r \in Records /\ r = Initial
  BY DEF WellFormed
<1>2. /\ n.revision = r.revision + 1 /\ n.state = "ARMED" /\ n.operation = operation
      /\ n.hash = r.hash /\ n.terminal = r.terminal
  BY <1>1 DEF Records
<1>3. r.revision = 0 /\ r.hash = None
  BY <1>1 DEF Initial
<1>4. n \in Records
  <2>1. r.revision + 1 \in 0..4 /\ "ARMED" \in RecordStates
    BY <1>1, <1>3 DEF RecordStates
  <2> QED
    BY <1>1, <2>1 DEF Records
<1> HIDE DEF n
<1>5. WellFormed(n)
  BY <1>2, <1>3, <1>4 DEF WellFormed
<1> QED
  BY <1>2, <1>5 DEF Succeeds, n

LEMMA DispatchRecord ==
    ASSUME NEW r, WellFormed(r), r.state = "ARMED"
    PROVE  Succeeds(r, [r EXCEPT !.revision = @ + 1, !.state = "DISPATCHED"])
<1> DEFINE n == [r EXCEPT !.revision = @ + 1, !.state = "DISPATCHED"]
<1>1. r \in Records /\ r.revision = 1 /\ r.hash = None
  BY DEF WellFormed
<1>2. /\ n.revision = r.revision + 1 /\ n.state = "DISPATCHED" /\ n.operation = r.operation
      /\ n.hash = r.hash /\ n.terminal = r.terminal
  BY <1>1 DEF Records
<1>3. n \in Records
  <2>1. r.revision + 1 \in 0..4 /\ "DISPATCHED" \in RecordStates
    BY <1>1 DEF RecordStates
  <2> QED
    BY <1>1, <2>1 DEF Records
<1> HIDE DEF n
<1>4. WellFormed(n)
  BY <1>1, <1>2, <1>3 DEF WellFormed
<1> QED
  BY <1>2, <1>4 DEF Succeeds, n

LEMMA HashRecord ==
    ASSUME NEW r, WellFormed(r), r.state \in {"ARMED", "DISPATCHED"}, NEW hash \in Hashes
    PROVE  Succeeds(r, [r EXCEPT !.revision = @ + 1, !.state = "HASH_OBSERVED", !.hash = hash])
<1> DEFINE n == [r EXCEPT !.revision = @ + 1, !.state = "HASH_OBSERVED", !.hash = hash]
<1>1. r \in Records /\ r.revision \in {1, 2} /\ hash # None
  BY NoneAssumption DEF WellFormed
<1>2. /\ n.revision = r.revision + 1 /\ n.state = "HASH_OBSERVED" /\ n.operation = r.operation
      /\ n.hash = hash /\ n.terminal = r.terminal
  BY <1>1 DEF Records
<1>3. n \in Records
  <2>1. r.revision + 1 \in 0..4 /\ "HASH_OBSERVED" \in RecordStates
    BY <1>1 DEF RecordStates
  <2> QED
    BY <1>1, <2>1 DEF Records
<1> HIDE DEF n
<1>4. WellFormed(n)
  BY <1>1, <1>2, <1>3 DEF WellFormed
<1> QED
  BY <1>2, <1>4 DEF Succeeds, n

LEMMA TerminalRecord ==
    ASSUME NEW r, WellFormed(r), r.state \in {"ARMED", "DISPATCHED", "HASH_OBSERVED"},
           NEW outcome \in Terminals,
           outcome = "MATCH_REFERENCE" => r.state = "HASH_OBSERVED",
           outcome = "WALLET_ERROR" => r.state # "HASH_OBSERVED"
    PROVE  Succeeds(r, [r EXCEPT !.revision = @ + 1, !.state = "TERMINAL", !.terminal = outcome])
<1> DEFINE n == [r EXCEPT !.revision = @ + 1, !.state = "TERMINAL", !.terminal = outcome]
<1>1. /\ r \in Records /\ r.revision \in {1, 2, 3}
      /\ outcome = "MATCH_REFERENCE" => r.hash # None
      /\ outcome = "WALLET_ERROR" => r.hash = None
  BY DEF WellFormed
<1>2. /\ n.revision = r.revision + 1 /\ n.state = "TERMINAL" /\ n.operation = r.operation
      /\ n.hash = r.hash /\ n.terminal = outcome
  BY <1>1 DEF Records
<1>3. n \in Records
  <2>1. r.revision + 1 \in 0..4 /\ "TERMINAL" \in RecordStates
    BY <1>1 DEF RecordStates
  <2> QED
    BY <1>1, <2>1 DEF Records
<1> HIDE DEF n
<1>4. WellFormed(n)
  BY <1>2, <1>3 DEF WellFormed
<1> QED
  BY <1>1, <1>2, <1>4 DEF Succeeds, n

LEMMA CallStep ==
    ASSUME IndInv, NEW j \in Journals, Call(j)
    PROVE  IndInv'
<1>1. ASSUME NEW operation \in Operations, Arm(j, operation) PROVE IndInv'
  <2>1. Writable(j, {"READY"})
    BY <1>1 DEF Arm
  <2>2. Succeeds(current[j], [current[j] EXCEPT !.revision = @ + 1, !.state = "ARMED",
                                                !.operation = operation])
    <3>1. WellFormed(current[j]) /\ current[j].state = "READY"
      BY <2>1, WritableRecord
    <3> QED
      BY <3>1, ArmRecord
  <2> QED
    BY <1>1, <2>1, <2>2, WritableRecord, TransitionStep DEF Arm
<1>2. CASE MarkDispatched(j)
  <2>1. Writable(j, {"ARMED"})
    BY <1>2 DEF MarkDispatched
  <2>2. Succeeds(current[j], [current[j] EXCEPT !.revision = @ + 1, !.state = "DISPATCHED"])
    <3>1. WellFormed(current[j]) /\ current[j].state = "ARMED"
      BY <2>1, WritableRecord
    <3> QED
      BY <3>1, DispatchRecord
  <2> QED
    BY <1>2, <2>1, <2>2, WritableRecord, TransitionStep DEF MarkDispatched
<1>3. ASSUME NEW hash \in Hashes, RetainHash(j, hash) PROVE IndInv'
  <2>1. Writable(j, {"ARMED", "DISPATCHED"})
    BY <1>3 DEF RetainHash
  <2>2. Succeeds(current[j], [current[j] EXCEPT !.revision = @ + 1, !.state = "HASH_OBSERVED",
                                                !.hash = hash])
    BY <2>1, WritableRecord, HashRecord
  <2> QED
    BY <1>3, <2>1, <2>2, WritableRecord, TransitionStep DEF RetainHash
<1>4. ASSUME NEW outcome \in Terminals, Terminate(j, outcome) PROVE IndInv'
  <2>1. /\ Writable(j, {"ARMED", "DISPATCHED", "HASH_OBSERVED"})
        /\ outcome = "MATCH_REFERENCE" => current[j].state = "HASH_OBSERVED"
        /\ outcome = "WALLET_ERROR" => current[j].state # "HASH_OBSERVED"
    BY <1>4 DEF Terminate
  <2>2. Succeeds(current[j], [current[j] EXCEPT !.revision = @ + 1, !.state = "TERMINAL",
                                                !.terminal = outcome])
    BY <2>1, WritableRecord, TerminalRecord
  <2> QED
    BY <1>4, <2>1, <2>2, WritableRecord, TransitionStep DEF Terminate
<1>5. CASE Close(j)
  <2>1. closing' \in [Journals -> BOOLEAN]
    BY <1>5 DEF Close, IndInv, TypeOK
  <2>2. UNCHANGED <<fs, disk, lifecycle, current, owns, work, opened, confirmed>>
    BY <1>5 DEF Close
  <2>3. OwnInv(j)' /\ RecordInv(j)'
    BY <2>2 DEF IndInv, OwnInv, RecordInv, LastConfirmed
  <2> QED
    BY <2>1, <2>2, <2>3, LocalStep DEF IndInv, TypeOK, Works, Lifecycles
<1> QED
  BY <1>1, <1>2, <1>3, <1>4, <1>5, InitializeStep DEF Call

LEMMA CheckStep ==
    ASSUME IndInv, NEW j \in Journals, Check(j)
    PROVE  IndInv'
<1> USE PcSets
<1>1. TypeOK /\ OwnInv(j) /\ RecordInv(j) /\ work[j].pc = "check"
  BY DEF IndInv, Check
<1>2. CASE owns[j] = "identity" /\ fs.lock = j /\ fs.journal # None
  <2>1. /\ work' \in [Journals -> Works] /\ work'[j].pc = "temp" /\ work'[j].next = work[j].next
        /\ \A l \in Journals \ {j} : work'[l] = work[l]
    BY <1>1, <1>2, GotoEffect DEF Check, Pcs
  <2>2. UNCHANGED <<fs, disk, lifecycle, current, closing, owns, opened, confirmed>>
    BY <1>2 DEF Check
  <2>3. OwnInv(j)' /\ RecordInv(j)'
    BY <1>1, <2>1, <2>2 DEF OwnInv, RecordInv, LastConfirmed, InitSteps, WriteSteps, Writing
  <2> QED
    BY <1>1, <2>1, <2>2, <2>3, LocalStep DEF TypeOK, Lifecycles
<1>3. CASE ~(owns[j] = "identity" /\ fs.lock = j /\ fs.journal # None)
  BY <1>1, <1>3, FailStep DEF Check, Writing
<1> QED
  BY <1>2, <1>3

-----------------------------------------------------------------------------
(* writeDurably() *)

LEMMA WriteTempStep ==
    ASSUME IndInv, NEW j \in Journals, WriteTemp(j)
    PROVE  IndInv'
<1> USE PcSets
<1>1. TypeOK /\ OwnInv(j) /\ RecordInv(j) /\ work[j].pc = "temp"
  BY DEF IndInv, WriteTemp
<1>2. /\ work' \in [Journals -> Works] /\ work'[j].pc = "rename" /\ work'[j].next = work[j].next
      /\ \A l \in Journals \ {j} : work'[l] = work[l]
  BY <1>1, GotoEffect DEF WriteTemp, Pcs
<1>3. UNCHANGED <<fs, disk, lifecycle, current, closing, owns, opened, confirmed>>
  BY DEF WriteTemp
<1>4. OwnInv(j)' /\ RecordInv(j)'
  BY <1>1, <1>2, <1>3 DEF OwnInv, RecordInv, LastConfirmed, InitSteps, WriteSteps, Writing
<1> QED
  BY <1>1, <1>2, <1>3, <1>4, LocalStep DEF TypeOK, Lifecycles

\* While one journal writes no other writes, and no other is open.
LEMMA WriterIsAlone ==
    ASSUME IndInv, NEW j \in Journals, work[j].pc \in Writing, NEW l \in Journals \ {j}
    PROVE  work[l].pc \notin Writing /\ lifecycle[l] # "OPEN"
<1>1. OwnInv(j) /\ OwnInv(l) /\ RecordInv(j) /\ RecordInv(l)
  BY DEF IndInv
<1>2. fs.lock = j
  BY <1>1 DEF OwnInv, Writing, WriteSteps
<1>3. work[l].pc \notin Writing
  BY <1>1, <1>2 DEF OwnInv, Writing, WriteSteps
<1>4. lifecycle[l] # "OPEN"
  <2>1. lifecycle[j] \in {"INITIALIZING", "OPEN"}
    BY <1>1 DEF OwnInv, Writing
  <2>2. lifecycle[j] = "INITIALIZING" => work[j].pc \in WriteSteps
    BY <1>1 DEF OwnInv, Writing
  <2> QED
    BY <1>1, <2>1, <2>2 DEF RecordInv
<1> QED
  BY <1>3, <1>4

LEMMA RenameStep ==
    ASSUME IndInv, NEW j \in Journals, Rename(j)
    PROVE  IndInv'
<1> USE PcSets
<1>1. TypeOK /\ OwnInv(j) /\ RecordInv(j) /\ FileInv /\ work[j].pc = "rename"
  BY DEF IndInv, Rename
<1>2. /\ work' \in [Journals -> Works] /\ work'[j].pc = "syncDir" /\ work'[j].next = work[j].next
      /\ \A l \in Journals \ {j} : work'[l] = work[l]
  BY <1>1, GotoEffect DEF Rename, Pcs
<1>3. UNCHANGED <<disk, lifecycle, current, closing, owns, opened, confirmed>>
  BY DEF Rename
<1>4. lifecycle[j] \in {"INITIALIZING", "OPEN"}
  BY <1>1 DEF OwnInv, WriteSteps
<1>5. /\ fs' = [fs EXCEPT !.journal = work[j].next]
      /\ lifecycle[j] = "INITIALIZING" =>
            work[j].next = Initial /\ confirmed = <<>> /\ fs.journal = None
      /\ lifecycle[j] = "OPEN" =>
            /\ Succeeds(current[j], work[j].next) /\ current[j] = LastConfirmed
            /\ fs.journal = current[j] /\ disk.journal = current[j]
  BY <1>1 DEF Rename, RecordInv, WriteSteps, Writing
<1>6. WellFormed(work[j].next)
  BY <1>4, <1>5 DEF Succeeds
<1>7. fs' \in Files /\ fs'.lock = fs.lock /\ fs'.journal = work[j].next
  BY <1>1, <1>5, <1>6 DEF TypeOK, Files, WellFormed
<1>8. TypeOK'
  BY <1>1, <1>2, <1>3, <1>7 DEF TypeOK, Works
<1>9. FileInv'
  <2>1. CASE lifecycle[j] = "INITIALIZING"
    <3>1. disk.journal = None
      BY <1>1, <1>5, <2>1, NoneAssumption DEF FileInv, Succeeds, WellFormed
    <3> QED
      BY <1>1, <1>3, <1>5, <1>7, <2>1, <3>1 DEF FileInv
  <2>2. CASE lifecycle[j] = "OPEN"
    BY <1>1, <1>3, <1>5, <1>6, <1>7, <2>2 DEF FileInv, LastConfirmed
  <2> QED
    BY <1>4, <2>1, <2>2
<1>10. ASSUME NEW l \in Journals PROVE OwnInv(l)'
  <2>1. CASE l = j
    <3>1. owns[j] = "identity" /\ fs.lock = j
      BY <1>1 DEF OwnInv, WriteSteps, Writing
    <3> QED
      BY <1>2, <1>3, <1>4, <1>7, <2>1, <3>1 DEF OwnInv, InitSteps
  <2>2. CASE l # j
    <3>1. OwnInv(l)
      BY DEF IndInv
    <3> QED
      BY <1>2, <1>3, <1>7, <2>2, <3>1 DEF OwnInv
  <2> QED
    BY <2>1, <2>2
<1>11. ASSUME NEW l \in Journals PROVE RecordInv(l)'
  <2>1. CASE l = j
    BY <1>1, <1>2, <1>3, <1>4, <1>5, <1>7, <2>1 DEF RecordInv, LastConfirmed, WriteSteps, Writing
  <2>2. CASE l # j
    <3>1. work[j].pc \in Writing
      BY <1>1 DEF Writing, WriteSteps
    <3>2. work[l].pc \notin Writing /\ lifecycle[l] # "OPEN"
      BY <2>2, <3>1, WriterIsAlone
    <3> QED
      BY <1>2, <1>3, <2>2, <3>2 DEF RecordInv, Writing
  <2> QED
    BY <2>1, <2>2
<1> QED
  BY <1>8, <1>9, <1>10, <1>11 DEF IndInv

\* What Append does to a history.
LEMMA AppendLast ==
    ASSUME NEW S, NEW s \in Seq(S), NEW e \in S
    PROVE  /\ Append(s, e) \in Seq(S) /\ Append(s, e) # <<>>
           /\ Append(s, e)[Len(Append(s, e))] = e
<1>1. Append(s, e) \in Seq(S) /\ Len(Append(s, e)) = Len(s) + 1 /\ Len(s) \in Nat
  OBVIOUS
<1>2. Append(s, e) # <<>>
  BY <1>1
<1>3. Append(s, e)[Len(s) + 1] = e
  OBVIOUS
<1> QED
  BY <1>1, <1>2, <1>3

LEMMA ConfirmStep ==
    ASSUME IndInv, NEW j \in Journals, Confirm(j)
    PROVE  IndInv'
<1> USE PcSets
<1>1. TypeOK /\ OwnInv(j) /\ RecordInv(j) /\ FileInv /\ work[j].pc = "syncDir"
  BY DEF IndInv, Confirm
<1>2. /\ work' \in [Journals -> Works] /\ lifecycle' \in [Journals -> Lifecycles]
      /\ work'[j] = Idle /\ lifecycle'[j] = "OPEN"
      /\ \A l \in Journals \ {j} : work'[l] = work[l] /\ lifecycle'[l] = lifecycle[l]
  BY <1>1, SettleEffect DEF Confirm, Lifecycles
<1>3. disk' = fs /\ UNCHANGED <<fs, closing, owns>>
  BY DEF Confirm
<1>4. lifecycle[j] \in {"INITIALIZING", "OPEN"}
  BY <1>1 DEF OwnInv, WriteSteps
<1>5. /\ lifecycle[j] = "INITIALIZING" => work[j].next = Initial /\ confirmed = <<>>
      /\ lifecycle[j] = "OPEN" => Succeeds(current[j], work[j].next) /\ opened = <<j>>
      /\ fs.journal = work[j].next
  BY <1>1, <1>4 DEF RecordInv, WriteSteps, Writing
<1>6. WellFormed(work[j].next) /\ work[j].next \in Records
  BY <1>4, <1>5 DEF Succeeds, WellFormed
<1>7. confirmed' \in Seq(Records) /\ confirmed' # <<>> /\ LastConfirmed' = work[j].next
  BY <1>1, <1>6, AppendLast DEF Confirm, TypeOK, LastConfirmed
<1>8. opened' = <<j>> /\ opened' \in Seq(Journals) /\ Len(opened') = 1 /\ opened' # <<>>
  <2>1. CASE lifecycle[j] = "INITIALIZING"
    <3>1. opened = <<>> /\ opened \in Seq(Journals)
      BY <1>1, <1>5, <2>1 DEF FileInv, TypeOK
    <3>2. opened' = Append(opened, j)
      BY <2>1 DEF Confirm
    <3> QED
      BY <3>1, <3>2
  <2>2. CASE lifecycle[j] = "OPEN"
    <3>1. opened' = opened /\ opened = <<j>>
      BY <1>5, <2>2 DEF Confirm
    <3> QED
      BY <3>1
  <2> QED
    BY <1>4, <2>1, <2>2
<1>9. /\ current' \in [Journals -> Records \union {None}] /\ current'[j] = work[j].next
      /\ \A l \in Journals \ {j} : current'[l] = current[l]
  BY <1>1, <1>6 DEF Confirm, TypeOK
<1>10. TypeOK'
  BY <1>1, <1>2, <1>3, <1>7, <1>8, <1>9 DEF TypeOK, Works, Lifecycles
<1>11. FileInv'
  BY <1>3, <1>5, <1>6, <1>7, <1>8 DEF FileInv
<1>12. ASSUME NEW l \in Journals PROVE OwnInv(l)'
  <2>1. CASE l = j
    <3>1. owns[j] = "identity" /\ fs.lock = j
      BY <1>1 DEF OwnInv, WriteSteps, Writing
    <3> QED
      BY <1>2, <1>3, <2>1, <3>1 DEF OwnInv, InitSteps, WriteSteps, Writing
  <2>2. CASE l # j
    <3>1. OwnInv(l)
      BY DEF IndInv
    <3> QED
      BY <1>2, <1>3, <2>2, <3>1 DEF OwnInv
  <2> QED
    BY <2>1, <2>2
<1>13. ASSUME NEW l \in Journals PROVE RecordInv(l)'
  <2>1. CASE l = j
    BY <1>2, <1>3, <1>5, <1>7, <1>8, <1>9, <2>1 DEF RecordInv, WriteSteps, Writing
  <2>2. CASE l # j
    <3>1. work[j].pc \in Writing
      BY <1>1 DEF Writing, WriteSteps
    <3>2. work[l].pc \notin Writing /\ lifecycle[l] # "OPEN"
      BY <2>2, <3>1, WriterIsAlone
    <3> QED
      BY <1>2, <2>2, <3>2 DEF RecordInv, Writing
  <2> QED
    BY <2>1, <2>2
<1> QED
  BY <1>10, <1>11, <1>12, <1>13 DEF IndInv

-----------------------------------------------------------------------------
(* close() and releaseOwnership() *)

LEMMA CloseProceedsStep ==
    ASSUME IndInv, NEW j \in Journals, CloseProceeds(j)
    PROVE  IndInv'
<1> USE PcSets
<1>1. TypeOK /\ OwnInv(j) /\ RecordInv(j) /\ work[j] = Idle
  BY DEF IndInv, CloseProceeds
<1>2. UNCHANGED <<fs, disk, current, closing, owns, opened, confirmed>>
  BY DEF CloseProceeds
<1>3. CASE owns[j] = "nothing"
  <2>1. /\ work' \in [Journals -> Works] /\ lifecycle' \in [Journals -> Lifecycles]
        /\ work'[j] = Idle /\ lifecycle'[j] = "CLOSED"
        /\ \A l \in Journals \ {j} : work'[l] = work[l] /\ lifecycle'[l] = lifecycle[l]
    BY <1>1, <1>3, SettleEffect DEF CloseProceeds, Lifecycles
  <2>2. OwnInv(j)' /\ RecordInv(j)'
    BY <1>2, <1>3, <2>1 DEF OwnInv, RecordInv, InitSteps, WriteSteps, Writing
  <2> QED
    BY <1>1, <1>2, <2>1, <2>2, LocalStep DEF TypeOK
<1>4. CASE owns[j] # "nothing"
  <2>1. /\ work' \in [Journals -> Works] /\ work'[j].pc = "verify" /\ lifecycle' = lifecycle
        /\ \A l \in Journals \ {j} : work'[l] = work[l]
    BY <1>1, <1>4, GotoEffect DEF CloseProceeds, Pcs
  <2>2. OwnInv(j)' /\ RecordInv(j)'
    BY <1>1, <1>2, <1>4, <2>1
       DEF OwnInv, RecordInv, LastConfirmed, InitSteps, WriteSteps, Writing
  <2> QED
    BY <1>1, <1>2, <2>1, <2>2, LocalStep DEF TypeOK, Lifecycles
<1> QED
  BY <1>3, <1>4

LEMMA VerifyLockStep ==
    ASSUME IndInv, NEW j \in Journals, VerifyLock(j)
    PROVE  IndInv'
<1> USE PcSets
<1>1. TypeOK /\ OwnInv(j) /\ RecordInv(j) /\ work[j].pc = "verify"
  BY DEF IndInv, VerifyLock
<1>2. UNCHANGED <<fs, disk, current, closing, opened, confirmed>>
  BY DEF VerifyLock
<1>3. CASE owns[j] = "identity" /\ fs.lock = j
  <2>1. /\ work' \in [Journals -> Works] /\ work'[j].pc = "rm" /\ UNCHANGED <<lifecycle, owns>>
        /\ \A l \in Journals \ {j} : work'[l] = work[l]
    BY <1>1, <1>3, GotoEffect DEF VerifyLock, Pcs
  <2>2. OwnInv(j)' /\ RecordInv(j)'
    BY <1>1, <1>2, <1>3, <2>1
       DEF OwnInv, RecordInv, LastConfirmed, InitSteps, WriteSteps, Writing
  <2> QED
    BY <1>1, <1>2, <2>1, <2>2, LocalStep DEF TypeOK, Lifecycles
<1>4. CASE ~(owns[j] = "identity" /\ fs.lock = j)
  BY <1>2, <1>4, EndReleaseStep DEF VerifyLock
<1> QED
  BY <1>3, <1>4

LEMMA RemoveLockStep ==
    ASSUME IndInv, NEW j \in Journals, RemoveLock(j)
    PROVE  IndInv'
<1> USE PcSets
<1>1. TypeOK /\ OwnInv(j) /\ RecordInv(j) /\ work[j].pc = "rm"
  BY DEF IndInv, RemoveLock
<1>2. /\ work' \in [Journals -> Works] /\ work'[j].pc = "syncRelease"
      /\ \A l \in Journals \ {j} : work'[l] = work[l]
  BY <1>1, GotoEffect DEF RemoveLock, Pcs
<1>3. fs' \in Files /\ fs'.journal = fs.journal
  BY <1>1 DEF RemoveLock, TypeOK, Files
<1>4. UNCHANGED <<disk, lifecycle, current, closing, owns, opened, confirmed>>
  BY DEF RemoveLock
<1>5. fs.lock = j
  BY <1>1 DEF OwnInv
<1>6. OwnInv(j)' /\ RecordInv(j)'
  BY <1>1, <1>2, <1>3, <1>4
     DEF OwnInv, RecordInv, LastConfirmed, InitSteps, WriteSteps, Writing
<1> QED
  BY <1>1, <1>2, <1>3, <1>4, <1>5, <1>6, LocalStep DEF TypeOK, Lifecycles

-----------------------------------------------------------------------------
(* Failures *)

LEMMA IoErrorStep ==
    ASSUME IndInv, NEW j \in Journals, IoError(j)
    PROVE  IndInv'
<1>1. work[j].pc \in Pcs /\ work[j].pc # "idle"
  BY PcSets DEF IndInv, TypeOK, IoError, OwnInv, Works
<1>2. UNCHANGED <<fs, disk, current, closing, opened, confirmed>>
  BY DEF IoError
<1>3. CASE work[j].pc \in ReleaseSteps
  BY <1>2, <1>3, EndReleaseStep DEF IoError
<1>4. CASE work[j].pc \notin ReleaseSteps
  <2>1. work[j].pc \in InitSteps \union Writing
    BY <1>1, <1>4, PcSets DEF Writing
  <2> QED
    BY <1>2, <1>4, <2>1, FailStep DEF IoError
<1> QED
  BY <1>3, <1>4

LEMMA ProcessCrashStep ==
    ASSUME IndInv, NEW j \in Journals, ProcessCrash(j)
    PROVE  IndInv'
<1> USE PcSets
<1>1. UNCHANGED <<fs, disk, current, closing, opened, confirmed>>
  BY DEF ProcessCrash
<1>2. /\ work' \in [Journals -> Works] /\ lifecycle' \in [Journals -> Lifecycles]
      /\ owns' \in [Journals -> {"nothing", "handle", "identity"}]
      /\ work'[j] = Idle /\ lifecycle'[j] = "DEAD" /\ owns'[j] = "nothing"
      /\ \A l \in Journals \ {j} :
            work'[l] = work[l] /\ lifecycle'[l] = lifecycle[l] /\ owns'[l] = owns[l]
  BY DEF ProcessCrash, Dead, IndInv, TypeOK, Works, Lifecycles
<1>3. OwnInv(j)' /\ RecordInv(j)'
  BY <1>2 DEF OwnInv, RecordInv, InitSteps, WriteSteps, Writing
<1> QED
  BY <1>1, <1>2, <1>3, LocalStep DEF IndInv, TypeOK

LEMMA PowerLossStep ==
    ASSUME IndInv, PowerLoss
    PROVE  IndInv'
<1> USE PcSets
<1>1. /\ fs' \in Files /\ disk' = fs' /\ fs'.journal \in {fs.journal, disk.journal}
      /\ UNCHANGED <<current, closing, opened, confirmed>>
  BY DEF PowerLoss, IndInv, TypeOK, Files
<1>2. /\ work' \in [Journals -> Works] /\ lifecycle' \in [Journals -> Lifecycles]
      /\ owns' \in [Journals -> {"nothing", "handle", "identity"}]
  BY DEF PowerLoss, Dead, IndInv, TypeOK, Works, Lifecycles
<1>3. ASSUME NEW j \in Journals
      PROVE  lifecycle'[j] \in {"NEW", "DEAD"} /\ work'[j] = Idle /\ owns'[j] = "nothing"
  <2>1. CASE lifecycle[j] = "NEW"
    <3>1. OwnInv(j) /\ TypeOK
      BY DEF IndInv
    <3>2. owns[j] = "nothing"
      BY <2>1, <3>1 DEF OwnInv
    <3>3. work[j].pc = "idle"
      BY <2>1, <3>1, <3>2 DEF OwnInv, TypeOK, InitSteps, WriteSteps, ReleaseSteps, Writing
    <3>4. work[j] = Idle
      BY <3>1, <3>3 DEF OwnInv
    <3> QED
      BY <2>1, <3>2, <3>4 DEF PowerLoss, Dead
  <2>2. CASE lifecycle[j] # "NEW"
    BY <2>2 DEF PowerLoss, Dead
  <2> QED
    BY <2>1, <2>2
<1>4. TypeOK'
  BY <1>1, <1>2 DEF IndInv, TypeOK, Works, Lifecycles
<1>5. FileInv'
  BY <1>1 DEF IndInv, FileInv, LastConfirmed
<1>6. ASSUME NEW j \in Journals PROVE OwnInv(j)' /\ RecordInv(j)'
  BY <1>3 DEF OwnInv, RecordInv, InitSteps, WriteSteps, Writing
<1> QED
  BY <1>4, <1>5, <1>6 DEF IndInv

-----------------------------------------------------------------------------
(* The inductive invariant *)

LEMMA InitInv == Init => IndInv
<1> SUFFICES ASSUME Init PROVE IndInv
  OBVIOUS
<1> USE PcSets
<1>1. TypeOK
  BY DEF Init, TypeOK, Files, Works
<1>2. FileInv
  BY DEF Init, FileInv
<1>3. \A j \in Journals : OwnInv(j) /\ RecordInv(j)
  BY DEF Init, OwnInv, RecordInv, InitSteps, WriteSteps, Writing
<1> QED
  BY <1>1, <1>2, <1>3 DEF IndInv

LEMMA StepInv == IndInv /\ [Next]_vars => IndInv'
<1> SUFFICES ASSUME IndInv, [Next]_vars PROVE IndInv'
  OBVIOUS
<1>1. CASE UNCHANGED vars
  <2>1. TypeOK' /\ FileInv'
    BY <1>1 DEF vars, IndInv, TypeOK, FileInv, LastConfirmed
  <2>2. ASSUME NEW j \in Journals PROVE OwnInv(j)'
    BY <1>1 DEF vars, IndInv, OwnInv
  <2>3. ASSUME NEW j \in Journals PROVE RecordInv(j)'
    BY <1>1 DEF vars, IndInv, RecordInv, LastConfirmed
  <2> QED
    BY <2>1, <2>2, <2>3 DEF IndInv
<1>2. ASSUME NEW j \in Journals, Released(j) PROVE IndInv'
  BY <1>2, EndReleaseStep DEF Released
<1>3. ASSUME NEW j \in Journals, Step(j) PROVE IndInv'
  BY <1>2, <1>3, OpenLockStep, StatLockStep, SyncLockStep, ReadJournalStep, CheckStep,
     WriteTempStep, RenameStep, ConfirmStep, CloseProceedsStep, VerifyLockStep, RemoveLockStep,
     IoErrorStep DEF Step
<1> QED
  BY <1>1, <1>3, CallStep, ProcessCrashStep, PowerLossStep DEF Next

-----------------------------------------------------------------------------
(* Theorems *)

\* Files, records and journal objects stay well formed; a revision never exceeds 4.
THEOREM TypeCorrect == Spec => []TypeOK
<1>1. IndInv => TypeOK
  BY DEF IndInv
<1> QED
  BY <1>1, InitInv, StepInv, PTL DEF Spec

\* At most one initialize() on a path ever succeeds, and only the owner of the lock
\* writes, for any number of journal objects, crashes and power failures.
THEOREM SingleWriterTheorem == Spec => []SingleWriter
<1>1. IndInv => SingleWriter
  <2> SUFFICES ASSUME IndInv PROVE SingleWriter
    OBVIOUS
  <2>1. Len(opened) <= 1
    BY DEF IndInv, FileInv
  <2>2. ASSUME NEW j \in Journals, work[j].pc \in Writing
        PROVE  /\ owns[j] = "identity" /\ fs.lock = j
               /\ \A l \in Journals \ {j} : work[l].pc \notin Writing
    BY <2>2, WriterIsAlone DEF IndInv, OwnInv, Writing, WriteSteps
  <2> QED
    BY <2>1, <2>2 DEF SingleWriter, Writing
<1> QED
  BY <1>1, InitInv, StepInv, PTL DEF Spec

\* A successor keeps the operation and the hash.
LEMMA SuccessorKeeps ==
    ASSUME NEW r, NEW n, Succeeds(r, n)
    PROVE  r.operation \in {None, n.operation} /\ r.hash \in {None, n.hash}
<1>1. /\ r.state = "READY" => r.operation = None
      /\ r.state \in {"ARMED", "DISPATCHED"} => r.hash = None
  BY DEF Succeeds, WellFormed, Initial
<1> QED
  BY <1>1 DEF Succeeds

\* Neither the file nor its safe copy is ever behind what was confirmed to a caller.
THEOREM ConfirmedIsDurableTheorem == Spec => []ConfirmedIsDurable
<1>1. IndInv => ConfirmedIsDurable
  <2> SUFFICES ASSUME IndInv, confirmed # <<>>, NEW file \in {fs.journal, disk.journal}
               PROVE  /\ file # None
                      /\ \/ file = LastConfirmed
                         \/ /\ file.revision = LastConfirmed.revision + 1
                            /\ LastConfirmed.operation \in {None, file.operation}
                            /\ LastConfirmed.hash \in {None, file.hash}
    BY DEF ConfirmedIsDurable, LastConfirmed
  <2>1. WellFormed(LastConfirmed) /\ (file = LastConfirmed \/ Succeeds(LastConfirmed, file))
    BY DEF IndInv, FileInv
  <2>2. file # None
    BY <2>1, NoneAssumption DEF Succeeds, WellFormed
  <2>3. ASSUME Succeeds(LastConfirmed, file)
        PROVE  /\ LastConfirmed.operation \in {None, file.operation}
               /\ LastConfirmed.hash \in {None, file.hash}
    BY <2>3, SuccessorKeeps
  <2> QED
    BY <2>1, <2>2, <2>3 DEF Succeeds
<1> QED
  BY <1>1, InitInv, StepInv, PTL DEF Spec

\* A record with the fields of an update is that update.
LEMMA RecordUpdate ==
    ASSUME NEW r \in Records, NEW n \in Records
    PROVE  /\ n.terminal = r.terminal /\ n.hash = r.hash =>
                 n = [r EXCEPT !.revision = n.revision, !.state = n.state,
                               !.operation = n.operation]
           /\ n.terminal = r.terminal /\ n.operation = r.operation =>
                 n = [r EXCEPT !.revision = n.revision, !.state = n.state, !.hash = n.hash]
           /\ n.terminal = r.terminal /\ n.operation = r.operation /\ n.hash = r.hash =>
                 n = [r EXCEPT !.revision = n.revision, !.state = n.state]
           /\ n.operation = r.operation /\ n.hash = r.hash =>
                 n = [r EXCEPT !.revision = n.revision, !.state = n.state,
                               !.terminal = n.terminal]
  BY DEF Records

\* One transition of the record is one step of the abstract record.
LEMMA SuccessorShape ==
    ASSUME NEW r, NEW n, Succeeds(r, n)
    PROVE  \/ /\ r.state = "READY" /\ n.operation \in Operations
              /\ n = [r EXCEPT !.revision = 1, !.state = "ARMED", !.operation = n.operation]
           \/ /\ r.state = "ARMED"
              /\ n = [r EXCEPT !.revision = 2, !.state = "DISPATCHED"]
           \/ /\ r.state \in {"ARMED", "DISPATCHED"} /\ n.hash \in Hashes
              /\ n = [r EXCEPT !.revision = r.revision + 1, !.state = "HASH_OBSERVED",
                               !.hash = n.hash]
           \/ /\ r.state \in {"ARMED", "DISPATCHED", "HASH_OBSERVED"}
              /\ n.terminal \in Terminals
              /\ n.terminal = "MATCH_REFERENCE" => r.hash # None
              /\ n.terminal = "WALLET_ERROR" => r.hash = None
              /\ n = [r EXCEPT !.revision = r.revision + 1, !.state = "TERMINAL",
                               !.terminal = n.terminal]
<1>1. /\ r \in Records /\ n \in Records /\ n.revision = r.revision + 1
      /\ r.state = "READY" => r.revision = 0
      /\ r.state = "ARMED" => r.revision = 1
  BY DEF Succeeds, WellFormed, Initial
<1>2. CASE /\ r.state = "READY" /\ n.state = "ARMED"
           /\ n.operation \in Operations /\ n.hash = r.hash /\ n.terminal = r.terminal
  <2>1. n = [r EXCEPT !.revision = n.revision, !.state = n.state, !.operation = n.operation]
    BY <1>1, <1>2, RecordUpdate
  <2>2. n.revision = 1
    BY <1>1, <1>2
  <2>3. n = [r EXCEPT !.revision = 1, !.state = "ARMED", !.operation = n.operation]
    BY <1>2, <2>1, <2>2
  <2> QED
    BY <1>2, <2>3
<1>3. CASE /\ r.state = "ARMED" /\ n.state = "DISPATCHED"
           /\ n.operation = r.operation /\ n.hash = r.hash /\ n.terminal = r.terminal
  <2>1. n = [r EXCEPT !.revision = n.revision, !.state = n.state]
    BY <1>1, <1>3, RecordUpdate
  <2>2. n.revision = 2
    BY <1>1, <1>3
  <2>3. n = [r EXCEPT !.revision = 2, !.state = "DISPATCHED"]
    BY <1>3, <2>1, <2>2
  <2> QED
    BY <1>3, <2>3
<1>4. CASE /\ r.state \in {"ARMED", "DISPATCHED"} /\ n.state = "HASH_OBSERVED"
           /\ n.operation = r.operation /\ n.hash \in Hashes /\ n.terminal = r.terminal
  <2>1. n = [r EXCEPT !.revision = n.revision, !.state = n.state, !.hash = n.hash]
    BY <1>1, <1>4, RecordUpdate
  <2> QED
    BY <1>1, <1>4, <2>1
<1>5. CASE /\ r.state \in {"ARMED", "DISPATCHED", "HASH_OBSERVED"} /\ n.state = "TERMINAL"
           /\ n.operation = r.operation /\ n.hash = r.hash /\ n.terminal \in Terminals
           /\ n.terminal = "MATCH_REFERENCE" => r.hash # None
           /\ n.terminal = "WALLET_ERROR" => r.hash = None
  <2>1. n = [r EXCEPT !.revision = n.revision, !.state = n.state, !.terminal = n.terminal]
    BY <1>1, <1>5, RecordUpdate
  <2> QED
    BY <1>1, <1>5, <2>1
<1> QED
  BY <1>2, <1>3, <1>4, <1>5 DEF Succeeds

LEMMA SuccessorStep ==
    ASSUME IndInv, Succeeds(disk.journal, disk'.journal)
    PROVE  Record!Next
<1>1. PICK r, n : r = disk.journal /\ n = disk'.journal
  OBVIOUS
<1>2. Succeeds(r, n) /\ r # None
  <2>1. Succeeds(r, n)
    BY <1>1
  <2>2. r \in Records
    BY <2>1 DEF Succeeds, WellFormed
  <2> QED
    BY <2>1, <2>2, NoneAssumption
<1>3. CASE /\ r.state = "READY" /\ n.operation \in Operations
           /\ n = [r EXCEPT !.revision = 1, !.state = "ARMED", !.operation = n.operation]
  <2>1. Record!Arm
    BY <1>1, <1>2, <1>3 DEF Record!Arm
  <2> QED
    BY <2>1 DEF Record!Next
<1>4. CASE /\ r.state = "ARMED" /\ n = [r EXCEPT !.revision = 2, !.state = "DISPATCHED"]
  <2>1. Record!MarkDispatched
    BY <1>1, <1>2, <1>4 DEF Record!MarkDispatched
  <2> QED
    BY <2>1 DEF Record!Next
<1>5. CASE /\ r.state \in {"ARMED", "DISPATCHED"} /\ n.hash \in Hashes
           /\ n = [r EXCEPT !.revision = r.revision + 1, !.state = "HASH_OBSERVED",
                            !.hash = n.hash]
  <2>1. Record!RetainHash
    BY <1>1, <1>2, <1>5 DEF Record!RetainHash
  <2> QED
    BY <2>1 DEF Record!Next
<1>6. CASE /\ r.state \in {"ARMED", "DISPATCHED", "HASH_OBSERVED"}
           /\ n.terminal \in Terminals
           /\ n.terminal = "MATCH_REFERENCE" => r.hash # None
           /\ n.terminal = "WALLET_ERROR" => r.hash = None
           /\ n = [r EXCEPT !.revision = r.revision + 1, !.state = "TERMINAL",
                            !.terminal = n.terminal]
  <2>1. Record!Terminate
    BY <1>1, <1>2, <1>6 DEF Record!Terminate, Terminals
  <2> QED
    BY <2>1 DEF Record!Next
<1> QED
  BY <1>2, <1>3, <1>4, <1>5, <1>6, SuccessorShape

\* The safe copy is only ever replaced by what the file holds.
LEMMA DiskFollowsFile ==
    ASSUME IndInv, [Next]_vars
    PROVE  disk'.journal \in {disk.journal, fs.journal}
<1>1. CASE UNCHANGED vars
  BY <1>1 DEF vars
<1>2. ASSUME NEW j \in Journals, Call(j) \/ ProcessCrash(j)
      PROVE  disk' = disk
  BY <1>2 DEF Call, Initialize, Arm, MarkDispatched, RetainHash, Terminate, Transition, Close,
              ProcessCrash
<1>3. ASSUME NEW j \in Journals, Step(j)
      PROVE  disk' \in {disk, fs}
  BY <1>3 DEF Step, OpenLock, StatLock, SyncLock, ReadJournal, Check, WriteTemp, Rename, Confirm,
              CloseProceeds, VerifyLock, RemoveLock, Released, IoError
<1>4. CASE PowerLoss
  BY <1>4 DEF PowerLoss
<1> QED
  BY <1>1, <1>2, <1>3, <1>4 DEF Next

\* The safe copy of the journal implements OperationRecord: created once, then only
\* replaced by its successor, with one operation and one hash for good, across any
\* crashes, power failures, failing calls and rival journal objects.
THEOREM ImplementsRecordTheorem == Spec => ImplementsRecord
<1>1. Init => Record!Init
  BY DEF Init, Record!Init
<1>2. IndInv /\ [Next]_vars => [Record!Next]_(disk.journal)
  <2> SUFFICES ASSUME IndInv, [Next]_vars, disk'.journal # disk.journal
               PROVE  Record!Next
    OBVIOUS
  <2>1. disk'.journal = fs.journal
    BY DiskFollowsFile
  <2>2. CASE disk.journal = None /\ fs.journal = Initial
    BY <2>1, <2>2 DEF Record!Next, Record!Create, Initial
  <2>3. CASE Succeeds(disk.journal, fs.journal)
    BY <2>1, <2>3, SuccessorStep
  <2> QED
    BY <2>1, <2>2, <2>3 DEF IndInv, FileInv
<1> QED
  BY <1>1, <1>2, InitInv, StepInv, PTL DEF Spec, ImplementsRecord, Record!Spec
=============================================================================
