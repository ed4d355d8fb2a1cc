---------------------- MODULE DurableClaimStoreProofs ----------------------
(***************************************************************************)
(* The safety properties of DurableClaimStore for any number of stores,    *)
(* calls, capabilities and authorizations.                                 *)
(***************************************************************************)
EXTENDS DurableClaimStore, TLAPS

\* A claim() that has created the tombstone of c and not yet returned.
Claiming(k, c) == /\ call[k].op = "claim"
                  /\ call[k].cap = c
                  /\ call[k].pc \in PublishSteps \union {"syncRoot"}

\* A suspended complete() of c.
Completing(k, c) == call[k].op = "complete" /\ call[k].cap = c

\* The awaits of each operation, and the arguments a suspended call carries.
CallInv ==
    \A k \in Calls :
        /\ call[k].pc = "idle" => call[k].op = "none"
        /\ call[k].pc # "idle" => /\ call[k].op # "none"
                                  /\ call[k].store \in Stores
                                  /\ call[k].cap \in Capabilities
                                  /\ call[k].auth \in Authorizations
        /\ call[k].op = "claim" => call[k].pc \in {"root", "syncRoot"} \union PublishSteps
        /\ call[k].op = "inspect" => call[k].pc \in {"root", "readClaim", "readTerminal"}
        /\ call[k].op = "complete" => /\ call[k].pc \in {"reread"} \union PublishSteps
                                      /\ call[k].outcome \in Outcomes
        /\ call[k].pc = "link" => call[k].temp = "synced"

\* What is safe is a part of what the processes see, published contents are
\* synchronised, and a trusted root is a safe one.
DiskInv ==
    /\ disk.root => fs.root
    /\ disk.dirs \subseteq fs.dirs
    /\ \A c \in Capabilities :
          /\ disk.claim[c] # None => fs.claim[c] = disk.claim[c]
          /\ disk.terminal[c] # None => fs.terminal[c] = disk.terminal[c]
          /\ fs.claim[c] # None => fs.claim[c].data = "synced"
          /\ fs.terminal[c] # None => fs.terminal[c].data = "synced"
    /\ \A s \in Stores : trustedRootPromise[s] = "trusted" => disk.root

\* The tombstone makes the running claim() of a capability the only one, and
\* none runs for a capability that was granted.
ClaimInv ==
    \A c \in Capabilities :
        /\ \A k, l \in Calls : Claiming(k, c) /\ Claiming(l, c) => k = l
        /\ \A k \in Calls : Claiming(k, c) =>
              /\ disk.root
              /\ c \in fs.dirs
              /\ granted[c] = <<>>
              /\ call[k].pc # "syncRoot" => c \in disk.dirs
              /\ call[k].pc \in {"unlink", "syncDir"} =>
                    fs.claim[c] = [auth |-> call[k].auth, data |-> "synced"]

\* A handle belongs to the one granted claim; while it is open nothing is
\* published for it, and its outcome is the one on disk.
HandleInv ==
    \A s \in Stores, c \in Capabilities : handleState[s][c] # None =>
        /\ \A r \in Stores : handleState[r][c] # None => r = s
        /\ granted[c] # <<>>
        /\ handleState[s][c].auth = granted[c][1]
        /\ handleState[s][c].state = "OPEN" => fs.terminal[c] = None
        /\ handleState[s][c].state \in Outcomes =>
              /\ disk.terminal[c] # None
              /\ disk.terminal[c].outcome = handleState[s][c].state

\* A suspended complete() is the only one for its capability and owns a handle
\* that is being closed.
CompleteInv ==
    \A c \in Capabilities :
        /\ \A k, l \in Calls : Completing(k, c) /\ Completing(l, c) => k = l
        /\ \A k \in Calls : Completing(k, c) =>
              /\ handleState[call[k].store][c] =
                    [state |-> "FINALIZING", auth |-> call[k].auth]
              /\ completed[c] = <<>>
              /\ IF call[k].pc \in {"unlink", "syncDir"}
                 THEN fs.terminal[c] = [auth |-> call[k].auth, outcome |-> call[k].outcome,
                                        data |-> "synced"]
                 ELSE fs.terminal[c] = None

IndInv == /\ TypeOK
          /\ CallInv
          /\ DiskInv
          /\ ClaimInv
          /\ HandleInv
          /\ CompleteInv
          /\ SingleClaim
          /\ ClaimIsDurable
          /\ CompletionIsDurable
          /\ TerminalNeedsGrant

-----------------------------------------------------------------------------

CallRecords == [pc      : Steps,
                op      : {"claim", "complete", "inspect", "none"},
                store   : Stores \union {None},
                cap     : Capabilities \union {None},
                auth    : Authorizations \union {None},
                outcome : Outcomes \union {"none"},
                temp    : {"written", "synced", "none"},
                floor   : Nat]

\* A call moves on to another await.
LEMMA CallAt ==
    ASSUME TypeOK, NEW k \in Calls, NEW p \in Steps
    PROVE  /\ call[k] \in CallRecords
           /\ [call[k] EXCEPT !.pc = p] \in CallRecords
           /\ [call[k] EXCEPT !.pc = p].pc = p
           /\ [call[k] EXCEPT !.pc = p].op = call[k].op
           /\ [call[k] EXCEPT !.pc = p].store = call[k].store
           /\ [call[k] EXCEPT !.pc = p].cap = call[k].cap
           /\ [call[k] EXCEPT !.pc = p].auth = call[k].auth
           /\ [call[k] EXCEPT !.pc = p].outcome = call[k].outcome
           /\ [call[k] EXCEPT !.pc = p].temp = call[k].temp
<1>1. call[k] \in CallRecords
  BY DEF TypeOK, CallRecords
<1>2. QED
  BY <1>1 DEF CallRecords

\* One entry of a store's handles changes.
LEMMA HandleUpdate ==
    ASSUME NEW h \in [Stores -> [Capabilities -> Handles \union {None}]], NEW g,
           NEW s \in Stores, NEW c \in Capabilities, NEW v \in Handles \union {None},
           g = [h EXCEPT ![s] = [h[s] EXCEPT ![c] = v]]
    PROVE  /\ g \in [Stores -> [Capabilities -> Handles \union {None}]]
           /\ g[s][c] = v
           /\ \A t \in Stores, d \in Capabilities : t # s \/ d # c => g[t][d] = h[t][d]
  OBVIOUS

LEMMA InitIndInv == Init => IndInv
<1> SUFFICES ASSUME Init PROVE IndInv
  OBVIOUS
<1>1. PICK r \in BOOLEAN, safe \in BOOLEAN :
          /\ safe => r
          /\ fs = [root |-> r, dirs |-> {},
                   claim |-> [c \in Capabilities |-> None],
                   terminal |-> [c \in Capabilities |-> None]]
          /\ disk = [fs EXCEPT !.root = safe]
  BY Zenon DEF Init
<1>2. TypeOK
  <2>1. fs \in FileSystem /\ disk \in FileSystem
    BY <1>1 DEF FileSystem
  <2>2. Idle \in CallRecords
    BY DEF Idle, CallRecords, Steps
  <2>3. /\ call \in [Calls -> CallRecords]
        /\ trustedRootPromise \in [Stores -> {"none", "pending", "trusted", "rejected"}]
        /\ handleState \in [Stores -> [Capabilities -> Handles \union {None}]]
    BY <2>2 DEF Init
  <2>4. /\ granted \in [Capabilities -> Seq(Authorizations)]
        /\ completed \in [Capabilities -> Seq(Outcomes)]
    BY DEF Init
  <2>5. QED
    BY <2>1, <2>3, <2>4 DEF TypeOK, CallRecords
<1>3. CallInv /\ ClaimInv /\ CompleteInv
  BY DEF Init, CallInv, ClaimInv, CompleteInv, Claiming, Completing, Idle, PublishSteps
<1>4. DiskInv
  BY <1>1 DEF Init, DiskInv
<1>5. HandleInv
  BY DEF Init, HandleInv
<1>6. SingleClaim /\ ClaimIsDurable /\ CompletionIsDurable /\ TerminalNeedsGrant
  BY <1>1 DEF Init, SingleClaim, ClaimIsDurable, CompletionIsDurable, TerminalNeedsGrant
<1>7. QED
  BY <1>2, <1>3, <1>4, <1>5, <1>6 DEF IndInv

\* A call ends, and a complete() that ends early burns its handle or leaves it.
LEMMA EndCall ==
    ASSUME IndInv, NEW k \in Calls, NEW r \in CallRecords,
           r.pc = "idle", r.op = "none",
           call' = [call EXCEPT ![k] = r],
           handleState' = handleState \/ FailClosed(k),
           UNCHANGED <<fs, disk, trustedRootPromise, granted, completed>>
    PROVE  IndInv'
<1> USE DEF IndInv
<1>0. /\ call'[k] = r
      /\ \A l \in Calls \ {k} : call'[l] = call[l]
  BY DEF TypeOK
<1>1. /\ handleState' \in [Stores -> [Capabilities -> Handles \union {None}]]
      /\ \A s \in Stores, c \in Capabilities :
            \/ handleState'[s][c] = handleState[s][c]
            \/ /\ Completing(k, c)
               /\ handleState[s][c] # None
               /\ handleState'[s][c].state = "FAILED_CLOSED"
               /\ handleState'[s][c].auth = handleState[s][c].auth
  <2>0. handleState \in [Stores -> [Capabilities -> Handles \union {None}]]
    BY DEF TypeOK
  <2>1. CASE call[k].op = "complete" /\ FailClosed(k)
    <3> DEFINE s == call[k].store
               c == call[k].cap
    <3>1. s \in Stores /\ c \in Capabilities /\ call[k].auth \in Authorizations
      BY <2>1 DEF CallInv, PublishSteps
    <3>2. handleState[s][c] = [state |-> "FINALIZING", auth |-> call[k].auth]
      BY Zenon, <2>1, <3>1 DEF CompleteInv, Completing
    <3>3. handleState[s][c] \in Handles /\ handleState[s][c] # None
      BY <3>1, <3>2, NoneAssumption DEF Handles, HandleStates
    <3> DEFINE v == [handleState[s][c] EXCEPT !.state = "FAILED_CLOSED"]
    <3>4. /\ v \in Handles /\ v.state = "FAILED_CLOSED"
          /\ v.auth = handleState[s][c].auth
      BY <3>3 DEF Handles, HandleStates
    <3>5. handleState' = [handleState EXCEPT ![s] = [handleState[s] EXCEPT ![c] = v]]
      BY <2>1 DEF FailClosed
    <3>6. Completing(k, c)
      BY <2>1 DEF Completing
    <3> HIDE DEF IndInv, s, c, v
    <3>7. /\ handleState' \in [Stores -> [Capabilities -> Handles \union {None}]]
          /\ handleState'[s][c] = v
          /\ \A t \in Stores, d \in Capabilities :
                t # s \/ d # c => handleState'[t][d] = handleState[t][d]
      BY <2>0, <3>1, <3>4, <3>5, HandleUpdate
    <3>8. QED
      BY <3>3, <3>4, <3>6, <3>7
  <2>2. CASE handleState' = handleState
    BY <2>0, <2>2
  <2>3. QED
    BY <2>1, <2>2 DEF FailClosed
<1>2. TypeOK'
  <2>1. call' \in [Calls -> CallRecords]
    BY DEF TypeOK, CallRecords
  <2>2. QED
    BY <1>1, <2>1 DEF TypeOK, CallRecords
<1>3. CallInv'
  BY <1>0 DEF CallInv, PublishSteps
<1>4. DiskInv' /\ SingleClaim' /\ ClaimIsDurable' /\ CompletionIsDurable' /\ TerminalNeedsGrant'
  BY DEF DiskInv, SingleClaim, ClaimIsDurable, CompletionIsDurable, TerminalNeedsGrant
<1>5. ClaimInv'
  BY <1>0 DEF ClaimInv, Claiming
<1>6. HandleInv'
  <2>1. "FAILED_CLOSED" \notin Outcomes /\ "FAILED_CLOSED" # "OPEN"
    BY DEF Outcomes
  <2>2. QED
    BY <1>1, <2>1 DEF HandleInv
<1>7. CompleteInv'
  <2>1. \A l \in Calls, c \in Capabilities : Completing(l, c)' => l # k /\ Completing(l, c)
    BY <1>0 DEF Completing
  <2>2. \A l \in Calls, c \in Capabilities : Completing(l, c)' =>
            handleState'[call[l].store][c] = handleState[call[l].store][c]
    BY <1>1, <2>1 DEF CompleteInv, Completing, CallInv, PublishSteps
  <2>3. QED
    BY <1>0, <2>1, <2>2 DEF CompleteInv
<1>8. QED
  BY <1>2, <1>3, <1>4, <1>5, <1>6, <1>7

\* A call passes an await that neither publishes nor synchronises anything.
LEMMA AdvanceCall ==
    ASSUME IndInv, NEW k \in Calls, NEW r \in CallRecords,
           call' = [call EXCEPT ![k] = r],
           call[k].pc # "idle",
           r.op = call[k].op, r.store = call[k].store, r.cap = call[k].cap,
           r.auth = call[k].auth, r.outcome = call[k].outcome,
           r.op = "claim" => call[k].pc \in PublishSteps /\ r.pc \in PublishSteps,
           r.op = "complete" => r.pc \in PublishSteps,
           r.op = "inspect" => r.pc \in {"readClaim", "readTerminal"},
           r.pc \in {"unlink", "syncDir"} <=> call[k].pc \in {"unlink", "syncDir"},
           r.pc = "link" => r.temp = "synced",
           UNCHANGED <<fs, disk, trustedRootPromise, handleState, granted, completed>>
    PROVE  IndInv'
<1> USE DEF IndInv
<1>0. /\ call'[k] = r
      /\ \A l \in Calls \ {k} : call'[l] = call[l]
  BY DEF TypeOK
<1>1. TypeOK'
  <2>1. call' \in [Calls -> CallRecords]
    BY DEF TypeOK, CallRecords
  <2>2. QED
    BY <2>1 DEF TypeOK, CallRecords
<1>2. call[k].op \in {"claim", "complete", "inspect"}
  BY DEF TypeOK, CallInv
<1>3. CallInv'
  BY <1>0, <1>2 DEF CallInv, PublishSteps
<1>4. DiskInv' /\ SingleClaim' /\ ClaimIsDurable' /\ CompletionIsDurable' /\ TerminalNeedsGrant'
  BY DEF DiskInv, SingleClaim, ClaimIsDurable, CompletionIsDurable, TerminalNeedsGrant
<1>5. ClaimInv'
  <2>1. \A l \in Calls, c \in Capabilities : Claiming(l, c)' => Claiming(l, c)
    BY <1>0 DEF Claiming
  <2>2. QED
    BY <1>0, <2>1 DEF ClaimInv, Claiming, PublishSteps
<1>6. HandleInv'
  BY DEF HandleInv
<1>7. CompleteInv'
  <2>1. \A l \in Calls, c \in Capabilities : Completing(l, c)' => Completing(l, c)
    BY <1>0 DEF Completing
  <2>2. QED
    BY <1>0, <2>1 DEF CompleteInv
<1>8. QED
  BY <1>1, <1>3, <1>4, <1>5, <1>6, <1>7

\* The memoised root check of a store changes, and with it the root entry on
\* disk; a missing root is provided.
LEMMA RootStep ==
    ASSUME IndInv, NEW rootOnDisk \in BOOLEAN, NEW root \in BOOLEAN,
           fs.root => root, disk.root => rootOnDisk, rootOnDisk => root,
           fs' = [fs EXCEPT !.root = root],
           disk' = [disk EXCEPT !.root = rootOnDisk],
           trustedRootPromise' \in [Stores -> {"none", "pending", "trusted", "rejected"}],
           \A s \in Stores : trustedRootPromise'[s] = "trusted" => rootOnDisk,
           UNCHANGED <<handleState, call, granted, completed>>
    PROVE  IndInv'
<1> USE DEF IndInv
<1>0. /\ fs' \in FileSystem /\ disk' \in FileSystem
      /\ fs'.root = root /\ fs'.dirs = fs.dirs /\ fs'.claim = fs.claim
      /\ fs'.terminal = fs.terminal
      /\ disk'.root = rootOnDisk /\ disk'.dirs = disk.dirs /\ disk'.claim = disk.claim
      /\ disk'.terminal = disk.terminal
  BY Zenon DEF TypeOK, FileSystem
<1>1. TypeOK'
  BY <1>0 DEF TypeOK
<1>2. CallInv' /\ SingleClaim'
  BY DEF CallInv, SingleClaim
<1>3. DiskInv'
  BY <1>0 DEF DiskInv
<1>4. ClaimInv'
  BY <1>0 DEF ClaimInv, Claiming
<1>5. HandleInv' /\ CompleteInv'
  BY <1>0 DEF HandleInv, CompleteInv, Completing
<1>6. ClaimIsDurable' /\ CompletionIsDurable' /\ TerminalNeedsGrant'
  BY <1>0 DEF ClaimIsDurable, CompletionIsDurable, TerminalNeedsGrant
<1>7. QED
  BY <1>1, <1>2, <1>3, <1>4, <1>5, <1>6

\* claim() and inspect() begin.
LEMMA BeginOnRootStep ==
    ASSUME IndInv, NEW k \in Calls, NEW s \in Stores, NEW op \in {"claim", "inspect"},
           NEW c \in Capabilities, NEW a \in Authorizations, BeginOnRoot(k, s, op, c, a)
    PROVE  IndInv'
<1> USE DEF IndInv
<1> DEFINE r == [Idle EXCEPT !.pc = "root", !.op = op, !.store = s, !.cap = c, !.auth = a,
                             !.floor = Acknowledged(c)]
<1>1. Acknowledged(c) \in Nat
  BY DEF Acknowledged, TypeOK
<1>2. r \in CallRecords /\ r.pc = "root" /\ r.op = op /\ r.store = s /\ r.cap = c /\ r.auth = a
  BY Zenon, <1>1 DEF Idle, CallRecords, Steps
<1>3. call' = [call EXCEPT ![k] = r]
  BY DEF BeginOnRoot
<1> HIDE DEF r
<1>4. /\ call'[k] = r /\ call' \in [Calls -> CallRecords]
      /\ \A l \in Calls \ {k} : call'[l] = call[l]
  BY <1>2, <1>3 DEF TypeOK, CallRecords
<1>5. /\ trustedRootPromise' \in [Stores -> {"none", "pending", "trusted", "rejected"}]
      /\ \A t \in Stores : trustedRootPromise'[t] = "trusted" => trustedRootPromise[t] = "trusted"
  BY DEF BeginOnRoot, TypeOK
<1>6. UNCHANGED <<fs, disk, handleState, granted, completed>>
  BY DEF BeginOnRoot
<1>7. TypeOK'
  BY <1>4, <1>5, <1>6 DEF TypeOK, CallRecords
<1>8. CallInv'
  BY <1>2, <1>4 DEF CallInv
<1>9. DiskInv'
  BY <1>5, <1>6 DEF DiskInv
<1>10. ClaimInv' /\ CompleteInv'
  BY <1>2, <1>4, <1>6 DEF ClaimInv, Claiming, CompleteInv, Completing, PublishSteps
<1>11. HandleInv'
  BY <1>6 DEF HandleInv
<1>12. SingleClaim' /\ ClaimIsDurable' /\ CompletionIsDurable' /\ TerminalNeedsGrant'
  BY <1>6 DEF SingleClaim, ClaimIsDurable, CompletionIsDurable, TerminalNeedsGrant
<1>13. QED
  BY <1>7, <1>8, <1>9, <1>10, <1>11, <1>12

\* complete() begins: its handle leaves OPEN, so there is no other complete() of
\* this capability and nothing is published for it yet.
LEMMA BeginCompleteStep ==
    ASSUME IndInv, NEW k \in Calls, NEW s \in Stores, NEW c \in Capabilities,
           NEW o \in Outcomes, BeginComplete(k, s, c, o)
    PROVE  IndInv'
<1> USE DEF IndInv
<1> DEFINE a == handleState[s][c].auth
           r == [Idle EXCEPT !.pc = "reread", !.op = "complete", !.store = s, !.cap = c,
                             !.auth = a, !.outcome = o]
           v == [handleState[s][c] EXCEPT !.state = "FINALIZING"]
<1>1. handleState \in [Stores -> [Capabilities -> Handles \union {None}]]
  BY DEF TypeOK
<1>2. /\ handleState[s][c] \in Handles /\ handleState[s][c] # None
      /\ handleState[s][c].state = "OPEN"
  BY <1>1 DEF BeginComplete, HandleOpen
<1>3. a \in Authorizations /\ v = [state |-> "FINALIZING", auth |-> a] /\ v \in Handles
      /\ v # None /\ v.state = "FINALIZING" /\ v.auth = a
  BY <1>2, NoneAssumption DEF Handles, HandleStates
<1>4. /\ r \in CallRecords /\ r.pc = "reread" /\ r.op = "complete" /\ r.store = s /\ r.cap = c
      /\ r.auth = a /\ r.outcome = o
  BY Zenon, <1>3 DEF Idle, CallRecords, Steps
<1>5. /\ call' = [call EXCEPT ![k] = r]
      /\ handleState' = [handleState EXCEPT ![s] = [handleState[s] EXCEPT ![c] = v]]
      /\ UNCHANGED <<fs, disk, trustedRootPromise, granted, completed>>
      /\ call[k].pc = "idle"
  BY DEF BeginComplete
<1>6. /\ granted[c] # <<>> /\ a = granted[c][1] /\ fs.terminal[c] = None
      /\ \A t \in Stores : handleState[t][c] # None => t = s
  BY <1>2 DEF HandleInv
<1>7. completed[c] = <<>>
  <2>1. SUFFICES ASSUME completed[c] # <<>> PROVE FALSE
    OBVIOUS
  <2>2. disk.terminal[c] = [auth |-> granted[c][1], outcome |-> completed[c][1], data |-> "synced"]
    BY <2>1 DEF CompletionIsDurable
  <2>3. granted[c][1] \in Authorizations
    BY <1>3, <1>6
  <2>4. completed[c][1] \in Outcomes
    <3>1. completed[c] \in Seq(Outcomes)
      BY DEF TypeOK
    <3>2. QED
      BY <2>1, <3>1
  <2>5. disk.terminal[c] \in TerminalRecords
    BY <2>2, <2>3, <2>4 DEF TerminalRecords, Contents
  <2>6. disk.terminal[c] # None
    BY <2>5, NoneAssumption
  <2>7. QED
    BY <1>6, <2>6 DEF DiskInv
<1> HIDE DEF r, v
<1>8. /\ call'[k] = r /\ call' \in [Calls -> CallRecords]
      /\ \A l \in Calls \ {k} : call'[l] = call[l]
  BY <1>4, <1>5 DEF TypeOK, CallRecords
<1>9. /\ handleState' \in [Stores -> [Capabilities -> Handles \union {None}]]
      /\ handleState'[s][c] = v
      /\ \A t \in Stores, d \in Capabilities :
            t # s \/ d # c => handleState'[t][d] = handleState[t][d]
  BY <1>1, <1>3, <1>5, HandleUpdate
<1>10. TypeOK'
  BY <1>5, <1>8, <1>9 DEF TypeOK, CallRecords
<1>11. CallInv'
  BY <1>3, <1>4, <1>8 DEF CallInv
<1>12. DiskInv' /\ SingleClaim' /\ ClaimIsDurable' /\ CompletionIsDurable' /\ TerminalNeedsGrant'
  BY <1>5 DEF DiskInv, SingleClaim, ClaimIsDurable, CompletionIsDurable, TerminalNeedsGrant
<1>13. ClaimInv'
  BY <1>4, <1>5, <1>8 DEF ClaimInv, Claiming
<1>14. HandleInv'
  BY SMTT(40), <1>2, <1>3, <1>5, <1>9 DEF HandleInv, Outcomes
<1>15. CompleteInv'
  <2>1. \A l \in Calls : ~Completing(l, c)
    <3>1. SUFFICES ASSUME NEW l \in Calls, Completing(l, c) PROVE FALSE
      OBVIOUS
    <3>2. /\ handleState[call[l].store][c] = [state |-> "FINALIZING", auth |-> call[l].auth]
          /\ call[l].store \in Stores /\ call[l].auth \in Authorizations
      BY Zenon, <3>1 DEF CompleteInv, Completing, CallInv, PublishSteps
    <3>3. handleState[call[l].store][c] # None
      BY <3>2, NoneAssumption DEF Handles, HandleStates
    <3>4. call[l].store = s
      BY <1>6, <3>2, <3>3
    <3>5. QED
      BY <1>2, <3>2, <3>4
  <2>2. \A l \in Calls, d \in Capabilities : Completing(l, d)' =>
            \/ l = k /\ d = c
            \/ l # k /\ d # c /\ Completing(l, d)
    BY <1>4, <1>8, <2>1 DEF Completing
  <2>3. QED
    BY <1>3, <1>4, <1>5, <1>6, <1>7, <1>8, <1>9, <2>2 DEF CompleteInv, Completing, CallInv, PublishSteps
<1>16. QED
  BY <1>10, <1>11, <1>12, <1>13, <1>14, <1>15

\* mkdir: the directory is new, so no claim() of this capability runs and none
\* was granted.
LEMMA MkdirStep ==
    ASSUME IndInv, NEW k \in Calls, Mkdir(k), call[k].cap \notin fs.dirs
    PROVE  IndInv'
<1> USE DEF IndInv
<1> DEFINE c == call[k].cap
           r == [call[k] EXCEPT !.pc = "syncRoot"]
<1>1. /\ call[k].pc = "root" /\ call[k].op = "claim" /\ c \in Capabilities
      /\ call[k].store \in Stores /\ call[k].auth \in Authorizations
      /\ disk.root
  BY DEF Mkdir, CallInv, DiskInv
<1>2. /\ r \in CallRecords /\ r.pc = "syncRoot" /\ r.op = "claim" /\ r.cap = c
      /\ r.store = call[k].store /\ r.auth = call[k].auth
  BY ZenonT(40), <1>1 DEF TypeOK, CallRecords, Steps
<1>3. /\ call' = [call EXCEPT ![k] = r]
      /\ fs' = [fs EXCEPT !.dirs = fs.dirs \union {c}]
      /\ UNCHANGED <<disk, trustedRootPromise, handleState, granted, completed>>
  BY DEF Mkdir, Goto
<1> HIDE DEF r
<1>4. /\ call'[k] = r /\ call' \in [Calls -> CallRecords]
      /\ \A l \in Calls \ {k} : call'[l] = call[l]
  BY <1>2, <1>3 DEF TypeOK, CallRecords
<1>5. /\ fs' \in FileSystem
      /\ fs'.root = fs.root /\ fs'.dirs = fs.dirs \union {c}
      /\ fs'.claim = fs.claim /\ fs'.terminal = fs.terminal
  BY Zenon, <1>1, <1>3 DEF TypeOK, FileSystem
<1>6. granted[c] = <<>> /\ \A l \in Calls : ~Claiming(l, c)
  BY Zenon, <1>1 DEF ClaimIsDurable, DiskInv, ClaimInv, Mkdir
<1>7. TypeOK'
  BY <1>3, <1>4, <1>5 DEF TypeOK, CallRecords
<1>8. CallInv'
  BY <1>1, <1>2, <1>4 DEF CallInv
<1>9. DiskInv'
  BY <1>3, <1>5 DEF DiskInv
<1>10. ClaimInv'
  <2>1. \A l \in Calls, d \in Capabilities : Claiming(l, d)' =>
            \/ l = k /\ d = c
            \/ l # k /\ d # c /\ Claiming(l, d)
    BY <1>2, <1>4, <1>6 DEF Claiming
  <2>2. QED
    BY <1>1, <1>2, <1>3, <1>4, <1>5, <1>6, <2>1 DEF ClaimInv
<1>11. HandleInv' /\ CompleteInv'
  BY <1>1, <1>2, <1>3, <1>4, <1>5 DEF HandleInv, CompleteInv, Completing
<1>12. SingleClaim' /\ ClaimIsDurable' /\ CompletionIsDurable' /\ TerminalNeedsGrant'
  BY <1>3, <1>5 DEF SingleClaim, ClaimIsDurable, CompletionIsDurable, TerminalNeedsGrant
<1>13. QED
  BY <1>7, <1>8, <1>9, <1>10, <1>11, <1>12

\* fsync of the root.
LEMMA SyncRootStep ==
    ASSUME IndInv, NEW k \in Calls, SyncRoot(k)
    PROVE  IndInv'
<1> USE DEF IndInv
<1> DEFINE c == call[k].cap
           r == [call[k] EXCEPT !.pc = "write"]
<1>1. call[k].pc = "syncRoot" /\ call[k].op = "claim" /\ c \in Capabilities /\ Claiming(k, c)
  BY Zenon DEF SyncRoot, CallInv, TypeOK, PublishSteps, Claiming
<1>2. /\ r \in CallRecords /\ r.pc = "write" /\ r.op = "claim" /\ r.cap = c
      /\ r.store = call[k].store /\ r.auth = call[k].auth
  BY ZenonT(40), <1>1 DEF TypeOK, CallRecords, Steps, PublishSteps
<1>3. /\ call' = [call EXCEPT ![k] = r]
      /\ disk' = [disk EXCEPT !.dirs = fs.dirs]
      /\ UNCHANGED <<fs, trustedRootPromise, handleState, granted, completed>>
  BY DEF SyncRoot, Goto
<1> HIDE DEF r
<1>4. /\ call'[k] = r /\ call' \in [Calls -> CallRecords]
      /\ \A l \in Calls \ {k} : call'[l] = call[l]
  BY <1>2, <1>3 DEF TypeOK, CallRecords
<1>5. /\ disk' \in FileSystem
      /\ disk'.root = disk.root /\ disk'.dirs = fs.dirs
      /\ disk'.claim = disk.claim /\ disk'.terminal = disk.terminal
  BY Zenon, <1>3 DEF TypeOK, FileSystem
<1>6. TypeOK'
  BY <1>3, <1>4, <1>5 DEF TypeOK, CallRecords
<1>7. CallInv'
  BY <1>1, <1>2, <1>4 DEF CallInv, PublishSteps
<1>8. DiskInv'
  BY <1>3, <1>5 DEF DiskInv
<1>9. ClaimInv'
  <2>1. \A l \in Calls, d \in Capabilities : Claiming(l, d)' => Claiming(l, d)
    BY <1>1, <1>2, <1>4 DEF Claiming, PublishSteps
  <2>2. QED
    BY <1>2, <1>3, <1>4, <1>5, <2>1 DEF ClaimInv
<1>10. HandleInv' /\ CompleteInv'
  BY <1>1, <1>2, <1>3, <1>4, <1>5 DEF HandleInv, CompleteInv, Completing
<1>11. SingleClaim' /\ ClaimIsDurable' /\ CompletionIsDurable' /\ TerminalNeedsGrant'
  BY <1>3, <1>5 DEF SingleClaim, ClaimIsDurable, CompletionIsDurable, TerminalNeedsGrant, DiskInv
<1>12. QED
  BY <1>6, <1>7, <1>8, <1>9, <1>10, <1>11

\* link of claim.json by the only running claim() of its capability.
LEMMA LinkClaimStep ==
    ASSUME IndInv, NEW k \in Calls, LinkClaim(k), fs.claim[call[k].cap] = None
    PROVE  IndInv'
<1> USE DEF IndInv
<1> DEFINE c == call[k].cap
           r == [call[k] EXCEPT !.pc = "unlink"]
           rec == [auth |-> call[k].auth, data |-> "synced"]
<1>1. /\ call[k].pc = "link" /\ call[k].op = "claim" /\ c \in Capabilities
      /\ call[k].auth \in Authorizations /\ call[k].temp = "synced" /\ Claiming(k, c)
  BY DEF LinkClaim, CallInv, PublishSteps, Claiming
<1>2. /\ r \in CallRecords /\ r.pc = "unlink" /\ r.op = "claim" /\ r.cap = c
      /\ r.store = call[k].store /\ r.auth = call[k].auth
  <2>1. "unlink" \in Steps
    BY DEF Steps, PublishSteps
  <2>2. QED
    BY <1>1, <2>1, CallAt
<1>3. /\ call' = [call EXCEPT ![k] = r]
      /\ fs' = [fs EXCEPT !.claim = [fs.claim EXCEPT ![c] = rec]]
      /\ UNCHANGED <<disk, trustedRootPromise, handleState, granted, completed>>
  BY <1>1 DEF LinkClaim, Goto
<1>4. rec \in ClaimRecords /\ rec.data = "synced" /\ rec # None
  BY <1>1, NoneAssumption DEF ClaimRecords, Contents
<1> HIDE DEF r
<1>5. /\ call'[k] = r /\ call' \in [Calls -> CallRecords]
      /\ \A l \in Calls \ {k} : call'[l] = call[l]
  BY <1>2, <1>3 DEF TypeOK, CallRecords
<1>6. /\ fs' \in FileSystem
      /\ fs'.root = fs.root /\ fs'.dirs = fs.dirs /\ fs'.terminal = fs.terminal
      /\ fs'.claim[c] = rec
      /\ \A d \in Capabilities \ {c} : fs'.claim[d] = fs.claim[d]
  BY Zenon, <1>1, <1>3, <1>4 DEF TypeOK, FileSystem
<1>7. TypeOK'
  BY <1>3, <1>5, <1>6 DEF TypeOK, CallRecords
<1>8. CallInv'
  BY <1>1, <1>2, <1>5 DEF CallInv, PublishSteps
<1>9. DiskInv'
  BY <1>3, <1>4, <1>6 DEF DiskInv
<1>10. ClaimInv'
  <2>1. \A l \in Calls, d \in Capabilities : Claiming(l, d)' =>
            Claiming(l, d) /\ (l = k <=> d = c)
    BY <1>1, <1>2, <1>5 DEF Claiming, ClaimInv, PublishSteps
  <2>2. QED
    BY <1>1, <1>2, <1>3, <1>5, <1>6, <2>1 DEF ClaimInv
<1>11. HandleInv' /\ CompleteInv'
  BY <1>1, <1>2, <1>3, <1>5, <1>6 DEF HandleInv, CompleteInv, Completing
<1>12. SingleClaim' /\ ClaimIsDurable' /\ CompletionIsDurable' /\ TerminalNeedsGrant'
  BY <1>3, <1>6 DEF SingleClaim, ClaimIsDurable, CompletionIsDurable, TerminalNeedsGrant
<1>13. QED
  BY <1>7, <1>8, <1>9, <1>10, <1>11, <1>12

\* link of terminal.json by the only complete() of its capability.
LEMMA LinkTerminalStep ==
    ASSUME IndInv, NEW k \in Calls, LinkTerminal(k), fs.terminal[call[k].cap] = None
    PROVE  IndInv'
<1> USE DEF IndInv
<1> DEFINE c == call[k].cap
           r == [call[k] EXCEPT !.pc = "unlink"]
           rec == [auth |-> call[k].auth, outcome |-> call[k].outcome, data |-> "synced"]
<1>1. /\ call[k].pc = "link" /\ call[k].op = "complete" /\ c \in Capabilities
      /\ call[k].store \in Stores
      /\ call[k].auth \in Authorizations /\ call[k].outcome \in Outcomes
      /\ call[k].temp = "synced" /\ Completing(k, c)
  BY DEF LinkTerminal, CallInv, Completing
<1>2. /\ r \in CallRecords /\ r.pc = "unlink" /\ r.op = "complete" /\ r.cap = c
      /\ r.store = call[k].store /\ r.auth = call[k].auth /\ r.outcome = call[k].outcome
  <2>1. "unlink" \in Steps
    BY DEF Steps, PublishSteps
  <2>2. QED
    BY <1>1, <2>1, CallAt
<1>3. /\ call' = [call EXCEPT ![k] = r]
      /\ fs' = [fs EXCEPT !.terminal = [fs.terminal EXCEPT ![c] = rec]]
      /\ UNCHANGED <<disk, trustedRootPromise, handleState, granted, completed>>
  BY <1>1 DEF LinkTerminal, Goto
<1>4. rec \in TerminalRecords /\ rec.data = "synced" /\ rec.auth = call[k].auth /\ rec # None
  BY <1>1, NoneAssumption DEF TerminalRecords, Contents
<1>5. /\ handleState[call[k].store][c] = [state |-> "FINALIZING", auth |-> call[k].auth]
      /\ handleState[call[k].store][c] # None
      /\ handleState[call[k].store][c].state = "FINALIZING"
      /\ handleState[call[k].store][c].auth = call[k].auth
  <2>1. handleState[call[k].store][c] = [state |-> "FINALIZING", auth |-> call[k].auth]
    BY Zenon, <1>1 DEF CompleteInv
  <2>2. [state |-> "FINALIZING", auth |-> call[k].auth] \in Handles
    BY <1>1 DEF Handles, HandleStates
  <2>3. QED
    BY <2>1, <2>2, NoneAssumption
<1>6. /\ granted[c] # <<>> /\ granted[c][1] = call[k].auth
      /\ \A t \in Stores : handleState[t][c] # None => handleState[t][c].state = "FINALIZING"
  BY <1>1, <1>5 DEF HandleInv
<1> HIDE DEF r
<1>7. /\ call'[k] = r /\ call' \in [Calls -> CallRecords]
      /\ \A l \in Calls \ {k} : call'[l] = call[l]
  BY <1>2, <1>3 DEF TypeOK, CallRecords
<1>8. /\ fs' \in FileSystem
      /\ fs'.root = fs.root /\ fs'.dirs = fs.dirs /\ fs'.claim = fs.claim
      /\ fs'.terminal[c] = rec
      /\ \A d \in Capabilities \ {c} : fs'.terminal[d] = fs.terminal[d]
  BY Zenon, <1>1, <1>3, <1>4 DEF TypeOK, FileSystem
<1>9. TypeOK'
  BY <1>3, <1>7, <1>8 DEF TypeOK, CallRecords
<1>10. CallInv'
  BY <1>1, <1>2, <1>7 DEF CallInv, PublishSteps
<1>11. DiskInv'
  BY <1>3, <1>4, <1>8 DEF DiskInv
<1>12. ClaimInv'
  BY <1>1, <1>2, <1>3, <1>7, <1>8 DEF ClaimInv, Claiming
<1>13. HandleInv'
  BY <1>3, <1>6, <1>8 DEF HandleInv, Outcomes
<1>14. CompleteInv'
  <2>1. \A l \in Calls, d \in Capabilities : Completing(l, d)' =>
            Completing(l, d) /\ (l = k <=> d = c)
    BY <1>1, <1>2, <1>7 DEF Completing, CompleteInv
  <2>2. QED
    BY <1>1, <1>2, <1>3, <1>7, <1>8, <2>1 DEF CompleteInv
<1>15. TerminalNeedsGrant'
  BY <1>3, <1>4, <1>6, <1>8 DEF TerminalNeedsGrant
<1>16. SingleClaim' /\ ClaimIsDurable' /\ CompletionIsDurable'
  BY <1>3 DEF SingleClaim, ClaimIsDurable, CompletionIsDurable
<1>17. QED
  BY <1>9, <1>10, <1>11, <1>12, <1>13, <1>14, <1>15, <1>16

\* The directory fsync that grants a claim.
LEMMA FinishClaimStep ==
    ASSUME IndInv, NEW k \in Calls, FinishClaim(k)
    PROVE  IndInv'
<1> USE DEF IndInv
<1> DEFINE s == call[k].store
           c == call[k].cap
           a == call[k].auth
           v == [state |-> "OPEN", auth |-> a]
<1>1. /\ call[k].pc = "syncDir" /\ call[k].op = "claim" /\ c \in Capabilities
      /\ s \in Stores /\ a \in Authorizations /\ Claiming(k, c)
  BY DEF FinishClaim, CallInv, PublishSteps, Claiming
<1>2. /\ disk.root /\ c \in disk.dirs /\ granted[c] = <<>>
      /\ fs.claim[c] = [auth |-> a, data |-> "synced"]
      /\ \A l \in Calls : Claiming(l, c) => l = k
  BY <1>1 DEF ClaimInv
<1>3. fs.terminal[c] = None /\ completed[c] = <<>>
  BY Zenon, <1>1, <1>2 DEF TerminalNeedsGrant, CompletionIsDurable
<1>4. \A t \in Stores : handleState[t][c] = None
  BY <1>1, <1>2 DEF HandleInv
<1>5. \A l \in Calls : ~Completing(l, c)
  <2>1. SUFFICES ASSUME NEW l \in Calls, Completing(l, c) PROVE FALSE
    OBVIOUS
  <2>2. /\ handleState[call[l].store][c] = [state |-> "FINALIZING", auth |-> call[l].auth]
        /\ call[l].store \in Stores /\ call[l].auth \in Authorizations
    BY Zenon, <1>1, <2>1 DEF CompleteInv, Completing, CallInv, PublishSteps
  <2>3. handleState[call[l].store][c] \in Handles
    BY <2>2 DEF Handles, HandleStates
  <2>4. QED
    BY <1>4, <2>2, <2>3, NoneAssumption
<1>6. v \in Handles /\ v # None /\ v.state = "OPEN" /\ v.auth = a
  BY <1>1, NoneAssumption DEF Handles, HandleStates
<1>7. /\ call' = [call EXCEPT ![k] = Idle]
      /\ handleState' = [handleState EXCEPT ![s] = [handleState[s] EXCEPT ![c] = v]]
      /\ granted' = [granted EXCEPT ![c] = Append(granted[c], a)]
      /\ disk' = [disk EXCEPT !.claim = [disk.claim EXCEPT ![c] = fs.claim[c]],
                              !.terminal = [disk.terminal EXCEPT ![c] = fs.terminal[c]]]
      /\ UNCHANGED <<fs, trustedRootPromise, completed>>
  BY DEF FinishClaim, Return, SyncedDirectory
<1>8. Idle \in CallRecords /\ Idle.pc = "idle" /\ Idle.op = "none"
  BY DEF Idle, CallRecords, Steps
<1>9. /\ call'[k] = Idle /\ call' \in [Calls -> CallRecords]
      /\ \A l \in Calls \ {k} : call'[l] = call[l]
  BY <1>7, <1>8 DEF TypeOK, CallRecords
<1>10. handleState \in [Stores -> [Capabilities -> Handles \union {None}]]
  BY DEF TypeOK
<1>11. /\ handleState' \in [Stores -> [Capabilities -> Handles \union {None}]]
       /\ handleState'[s][c] = v
       /\ \A t \in Stores, d \in Capabilities :
             t # s \/ d # c => handleState'[t][d] = handleState[t][d]
  <2> HIDE DEF v
  <2>1. QED
    BY <1>1, <1>6, <1>7, <1>10, HandleUpdate
<1>12. /\ granted' \in [Capabilities -> Seq(Authorizations)]
       /\ granted'[c] = <<a>> /\ granted'[c] # <<>> /\ granted'[c][1] = a /\ Len(granted'[c]) = 1
       /\ \A d \in Capabilities \ {c} : granted'[d] = granted[d]
  <2>1. Append(granted[c], a) = <<a>>
    BY SMTT(40), <1>2
  <2>2. QED
    BY <1>1, <1>7, <2>1 DEF TypeOK
<1>13. /\ disk' \in FileSystem
       /\ disk'.root = disk.root /\ disk'.dirs = disk.dirs
       /\ disk'.claim[c] = fs.claim[c] /\ disk'.terminal[c] = fs.terminal[c]
       /\ \A d \in Capabilities \ {c} : /\ disk'.claim[d] = disk.claim[d]
                                        /\ disk'.terminal[d] = disk.terminal[d]
  <2>1. /\ disk \in FileSystem
        /\ fs.claim[c] \in ClaimRecords \union {None}
        /\ fs.terminal[c] \in TerminalRecords \union {None}
    BY <1>1 DEF TypeOK, FileSystem
  <2>2. QED
    BY Zenon, <1>1, <1>7, <2>1 DEF FileSystem
<1> HIDE DEF s, c, a, v
<1>14. TypeOK'
  BY <1>7, <1>9, <1>11, <1>12, <1>13 DEF TypeOK, CallRecords
<1>15. CallInv'
  BY <1>8, <1>9 DEF CallInv, PublishSteps
<1>16. DiskInv'
  BY <1>1, <1>7, <1>13 DEF DiskInv
<1>17. ClaimInv'
  <2>1. \A l \in Calls, d \in Capabilities : Claiming(l, d)' => Claiming(l, d) /\ l # k /\ d # c
    BY <1>2, <1>8, <1>9 DEF Claiming
  <2>2. QED
    BY <1>7, <1>9, <1>12, <1>13, <2>1 DEF ClaimInv
<1>18. HandleInv'
  <2>1. ASSUME NEW t \in Stores, NEW d \in Capabilities \ {c}, handleState'[t][d] # None
        PROVE  /\ \A r \in Stores : handleState'[r][d] # None => r = t
               /\ granted'[d] # <<>>
               /\ handleState'[t][d].auth = granted'[d][1]
               /\ handleState'[t][d].state = "OPEN" => fs'.terminal[d] = None
               /\ handleState'[t][d].state \in Outcomes =>
                     /\ disk'.terminal[d] # None
                     /\ disk'.terminal[d].outcome = handleState'[t][d].state
    <3>1. /\ \A r \in Stores : handleState'[r][d] = handleState[r][d]
          /\ granted'[d] = granted[d] /\ fs' = fs /\ disk'.terminal[d] = disk.terminal[d]
      BY <1>7, <1>11, <1>12, <1>13
    <3>2. QED
      BY <2>1, <3>1 DEF HandleInv
  <2>2. ASSUME NEW t \in Stores, handleState'[t][c] # None
        PROVE  t = s
    BY <1>1, <1>4, <1>11, <2>2
  <2>3. "OPEN" \notin Outcomes
    BY DEF Outcomes
  <2>4. /\ handleState'[s][c].auth = granted'[c][1] /\ granted'[c] # <<>>
        /\ handleState'[s][c].state \notin Outcomes /\ fs'.terminal[c] = None
    BY <1>3, <1>6, <1>7, <1>11, <1>12, <2>3
  <2>5. QED
    BY <2>1, <2>2, <2>4 DEF HandleInv
<1>19. CompleteInv'
  <2>1. \A l \in Calls, d \in Capabilities : Completing(l, d)' =>
            Completing(l, d) /\ l # k /\ d # c /\ call[l].store \in Stores
    BY SMTT(40), <1>5, <1>8, <1>9 DEF Completing, CallInv, PublishSteps
  <2>2. QED
    BY <1>7, <1>9, <1>11, <2>1 DEF CompleteInv
<1>20. SingleClaim' /\ ClaimIsDurable'
  <2>1. SingleClaim'
    <3>1. Len(granted'[c]) <= 1
      BY <1>12
    <3>2. \A d \in Capabilities \ {c} : Len(granted'[d]) <= 1
      BY <1>12 DEF SingleClaim
    <3>3. QED
      BY <3>1, <3>2 DEF SingleClaim
  <2>2. disk'.claim[c] = [auth |-> granted'[c][1], data |-> "synced"]
    BY <1>2, <1>12, <1>13 DEF a
  <2>3. QED
    BY SMTT(40), <1>2, <1>12, <1>13, <2>1, <2>2 DEF ClaimIsDurable
<1>21. CompletionIsDurable' /\ TerminalNeedsGrant'
  BY <1>1, <1>3, <1>7, <1>12, <1>13 DEF CompletionIsDurable, TerminalNeedsGrant
<1>22. QED
  BY <1>14, <1>15, <1>16, <1>17, <1>18, <1>19, <1>20, <1>21

\* The directory fsync that completes a claim.
LEMMA AppendToEmpty == ASSUME NEW s, NEW e, s = <<>> PROVE Append(s, e) = <<e>>
  OBVIOUS

LEMMA FinishCompleteStep ==
    ASSUME IndInv, NEW k \in Calls, FinishComplete(k)
    PROVE  IndInv'
<1> USE DEF IndInv
<1> DEFINE s == call[k].store
           c == call[k].cap
           a == call[k].auth
           o == call[k].outcome
           v == [handleState[s][c] EXCEPT !.state = o]
<1>1. /\ call[k].pc = "syncDir" /\ call[k].op = "complete" /\ c \in Capabilities
      /\ s \in Stores /\ a \in Authorizations /\ o \in Outcomes /\ Completing(k, c)
  BY DEF FinishComplete, CallInv, Completing
<1>2. /\ handleState[s][c] = [state |-> "FINALIZING", auth |-> a]
      /\ completed[c] = <<>>
      /\ fs.terminal[c] = [auth |-> a, outcome |-> o, data |-> "synced"]
      /\ \A l \in Calls : Completing(l, c) => l = k
  BY <1>1 DEF CompleteInv
<1>3. /\ handleState[s][c] \in Handles /\ handleState[s][c] # None
      /\ handleState[s][c].auth = a
      /\ v \in Handles /\ v # None /\ v.state = o /\ v.auth = a
  <2>1. handleState[s][c] \in Handles
    BY <1>1, <1>2 DEF Handles, HandleStates
  <2>2. v \in Handles /\ v.state = o /\ v.auth = a
    BY SMTT(40), <1>1, <1>2, <2>1 DEF Handles, HandleStates
  <2>3. QED
    BY <1>2, <2>1, <2>2, NoneAssumption
<1>4. /\ granted[c] # <<>> /\ granted[c][1] = a
      /\ \A t \in Stores : handleState[t][c] # None => t = s
  BY Zenon, <1>1, <1>3 DEF HandleInv
<1>5. fs.terminal[c] # None /\ fs.terminal[c].outcome = o
  <2>1. fs.terminal[c] \in TerminalRecords
    BY <1>1, <1>2 DEF TerminalRecords, Contents
  <2>2. QED
    BY SMTT(40), <1>2, <2>1, NoneAssumption
<1>6. /\ disk.root /\ c \in disk.dirs
      /\ disk.claim[c] = [auth |-> a, data |-> "synced"] /\ fs.claim[c] = disk.claim[c]
  <2>1. /\ disk.root /\ c \in disk.dirs
        /\ disk.claim[c] = [auth |-> a, data |-> "synced"]
    BY <1>1, <1>4 DEF ClaimIsDurable
  <2>2. disk.claim[c] \in ClaimRecords
    BY SMTT(40), <1>1, <2>1 DEF ClaimRecords, Contents
  <2>3. QED
    BY SMTT(40), <1>1, <2>1, <2>2, NoneAssumption DEF DiskInv
<1>7. /\ call' = [call EXCEPT ![k] = Idle]
      /\ handleState' = [handleState EXCEPT ![s] = [handleState[s] EXCEPT ![c] = v]]
      /\ completed' = [completed EXCEPT ![c] = Append(completed[c], o)]
      /\ disk' = [disk EXCEPT !.claim = [disk.claim EXCEPT ![c] = fs.claim[c]],
                              !.terminal = [disk.terminal EXCEPT ![c] = fs.terminal[c]]]
      /\ UNCHANGED <<fs, trustedRootPromise, granted>>
  BY DEF FinishComplete, Return, SyncedDirectory
<1>8. Idle \in CallRecords /\ Idle.pc = "idle" /\ Idle.op = "none"
  BY DEF Idle, CallRecords, Steps
<1>9. /\ call'[k] = Idle /\ call' \in [Calls -> CallRecords]
      /\ \A l \in Calls \ {k} : call'[l] = call[l]
  BY SMTT(40), <1>7, <1>8 DEF TypeOK, CallRecords
<1>10. handleState \in [Stores -> [Capabilities -> Handles \union {None}]]
  BY DEF TypeOK
<1>11. /\ handleState' \in [Stores -> [Capabilities -> Handles \union {None}]]
       /\ handleState'[s][c] = v
       /\ \A t \in Stores, d \in Capabilities :
             t # s \/ d # c => handleState'[t][d] = handleState[t][d]
  <2> HIDE DEF v
  <2>1. QED
    BY <1>1, <1>3, <1>7, <1>10, HandleUpdate
<1>12. /\ completed' \in [Capabilities -> Seq(Outcomes)]
       /\ completed'[c] # <<>> /\ completed'[c][1] = o /\ Len(completed'[c]) = 1
       /\ \A d \in Capabilities \ {c} : completed'[d] = completed[d]
  <2>1. completed[c] = <<>>
    BY <1>2
  <2>2. Append(completed[c], o) = <<o>>
    BY <2>1, AppendToEmpty
  <2>3. QED
    BY <1>1, <1>7, <2>2 DEF TypeOK
<1>13. /\ disk' \in FileSystem
       /\ disk'.root = disk.root /\ disk'.dirs = disk.dirs
       /\ disk'.terminal[c] = fs.terminal[c]
       /\ \A d \in Capabilities : disk'.claim[d] = disk.claim[d]
       /\ \A d \in Capabilities \ {c} : disk'.terminal[d] = disk.terminal[d]
  <2>1. /\ disk \in FileSystem
        /\ fs.claim[c] \in ClaimRecords \union {None}
        /\ fs.terminal[c] \in TerminalRecords \union {None}
    BY <1>1 DEF TypeOK, FileSystem
  <2>2. QED
    BY Zenon, <1>1, <1>6, <1>7, <2>1 DEF FileSystem
<1>14. disk'.terminal[c] = [auth |-> granted'[c][1], outcome |-> completed'[c][1],
                            data |-> "synced"]
  BY <1>2, <1>4, <1>7, <1>12, <1>13
<1> HIDE DEF s, c, a, o, v
<1>15. TypeOK'
  BY <1>7, <1>9, <1>11, <1>12, <1>13 DEF TypeOK, CallRecords
<1>16. CallInv' /\ SingleClaim'
  BY <1>7, <1>8, <1>9 DEF CallInv, PublishSteps, SingleClaim
<1>17. DiskInv'
  BY <1>1, <1>7, <1>13 DEF DiskInv
<1>18. ClaimInv'
  <2>1. \A l \in Calls, d \in Capabilities : Claiming(l, d)' => Claiming(l, d) /\ l # k
    BY SMTT(40), <1>8, <1>9 DEF Claiming
  <2>2. QED
    BY <1>7, <1>9, <1>13, <2>1 DEF ClaimInv
<1>19. HandleInv'
  <2>1. ASSUME NEW t \in Stores, NEW d \in Capabilities \ {c}, handleState'[t][d] # None
        PROVE  /\ \A r \in Stores : handleState'[r][d] # None => r = t
               /\ granted'[d] # <<>>
               /\ handleState'[t][d].auth = granted'[d][1]
               /\ handleState'[t][d].state = "OPEN" => fs'.terminal[d] = None
               /\ handleState'[t][d].state \in Outcomes =>
                     /\ disk'.terminal[d] # None
                     /\ disk'.terminal[d].outcome = handleState'[t][d].state
    <3>1. /\ \A r \in Stores : handleState'[r][d] = handleState[r][d]
          /\ granted' = granted /\ fs' = fs /\ disk'.terminal[d] = disk.terminal[d]
      BY <1>7, <1>11, <1>13
    <3>2. QED
      BY <2>1, <3>1 DEF HandleInv
  <2>2. ASSUME NEW t \in Stores, handleState'[t][c] # None
        PROVE  t = s
    BY <1>1, <1>4, <1>11, <2>2
  <2>3. o # "OPEN"
    BY <1>1 DEF Outcomes
  <2>4. /\ handleState'[s][c].auth = granted'[c][1] /\ granted'[c] # <<>>
        /\ handleState'[s][c].state # "OPEN"
        /\ disk'.terminal[c] # None /\ disk'.terminal[c].outcome = handleState'[s][c].state
    BY <1>3, <1>4, <1>5, <1>7, <1>11, <1>13, <2>3
  <2>5. QED
    BY SMTT(40), <2>1, <2>2, <2>4 DEF HandleInv
<1>20. CompleteInv'
  <2>1. \A l \in Calls, d \in Capabilities : Completing(l, d)' =>
            Completing(l, d) /\ l # k /\ d # c /\ call[l].store \in Stores
    BY <1>2, <1>8, <1>9 DEF Completing, CallInv, PublishSteps
  <2>2. QED
    BY SMTT(40), <1>7, <1>9, <1>11, <1>12, <2>1 DEF CompleteInv
<1>21. ClaimIsDurable' /\ TerminalNeedsGrant'
  BY <1>7, <1>13 DEF ClaimIsDurable, TerminalNeedsGrant
<1>22. CompletionIsDurable'
  BY <1>1, <1>4, <1>7, <1>12, <1>13, <1>14 DEF CompletionIsDurable
<1>23. QED
  BY SMTT(40), <1>15, <1>16, <1>17, <1>18, <1>19, <1>20, <1>21, <1>22

\* A process dies: its calls and handles go, nothing appears.
LEMMA ProcessCrashStep ==
    ASSUME IndInv, NEW s \in Stores, ProcessCrash(s)
    PROVE  IndInv'
<1> USE DEF IndInv
<1>1. UNCHANGED <<fs, disk, granted, completed>>
  BY DEF ProcessCrash
<1>2. Idle \in CallRecords /\ Idle.pc = "idle" /\ Idle.op = "none"
  BY DEF Idle, CallRecords, Steps
<1>3. /\ call' \in [Calls -> CallRecords]
      /\ \A l \in Calls : \/ call'[l] = Idle
                          \/ call'[l] = call[l] /\ call[l].store # s
  <2>1. call \in [Calls -> CallRecords]
    BY DEF TypeOK, CallRecords
  <2>2. QED
    BY <1>2, <2>1 DEF ProcessCrash
<1>4. /\ handleState' \in [Stores -> [Capabilities -> Handles \union {None}]]
      /\ \A t \in Stores, c \in Capabilities :
            handleState'[t][c] = IF t = s THEN None ELSE handleState[t][c]
  BY DEF ProcessCrash, TypeOK
<1>5. /\ trustedRootPromise' \in [Stores -> {"none", "pending", "trusted", "rejected"}]
      /\ \A t \in Stores : trustedRootPromise'[t] = "trusted" => trustedRootPromise[t] = "trusted"
  BY DEF ProcessCrash, TypeOK
<1>6. TypeOK'
  BY SMTT(40), <1>1, <1>3, <1>4, <1>5 DEF TypeOK, CallRecords
<1>7. CallInv'
  BY SMTT(40), <1>2, <1>3 DEF CallInv, PublishSteps
<1>8. DiskInv'
  BY <1>1, <1>5 DEF DiskInv
<1>9. ClaimInv'
  <2>1. \A l \in Calls, d \in Capabilities :
            Claiming(l, d)' => Claiming(l, d) /\ call'[l] = call[l]
    BY <1>2, <1>3 DEF Claiming
  <2>2. QED
    BY <1>1, <2>1 DEF ClaimInv
<1>10. HandleInv'
  BY SMTT(40), <1>1, <1>4 DEF HandleInv
<1>11. CompleteInv'
  <2>1. \A l \in Calls, d \in Capabilities : Completing(l, d)' =>
            /\ Completing(l, d) /\ call'[l] = call[l]
            /\ call[l].store # s /\ call[l].store \in Stores
    BY SMTT(40), <1>2, <1>3 DEF Completing, CallInv, PublishSteps
  <2>2. ASSUME NEW d \in Capabilities, NEW l \in Calls, Completing(l, d)'
        PROVE  /\ handleState'[call'[l].store][d] =
                     [state |-> "FINALIZING", auth |-> call'[l].auth]
               /\ completed'[d] = <<>>
               /\ IF call'[l].pc \in {"unlink", "syncDir"}
                  THEN fs'.terminal[d] = [auth |-> call'[l].auth, outcome |-> call'[l].outcome,
                                          data |-> "synced"]
                  ELSE fs'.terminal[d] = None
    <3>1. /\ Completing(l, d) /\ call'[l] = call[l]
          /\ call[l].store # s /\ call[l].store \in Stores
      BY <2>1, <2>2
    <3>2. handleState'[call[l].store][d] = handleState[call[l].store][d]
      BY SMTT(40), <1>4, <3>1
    <3>3. QED
      BY <1>1, <3>1, <3>2 DEF CompleteInv
  <2>3. \A d \in Capabilities : \A k, l \in Calls :
            Completing(k, d)' /\ Completing(l, d)' => k = l
    BY SMTT(40), <2>1 DEF CompleteInv
  <2>4. QED
    BY <2>2, <2>3 DEF CompleteInv
<1>12. SingleClaim' /\ ClaimIsDurable' /\ CompletionIsDurable' /\ TerminalNeedsGrant'
  BY SMTT(40), <1>1 DEF SingleClaim, ClaimIsDurable, CompletionIsDurable, TerminalNeedsGrant
<1>13. QED
  BY <1>6, <1>7, <1>8, <1>9, <1>10, <1>11, <1>12

\* Power loss: what is safe stays, and every record that stays is whole.
LEMMA PowerLossStep ==
    ASSUME IndInv, PowerLoss
    PROVE  IndInv'
<1> USE DEF IndInv
<1>1. PICK root \in {disk.root, fs.root},
           dirs \in SUBSET fs.dirs,
           claims \in SUBSET {c \in Capabilities : fs.claim[c] # None},
           terminals \in SUBSET {c \in Capabilities : fs.terminal[c] # None} :
               /\ disk.dirs \subseteq dirs
               /\ {c \in Capabilities : disk.claim[c] # None} \subseteq claims
               /\ {c \in Capabilities : disk.terminal[c] # None} \subseteq terminals
               /\ fs' = Remains(root, dirs, claims, terminals)
               /\ disk' = fs'
  BY DEF PowerLoss
<1>2. /\ UNCHANGED <<granted, completed>>
      /\ trustedRootPromise' = [s \in Stores |-> "none"]
      /\ handleState' = [s \in Stores |-> [c \in Capabilities |-> None]]
      /\ call' = [k \in Calls |-> Idle]
  BY DEF PowerLoss
<1>3. Idle \in CallRecords /\ Idle.pc = "idle" /\ Idle.op = "none"
  BY DEF Idle, CallRecords, Steps
<1>4. \A c \in Capabilities : /\ AfterPowerLoss(fs.claim[c]) = fs.claim[c]
                              /\ AfterPowerLoss(fs.terminal[c]) = fs.terminal[c]
  BY DEF AfterPowerLoss, DiskInv
<1>5. /\ fs'.root = root
      /\ fs'.dirs = IF root THEN dirs ELSE {}
      /\ \A c \in Capabilities :
            /\ fs'.claim[c] = IF root /\ c \in dirs /\ c \in claims THEN fs.claim[c] ELSE None
            /\ fs'.terminal[c] = IF root /\ c \in dirs /\ c \in terminals
                                 THEN fs.terminal[c] ELSE None
  BY <1>1, <1>4 DEF Remains
<1>6. fs' \in FileSystem
  <2>1. root \in BOOLEAN /\ dirs \in SUBSET Capabilities
    BY DEF TypeOK, FileSystem
  <2>2. \A c \in Capabilities : /\ fs.claim[c] \in ClaimRecords \union {None}
                                /\ fs.terminal[c] \in TerminalRecords \union {None}
    BY SMTT(40) DEF TypeOK, FileSystem
  <2>3. QED
    BY <1>1, <1>4, <2>1, <2>2 DEF Remains, FileSystem
<1>7. TypeOK'
  <2>1. /\ call' \in [Calls -> CallRecords]
        /\ handleState' \in [Stores -> [Capabilities -> Handles \union {None}]]
        /\ trustedRootPromise' \in [Stores -> {"none", "pending", "trusted", "rejected"}]
    BY SMTT(40), <1>2, <1>3
  <2>2. QED
    BY <1>1, <1>2, <1>6, <2>1 DEF TypeOK, CallRecords
<1>8. CallInv' /\ ClaimInv' /\ CompleteInv'
  BY Zenon, <1>2, <1>3 DEF CallInv, ClaimInv, CompleteInv, Claiming, Completing, PublishSteps
<1>9. HandleInv'
  BY SMTT(40), <1>2 DEF HandleInv
<1>10. DiskInv'
  <2>1. disk' = fs' /\ \A s \in Stores : trustedRootPromise'[s] # "trusted"
    BY <1>1, <1>2
  <2>2. \A c \in Capabilities : /\ fs'.claim[c] # None => fs'.claim[c].data = "synced"
                                /\ fs'.terminal[c] # None => fs'.terminal[c].data = "synced"
    BY <1>5 DEF DiskInv
  <2> QED
    BY <2>1, <2>2 DEF DiskInv
<1>11. \A c \in Capabilities : granted[c] # <<>> =>
          /\ root /\ c \in dirs /\ c \in claims /\ fs.claim[c] = disk.claim[c]
          /\ disk.terminal[c] # None => c \in terminals /\ fs.terminal[c] = disk.terminal[c]
  <2>1. SUFFICES ASSUME NEW c \in Capabilities, granted[c] # <<>>
                 PROVE  /\ root /\ c \in dirs /\ c \in claims /\ fs.claim[c] = disk.claim[c]
                        /\ disk.terminal[c] # None =>
                              c \in terminals /\ fs.terminal[c] = disk.terminal[c]
    OBVIOUS
  <2>2. /\ disk.root /\ c \in disk.dirs
        /\ disk.claim[c] = [auth |-> granted[c][1], data |-> "synced"]
    BY <2>1 DEF ClaimIsDurable
  <2>3. granted[c][1] \in Authorizations
    <3>1. granted[c] \in Seq(Authorizations)
      BY DEF TypeOK
    <3>2. QED
      BY <2>1, <3>1
  <2>4. disk.claim[c] \in ClaimRecords
    BY <2>2, <2>3 DEF ClaimRecords, Contents
  <2>5. disk.claim[c] # None
    BY SMTT(40), <2>4, NoneAssumption
  <2>6. QED
    BY Zenon, <1>1, <2>2, <2>5 DEF DiskInv
<1>12. SingleClaim' /\ ClaimIsDurable' /\ TerminalNeedsGrant'
  <2>1. disk' = fs' /\ granted' = granted
    BY <1>1, <1>2
  <2>2. SingleClaim'
    BY <2>1 DEF SingleClaim
  <2>3. ASSUME NEW c \in Capabilities, granted[c] # <<>>
        PROVE  /\ fs'.root /\ c \in fs'.dirs
               /\ fs'.claim[c] = [auth |-> granted[c][1], data |-> "synced"]
    <3>1. /\ root /\ c \in dirs /\ c \in claims /\ fs.claim[c] = disk.claim[c]
      BY <1>11, <2>3
    <3>2. disk.claim[c] = [auth |-> granted[c][1], data |-> "synced"]
      BY <2>3 DEF ClaimIsDurable
    <3> QED
      BY <1>5, <3>1, <3>2
  <2>4. ClaimIsDurable'
    BY <2>1, <2>3 DEF ClaimIsDurable
  <2>5. \A c \in Capabilities : fs'.terminal[c] \in {None, fs.terminal[c]}
    BY <1>5
  <2>6. TerminalNeedsGrant'
    BY <2>1, <2>5 DEF TerminalNeedsGrant
  <2> QED
    BY <2>2, <2>4, <2>6
<1>13. CompletionIsDurable'
  <2>1. SUFFICES ASSUME NEW c \in Capabilities, completed[c] # <<>>
                 PROVE  /\ Len(completed[c]) = 1 /\ granted[c] # <<>>
                        /\ disk'.terminal[c] = [auth |-> granted[c][1], outcome |-> completed[c][1],
                                                data |-> "synced"]
    BY <1>2 DEF CompletionIsDurable
  <2>2. /\ Len(completed[c]) = 1 /\ granted[c] # <<>>
        /\ disk.terminal[c] = [auth |-> granted[c][1], outcome |-> completed[c][1],
                               data |-> "synced"]
    BY <2>1 DEF CompletionIsDurable
  <2>3. granted[c][1] \in Authorizations /\ completed[c][1] \in Outcomes
    <3>1. granted[c] \in Seq(Authorizations) /\ completed[c] \in Seq(Outcomes)
      BY SMTT(40) DEF TypeOK
    <3>2. QED
      BY SMTT(40), <2>1, <2>2, <3>1
  <2>4. disk.terminal[c] \in TerminalRecords
    BY SMTT(40), <2>2, <2>3 DEF TerminalRecords, Contents
  <2>5. disk.terminal[c] # None
    BY SMTT(40), <2>4, NoneAssumption
  <2>6. disk'.terminal[c] = disk.terminal[c]
    <3>1. root /\ c \in dirs /\ c \in terminals /\ fs.terminal[c] = disk.terminal[c]
      BY <1>11, <2>2, <2>5
    <3>2. fs'.terminal[c] = fs.terminal[c]
      BY <1>5, <3>1
    <3> QED
      BY <1>1, <3>1, <3>2
  <2>7. QED
    BY SMTT(40), <2>2, <2>6
<1>14. QED
  BY SMTT(40), <1>7, <1>8, <1>9, <1>10, <1>12, <1>13

\* The steps that end a call or move it on without touching the file system.
LEMMA CallStep ==
    ASSUME IndInv, NEW k \in Calls,
           \/ RootRejected(k) \/ WriteTemp(k) \/ SyncTemp(k) \/ UnlinkTemp(k)
           \/ Reread(k) \/ Lstat(k) \/ ReadClaim(k) \/ ReadTerminal(k) \/ IoError(k)
    PROVE  IndInv'
<1> USE DEF IndInv
<1>1. Idle \in CallRecords /\ Idle.pc = "idle" /\ Idle.op = "none"
  BY DEF Idle, CallRecords, Steps
<1>2. call[k] \in CallRecords
  BY DEF TypeOK, CallRecords
<1>3. ASSUME NEW code, Return(k, code), handleState' = handleState \/ FailClosed(k),
             UNCHANGED <<fs, disk, trustedRootPromise, granted, completed>>
      PROVE  IndInv'
  BY Zenon, <1>1, <1>3, EndCall DEF Return
<1>4. ASSUME NEW state, Report(k, state),
             UNCHANGED <<fs, disk, trustedRootPromise, handleState, granted, completed>>
      PROVE  IndInv'
  <2> DEFINE r == [Idle EXCEPT !.cap = call[k].cap, !.floor = call[k].floor]
  <2>1. r \in CallRecords /\ r.pc = "idle" /\ r.op = "none"
    BY ZenonT(40), <1>2 DEF Idle, CallRecords, Steps
  <2>2. call' = [call EXCEPT ![k] = r]
    BY <1>4 DEF Report
  <2> HIDE DEF r
  <2>3. QED
    BY Zenon, <1>4, <2>1, <2>2, EndCall
<1>5. CASE RootRejected(k)
  BY <1>3, <1>5 DEF RootRejected
<1>6. CASE IoError(k)
  BY <1>3, <1>6 DEF IoError
<1>7. CASE WriteTemp(k)
  <2> DEFINE r == [call[k] EXCEPT !.pc = "syncTemp", !.temp = "written"]
  <2>1. call' = [call EXCEPT ![k] = r]
    BY Zenon, <1>7 DEF WriteTemp, TypeOK
  <2>2. /\ r \in CallRecords /\ r.pc = "syncTemp" /\ r.op = call[k].op
        /\ r.store = call[k].store /\ r.cap = call[k].cap /\ r.auth = call[k].auth
        /\ r.outcome = call[k].outcome
    BY Zenon, <1>2 DEF CallRecords, Steps, PublishSteps
  <2> HIDE DEF r
  <2>3. QED
    BY Zenon, <1>7, <2>1, <2>2, AdvanceCall DEF WriteTemp, PublishSteps, CallInv
<1>8. CASE SyncTemp(k)
  <2> DEFINE r == [call[k] EXCEPT !.pc = "link", !.temp = "synced"]
  <2>1. call' = [call EXCEPT ![k] = r]
    BY Zenon, <1>8 DEF SyncTemp, TypeOK
  <2>2. /\ r \in CallRecords /\ r.pc = "link" /\ r.op = call[k].op
        /\ r.store = call[k].store /\ r.cap = call[k].cap /\ r.auth = call[k].auth
        /\ r.outcome = call[k].outcome /\ r.temp = "synced"
    BY Zenon, <1>2 DEF CallRecords, Steps, PublishSteps
  <2> HIDE DEF r
  <2>3. QED
    BY Zenon, <1>8, <2>1, <2>2, AdvanceCall DEF SyncTemp, PublishSteps, CallInv
<1>9. CASE UnlinkTemp(k)
  <2> DEFINE r == [call[k] EXCEPT !.pc = "syncDir", !.temp = "none"]
  <2>1. call' = [call EXCEPT ![k] = r]
    BY Zenon, <1>9 DEF UnlinkTemp, TypeOK
  <2>2. /\ r \in CallRecords /\ r.pc = "syncDir" /\ r.op = call[k].op
        /\ r.store = call[k].store /\ r.cap = call[k].cap /\ r.auth = call[k].auth
        /\ r.outcome = call[k].outcome
    BY Zenon, <1>2 DEF CallRecords, Steps, PublishSteps
  <2> HIDE DEF r
  <2>3. QED
    BY Zenon, <1>9, <2>1, <2>2, AdvanceCall DEF UnlinkTemp, PublishSteps, CallInv
<1>10. ASSUME NEW p \in {"write", "readClaim", "readTerminal"}, Goto(k, p),
              p = "write" => call[k].pc = "reread",
              p = "readClaim" => call[k].pc = "root" /\ call[k].op = "inspect",
              p = "readTerminal" => call[k].pc = "readClaim",
              UNCHANGED <<fs, disk, trustedRootPromise, handleState, granted, completed>>
       PROVE  IndInv'
  <2> DEFINE r == [call[k] EXCEPT !.pc = p]
  <2>1. call' = [call EXCEPT ![k] = r]
    BY <1>10 DEF Goto, TypeOK
  <2>2. p \in Steps
    BY DEF Steps, PublishSteps
  <2>3. /\ r \in CallRecords /\ r.pc = p /\ r.op = call[k].op
        /\ r.store = call[k].store /\ r.cap = call[k].cap /\ r.auth = call[k].auth
        /\ r.outcome = call[k].outcome
    BY <2>2, CallAt
  <2>4. IF p = "write" THEN call[k].op = "complete" ELSE call[k].op = "inspect"
    BY ZenonT(40), <1>10 DEF CallInv, PublishSteps, TypeOK
  <2> HIDE DEF r
  <2>5. QED
    BY Zenon, <1>10, <2>1, <2>3, <2>4, AdvanceCall DEF PublishSteps
<1>11. CASE Reread(k)
  BY Zenon, <1>3, <1>10, <1>11 DEF Reread
<1>12. CASE Lstat(k)
  BY <1>4, <1>10, <1>12 DEF Lstat
<1>13. CASE ReadClaim(k)
  BY SMTT(40), <1>4, <1>10, <1>13 DEF ReadClaim
<1>14. CASE ReadTerminal(k)
  BY <1>4, <1>14, ZenonT(60) DEF ReadTerminal
<1>15. QED
  BY <1>5, <1>6, <1>7, <1>8, <1>9, <1>11, <1>12, <1>13, <1>14

LEMMA NextIndInv == IndInv /\ [Next]_vars => IndInv'
<1> SUFFICES ASSUME IndInv, [Next]_vars PROVE IndInv'
  OBVIOUS
<1> USE DEF IndInv
<1>1. Idle \in CallRecords /\ Idle.pc = "idle" /\ Idle.op = "none"
  BY DEF Idle, CallRecords, Steps
<1>2. ASSUME NEW k \in Calls, NEW code, Return(k, code),
             handleState' = handleState \/ FailClosed(k),
             UNCHANGED <<fs, disk, trustedRootPromise, granted, completed>>
      PROVE  IndInv'
  BY Zenon, <1>1, <1>2, EndCall DEF Return
<1>3. ASSUME NEW k \in Calls, Begin(k) PROVE IndInv'
  <2>1. PICK s \in Stores, c \in Capabilities :
            \/ \E op \in {"claim", "inspect"}, a \in Authorizations : BeginOnRoot(k, s, op, c, a)
            \/ \E o \in Outcomes : BeginComplete(k, s, c, o)
            \/ StaleComplete(k, s, c)
            \/ InvalidOutcome(k, s, c)
    BY <1>3 DEF Begin
  <2>2. CASE StaleComplete(k, s, c) \/ InvalidOutcome(k, s, c)
    BY <1>2, <2>2 DEF StaleComplete, InvalidOutcome
  <2>3. QED
    BY <2>1, <2>2, BeginOnRootStep, BeginCompleteStep
<1>4. ASSUME NEW k \in Calls, Step(k) PROVE IndInv'
  <2>1. CASE Mkdir(k)
    BY <1>2, <2>1, MkdirStep DEF Mkdir
  <2>2. CASE LinkClaim(k)
    BY <1>2, <2>2, LinkClaimStep DEF LinkClaim
  <2>3. CASE LinkTerminal(k)
    BY <1>2, <2>3, LinkTerminalStep DEF LinkTerminal
  <2>4. QED
    BY <1>4, <2>1, <2>2, <2>3, CallStep, SyncRootStep, FinishClaimStep, FinishCompleteStep
       DEF Step
<1>5. ASSUME NEW s \in Stores, ResolveRoot(s) PROVE IndInv'
  <2>1. fs = [fs EXCEPT !.root = fs.root] /\ disk = [disk EXCEPT !.root = disk.root]
    BY DEF TypeOK, FileSystem
  <2>2. disk.root \in BOOLEAN /\ fs.root \in BOOLEAN
    BY DEF TypeOK, FileSystem
  <2>3. CASE TrustRoot(s)
    BY Zenon, <2>1, <2>2, <2>3, RootStep DEF TrustRoot, TypeOK
  <2>4. CASE RejectRoot(s)
    <3>1. /\ trustedRootPromise' \in [Stores -> {"none", "pending", "trusted", "rejected"}]
          /\ \A t \in Stores : trustedRootPromise'[t] = "trusted" => disk.root
      BY <2>4 DEF RejectRoot, TypeOK, DiskInv
    <3>2. QED
      BY <2>1, <2>2, <2>4, <3>1, RootStep DEF RejectRoot, DiskInv
  <2>5. QED
    BY <1>5, <2>3, <2>4 DEF ResolveRoot
<1>6. CASE ProvisionRoot
  <2>1. disk = [disk EXCEPT !.root = disk.root] /\ disk.root \in BOOLEAN
    BY DEF TypeOK, FileSystem
  <2>2. QED
    BY ZenonT(40), <1>6, <2>1, RootStep DEF ProvisionRoot, TypeOK, DiskInv
<1>7. CASE UNCHANGED vars
  <2> USE <1>7 DEF vars
  <2>1. TypeOK'
    BY DEF TypeOK
  <2>2. CallInv'
    BY DEF CallInv
  <2>3. DiskInv'
    BY DEF DiskInv
  <2>4. HandleInv'
    BY ZenonT(60) DEF HandleInv
  <2>5. ClaimInv'
    BY ZenonT(60) DEF ClaimInv, Claiming
  <2>6. CompleteInv'
    BY ZenonT(60) DEF CompleteInv, Completing
  <2>7. SingleClaim' /\ ClaimIsDurable' /\ CompletionIsDurable' /\ TerminalNeedsGrant'
    BY Zenon DEF SingleClaim, ClaimIsDurable, CompletionIsDurable, TerminalNeedsGrant
  <2>8. QED
    BY <2>1, <2>2, <2>3, <2>4, <2>5, <2>6, <2>7
<1>8. QED
  BY <1>3, <1>4, <1>5, <1>6, <1>7, ProcessCrashStep, PowerLossStep DEF Next

\* The inductive invariant holds in every reachable state.
THEOREM StoreInvariant == Spec => []IndInv
  BY InitIndInv, NextIndInv, PTL DEF Spec

\* Every reachable state is well typed.
THEOREM StoreTypes == Spec => []TypeOK
  BY StoreInvariant, PTL DEF IndInv

\* claim() is at-most-once for any number of stores, processes and calls, and
\* through every crash, power loss and I/O error.
THEOREM StoreClaimsOnce == Spec => []SingleClaim
  BY StoreInvariant, PTL DEF IndInv

\* A successful claim() is never lost.
THEOREM StoreClaimsDurably == Spec => []ClaimIsDurable
  BY StoreInvariant, PTL DEF IndInv

\* A successful complete() is the only one and is never lost.
THEOREM StoreCompletesDurably == Spec => []CompletionIsDurable
  BY StoreInvariant, PTL DEF IndInv

\* Terminal records belong to granted capabilities.
THEOREM StoreTerminatesGranted == Spec => []TerminalNeedsGrant
  BY StoreInvariant, PTL DEF IndInv

\* Handles and disk agree.
THEOREM StoreHandlesAgree == Spec => []HandleAgreesWithDisk
<1>1. IndInv => HandleAgreesWithDisk
  BY DEF IndInv, HandleInv, HandleAgreesWithDisk
<1>2. QED
  BY <1>1, StoreInvariant, PTL

-----------------------------------------------------------------------------
(* The safe part of the file system as a ledger *)

\* What is safe stays safe, and a terminal record becomes safe only after it was
\* published.
LEMMA DiskGrows ==
    ASSUME IndInv, [Next]_vars
    PROVE  /\ disk.root => disk'.root /\ disk.dirs \subseteq disk'.dirs
           /\ \A c \in Capabilities :
                 /\ disk.root /\ c \in disk.dirs =>
                       /\ disk.claim[c] # None => disk'.claim[c] = disk.claim[c]
                       /\ disk.terminal[c] # None => disk'.terminal[c] = disk.terminal[c]
                 /\ disk'.terminal[c] # None => fs.terminal[c] # None
<1>1. /\ disk \in FileSystem /\ fs \in FileSystem
      /\ disk.root => fs.root
      /\ disk.dirs \subseteq fs.dirs
      /\ \A c \in Capabilities : /\ disk.claim[c] # None => fs.claim[c] = disk.claim[c]
                                 /\ disk.terminal[c] # None => fs.terminal[c] = disk.terminal[c]
  BY DEF IndInv, TypeOK, DiskInv
<1>2. CASE disk' = disk
  BY <1>1, <1>2
<1>3. ASSUME NEW k \in Calls, SyncRoot(k) PROVE /\ disk'.root = disk.root /\ disk'.dirs = fs.dirs
                                                /\ disk'.claim = disk.claim
                                                /\ disk'.terminal = disk.terminal
  BY <1>1, <1>3 DEF SyncRoot, FileSystem
<1>4. ASSUME NEW s \in Stores, TrustRoot(s) PROVE /\ disk'.root /\ disk'.dirs = disk.dirs
                                                  /\ disk'.claim = disk.claim
                                                  /\ disk'.terminal = disk.terminal
  BY <1>1, <1>4 DEF TrustRoot, FileSystem
<1>5. ASSUME NEW d, disk' = SyncedDirectory(d)
      PROVE  /\ disk'.root = disk.root /\ disk'.dirs = disk.dirs
             /\ \A c \in Capabilities : /\ disk'.claim[c] \in {disk.claim[c], fs.claim[c]}
                                        /\ disk'.terminal[c] \in {disk.terminal[c], fs.terminal[c]}
  BY <1>1, <1>5 DEF SyncedDirectory, FileSystem
<1>6. CASE PowerLoss
  <2>1. PICK root \in {disk.root, fs.root}, dirs \in SUBSET fs.dirs,
             claims \in SUBSET {c \in Capabilities : fs.claim[c] # None},
             terminals \in SUBSET {c \in Capabilities : fs.terminal[c] # None} :
          /\ disk.dirs \subseteq dirs
          /\ {c \in Capabilities : disk.claim[c] # None} \subseteq claims
          /\ {c \in Capabilities : disk.terminal[c] # None} \subseteq terminals
          /\ fs' = Remains(root, dirs, claims, terminals)
          /\ disk' = fs'
    BY <1>6 DEF PowerLoss
  <2>2. /\ disk'.root = root /\ disk'.dirs = IF root THEN dirs ELSE {}
        /\ \A c \in Capabilities :
              /\ disk'.claim[c] = IF root /\ c \in dirs /\ c \in claims
                                  THEN AfterPowerLoss(fs.claim[c]) ELSE None
              /\ disk'.terminal[c] = IF root /\ c \in dirs /\ c \in terminals
                                     THEN AfterPowerLoss(fs.terminal[c]) ELSE None
    BY <2>1 DEF Remains
  <2>3. \A c \in Capabilities : /\ AfterPowerLoss(fs.claim[c]) = fs.claim[c]
                                /\ AfterPowerLoss(fs.terminal[c]) = fs.terminal[c]
    BY DEF AfterPowerLoss, IndInv, DiskInv
  <2>4. (disk.root => root) /\ disk.dirs \subseteq dirs
    BY <1>1, <2>1
  <2>5. ASSUME NEW c \in Capabilities
        PROVE  /\ disk.claim[c] # None => c \in claims /\ fs.claim[c] = disk.claim[c]
               /\ disk.terminal[c] # None => c \in terminals /\ fs.terminal[c] = disk.terminal[c]
    BY <1>1, <2>1
  <2>6. ASSUME NEW c \in Capabilities
        PROVE  /\ disk.root /\ c \in disk.dirs =>
                     /\ disk.claim[c] # None => disk'.claim[c] = disk.claim[c]
                     /\ disk.terminal[c] # None => disk'.terminal[c] = disk.terminal[c]
               /\ disk'.terminal[c] # None => fs.terminal[c] # None
    BY <2>2, <2>3, <2>4, <2>5
  <2> QED
    BY <2>2, <2>4, <2>6
<1>7. ASSUME NEW k \in Calls, Step(k)
      PROVE  \/ disk' = disk \/ SyncRoot(k) \/ \E d : disk' = SyncedDirectory(d)
  BY <1>7, ZenonT(60) DEF Step, RootRejected, Mkdir, WriteTemp, SyncTemp, LinkClaim, LinkTerminal, UnlinkTemp,
              FinishClaim, FinishComplete, Reread, Lstat, ReadClaim, ReadTerminal, IoError
<1>8. ASSUME NEW k \in Calls, Begin(k) PROVE disk' = disk
  BY <1>8, ZenonT(60) DEF Begin, BeginOnRoot, BeginComplete, StaleComplete, InvalidOutcome
<1>9. \/ disk' = disk \/ PowerLoss \/ \E s \in Stores : TrustRoot(s)
      \/ \E k \in Calls : SyncRoot(k)
      \/ \E d : disk' = SyncedDirectory(d)
  BY <1>7, <1>8 DEF Next, vars, ResolveRoot, RejectRoot, ProcessCrash, ProvisionRoot
<1>10. CASE \E k \in Calls : SyncRoot(k)
  BY <1>1, <1>3, <1>10
<1>11. CASE \E s \in Stores : TrustRoot(s)
  BY <1>1, <1>4, <1>11
<1>12. CASE \E d : disk' = SyncedDirectory(d)
  BY <1>1, <1>5, <1>12
<1> QED
  BY <1>2, <1>6, <1>9, <1>10, <1>11, <1>12

\* A terminal record is published only after its claim is safe.
LEMMA TerminalNeedsClaim ==
    ASSUME IndInv, NEW c \in Capabilities
    PROVE  /\ disk.claim[c] # None => disk.claim[c].auth \in Authorizations
           /\ fs.terminal[c] # None => disk.root /\ c \in disk.dirs /\ disk.claim[c] # None
<1>1. disk.claim[c] \in ClaimRecords \union {None} /\ granted[c] \in Seq(Authorizations)
  BY DEF IndInv, TypeOK, FileSystem
<1>2. ASSUME fs.terminal[c] # None PROVE disk.root /\ c \in disk.dirs /\ disk.claim[c] # None
  <2>1. granted[c] # <<>>
    BY <1>2 DEF IndInv, TerminalNeedsGrant
  <2>2. granted[c][1] \in Authorizations
    BY <1>1, <2>1
  <2>3. [auth |-> granted[c][1], data |-> "synced"] \in ClaimRecords
    BY <2>2 DEF ClaimRecords, Contents
  <2> QED
    BY <2>1, <2>3, NoneAssumption DEF IndInv, ClaimIsDurable
<1> QED
  BY <1>1, <1>2 DEF ClaimRecords

\* The safe part of the file system implements the abstract ledger, through every
\* crash: claims and outcomes are added once, and none is erased or replaced.
THEOREM StoreImplementsLedger == Spec => ImplementsLedger
<1> DEFINE Entry(c) == IF ~disk.root \/ c \notin disk.dirs \/ disk.claim[c] = None
                       THEN <<>>
                       ELSE IF disk.terminal[c] = None
                            THEN <<disk.claim[c].auth>>
                            ELSE <<disk.claim[c].auth, disk.terminal[c].outcome>>
           L == [c \in Capabilities |-> Entry(c)]
<1>1. Init => Ledger!Init
  <2>1. SUFFICES ASSUME Init PROVE \A c \in Capabilities : disk.claim[c] = None
    BY DEF Ledger!Init
  <2>2. PICK r \in BOOLEAN, safe \in BOOLEAN :
            /\ fs = [root |-> r, dirs |-> {}, claim |-> [c \in Capabilities |-> None],
                     terminal |-> [c \in Capabilities |-> None]]
            /\ disk = [fs EXCEPT !.root = safe]
    BY <2>1, Zenon DEF Init
  <2> QED
    BY <2>2
<1>2. IndInv /\ [Next]_vars => [Ledger!Next]_L
  <2>1. SUFFICES ASSUME IndInv, [Next]_vars PROVE Ledger!Next
    OBVIOUS
  <2>2. IndInv'
    BY <2>1, NextIndInv
  <2>3. ASSUME NEW c \in Capabilities
        PROVE  \/ Entry(c)' = Entry(c)
               \/ \E a \in Authorizations : Entry(c) = <<>> /\ Entry(c)' = <<a>>
               \/ \E a \in Authorizations, o \in Outcomes : Entry(c) = <<a>> /\ Entry(c)' = <<a, o>>
    <3>1. /\ disk.root => disk'.root /\ disk.dirs \subseteq disk'.dirs
          /\ disk.root /\ c \in disk.dirs =>
                /\ disk.claim[c] # None => disk'.claim[c] = disk.claim[c]
                /\ disk.terminal[c] # None => disk'.terminal[c] = disk.terminal[c]
          /\ disk'.terminal[c] # None => fs.terminal[c] # None
      BY <2>1, DiskGrows
    <3>2. /\ disk.claim[c] # None => disk.claim[c].auth \in Authorizations
          /\ fs.terminal[c] # None => disk.root /\ c \in disk.dirs /\ disk.claim[c] # None
      BY <2>1, TerminalNeedsClaim
    <3>3. /\ disk'.claim[c] # None => disk'.claim[c].auth \in Authorizations
          /\ disk'.terminal[c] # None => disk'.terminal[c].outcome \in Outcomes
      <4>1. /\ disk'.claim[c] \in ClaimRecords \union {None}
            /\ disk'.terminal[c] \in TerminalRecords \union {None}
        BY <2>2 DEF IndInv, TypeOK, FileSystem
      <4> QED
        BY <4>1 DEF ClaimRecords, TerminalRecords
    <3>4. CASE ~disk.root \/ c \notin disk.dirs \/ disk.claim[c] = None
      BY <3>1, <3>2, <3>3, <3>4
    <3>5. CASE disk.root /\ c \in disk.dirs /\ disk.claim[c] # None
      BY <3>1, <3>2, <3>3, <3>5
    <3> QED
      BY <3>4, <3>5, ZenonT(60)
  <2> QED
    BY <2>3, ZenonT(60) DEF Ledger!Next, Ledger!Claimed, Ledger!Completed
<1> QED
  BY <1>1, <1>2, StoreInvariant, PTL DEF Spec, ImplementsLedger, Ledger!Spec

-----------------------------------------------------------------------------
(* Damaged storage: what holds of the tombstones when any record may be     *)
(* damaged or replaced by a damaged one, where IndInv does not hold         *)

Files == {"root", "dirs", "claim", "terminal"}

Fields == {"pc", "op", "store", "cap", "auth", "outcome", "temp", "floor"}

Shapes == /\ DOMAIN fs = Files /\ DOMAIN disk = Files
          /\ DOMAIN call = Calls /\ \A k \in Calls : DOMAIN call[k] = Fields
          /\ DOMAIN trustedRootPromise = Stores
          /\ granted \in [Capabilities -> Seq(Authorizations)]

\* The suspended calls of claim().
ClaimCalls ==
    \A k \in Calls : call[k].op = "claim" =>
        /\ call[k].pc \in {"root", "syncRoot"} \union PublishSteps
        /\ call[k].store \in Stores /\ call[k].cap \in Capabilities
        /\ call[k].auth \in Authorizations

\* The tombstone alone makes a claim the only one: it is safe before the claim is
\* published, and no record takes part in that.
Tombstones ==
    /\ disk.root => fs.root
    /\ disk.dirs \subseteq fs.dirs
    /\ \A s \in Stores : trustedRootPromise[s] = "trusted" => disk.root
    /\ \A c \in Capabilities :
          /\ \A k, l \in Calls : Claiming(k, c) /\ Claiming(l, c) => k = l
          /\ \A k \in Calls : Claiming(k, c) =>
                /\ disk.root /\ c \in fs.dirs /\ granted[c] = <<>>
                /\ call[k].pc # "syncRoot" => c \in disk.dirs
          /\ granted[c] # <<>> => disk.root /\ c \in disk.dirs

FaultInv == Shapes /\ ClaimCalls /\ Tombstones /\ SingleClaim

Untouched == \A c \in Capabilities :
                disk.root /\ c \in disk.dirs /\ ~ClaimRunning(c) =>
                    granted'[c] = granted[c] /\ ~ClaimRunning(c)'

FaultNext == Next \/ \E c \in Capabilities : StorageFault(c)

\* A step that leaves the tombstones and the root alone, and in which no claim() passes
\* its mkdir.
LEMMA LeavesTombstones ==
    ASSUME FaultInv, Shapes',
           fs'.root = fs.root, fs'.dirs = fs.dirs, disk'.root = disk.root, disk'.dirs = disk.dirs,
           \A s \in Stores : trustedRootPromise'[s] = "trusted" => trustedRootPromise[s] = "trusted",
           granted' = granted,
           \A k \in Calls :
              \/ call'[k].op # "claim"
              \/ /\ call'[k].pc = "root" /\ call'[k].store \in Stores
                 /\ call'[k].cap \in Capabilities /\ call'[k].auth \in Authorizations
              \/ /\ call[k].op = "claim" /\ call'[k].store = call[k].store
                 /\ call'[k].cap = call[k].cap /\ call'[k].auth = call[k].auth
                 /\ \/ call'[k].pc = call[k].pc
                    \/ call[k].pc \in PublishSteps /\ call'[k].pc \in PublishSteps
    PROVE  FaultInv' /\ Untouched
<1>1. ClaimCalls'
  BY DEF FaultInv, ClaimCalls
<1>2. \A k \in Calls, c \in Capabilities : Claiming(k, c)' =>
          Claiming(k, c) /\ (call'[k].pc # "syncRoot" => call[k].pc # "syncRoot")
  BY DEF Claiming, PublishSteps
<1>3. Tombstones'
  BY <1>2 DEF FaultInv, Tombstones
<1>4. SingleClaim'
  BY DEF FaultInv, SingleClaim
<1>5. Untouched
  BY <1>2 DEF Untouched, ClaimRunning, Claiming
<1> QED
  BY <1>1, <1>3, <1>4, <1>5 DEF FaultInv

\* A call ends.
LEMMA EndsUnderFaults ==
    ASSUME FaultInv, NEW k \in Calls, NEW r, DOMAIN r = Fields, r.op = "none",
           call' = [call EXCEPT ![k] = r], UNCHANGED <<fs, disk, trustedRootPromise, granted>>
    PROVE  FaultInv' /\ Untouched
<1>1. call'[k] = r /\ \A l \in Calls \ {k} : call'[l] = call[l]
  BY DEF FaultInv, Shapes
<1>2. Shapes'
  BY <1>1 DEF FaultInv, Shapes
<1>3. ASSUME NEW l \in Calls
      PROVE  \/ call'[l].op # "claim"
             \/ call[l].op = "claim" /\ call'[l] = call[l]
  BY <1>1
<1> QED
  BY <1>2, <1>3, LeavesTombstones

LEMMA ReturnsUnderFaults ==
    ASSUME FaultInv, NEW k \in Calls, NEW code, Return(k, code) \/ Report(k, code),
           UNCHANGED <<fs, disk, trustedRootPromise, granted>>
    PROVE  FaultInv' /\ Untouched
<1>1. PICK r : /\ call' = [call EXCEPT ![k] = r]
               /\ r = Idle \/ r = [Idle EXCEPT !.cap = call[k].cap, !.floor = call[k].floor]
  BY DEF Return, Report
<1>2. DOMAIN r = Fields /\ r.op = "none"
  <2>1. DOMAIN Idle = Fields /\ Idle.op = "none"
    BY DEF Idle, Fields
  <2> QED
    BY <1>1, <2>1, ZenonT(60) DEF Fields
<1> QED
  BY <1>1, <1>2, EndsUnderFaults, ZenonT(60)

\* A call goes on, at most from one step of a publication to the next.
LEMMA GoesOnUnderFaults ==
    ASSUME FaultInv, NEW k \in Calls, NEW r, DOMAIN r = Fields, call' = [call EXCEPT ![k] = r],
           r.op = call[k].op, r.store = call[k].store, r.cap = call[k].cap, r.auth = call[k].auth,
           call[k].op = "claim" => call[k].pc \in PublishSteps /\ r.pc \in PublishSteps,
           DOMAIN fs' = Files, DOMAIN disk' = Files, UNCHANGED <<trustedRootPromise, granted>>,
           fs'.root = fs.root, fs'.dirs = fs.dirs, disk'.root = disk.root, disk'.dirs = disk.dirs
    PROVE  FaultInv' /\ Untouched
<1>1. call'[k] = r /\ \A l \in Calls \ {k} : call'[l] = call[l]
  BY DEF FaultInv, Shapes
<1>2. Shapes'
  BY <1>1 DEF FaultInv, Shapes
<1>3. ASSUME NEW l \in Calls
      PROVE  \/ call'[l].op # "claim"
             \/ /\ call[l].op = "claim" /\ call'[l].store = call[l].store
                /\ call'[l].cap = call[l].cap /\ call'[l].auth = call[l].auth
                /\ \/ call'[l].pc = call[l].pc
                   \/ call[l].pc \in PublishSteps /\ call'[l].pc \in PublishSteps
  BY <1>1
<1> QED
  BY <1>2, <1>3, LeavesTombstones

LEMMA GotoUnderFaults ==
    ASSUME FaultInv, NEW k \in Calls, NEW pc, NEW temp,
           \/ call' = [call EXCEPT ![k].pc = pc]
           \/ call' = [call EXCEPT ![k].pc = pc, ![k].temp = temp],
           call[k].op = "claim" => call[k].pc \in PublishSteps /\ pc \in PublishSteps,
           DOMAIN fs' = Files, DOMAIN disk' = Files, UNCHANGED <<trustedRootPromise, granted>>,
           fs'.root = fs.root, fs'.dirs = fs.dirs, disk'.root = disk.root, disk'.dirs = disk.dirs
    PROVE  FaultInv' /\ Untouched
<1>1. DOMAIN call = Calls /\ DOMAIN call[k] = Fields
  BY DEF FaultInv, Shapes
<1>2. PICK r : /\ call' = [call EXCEPT ![k] = r]
               /\ \/ r = [call[k] EXCEPT !.pc = pc]
                  \/ r = [call[k] EXCEPT !.pc = pc, !.temp = temp]
  <2>1. CASE call' = [call EXCEPT ![k].pc = pc]
    BY <2>1, ZenonT(60)
  <2>2. CASE call' = [call EXCEPT ![k].pc = pc, ![k].temp = temp]
    <3>1. call' = [call EXCEPT ![k] = [call[k] EXCEPT !.pc = pc, !.temp = temp]]
      BY <1>1, <2>2, ZenonT(60)
    <3> QED
      BY <3>1, ZenonT(60)
  <2> QED
    BY <2>1, <2>2
<1>3. /\ DOMAIN r = Fields /\ r.pc = pc /\ r.op = call[k].op /\ r.store = call[k].store
      /\ r.cap = call[k].cap /\ r.auth = call[k].auth
  BY <1>1, <1>2 DEF Fields
<1> QED
  BY <1>2, <1>3, GoesOnUnderFaults, ZenonT(60)

\* mkdir succeeds: there was no tombstone, so nobody claims and nothing was granted.
LEMMA MkdirUnderFaults ==
    ASSUME FaultInv, NEW k \in Calls, Mkdir(k), call[k].cap \notin fs.dirs
    PROVE  FaultInv' /\ Untouched
<1>1. DOMAIN call = Calls /\ DOMAIN call[k] = Fields /\ DOMAIN fs = Files
  BY DEF FaultInv, Shapes
<1>2. PICK c, r : c = call[k].cap /\ r = [call[k] EXCEPT !.pc = "syncRoot"]
  BY ZenonT(60)
<1>3. /\ DOMAIN r = Fields /\ r.pc = "syncRoot" /\ r.op = "claim" /\ r.store = call[k].store
      /\ r.cap = c /\ r.auth = call[k].auth
  BY <1>1, <1>2 DEF Fields, Mkdir
<1>4. c \in Capabilities /\ call[k].store \in Stores /\ c \notin fs.dirs /\ disk.root
  BY <1>2 DEF FaultInv, ClaimCalls, Tombstones, Mkdir
<1>5. /\ call' = [call EXCEPT ![k] = r] /\ fs' = [fs EXCEPT !.dirs = fs.dirs \union {c}]
      /\ UNCHANGED <<disk, trustedRootPromise, granted>>
  BY <1>2 DEF Mkdir, Goto
<1>6. call'[k] = r /\ \A l \in Calls \ {k} : call'[l] = call[l]
  BY <1>1, <1>5
<1>7. DOMAIN fs' = Files /\ fs'.root = fs.root /\ fs'.dirs = fs.dirs \union {c}
  BY <1>1, <1>5 DEF Files
<1>8. Shapes'
  BY <1>3, <1>5, <1>6, <1>7 DEF FaultInv, Shapes
<1>9. ClaimCalls'
  BY <1>3, <1>4, <1>6 DEF FaultInv, ClaimCalls, Mkdir
<1>10. /\ \A l \in Calls, d \in Capabilities : Claiming(l, d)' => Claiming(l, d) \/ (l = k /\ d = c)
       /\ \A l \in Calls : ~Claiming(l, c)
       /\ granted[c] = <<>> /\ c \notin disk.dirs
  BY <1>3, <1>4, <1>6 DEF Claiming, FaultInv, Tombstones
<1>11. \A l \in Calls, d \in Capabilities : Claiming(l, d) => l # k
  BY DEF Claiming, PublishSteps, Mkdir
<1>12. Tombstones'
  <2>1. ASSUME NEW d \in Capabilities, NEW l \in Calls, Claiming(l, d)'
        PROVE  /\ disk'.root /\ d \in fs'.dirs /\ granted'[d] = <<>>
               /\ call'[l].pc # "syncRoot" => d \in disk'.dirs
    <3>1. CASE Claiming(l, d)
      BY <1>5, <1>6, <1>7, <1>11, <3>1 DEF FaultInv, Tombstones
    <3>2. CASE l = k /\ d = c
      BY <1>3, <1>4, <1>5, <1>6, <1>7, <1>10, <3>2
    <3> QED
      BY <1>10, <2>1, <3>1, <3>2
  <2>2. ASSUME NEW d \in Capabilities, NEW l \in Calls, NEW m \in Calls,
               Claiming(l, d)', Claiming(m, d)'
        PROVE  l = m
    <3>1. CASE d = c
      BY <1>10, <2>2, <3>1
    <3>2. CASE d # c
      <4>1. Claiming(l, d) /\ Claiming(m, d)
        BY <1>10, <2>2, <3>2
      <4> QED
        BY <4>1 DEF FaultInv, Tombstones
    <3> QED
      BY <3>1, <3>2
  <2>3. /\ disk'.root => fs'.root
        /\ disk'.dirs \subseteq fs'.dirs
        /\ \A s \in Stores : trustedRootPromise'[s] = "trusted" => disk'.root
        /\ \A d \in Capabilities : granted'[d] # <<>> => disk'.root /\ d \in disk'.dirs
    BY <1>5, <1>7 DEF FaultInv, Tombstones
  <2> QED
    BY <2>1, <2>2, <2>3 DEF Tombstones
<1>13. Untouched
  BY <1>5, <1>10 DEF Untouched, ClaimRunning, Claiming
<1> QED
  BY <1>5, <1>8, <1>9, <1>12, <1>13 DEF FaultInv, SingleClaim

LEMMA SyncRootUnderFaults == ASSUME FaultInv, NEW k \in Calls, SyncRoot(k) PROVE FaultInv' /\ Untouched
<1>1. DOMAIN call = Calls /\ DOMAIN call[k] = Fields /\ DOMAIN disk = Files
  BY DEF FaultInv, Shapes
<1>2. PICK r : r = [call[k] EXCEPT !.pc = "write"]
  BY ZenonT(60)
<1>3. /\ DOMAIN r = Fields /\ r.pc = "write" /\ r.op = call[k].op /\ r.store = call[k].store
      /\ r.cap = call[k].cap /\ r.auth = call[k].auth
  BY <1>1, <1>2 DEF Fields
<1>4. /\ call' = [call EXCEPT ![k] = r] /\ disk' = [disk EXCEPT !.dirs = fs.dirs]
      /\ UNCHANGED <<fs, trustedRootPromise, granted>> /\ call[k].pc = "syncRoot"
  BY <1>2 DEF SyncRoot, Goto
<1>5. call'[k] = r /\ \A l \in Calls \ {k} : call'[l] = call[l]
  BY <1>1, <1>4
<1>6. DOMAIN disk' = Files /\ disk'.root = disk.root /\ disk'.dirs = fs.dirs
  BY <1>1, <1>4 DEF Files
<1>7. Shapes'
  BY <1>3, <1>4, <1>5, <1>6 DEF FaultInv, Shapes
<1>8. ClaimCalls'
  BY <1>3, <1>5 DEF FaultInv, ClaimCalls, PublishSteps
<1>9. \A l \in Calls, d \in Capabilities : Claiming(l, d)' => Claiming(l, d)
  BY <1>3, <1>4, <1>5 DEF Claiming
<1>10. Tombstones'
  BY <1>4, <1>6, <1>9 DEF FaultInv, Tombstones
<1>11. Untouched
  BY <1>4, <1>9 DEF Untouched, ClaimRunning, Claiming
<1> QED
  BY <1>4, <1>7, <1>8, <1>10, <1>11 DEF FaultInv, SingleClaim

\* claim() returns success: it was the only one, and its tombstone is safe.
LEMMA FinishClaimUnderFaults ==
    ASSUME FaultInv, NEW k \in Calls, FinishClaim(k) PROVE FaultInv' /\ Untouched
<1>1. DOMAIN call = Calls /\ DOMAIN disk = Files
  BY DEF FaultInv, Shapes
<1>2. PICK c, a : c = call[k].cap /\ a = call[k].auth
  OBVIOUS
<1>3. c \in Capabilities /\ a \in Authorizations /\ Claiming(k, c)
  BY <1>2 DEF FaultInv, ClaimCalls, FinishClaim, Claiming, PublishSteps
<1>4. disk.root /\ c \in disk.dirs /\ granted[c] = <<>> /\ \A l \in Calls : Claiming(l, c) => l = k
  BY <1>3 DEF FaultInv, Tombstones, FinishClaim
<1>5. /\ call' = [call EXCEPT ![k] = Idle] /\ disk' = SyncedDirectory(c)
      /\ granted' = [granted EXCEPT ![c] = Append(granted[c], a)]
      /\ UNCHANGED <<fs, trustedRootPromise>>
  BY <1>2 DEF FinishClaim, Return
<1>6. DOMAIN Idle = Fields /\ Idle.op = "none"
  BY DEF Idle, Fields
<1>7. call'[k] = Idle /\ \A l \in Calls \ {k} : call'[l] = call[l]
  BY <1>1, <1>5
<1>8. DOMAIN disk' = Files /\ disk'.root = disk.root /\ disk'.dirs = disk.dirs
  BY <1>1, <1>5 DEF SyncedDirectory, Files
<1>9. /\ granted' \in [Capabilities -> Seq(Authorizations)]
      /\ Len(granted'[c]) = 1 /\ \A d \in Capabilities \ {c} : granted'[d] = granted[d]
  <2>1. granted \in [Capabilities -> Seq(Authorizations)]
    BY DEF FaultInv, Shapes
  <2>2. Append(granted[c], a) \in Seq(Authorizations) /\ Len(Append(granted[c], a)) = 1
    BY <1>3, <1>4, <2>1
  <2> QED
    BY <1>3, <1>5, <2>1, <2>2
<1>10. Shapes' /\ ClaimCalls'
  BY <1>5, <1>6, <1>7, <1>8, <1>9 DEF FaultInv, Shapes, ClaimCalls
<1>11. \A l \in Calls, d \in Capabilities : Claiming(l, d)' => Claiming(l, d) /\ l # k /\ d # c
  BY <1>3, <1>4, <1>6, <1>7 DEF Claiming
<1>12. Tombstones'
  <2>1. ASSUME NEW d \in Capabilities, NEW l \in Calls, Claiming(l, d)'
        PROVE  /\ disk'.root /\ d \in fs'.dirs /\ granted'[d] = <<>>
               /\ call'[l].pc # "syncRoot" => d \in disk'.dirs
    <3>1. Claiming(l, d) /\ l # k /\ d # c
      BY <1>11, <2>1
    <3>2. call'[l] = call[l] /\ granted'[d] = granted[d] /\ fs' = fs
      BY <1>5, <1>7, <1>9, <3>1
    <3> QED
      BY <1>8, <3>1, <3>2 DEF FaultInv, Tombstones
  <2>2. ASSUME NEW d \in Capabilities, NEW l \in Calls, NEW m \in Calls,
               Claiming(l, d)', Claiming(m, d)'
        PROVE  l = m
    <3>1. Claiming(l, d) /\ Claiming(m, d)
      BY <1>11, <2>2
    <3> QED
      BY <3>1 DEF FaultInv, Tombstones
  <2>3. /\ disk'.root => fs'.root
        /\ disk'.dirs \subseteq fs'.dirs
        /\ \A s \in Stores : trustedRootPromise'[s] = "trusted" => disk'.root
    BY <1>5, <1>8 DEF FaultInv, Tombstones
  <2>4. ASSUME NEW d \in Capabilities, granted'[d] # <<>> PROVE disk'.root /\ d \in disk'.dirs
    <3>1. d # c => granted[d] # <<>>
      BY <1>9, <2>4
    <3>2. disk.root /\ d \in disk.dirs
      BY <1>4, <3>1 DEF FaultInv, Tombstones
    <3> QED
      BY <1>8, <3>2
  <2> QED
    BY <2>1, <2>2, <2>3, <2>4 DEF Tombstones
<1>13. SingleClaim'
  <2>1. SUFFICES ASSUME NEW d \in Capabilities PROVE Len(granted'[d]) <= 1
    BY DEF SingleClaim
  <2>2. CASE d = c
    <3>1. Len(granted'[d]) = 1
      BY <1>9, <2>2
    <3> QED
      BY <3>1
  <2>3. CASE d # c
    <3>1. granted'[d] = granted[d]
      BY <1>9, <2>3
    <3>2. Len(granted[d]) <= 1
      BY DEF FaultInv, SingleClaim
    <3> QED
      BY <3>1, <3>2
  <2> QED
    BY <2>2, <2>3
<1>14. Untouched
  BY <1>3, <1>9, <1>11 DEF Untouched, ClaimRunning, Claiming
<1> QED
  BY <1>10, <1>12, <1>13, <1>14 DEF FaultInv

\* The root is found, provided or trusted.
LEMMA RootUnderFaults ==
    ASSUME FaultInv, ProvisionRoot \/ \E s \in Stores : ResolveRoot(s)
    PROVE  FaultInv' /\ Untouched
<1>1. DOMAIN fs = Files /\ DOMAIN disk = Files /\ DOMAIN trustedRootPromise = Stores
  BY DEF FaultInv, Shapes
<1>2. UNCHANGED <<call, granted>>
  BY DEF ProvisionRoot, ResolveRoot, TrustRoot, RejectRoot
<1> DEFINE RootIs(fsRoot, diskRoot) ==
              /\ DOMAIN fs' = Files /\ DOMAIN disk' = Files /\ DOMAIN trustedRootPromise' = Stores
              /\ fs'.dirs = fs.dirs /\ disk'.dirs = disk.dirs
              /\ fs'.root = fsRoot /\ disk'.root = diskRoot
              /\ \A s \in Stores : trustedRootPromise'[s] = "trusted" => diskRoot
<1>3. \/ RootIs(TRUE, disk.root)
      \/ RootIs(fs.root, TRUE) /\ fs.root
      \/ RootIs(fs.root, disk.root)
  <2>1. ASSUME ProvisionRoot PROVE RootIs(TRUE, disk.root)
    <3>1. fs' = [fs EXCEPT !.root = TRUE] /\ UNCHANGED <<disk, trustedRootPromise>>
      BY <2>1 DEF ProvisionRoot
    <3>2. DOMAIN fs' = Files /\ fs'.root = TRUE /\ fs'.dirs = fs.dirs
      BY <1>1, <3>1 DEF Files
    <3> QED
      BY <1>1, <3>1, <3>2 DEF FaultInv, Tombstones
  <2>2. ASSUME NEW r \in Stores, TrustRoot(r) PROVE RootIs(fs.root, TRUE) /\ fs.root
    BY <1>1, <2>2, ZenonT(60) DEF TrustRoot, Files
  <2>3. ASSUME NEW r \in Stores, RejectRoot(r) PROVE RootIs(fs.root, disk.root)
    <3>1. /\ UNCHANGED <<fs, disk>> /\ DOMAIN trustedRootPromise' = Stores
          /\ \A s \in Stores : trustedRootPromise'[s] = "trusted" => trustedRootPromise[s] = "trusted"
      BY <1>1, <2>3 DEF RejectRoot
    <3> QED
      BY <1>1, <3>1 DEF FaultInv, Tombstones
  <2> QED
    BY <2>1, <2>2, <2>3, ZenonT(60) DEF ResolveRoot
<1>4. Shapes' /\ ClaimCalls' /\ SingleClaim'
  BY <1>2, <1>3 DEF FaultInv, Shapes, ClaimCalls, SingleClaim
<1>5. Tombstones'
  BY <1>2, <1>3 DEF FaultInv, Tombstones, Claiming
<1>6. Untouched
  BY <1>2 DEF Untouched, ClaimRunning
<1> QED
  BY <1>4, <1>5, <1>6 DEF FaultInv

LEMMA PowerLossUnderFaults == ASSUME FaultInv, PowerLoss PROVE FaultInv' /\ Untouched
<1>1. PICK root \in {disk.root, fs.root}, dirs \in SUBSET fs.dirs,
           claims \in SUBSET Capabilities, terminals \in SUBSET Capabilities :
          disk.dirs \subseteq dirs /\ fs' = Remains(root, dirs, claims, terminals) /\ disk' = fs'
  BY DEF PowerLoss
<1>2. /\ DOMAIN fs' = Files /\ DOMAIN disk' = Files
      /\ fs'.root = root /\ disk'.root = root
      /\ fs'.dirs = disk'.dirs /\ disk'.dirs = IF root THEN dirs ELSE {}
  BY <1>1 DEF Remains, Files
<1>3. /\ trustedRootPromise' = [s \in Stores |-> "none"] /\ call' = [k \in Calls |-> Idle]
      /\ granted' = granted
  BY DEF PowerLoss
<1>4. DOMAIN Idle = Fields /\ Idle.op = "none"
  BY DEF Idle, Fields
<1>5. disk.root => root
  BY <1>1, ZenonT(60) DEF FaultInv, Tombstones
<1>6. Shapes' /\ ClaimCalls' /\ SingleClaim'
  BY <1>2, <1>3, <1>4 DEF FaultInv, Shapes, ClaimCalls, SingleClaim
<1>7. \A k \in Calls, c \in Capabilities : ~Claiming(k, c)'
  BY <1>3, <1>4 DEF Claiming
<1>8. Tombstones'
  BY <1>1, <1>2, <1>3, <1>5, <1>7, ZenonT(60) DEF FaultInv, Tombstones
<1>9. Untouched
  BY <1>3, <1>7 DEF Untouched, ClaimRunning, Claiming
<1> QED
  BY <1>6, <1>8, <1>9 DEF FaultInv

\* A process dies, or a record is damaged.
LEMMA CrashUnderFaults ==
    ASSUME FaultInv,
           \/ \E s \in Stores : ProcessCrash(s)
           \/ \E c \in Capabilities : StorageFault(c)
           \/ UNCHANGED vars
    PROVE  FaultInv' /\ Untouched
<1>1. DOMAIN fs = Files /\ DOMAIN trustedRootPromise = Stores
  BY DEF FaultInv, Shapes
<1>2. ASSUME NEW s \in Stores, ProcessCrash(s) PROVE FaultInv' /\ Untouched
  <2>1. \A k \in Calls : call'[k] = Idle \/ call'[k] = call[k]
    BY <1>2 DEF ProcessCrash
  <2>2. DOMAIN Idle = Fields /\ Idle.op = "none"
    BY DEF Idle, Fields
  <2>3. /\ \A k \in Calls : call'[k].op # "claim" \/ call'[k] = call[k]
        /\ DOMAIN call' = Calls /\ \A k \in Calls : DOMAIN call'[k] = Fields
    BY <1>2, <2>1, <2>2 DEF ProcessCrash, FaultInv, Shapes
  <2>4. /\ DOMAIN trustedRootPromise' = Stores
        /\ \A t \in Stores : trustedRootPromise'[t] = "trusted" => trustedRootPromise[t] = "trusted"
    BY <1>1, <1>2 DEF ProcessCrash
  <2>5. UNCHANGED <<fs, disk, granted>>
    BY <1>2 DEF ProcessCrash
  <2>6. Shapes'
    BY <2>3, <2>4, <2>5 DEF FaultInv, Shapes
  <2> QED
    BY <2>3, <2>4, <2>5, <2>6, LeavesTombstones
<1>3. ASSUME NEW c \in Capabilities, StorageFault(c) PROVE FaultInv' /\ Untouched
  <2>1. DOMAIN fs' = Files /\ fs'.root = fs.root /\ fs'.dirs = fs.dirs
    BY <1>1, <1>3 DEF StorageFault, Files
  <2>2. UNCHANGED <<disk, trustedRootPromise, call, granted>>
    BY <1>3 DEF StorageFault
  <2>3. Shapes'
    BY <2>1, <2>2 DEF FaultInv, Shapes
  <2>4. \A k \in Calls : call'[k] = call[k]
    BY <2>2
  <2> QED
    BY <2>1, <2>2, <2>3, <2>4, LeavesTombstones
<1>4. CASE UNCHANGED vars
  <2>1. UNCHANGED <<fs, disk, trustedRootPromise, call, granted>>
    BY <1>4 DEF vars
  <2>2. Shapes' /\ \A k \in Calls : call'[k] = call[k]
    BY <2>1 DEF FaultInv, Shapes
  <2> QED
    BY <2>1, <2>2, LeavesTombstones
<1> QED
  BY <1>2, <1>3, <1>4

LEMMA BeginUnderFaults == ASSUME FaultInv, NEW k \in Calls, Begin(k) PROVE FaultInv' /\ Untouched
<1>1. PICK s \in Stores, c \in Capabilities :
          \/ \E op \in {"claim", "inspect"}, a \in Authorizations : BeginOnRoot(k, s, op, c, a)
          \/ \E o \in Outcomes : BeginComplete(k, s, c, o)
          \/ StaleComplete(k, s, c)
          \/ InvalidOutcome(k, s, c)
  BY DEF Begin
<1>2. DOMAIN Idle = Fields /\ DOMAIN call = Calls /\ DOMAIN trustedRootPromise = Stores
  BY DEF Idle, Fields, FaultInv, Shapes
<1>3. ASSUME NEW op \in {"claim", "inspect"}, NEW a \in Authorizations, BeginOnRoot(k, s, op, c, a)
      PROVE  FaultInv' /\ Untouched
  <2>1. PICK r : r = [Idle EXCEPT !.pc = "root", !.op = op, !.store = s, !.cap = c, !.auth = a,
                                  !.floor = Acknowledged(c)]
    OBVIOUS
  <2>2. DOMAIN r = Fields /\ r.pc = "root" /\ r.store = s /\ r.cap = c /\ r.auth = a
    BY <1>2, <2>1 DEF Fields
  <2>3. call' = [call EXCEPT ![k] = r] /\ UNCHANGED <<fs, disk, granted>>
    BY <1>3, <2>1 DEF BeginOnRoot
  <2>4. call'[k] = r /\ \A l \in Calls \ {k} : call'[l] = call[l]
    BY <1>2, <2>3
  <2>5. /\ DOMAIN trustedRootPromise' = Stores
        /\ \A t \in Stores : trustedRootPromise'[t] = "trusted" => trustedRootPromise[t] = "trusted"
    BY <1>2, <1>3 DEF BeginOnRoot
  <2>6. Shapes'
    BY <2>2, <2>3, <2>4, <2>5 DEF FaultInv, Shapes
  <2>7. ASSUME NEW l \in Calls
        PROVE  \/ call'[l].op # "claim"
               \/ /\ call'[l].pc = "root" /\ call'[l].store \in Stores
                  /\ call'[l].cap \in Capabilities /\ call'[l].auth \in Authorizations
               \/ call[l].op = "claim" /\ call'[l] = call[l]
    BY <2>2, <2>4
  <2> QED
    BY <2>3, <2>5, <2>6, <2>7, LeavesTombstones
<1>4. ASSUME NEW o \in Outcomes, BeginComplete(k, s, c, o) PROVE FaultInv' /\ Untouched
  <2>1. PICK r : r = [Idle EXCEPT !.pc = "reread", !.op = "complete", !.store = s, !.cap = c,
                                  !.auth = handleState[s][c].auth, !.outcome = o]
    OBVIOUS
  <2>2. DOMAIN r = Fields /\ r.op = "complete"
    BY <1>2, <2>1 DEF Fields
  <2>3. call' = [call EXCEPT ![k] = r] /\ UNCHANGED <<fs, disk, trustedRootPromise, granted>>
    BY <1>4, <2>1 DEF BeginComplete
  <2>4. call'[k] = r /\ \A l \in Calls \ {k} : call'[l] = call[l]
    BY <1>2, <2>3
  <2>5. Shapes'
    BY <2>2, <2>3, <2>4 DEF FaultInv, Shapes
  <2>6. \A l \in Calls : call'[l].op # "claim" \/ call'[l] = call[l]
    BY <2>2, <2>4
  <2> QED
    BY <2>3, <2>5, <2>6, LeavesTombstones
<1>5. CASE StaleComplete(k, s, c) \/ InvalidOutcome(k, s, c)
  BY <1>5, ReturnsUnderFaults DEF StaleComplete, InvalidOutcome
<1> QED
  BY <1>1, <1>3, <1>4, <1>5

LEMMA StepUnderFaults == ASSUME FaultInv, NEW k \in Calls, Step(k) PROVE FaultInv' /\ Untouched
<1>1. DOMAIN fs = Files /\ DOMAIN disk = Files
  BY DEF FaultInv, Shapes
<1>2. ASSUME NEW code, Return(k, code) \/ Report(k, code),
             UNCHANGED <<fs, disk, trustedRootPromise, granted>>
      PROVE  FaultInv' /\ Untouched
  BY <1>2, ReturnsUnderFaults
<1>3. ASSUME NEW pc, Goto(k, pc), call[k].op = "claim" => call[k].pc \in PublishSteps /\ pc \in PublishSteps,
             fs' = fs, disk' = disk, UNCHANGED <<trustedRootPromise, granted>>
      PROVE  FaultInv' /\ Untouched
  BY <1>1, <1>3, GotoUnderFaults, ZenonT(60) DEF Goto
<1>4. CASE RootRejected(k) \/ IoError(k)
  BY <1>2, <1>4 DEF RootRejected, IoError
<1>5. CASE Mkdir(k)
  BY <1>2, <1>5, MkdirUnderFaults DEF Mkdir
<1>6. CASE WriteTemp(k) \/ SyncTemp(k) \/ UnlinkTemp(k)
  <2>1. PICK pc \in PublishSteps, temp \in {"written", "synced", "none"} :
            call' = [call EXCEPT ![k].pc = pc, ![k].temp = temp]
    BY <1>6 DEF WriteTemp, SyncTemp, UnlinkTemp, PublishSteps
  <2>2. call[k].pc \in PublishSteps /\ UNCHANGED <<fs, disk, trustedRootPromise, granted>>
    BY <1>6 DEF WriteTemp, SyncTemp, UnlinkTemp, PublishSteps
  <2> QED
    BY <1>1, <2>1, <2>2, GotoUnderFaults, ZenonT(60)
<1>7. CASE LinkClaim(k) \/ LinkTerminal(k)
  <2>1. CASE Return(k, "REPLAY") /\ UNCHANGED fs
    BY <1>2, <1>7, <2>1 DEF LinkClaim, LinkTerminal
  <2>2. ASSUME NEW claim, fs' = [fs EXCEPT !.claim[call[k].cap] = claim]
                            \/ fs' = [fs EXCEPT !.terminal[call[k].cap] = claim],
               Goto(k, "unlink")
        PROVE  FaultInv' /\ Untouched
    <3>1. DOMAIN fs' = Files /\ fs'.root = fs.root /\ fs'.dirs = fs.dirs
      BY <1>1, <2>2 DEF Files
    <3>2. call[k].pc \in PublishSteps /\ "unlink" \in PublishSteps
          /\ UNCHANGED <<disk, trustedRootPromise, granted>>
      BY <1>7 DEF LinkClaim, LinkTerminal, PublishSteps
    <3> QED
      BY <1>1, <2>2, <3>1, <3>2, GotoUnderFaults, ZenonT(60) DEF Goto
  <2> QED
    BY <1>7, <2>1, <2>2 DEF LinkClaim, LinkTerminal
<1>8. CASE FinishComplete(k)
  <2>1. DOMAIN disk' = Files /\ disk'.root = disk.root /\ disk'.dirs = disk.dirs
    BY <1>1, <1>8 DEF FinishComplete, SyncedDirectory, Files
  <2>2. DOMAIN Idle = Fields /\ Idle.op = "none"
    BY DEF Idle, Fields
  <2>3. call' = [call EXCEPT ![k] = Idle] /\ UNCHANGED <<fs, trustedRootPromise, granted>>
    BY <1>8 DEF FinishComplete, Return
  <2>4. call'[k] = Idle /\ \A l \in Calls \ {k} : call'[l] = call[l]
    BY <2>3 DEF FaultInv, Shapes
  <2>5. Shapes'
    BY <2>1, <2>2, <2>3, <2>4 DEF FaultInv, Shapes
  <2>6. \A l \in Calls : call'[l].op # "claim" \/ call'[l] = call[l]
    BY <2>2, <2>4
  <2> QED
    BY <2>1, <2>3, <2>5, <2>6, LeavesTombstones
<1>9. CASE Reread(k) \/ ReadClaim(k) \/ ReadTerminal(k)
  <2>1. call[k].op # "claim"
    BY <1>9 DEF FaultInv, ClaimCalls, Reread, ReadClaim, ReadTerminal, PublishSteps
  <2>2. UNCHANGED <<fs, disk, trustedRootPromise, granted>>
    BY <1>9 DEF Reread, ReadClaim, ReadTerminal
  <2>3. (\E pc : Goto(k, pc)) \/ \E code : Return(k, code) \/ Report(k, code)
    BY <1>9 DEF Reread, ReadClaim, ReadTerminal
  <2> QED
    BY <1>2, <1>3, <2>1, <2>2, <2>3
<1>10. CASE Lstat(k)
  BY <1>2, <1>3, <1>10 DEF Lstat
<1> QED
  BY <1>4, <1>5, <1>6, <1>7, <1>8, <1>9, <1>10, SyncRootUnderFaults, FinishClaimUnderFaults DEF Step

LEMMA FaultStep == FaultInv /\ [FaultNext]_vars => FaultInv' /\ Untouched
  BY BeginUnderFaults, StepUnderFaults, RootUnderFaults, PowerLossUnderFaults, CrashUnderFaults
     DEF FaultNext, Next

LEMMA FaultInitially == Init => FaultInv
<1> SUFFICES ASSUME Init PROVE FaultInv
  OBVIOUS
<1>1. PICK r \in BOOLEAN, safe \in BOOLEAN :
          /\ safe => r
          /\ fs = [root |-> r, dirs |-> {}, claim |-> [c \in Capabilities |-> None],
                   terminal |-> [c \in Capabilities |-> None]]
          /\ disk = [fs EXCEPT !.root = safe]
  BY ZenonT(60) DEF Init
<1>2. DOMAIN fs = Files /\ DOMAIN disk = Files /\ fs.dirs = {} /\ disk.dirs = {} /\ (disk.root => fs.root)
  BY <1>1 DEF Files
<1>3. DOMAIN Idle = Fields /\ Idle.op = "none"
  BY DEF Idle, Fields
<1>4. Shapes /\ ClaimCalls /\ SingleClaim
  BY <1>2, <1>3 DEF Init, Shapes, ClaimCalls, SingleClaim
<1>5. Tombstones
  BY <1>2, <1>3 DEF Init, Tombstones, Claiming
<1> QED
  BY <1>4, <1>5 DEF FaultInv

LEMMA FaultInvariant == FaultySpec => []FaultInv
<1>1. FaultySpec => Init /\ [][FaultNext]_vars
  BY DEF FaultySpec, FaultNext
<1> QED
  BY <1>1, FaultInitially, FaultStep, PTL

\* Damaged records do not make a second claim() succeed.
THEOREM FaultyStoreClaimsOnce == FaultySpec => []SingleClaim
  BY FaultInvariant, PTL DEF FaultInv

\* Whatever happens to the records of a capability whose tombstone is safe, no claim() of
\* it is granted or gets as far as publishing again.
THEOREM NeverRearmedTheorem == FaultySpec => NeverRearmed
<1>1. FaultySpec => [][FaultNext]_vars
  BY PTL DEF FaultySpec, FaultNext
<1>2. FaultInv /\ [FaultNext]_vars => Untouched
  BY FaultStep
<1>3. FaultySpec => [][Untouched]_vars
  BY <1>1, <1>2, FaultInvariant, PTL
<1> QED
  BY <1>3 DEF NeverRearmed, Untouched

-----------------------------------------------------------------------------
(* Inspection *)

\* What a call has reported is sound, a running call has reported nothing yet, and an
\* inspection has seen no more than was acknowledged before it goes on.
Sound(k) ==
    /\ ret[k] # "CORRUPT"
    /\ ret[k] \in {"ABSENT", "RESERVED_INCOMPLETE", "RESERVED"} \union Outcomes =>
          Rank(ret[k]) >= call[k].floor
    /\ call[k].pc # "idle" => ret[k] = "none"
    /\ call[k].op = "inspect" => call[k].floor <= Acknowledged(call[k].cap)
    /\ call[k].pc = "readTerminal" =>
          fs.claim[call[k].cap] # None /\ fs.claim[call[k].cap].auth = call[k].auth

SoundInv == DOMAIN ret = Calls /\ \A k \in Calls : Sound(k)

LEMMA RankIs ==
    /\ Rank("ABSENT") = 0 /\ Rank("RESERVED_INCOMPLETE") = 0 /\ Rank("RESERVED") = 1
    /\ \A o \in Outcomes : Rank(o) = 2
  BY DEF Rank, Outcomes

\* What a granted claim() has left on the file system.
LEMMA GrantIsPublished ==
    ASSUME IndInv, NEW c \in Capabilities, granted[c] # <<>>
    PROVE  /\ granted[c][1] \in Authorizations
           /\ c \in fs.dirs /\ fs.claim[c] # None /\ fs.claim[c].auth = granted[c][1]
<1>1. granted[c][1] \in Authorizations
  <2>1. granted[c] \in Seq(Authorizations)
    BY DEF IndInv, TypeOK
  <2> QED
    BY <2>1
<1>2. PICK r : r = [auth |-> granted[c][1], data |-> "synced"]
  BY ZenonT(60)
<1>3. r \in ClaimRecords /\ r.auth = granted[c][1]
  BY <1>1, <1>2 DEF ClaimRecords, Contents
<1>4. r # None
  BY <1>3, NoneAssumption
<1>5. c \in disk.dirs /\ disk.claim[c] = r
  BY <1>2 DEF IndInv, ClaimIsDurable
<1>6. c \in fs.dirs /\ fs.claim[c] = r
  BY <1>4, <1>5 DEF IndInv, DiskInv
<1> QED
  BY <1>1, <1>3, <1>4, <1>6

\* How far a life is acknowledged bounds what may be missing on the file system.
LEMMA AcknowledgedIs ==
    ASSUME IndInv, NEW c \in Capabilities
    PROVE  /\ Acknowledged(c) \in Nat /\ Acknowledged(c) <= 2
           /\ fs.terminal[c] = None => Acknowledged(c) <= 1
           /\ fs.claim[c] = None \/ c \notin fs.dirs => Acknowledged(c) = 0
<1>1. granted[c] \in Seq(Authorizations) /\ completed[c] \in Seq(Outcomes)
  BY DEF IndInv, TypeOK
<1>2. PICK g, d : g = Len(granted[c]) /\ d = Len(completed[c])
  BY ZenonT(60)
<1>3. /\ g \in Nat /\ g <= 1 /\ (granted[c] = <<>> => g = 0)
      /\ d \in Nat /\ d <= 1 /\ (completed[c] = <<>> => d = 0)
      /\ completed[c] # <<>> => granted[c] # <<>>
  <2>1. /\ Len(granted[c]) \in Nat /\ (granted[c] = <<>> => Len(granted[c]) = 0)
        /\ Len(completed[c]) \in Nat /\ (completed[c] = <<>> => Len(completed[c]) = 0)
    BY <1>1
  <2>2. /\ Len(granted[c]) <= 1
        /\ completed[c] # <<>> => Len(completed[c]) = 1 /\ granted[c] # <<>>
    BY ZenonT(60) DEF IndInv, SingleClaim, CompletionIsDurable
  <2>3. g \in Nat /\ g <= 1 /\ (granted[c] = <<>> => g = 0)
    BY <1>2, <2>1, <2>2
  <2>4. (completed[c] = <<>> => d = 0) /\ (completed[c] # <<>> => d = 1 /\ granted[c] # <<>>)
    BY <1>2, <2>1, <2>2
  <2> QED
    BY <2>3, <2>4
<1>4. granted[c] # <<>> => c \in fs.dirs /\ fs.claim[c] # None
  BY GrantIsPublished
<1>5. completed[c] # <<>> => fs.terminal[c] # None
  <2>1. SUFFICES ASSUME completed[c] # <<>> PROVE fs.terminal[c] # None
    OBVIOUS
  <2>2. granted[c][1] \in Authorizations /\ completed[c][1] \in Outcomes
    BY <1>1, <1>3, <2>1
  <2>3. [auth |-> granted[c][1], outcome |-> completed[c][1], data |-> "synced"] \in TerminalRecords
    BY <2>2 DEF TerminalRecords, Contents
  <2>4. disk.terminal[c] = [auth |-> granted[c][1], outcome |-> completed[c][1], data |-> "synced"]
    BY <2>1 DEF IndInv, CompletionIsDurable
  <2>5. disk.terminal[c] # None
    BY <2>3, <2>4, NoneAssumption
  <2> QED
    BY <2>5 DEF IndInv, DiskInv
<1>6. Acknowledged(c) = g + d
  BY <1>2 DEF Acknowledged
<1> QED
  BY <1>3, <1>4, <1>5, <1>6

LEMMA AtMostLater ==
    ASSUME NEW m \in Nat, NEW n \in Nat, NEW p \in Nat, m <= n, p >= n PROVE m <= p
  OBVIOUS

\* A step that takes nothing back and leaves every call alone or sound.
LEMMA StaysSound ==
    ASSUME IndInv, SoundInv, DOMAIN ret' = Calls,
           \A c \in Capabilities : Acknowledged(c)' >= Acknowledged(c) /\ Acknowledged(c)' \in Nat,
           \A c \in Capabilities : fs.claim[c] # None => fs'.claim[c] = fs.claim[c],
           \A k \in Calls : (call'[k] = call[k] /\ ret'[k] = ret[k]) \/ Sound(k)'
    PROVE  SoundInv'
<1>1. SUFFICES ASSUME NEW k \in Calls, call'[k] = call[k], ret'[k] = ret[k] PROVE Sound(k)'
  BY DEF SoundInv
<1>2. call[k].op = "inspect" \/ call[k].pc = "readTerminal" => call[k].cap \in Capabilities
  BY DEF IndInv, CallInv
<1>3. Sound(k)
  BY DEF SoundInv
<1>4. call[k].op = "inspect" => call[k].floor <= Acknowledged(call[k].cap)'
  <2>1. SUFFICES ASSUME call[k].op = "inspect" PROVE call[k].floor <= Acknowledged(call[k].cap)'
    OBVIOUS
  <2>2. call[k].floor \in Nat /\ call[k].cap \in Capabilities
    BY <1>2, <2>1 DEF IndInv, TypeOK
  <2>3. PICK c \in Capabilities : c = call[k].cap
    BY <2>2
  <2>4. Acknowledged(c) \in Nat /\ Acknowledged(c)' \in Nat /\ Acknowledged(c)' >= Acknowledged(c)
    BY AcknowledgedIs
  <2>5. call[k].floor <= Acknowledged(c)
    BY <1>3, <2>1, <2>3 DEF Sound
  <2>6. Acknowledged(call[k].cap)' = Acknowledged(c)'
    BY <1>1, <2>3 DEF Acknowledged
  <2>7. call[k].floor <= Acknowledged(c)'
    BY <2>2, <2>4, <2>5, AtMostLater, ZenonT(60)
  <2> QED
    BY <2>6, <2>7, ZenonT(60)
<1> QED
  BY <1>1, <1>2, <1>3, <1>4 DEF Sound

\* No acknowledgement and no claim record is taken back.
NothingLost ==
    /\ \A c \in Capabilities : Acknowledged(c)' >= Acknowledged(c) /\ Acknowledged(c)' \in Nat
    /\ \A c \in Capabilities : fs.claim[c] # None => fs'.claim[c] = fs.claim[c]

LEMMA NothingIsLost ==
    ASSUME IndInv, UNCHANGED <<fs, granted, completed>> PROVE NothingLost
<1>1. \A c \in Capabilities : Acknowledged(c)' = Acknowledged(c)
  BY DEF Acknowledged
<1>2. \A c \in Capabilities : Acknowledged(c) \in Nat
  BY AcknowledgedIs
<1> QED
  BY <1>1, <1>2 DEF NothingLost

\* A call ends, with a report that is sound for what was acknowledged when it began.
LEMMA EndsSoundly ==
    ASSUME IndInv, SoundInv, NothingLost, NEW k \in Calls, NEW r, NEW code,
           call' = [call EXCEPT ![k] = r], ret' = [ret EXCEPT ![k] = code],
           r.pc = "idle", r.op = "none", code # "CORRUPT",
           code \in {"ABSENT", "RESERVED_INCOMPLETE", "RESERVED"} \union Outcomes =>
               Rank(code) >= r.floor
    PROVE  SoundInv'
<1>1. /\ call'[k] = r /\ \A l \in Calls \ {k} : call'[l] = call[l]
      /\ ret'[k] = code /\ \A l \in Calls \ {k} : ret'[l] = ret[l]
      /\ DOMAIN ret' = Calls
  BY DEF IndInv, TypeOK, SoundInv
<1>2. Sound(k)'
  BY <1>1 DEF Sound
<1> QED
  BY <1>1, <1>2, StaysSound DEF NothingLost

\* A call begins or goes on.
LEMMA GoesOnSoundly ==
    ASSUME IndInv, SoundInv, NothingLost, NEW k \in Calls, NEW r, call' = [call EXCEPT ![k] = r],
           ret' = ret \/ ret' = [ret EXCEPT ![k] = "none"], ret'[k] = "none",
           r.op = "inspect" => r.cap \in Capabilities /\ r.floor \in Nat
                               /\ r.floor <= Acknowledged(r.cap),
           r.pc = "readTerminal" => /\ r.cap \in Capabilities
                                    /\ fs.claim[r.cap] # None /\ fs.claim[r.cap].auth = r.auth
    PROVE  SoundInv'
<1>1. /\ call'[k] = r /\ \A l \in Calls \ {k} : call'[l] = call[l]
      /\ \A l \in Calls \ {k} : ret'[l] = ret[l]
      /\ DOMAIN ret' = Calls
  BY DEF IndInv, TypeOK, SoundInv
<1>2. ASSUME r.op = "inspect" PROVE r.floor <= Acknowledged(r.cap)'
  <2>1. /\ Acknowledged(r.cap) \in Nat /\ Acknowledged(r.cap)' \in Nat
        /\ Acknowledged(r.cap)' >= Acknowledged(r.cap)
    BY <1>2, AcknowledgedIs DEF NothingLost
  <2> QED
    BY <1>2, <2>1
<1>3. r.pc = "readTerminal" => fs'.claim[r.cap] # None /\ fs'.claim[r.cap].auth = r.auth
  BY DEF NothingLost
<1>4. "none" \notin {"ABSENT", "RESERVED_INCOMPLETE", "RESERVED", "CORRUPT"} \union Outcomes
  BY DEF Outcomes
<1>5. Acknowledged(call[k].cap)' = Acknowledged(r.cap)'
  BY <1>1, ZenonT(60) DEF Acknowledged
<1>6. Sound(k)'
  BY <1>1, <1>2, <1>3, <1>4, <1>5 DEF Sound
<1> QED
  BY <1>1, <1>6, StaysSound DEF NothingLost

\* A running call passes an await.
LEMMA PassesSoundly ==
    ASSUME IndInv, SoundInv, NothingLost, NEW k \in Calls, call[k].pc # "idle",
           NEW pc \in Steps, NEW temp, ret' = ret,
           \/ call' = [call EXCEPT ![k].pc = pc]
           \/ call' = [call EXCEPT ![k].pc = pc, ![k].temp = temp],
           pc = "readTerminal" => /\ fs.claim[call[k].cap] # None
                                  /\ fs.claim[call[k].cap].auth = call[k].auth
    PROVE  SoundInv'
<1>1. call \in [Calls -> CallRecords] /\ call[k] \in CallRecords
  BY DEF IndInv, TypeOK, CallRecords
<1>2. PICK r : /\ call' = [call EXCEPT ![k] = r]
               /\ \/ r = [call[k] EXCEPT !.pc = pc]
                  \/ r = [call[k] EXCEPT !.pc = pc, !.temp = temp]
  <2>1. CASE call' = [call EXCEPT ![k].pc = pc]
    BY <2>1, ZenonT(60)
  <2>2. CASE call' = [call EXCEPT ![k].pc = pc, ![k].temp = temp]
    <3>1. call' = [call EXCEPT ![k] = [call[k] EXCEPT !.pc = pc, !.temp = temp]]
      BY <1>1, <2>2, ZenonT(60)
    <3> QED
      BY <3>1, ZenonT(60)
  <2> QED
    BY <2>1, <2>2
<1>3. /\ r.pc = pc /\ r.op = call[k].op /\ r.cap = call[k].cap /\ r.auth = call[k].auth
      /\ r.floor = call[k].floor
  BY <1>1, <1>2 DEF CallRecords
<1>4. call[k].cap \in Capabilities /\ call[k].floor \in Nat
  BY <1>1 DEF IndInv, CallInv, CallRecords
<1>5. ret[k] = "none" /\ (call[k].op = "inspect" => call[k].floor <= Acknowledged(call[k].cap))
  BY DEF SoundInv, Sound
<1> QED
  BY <1>2, <1>3, <1>4, <1>5, GoesOnSoundly, ZenonT(60)

LEMMA ReturnsSoundly ==
    ASSUME IndInv, SoundInv, NothingLost, NEW k \in Calls, NEW code, Return(k, code),
           code # "CORRUPT"
    PROVE  SoundInv'
<1>1. Idle.pc = "idle" /\ Idle.op = "none" /\ Idle.floor = 0
  BY DEF Idle
<1>2. code \in {"ABSENT", "RESERVED_INCOMPLETE", "RESERVED"} \union Outcomes => Rank(code) >= 0
  BY RankIs
<1> QED
  BY <1>1, <1>2, EndsSoundly, ZenonT(60) DEF Return

LEMMA ReportsSoundly ==
    ASSUME IndInv, SoundInv, NothingLost, NEW k \in Calls, NEW code, Report(k, code),
           code # "CORRUPT",
           code \in {"ABSENT", "RESERVED_INCOMPLETE", "RESERVED"} \union Outcomes =>
               Rank(code) >= call[k].floor
    PROVE  SoundInv'
<1>1. PICK r : r = [Idle EXCEPT !.cap = call[k].cap, !.floor = call[k].floor]
  OBVIOUS
<1>2. r.pc = "idle" /\ r.op = "none" /\ r.floor = call[k].floor
  BY <1>1 DEF Idle
<1>3. call' = [call EXCEPT ![k] = r] /\ ret' = [ret EXCEPT ![k] = code]
  BY <1>1 DEF Report
<1> QED
  BY <1>2, <1>3, EndsSoundly, ZenonT(60)

\* An acknowledgement is added to the history of one capability.
LEMMA AcknowledgesMore ==
    ASSUME IndInv, NEW d \in Capabilities, NEW a \in Authorizations, NEW o \in Outcomes,
           \/ granted' = [granted EXCEPT ![d] = Append(@, a)] /\ completed' = completed
           \/ granted' = granted /\ completed' = [completed EXCEPT ![d] = Append(@, o)],
           NEW c \in Capabilities
    PROVE  Acknowledged(c)' \in Nat /\ Acknowledged(c)' >= Acknowledged(c)
<1>1. /\ granted \in [Capabilities -> Seq(Authorizations)]
      /\ completed \in [Capabilities -> Seq(Outcomes)]
  BY DEF IndInv, TypeOK
<1>2. PICK g, m, g2, m2 : /\ g = Len(granted[c]) /\ m = Len(completed[c])
                          /\ g2 = Len(granted'[c]) /\ m2 = Len(completed'[c])
  BY ZenonT(60)
<1>3. g \in Nat /\ m \in Nat
  BY <1>1, <1>2
<1>4. g2 \in {g, g + 1} /\ m2 \in {m, m + 1}
  <2>1. granted'[c] = granted[c] \/ granted'[c] = Append(granted[c], a)
    BY <1>1
  <2>2. completed'[c] = completed[c] \/ completed'[c] = Append(completed[c], o)
    BY <1>1
  <2>3. Len(Append(granted[c], a)) = Len(granted[c]) + 1
    BY <1>1
  <2>4. Len(Append(completed[c], o)) = Len(completed[c]) + 1
    BY <1>1
  <2> QED
    BY <1>2, <2>1, <2>2, <2>3, <2>4
<1>5. Acknowledged(c) = g + m /\ Acknowledged(c)' = g2 + m2
  BY <1>2 DEF Acknowledged
<1> QED
  BY <1>3, <1>4, <1>5

\* No operation takes an acknowledgement or a claim record back.
LEMMA CallsLoseNothing ==
    ASSUME IndInv, NEW k \in Calls, Begin(k) \/ Step(k) PROVE NothingLost
<1>1. fs \in FileSystem /\ call[k] \in CallRecords
  BY DEF IndInv, TypeOK, CallRecords
<1>2. \/ UNCHANGED <<fs, granted, completed>> \/ Mkdir(k) \/ LinkClaim(k) \/ LinkTerminal(k)
      \/ FinishClaim(k) \/ FinishComplete(k)
  BY ZenonT(60) DEF Step, RootRejected, SyncRoot, WriteTemp, SyncTemp, UnlinkTemp, Reread, Lstat, ReadClaim,
         ReadTerminal, IoError, Begin, BeginOnRoot, BeginComplete, StaleComplete, InvalidOutcome
<1>3. CASE UNCHANGED <<fs, granted, completed>>
  BY <1>3, NothingIsLost
<1>4. CASE Mkdir(k) \/ LinkClaim(k) \/ LinkTerminal(k)
  <2>1. UNCHANGED <<granted, completed>>
    BY <1>4 DEF Mkdir, LinkClaim, LinkTerminal
  <2>2. \A c \in Capabilities : Acknowledged(c)' = Acknowledged(c)
    BY <2>1 DEF Acknowledged
  <2>3. \A c \in Capabilities : fs.claim[c] # None => fs'.claim[c] = fs.claim[c]
    <3>1. CASE Mkdir(k)
      BY <1>1, <3>1 DEF Mkdir, FileSystem
    <3>2. CASE LinkTerminal(k)
      BY <1>1, <3>2 DEF LinkTerminal, FileSystem
    <3>3. CASE LinkClaim(k)
      BY <1>1, <3>3 DEF LinkClaim, FileSystem
    <3> QED
      BY <1>4, <3>1, <3>2, <3>3
  <2> QED
    BY <2>2, <2>3, AcknowledgedIs DEF NothingLost
<1>5. CASE FinishClaim(k) \/ FinishComplete(k)
  <2>1. call[k].cap \in Capabilities /\ call[k].auth \in Authorizations
    BY <1>5, ZenonT(60) DEF IndInv, CallInv, FinishClaim, FinishComplete
  <2>2. fs' = fs
    BY <1>5 DEF FinishClaim, FinishComplete
  <2>3. CASE FinishClaim(k)
    <3>1. granted' = [granted EXCEPT ![call[k].cap] = Append(@, call[k].auth)]
          /\ completed' = completed
      BY <2>3 DEF FinishClaim
    <3>2. "CONSUMED_ERROR" \in Outcomes
      BY DEF Outcomes
    <3> QED
      BY <2>1, <2>2, <3>1, <3>2, AcknowledgesMore, ZenonT(60) DEF NothingLost
  <2>4. CASE FinishComplete(k)
    <3>1. completed' = [completed EXCEPT ![call[k].cap] = Append(@, call[k].outcome)]
          /\ granted' = granted
      BY <2>4 DEF FinishComplete
    <3>2. call[k].outcome \in Outcomes
      BY <2>4 DEF FinishComplete, IndInv, CallInv
    <3> QED
      BY <2>1, <2>2, <3>1, <3>2, AcknowledgesMore, ZenonT(60) DEF NothingLost
  <2> QED
    BY <1>5, <2>3, <2>4
<1> QED
  BY <1>2, <1>3, <1>4, <1>5

\* A call has reported nothing when it begins.
LEMMA BeginSoundly == ASSUME IndInv, SoundInv, NEW k \in Calls, Begin(k) PROVE SoundInv'
<1>1. NothingLost
  BY CallsLoseNothing
<1>2. PICK s \in Stores, c \in Capabilities :
            \/ \E op \in {"claim", "inspect"}, a \in Authorizations : BeginOnRoot(k, s, op, c, a)
            \/ \E o \in Outcomes : BeginComplete(k, s, c, o)
            \/ StaleComplete(k, s, c)
            \/ InvalidOutcome(k, s, c)
  BY DEF Begin
<1>3. CASE StaleComplete(k, s, c) \/ InvalidOutcome(k, s, c)
  BY <1>1, <1>3, ReturnsSoundly DEF StaleComplete, InvalidOutcome
<1>4. ret' = [ret EXCEPT ![k] = "none"] => ret'[k] = "none"
  BY DEF SoundInv
<1>5. ASSUME NEW op \in {"claim", "inspect"}, NEW a \in Authorizations, BeginOnRoot(k, s, op, c, a)
      PROVE  SoundInv'
  <2>1. PICK r : r = [Idle EXCEPT !.pc = "root", !.op = op, !.store = s, !.cap = c, !.auth = a,
                                  !.floor = Acknowledged(c)]
    OBVIOUS
  <2>2. r.pc = "root" /\ r.op = op /\ r.cap = c /\ r.floor = Acknowledged(c)
    BY <2>1 DEF Idle
  <2>3. call' = [call EXCEPT ![k] = r] /\ ret' = [ret EXCEPT ![k] = "none"]
    BY <1>5, <2>1 DEF BeginOnRoot
  <2>4. Acknowledged(c) \in Nat
    BY AcknowledgedIs
  <2>5. r.floor \in Nat /\ r.floor <= Acknowledged(r.cap)
    BY <2>2, <2>4
  <2> QED
    BY <1>1, <1>4, <2>2, <2>3, <2>5, GoesOnSoundly, ZenonT(60)
<1>6. ASSUME NEW o \in Outcomes, BeginComplete(k, s, c, o) PROVE SoundInv'
  <2>1. PICK r : r = [Idle EXCEPT !.pc = "reread", !.op = "complete", !.store = s, !.cap = c,
                                  !.auth = handleState[s][c].auth, !.outcome = o]
    OBVIOUS
  <2>2. r.pc = "reread" /\ r.op = "complete"
    BY <2>1 DEF Idle
  <2>3. call' = [call EXCEPT ![k] = r] /\ ret' = [ret EXCEPT ![k] = "none"]
    BY <1>6, <2>1 DEF BeginComplete
  <2> QED
    BY <1>1, <1>4, <2>2, <2>3, GoesOnSoundly, ZenonT(60)
<1> QED
  BY <1>2, <1>3, <1>5, <1>6

\* The record complete() reads again is the one of the granted claim.
LEMMA RereadSoundly == ASSUME IndInv, SoundInv, NEW k \in Calls, Reread(k) PROVE SoundInv'
<1>1. NothingLost
  BY CallsLoseNothing DEF Step
<1>2. PICK c : c = call[k].cap
  OBVIOUS
<1>3. call[k].pc = "reread" /\ call[k].op = "complete" /\ c \in Capabilities
      /\ call[k].store \in Stores /\ call[k].auth \in Authorizations
  <2>1. call[k] \in CallRecords /\ call[k].pc = "reread"
    BY ZenonT(60) DEF IndInv, TypeOK, CallRecords, Reread
  <2> QED
    BY <1>2, <2>1 DEF IndInv, CallInv, CallRecords, PublishSteps
<1>4. PICK h : h = handleState[call[k].store][c]
  OBVIOUS
<1>5. h = [state |-> "FINALIZING", auth |-> call[k].auth]
  BY <1>2, <1>3, <1>4, ZenonT(60) DEF IndInv, CompleteInv, Completing
<1>6. h \in Handles /\ h.auth = call[k].auth
  BY <1>3, <1>5 DEF Handles, HandleStates
<1>7. granted[c] # <<>> /\ granted[c][1] = call[k].auth
  BY <1>3, <1>4, <1>6, NoneAssumption DEF IndInv, HandleInv
<1>8. PICK r : r = [auth |-> call[k].auth, data |-> "synced"]
  BY ZenonT(60)
<1>9. r \in ClaimRecords /\ r.auth = call[k].auth /\ r.data = "synced"
  BY <1>3, <1>8 DEF ClaimRecords, Contents
<1>10. fs.claim[c] = r /\ r # None
  BY <1>3, <1>7, <1>8, <1>9, NoneAssumption DEF IndInv, ClaimIsDurable, DiskInv
<1>11. Goto(k, "write")
  BY <1>2, <1>9, <1>10 DEF Reread, Whole
<1>12. "write" \in Steps
  BY DEF Steps, PublishSteps
<1> QED
  BY <1>1, <1>3, <1>11, <1>12, PassesSoundly, ZenonT(60) DEF Goto

\* inspect() finds on the file system at least what was acknowledged when it began, and
\* nothing that is torn or bound to two authorizations.
LEMMA InspectSoundly ==
    ASSUME IndInv, SoundInv, NEW k \in Calls, Lstat(k) \/ ReadClaim(k) \/ ReadTerminal(k)
    PROVE  SoundInv'
<1>1. NothingLost
  BY CallsLoseNothing DEF Step
<1>2. PICK c : c = call[k].cap
  OBVIOUS
<1>3. call[k] \in CallRecords /\ call[k].pc # "idle" /\ call[k].op = "inspect" /\ c \in Capabilities
  <2>1. call[k] \in CallRecords /\ call[k].pc \in {"root", "readClaim", "readTerminal"}
        /\ (call[k].pc = "root" => call[k].op = "inspect")
    BY DEF IndInv, TypeOK, CallRecords, Lstat, ReadClaim, ReadTerminal
  <2> QED
    BY <1>2, <2>1 DEF IndInv, CallInv, CallRecords, PublishSteps
<1>4. PICK floor \in Nat : floor = call[k].floor
  BY <1>3 DEF CallRecords
<1>5. PICK known \in Nat : known = Acknowledged(c)
  BY <1>3, AcknowledgedIs
<1>6. /\ floor <= known /\ known <= 2
      /\ fs.terminal[c] = None => known <= 1
      /\ fs.claim[c] = None \/ c \notin fs.dirs => known = 0
  <2>1. floor <= known
    BY <1>2, <1>3, <1>4, <1>5 DEF SoundInv, Sound
  <2> QED
    BY <1>3, <1>5, <2>1, AcknowledgedIs
<1>7. {"readClaim", "readTerminal"} \subseteq Steps
  BY DEF Steps
<1>8. CASE Lstat(k)
  <2>1. CASE Report(k, "ABSENT") /\ c \notin fs.dirs
    <3>1. Rank("ABSENT") >= call[k].floor
      BY <1>4, <1>6, <2>1, RankIs
    <3> QED
      BY <1>1, <2>1, <3>1, ReportsSoundly, ZenonT(60)
  <2>2. CASE Goto(k, "readClaim")
    BY <1>1, <1>3, <1>7, <2>2, PassesSoundly, ZenonT(60) DEF Goto
  <2> QED
    BY <1>2, <1>8, <2>1, <2>2, ZenonT(60) DEF Lstat
<1>9. CASE ReadClaim(k)
  <2>1. fs.claim[c] # None => Whole(fs.claim[c])
    BY <1>3 DEF IndInv, DiskInv, Whole
  <2>2. CASE Report(k, "RESERVED_INCOMPLETE") /\ fs.claim[c] = None
    <3>1. Rank("RESERVED_INCOMPLETE") >= call[k].floor
      BY <1>4, <1>6, <2>2, RankIs
    <3> QED
      BY <1>1, <2>2, <3>1, ReportsSoundly
  <2>3. CASE Report(k, "BINDING_MISMATCH")
    <3>1. "BINDING_MISMATCH" \notin {"ABSENT", "RESERVED_INCOMPLETE", "RESERVED"} \union Outcomes
      BY DEF Outcomes
    <3> QED
      BY <1>1, <2>3, <3>1, ReportsSoundly
  <2>4. CASE Goto(k, "readTerminal") /\ fs.claim[c] # None /\ fs.claim[c].auth = call[k].auth
    BY <1>1, <1>2, <1>3, <1>7, <2>4, PassesSoundly, ZenonT(60) DEF Goto
  <2> QED
    BY <1>2, <1>9, <2>1, <2>2, <2>3, <2>4 DEF ReadClaim
<1>10. CASE ReadTerminal(k)
  <2>1. fs.claim[c] # None /\ fs.claim[c].auth = call[k].auth
    BY <1>2, <1>10, ZenonT(60) DEF SoundInv, Sound, ReadTerminal
  <2>2. CASE fs.terminal[c] = None
    <3>1. Report(k, "RESERVED")
      BY <1>2, <1>10, <2>2 DEF ReadTerminal
    <3>2. Rank("RESERVED") >= call[k].floor
      BY <1>4, <1>6, <2>2, RankIs
    <3> QED
      BY <1>1, <3>1, <3>2, ReportsSoundly
  <2>3. CASE fs.terminal[c] # None
    <3>1. granted[c] # <<>> /\ fs.terminal[c].auth = granted[c][1] /\ Whole(fs.terminal[c])
      BY <1>3, <2>3 DEF IndInv, TerminalNeedsGrant, DiskInv, Whole
    <3>2. fs.claim[c].auth = granted[c][1]
      BY <1>3, <3>1, GrantIsPublished
    <3>3. fs.terminal[c].auth = call[k].auth
      BY <2>1, <3>1, <3>2
    <3>4. PICK o : o = fs.terminal[c].outcome
      OBVIOUS
    <3>5. o \in Outcomes
      BY <1>3, <2>3, <3>4 DEF IndInv, TypeOK, FileSystem, TerminalRecords
    <3>6. Report(k, o)
      BY <1>2, <1>10, <2>3, <3>1, <3>3, <3>4 DEF ReadTerminal
    <3>7. Rank(o) = 2
      BY <3>5, RankIs
    <3>8. Rank(o) >= call[k].floor
      BY <1>4, <1>6, <3>7
    <3>9. o # "CORRUPT"
      BY <3>5 DEF Outcomes
    <3> QED
      BY <1>1, <3>6, <3>8, <3>9, ReportsSoundly
  <2> QED
    BY <2>2, <2>3
<1> QED
  BY <1>8, <1>9, <1>10

LEMMA StepSoundly == ASSUME IndInv, SoundInv, NEW k \in Calls, Step(k) PROVE SoundInv'
<1>1. NothingLost
  BY CallsLoseNothing
<1>2. {"syncRoot", "write", "syncTemp", "link", "unlink", "syncDir"} \subseteq Steps
  BY DEF Steps, PublishSteps
<1>3. CASE RootRejected(k) \/ IoError(k)
  BY <1>1, <1>3, ReturnsSoundly DEF RootRejected, IoError
<1>4. CASE Mkdir(k)
  <2>1. call[k].pc # "idle" /\ (Return(k, "REPLAY") \/ Goto(k, "syncRoot"))
    BY <1>4 DEF Mkdir
  <2>2. CASE Return(k, "REPLAY")
    BY <1>1, <2>2, ReturnsSoundly
  <2>3. CASE Goto(k, "syncRoot")
    BY <1>1, <1>2, <2>1, <2>3, PassesSoundly, ZenonT(60) DEF Goto
  <2> QED
    BY <2>1, <2>2, <2>3
<1>5. CASE LinkClaim(k) \/ LinkTerminal(k)
  <2>1. call[k].pc # "idle" /\ (Return(k, "REPLAY") \/ Goto(k, "unlink"))
    BY <1>5 DEF LinkClaim, LinkTerminal
  <2>2. CASE Return(k, "REPLAY")
    BY <1>1, <2>2, ReturnsSoundly
  <2>3. CASE Goto(k, "unlink")
    BY <1>1, <1>2, <2>1, <2>3, PassesSoundly, ZenonT(60) DEF Goto
  <2> QED
    BY <2>1, <2>2, <2>3
<1>6. CASE SyncRoot(k)
  BY <1>1, <1>2, <1>6, PassesSoundly, ZenonT(60) DEF SyncRoot, Goto
<1>7. CASE WriteTemp(k) \/ SyncTemp(k) \/ UnlinkTemp(k)
  <2>1. PICK pc \in {"syncTemp", "link", "syncDir"}, temp \in {"written", "synced", "none"} :
            call' = [call EXCEPT ![k].pc = pc, ![k].temp = temp]
    BY <1>7 DEF WriteTemp, SyncTemp, UnlinkTemp
  <2>2. call[k].pc # "idle" /\ ret' = ret
    BY <1>7 DEF WriteTemp, SyncTemp, UnlinkTemp
  <2> QED
    BY <1>1, <1>2, <2>1, <2>2, PassesSoundly, ZenonT(60)
<1>8. CASE FinishClaim(k)
  BY <1>1, <1>8, ReturnsSoundly DEF FinishClaim
<1>9. CASE FinishComplete(k)
  <2>1. PICK o : o = call[k].outcome
    OBVIOUS
  <2>2. o # "CORRUPT"
    BY <1>9, <2>1 DEF FinishComplete, IndInv, CallInv, Outcomes
  <2>3. Return(k, o)
    BY <1>9, <2>1 DEF FinishComplete
  <2> QED
    BY <1>1, <2>2, <2>3, ReturnsSoundly
<1> QED
  BY <1>3, <1>4, <1>5, <1>6, <1>7, <1>8, <1>9, RereadSoundly, InspectSoundly DEF Step

LEMMA SoundStep == IndInv /\ SoundInv /\ [Next]_vars => SoundInv'
<1> SUFFICES ASSUME IndInv, SoundInv, [Next]_vars PROVE SoundInv'
  OBVIOUS
<1>1. Idle.pc = "idle" /\ Idle.op = "none"
  BY DEF Idle
<1>2. "none" \notin {"ABSENT", "RESERVED_INCOMPLETE", "RESERVED", "CORRUPT"} \union Outcomes
  BY DEF Outcomes
<1>3. ASSUME NEW k \in Calls, call'[k] = Idle, ret'[k] = "none" PROVE Sound(k)'
  BY <1>1, <1>2, <1>3 DEF Sound
<1>4. CASE PowerLoss
  <2>1. call' = [k \in Calls |-> Idle] /\ ret' = [k \in Calls |-> "none"]
    BY <1>4 DEF PowerLoss
  <2> QED
    BY <1>3, <2>1 DEF SoundInv
<1>5. ASSUME NEW s \in Stores, ProcessCrash(s) PROVE SoundInv'
  <2>1. DOMAIN ret' = Calls
    BY <1>5 DEF ProcessCrash
  <2>2. \A k \in Calls : \/ call'[k] = call[k] /\ ret'[k] = ret[k]
                         \/ call'[k] = Idle /\ ret'[k] = "none"
    BY <1>5 DEF ProcessCrash
  <2>3. NothingLost
    BY <1>5, NothingIsLost DEF ProcessCrash
  <2> QED
    BY <1>3, <2>1, <2>2, <2>3, StaysSound DEF NothingLost
<1>6. ASSUME UNCHANGED <<call, ret, granted, completed>>, fs' = fs \/ ProvisionRoot PROVE SoundInv'
  <2>1. fs'.claim = fs.claim
    BY <1>6 DEF ProvisionRoot, IndInv, TypeOK, FileSystem
  <2>2. \A c \in Capabilities : Acknowledged(c)' = Acknowledged(c)
    BY <1>6 DEF Acknowledged
  <2>3. NothingLost
    BY <2>1, <2>2, AcknowledgedIs DEF NothingLost
  <2>4. DOMAIN ret' = Calls
    BY <1>6 DEF SoundInv
  <2> QED
    BY <1>6, <2>3, <2>4, StaysSound DEF NothingLost
<1>7. CASE ProvisionRoot
  BY <1>6, <1>7 DEF ProvisionRoot
<1>8. ASSUME NEW s \in Stores, ResolveRoot(s) PROVE SoundInv'
  BY <1>6, <1>8 DEF ResolveRoot, TrustRoot, RejectRoot
<1>9. CASE UNCHANGED vars
  BY <1>6, <1>9 DEF vars
<1> QED
  BY <1>4, <1>5, <1>7, <1>8, <1>9, BeginSoundly, StepSoundly DEF Next

LEMMA SoundInitially == Init => SoundInv
<1> SUFFICES ASSUME Init PROVE SoundInv
  OBVIOUS
<1>1. Idle.pc = "idle" /\ Idle.op = "none"
  BY DEF Idle
<1>2. "none" \notin {"ABSENT", "RESERVED_INCOMPLETE", "RESERVED", "CORRUPT"} \union Outcomes
  BY DEF Outcomes
<1>3. call = [k \in Calls |-> Idle] /\ ret = [k \in Calls |-> "none"]
  BY DEF Init
<1> QED
  BY <1>1, <1>2, <1>3 DEF SoundInv, Sound

\* An inspection reports at least what claim() and complete() had acknowledged before it
\* began, in any process and after any crash, and takes no publication in progress and no
\* remains of a crash for a damaged record.
THEOREM InspectionIsSoundTheorem == Spec => []InspectionIsSound
<1>1. SoundInv => InspectionIsSound
  BY DEF SoundInv, Sound, InspectionIsSound
<1>2. Spec => []SoundInv
  BY StoreInvariant, SoundInitially, SoundStep, PTL DEF Spec
<1> QED
  BY <1>1, <1>2, PTL
=============================================================================
