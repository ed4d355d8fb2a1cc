# Verification of the SwissTokint reference core

TLA+ models of the stateful parts of this repository, TLC configurations that
check them on small instances, and TLAPS proofs of the properties that matter
most for every size of the system.

## The system

| Part | Source | State | Operations |
| --- | --- | --- | --- |
| Durable claim store | `core/gate/reference-durable-claim-store.mjs` | a directory per capability with `claim.json` and `terminal.json`; handles and the memoised root check in memory | `claim`, `complete`, `inspect` |
| Single-use gate | `core/gate/reference-single-use-gate.mjs`, `core/authorization/reference-exact-authorization.mjs` | capability states, last trusted time | issue, `consume` |
| Execution evidence | `core/execution/reference-execution-evidence.mjs` | open executions, recorded evidence, capacity | `begin`, `complete` |
| Observation | `core/observation/reference-observation-reconciliation.mjs` | last trusted time, one capture in flight per call | `captureAndReconcile` |
| Witness trust | `core/witness/`, `sdk/typescript/pom-rx-witness.mjs` | enrolled, revoked and replaced identities | `enroll`, `revoke`, `rotate`, `recover`, verification |
| Wallet gateway | `wallet-guard/provider.mjs`, `controlled-host.mjs`, `witness-authorization.mjs` | used evidence, pending requests, the host's context and log | `request`, provider answers, context changes |
| Bridge prototype | `wallet-guard/prototype/server.mjs`, `public/browser-bridge.js` | the one pending operation, its deadline, the retained hash, the ambiguity flag | HTTP handlers, browser loop |
| Operation journal | `wallet-guard/prototype/durable-operation-journal.mjs` | journal and lock files, in-memory record and life cycle | `initialize`, `arm`, `markDispatched`, `retainHash`, `terminate`, `close` |
| Policy | `wallet-guard/policy-controller.mjs`, `policy.mjs`, `intent.mjs`, `evm-decoders.mjs` | active policy and its revision, kill switch | replace, kill, evaluate |
| Receipt chains | `sdk/typescript/pom-rx.mjs` | receipts, each with the hash of the one before | commit, verify |
| Strict verification | `core/strict-verification/` | single-use policy capabilities | open, use, verdict |
| Batches and bundles | `sdk/typescript/swisstokint-proof.mjs`, `integrations/filecoin/` | Merkle batches, CAR bundles | build, prove, verify |
| Evidence registry | `integrations/stellar-evidence-registry/` | admin, writers, one record per batch | `register`, `revoke`, administration |
| Trusted status | `scripts/publish-trusted-pr-status.mjs`, `invalidate-trusted-pr-head-status.mjs` | the commit status of a pull-request head | publish, confirm, withdraw |

(`wallet-guard` is short for
`applications/blockchain-digital-assets/wallet-guard`.)

The claim store and the gate are the core: both promise that a capability is
used at most once, one in memory across concurrent calls, one on disk across
processes and crashes. `core/gate/README.md` says that the store is not
integrated into the gate yet, so the two models are not composed. The bridge
server drives the journal, the callback transport and the browser, which drives
the wallet; that chain is the second subject. The wallet gateway is the third: it
puts trust, policy and the gate together. The rest are components that share
nothing at run time: records kept in memory, and evidence that others read.

## Modules

**`DurableClaimStore`** has one action per await of the code. `fs` is the file
system as the processes see it and `disk` the part that `fsync` has made safe:
root, capability directories, and the two records of each. `call[k]` is a
suspended `claim`, `complete` or `inspect`; its `pc` names the system call it
waits for. `writeExclusiveDurable` is `WriteTemp`, `SyncTemp`, `LinkClaim` or
`LinkTerminal`, `UnlinkTemp`, and the directory sync inside `FinishClaim` and
`FinishComplete`. Any awaited system call may fail (`IoError`), a process may
die (`ProcessCrash`), the power may fail (`PowerLoss`: all of `disk` stays, and
any part of the rest). `granted` and `completed` are history variables: what
successful calls returned. `ClaimLedger` is the abstract promise, and
`Ledger` in `DurableClaimStore` maps `disk` onto it.

**`SingleUseGate`** splits `consume()` at its two awaits: `Consume` up to the
observer, `ObserverRejects`/`ObserverMatches` from the observer's answer to the
downstream call, `CompleteConsumption` after it. The clock is a value chosen at
each sample: it may be the failure value `None` and may be smaller than an earlier
one. `downstream` is the history of adapter calls. `CapabilityLifecycle` is the
life cycle of `core/gate/README.md`, and the gate implements it.

**`OperationJournal`** models several journal objects on one path, as several
processes may create them. `fs` holds the lock and the journal file, `disk` what
of them a power loss leaves; an object has its `lifecycle`, its `current` record,
whether it `owns` the lock, and `work`, the one operation that `runExclusive` lets
run, named by the system call it waits for. `opened` and `confirmed` are history
variables: which objects were initialized and which records were reported as
written. `OperationRecord` is the abstract life cycle of the record
(READY, ARMED, DISPATCHED, HASH_OBSERVED, then a terminal); the safe copy of the
file implements it.

**`BridgeServer`** models `server.mjs` with the callback transport. `srv` holds
the flags of `state`, `op` the `pending` object, which suspended handlers keep
after it is dropped, `amb` is `state.ambiguous`, `transport` the promise that the
gateway waits for. `queue` and `writes` are `journalTail` and the promises of
its writes; the journal itself is used through `OperationRecord`. `req[r].at`
says where the handler of a request is suspended: on the node, a journal write,
the reconciliation, the gateway, the transport or the observer. Each handler is
split at its awaits; reading the body is merged with arriving, because the check
after it repeats the check before it. The client is open: any request at any
time.

**`BridgeSession`** adds the page (`browser-bridge.js`), the wallet and a
network that may lose a request or an answer. `browser.pc` follows `bridgeLoop`
and `processBoundCommand` from await to await. A step with a timeout may take it
at any time, with one exception: the page discards an arm acknowledgement older
than 250 ms and the server's dispatch deadline is at least 1000 ms, so the page
does not call the wallet on an acknowledgement whose deadline has passed
(`FreshAcknowledgement`). A crash of the server is not a step: `WalletNeedsArm`
holds in every state, so wherever the server stops, the record is there. `event` is
a history variable: how far the page was when an account, chain or disconnect event
closed it (wallet not called, called, or settlement submitted). No step reads it.

**`ProviderGateway`** is `request()` of `provider.mjs` in its controlled host,
composed of `SingleUseGate` (by `INSTANCE`), `WitnessTrust` and `WalletPolicy` (by
`EXTENDS`). Nothing interrupts `request()` before the gate's first await, so a
request has the steps `Authorize`, `Resume`, `ProviderAnswers` and `Release`;
between them the host's context, the identities and the other requests change.
`used` is the three replay sets, `log` the host's list of sensitive calls.
`WalletPolicy` is the decoders, the intent and the policy as functions; a request's
data is a shape with its fields, and "malformed" is all that the decoders reject.

**`WitnessEvidence`** and **`WitnessTrust`** are envelopes, acknowledgements, the
evidence binding and the trust life cycle. A signature is the key that made it, or
`None`. Every operation samples the clock first and keeps the sample when it fails
(`RefuseTrustOperation`). `verified` is the history of results. `TrustedTime` is the
clock all reference components share: it may fail, stand still or go back.

**`ExecutionRecorder`**, **`ObservationCapture`** and **`PolicyControl`** are
synchronous code that calls its host: the clock may call the recorder while
`complete()` runs, the observer may report early, late, twice or never, and a
policy operation may be called inside another one. Each is split there.

**`ReceiptChain`** and **`StrictVerification`** are the published verifier of
receipt chains and the strict profile with its five checkers, its truth table and
the capability that is opened for one callback. A hash is the term it was
computed from, so that equal hashes mean equal contents; what the code leaves out
of a hash, the term leaves out. A source issues receipts, perhaps contradictory
ones, and storage alters or loses some.

**`MerkleBatch`**, **`EvidenceRegistry`** and **`EvidenceAnchor`** are batches and
bundles as operators, the contract with one action per call, and their
composition: a bundle is built, registered, stored, perhaps changed or packed
again, and read against the registry. The levels of a tree (`Levels`) and the
running hash of a proof (`Currents`) are recursive functions, one argument per turn
of the loop in the code; `Ordered` is the sort, by the rank of a receipt.

**`TrustedStatus`** is the publication of a commit status by several jobs while
main moves. A call takes effect and is answered, takes effect unanswered, is lost,
or takes effect after its caller gave up. The last case is why
`FailureLeavesNoSuccess` has an exception: a late success may be applied after the
same job's invalidation. The order of two calls is the service's, and no
client-side code can change it; `overtaken` records exactly that event.

## Runs

| Run | Question |
| --- | --- |
| `claim_store` | Two stores, three calls, two authorizations, one capability, crashes and power loss: is a claim granted at most once, is what was acknowledged durable, does inspection tell the truth, does the safe part of the disk implement the ledger? |
| `claim_store_faulty` | With damaged records: may a step re-arm an interrupted claim? Does every call return? |
| `claim_store_recorded` | Expected to fail: see Findings. |
| `gate` | Two calls, three capabilities, two actions, two contexts: single, authorized, ordered forwards? |
| `gate_lifecycle` | Do capability states follow the documented life cycle? Does every `consume()` end? |
| `journal` | Three journal objects on one path, crashes, failing calls: is the path opened once, is a writer alone and the holder of the lock, is a confirmed record durable, does the file follow the record's life cycle? |
| `journal_liveness` | Does `close()` end? |
| `bridge_server` | Any client, with and without a journal: is a pending command always under a deadline and settled when dropped, is every acknowledgement durable, is an observed hash retained, is a success clean, is ambiguity final? |
| `bridge_session` | Server, page, wallet, lossy network: is the wallet called only for a durably armed command, is every call accounted for, is no hash lost, is an allow request answered, is a wallet event final (no call after it, and no success, also when the close request is lost and the old context is back), does `close()` of the server end? |
| `wallet_gateway` | Three requests while the host changes origin and an identity is revoked or replaced: is what reaches the provider what was authorized, in its context and window? Is a piece of evidence used once? Does the host keep room for what it admitted? |
| `reference_records` | Trust, recorder, observation and policy: is a verification backed by keys active at the time, do identities form chains, has an authorization one piece of evidence, does a verdict rest on one unambiguous report, is a kill switch cleared only knowingly? |
| `public_evidence` | Chains, strict verdicts, anchored bundles, commit status: is a corrupted chain found out, do the two verifiers agree, does a verdict need one fresh capability, does a bundle hold what was registered first, does a failed job leave no success? |

*Bounds.* The calls of one capability never touch the directory of another, so
one capability and two or three calls give every race of the claim store; two
authorizations tell the winner from the loser. `claim_store_faulty` has one store,
which restarts after every crash: what it asks is about one capability's records
and handles, not about a rival. Two gate calls give
every race for one capability; three capabilities give a used, an active and an
expired one at once. Instants `0..3` with lifetimes `1..2` give clocks before,
inside, at the end of and after a window. Three journal objects give the owner, a
rival and a successor after a crash. The session has one command
(`maxSensitiveCalls` is 1), so its size is bounded by the code. In
`bridge_server` three open requests are the allow request and two that race
each other; two views tell a match from a mismatch, two hashes the first
candidate from another one. `Init` of the bridge chooses whether there is a
journal, so both runs cover both servers. The `VIEW` of `bridge_server` forgets
what was answered, which neither the server nor an open client reads. Interchangeable values are declared
symmetric where no liveness is checked. The bridge session really ends, so
its run does not check deadlock.

`wallet_gateway` has three requests because the host has room for two; a source, a
witness and a spare key give every retirement and one replacement
(`MaxRevision`). Its evidence is good for one request or another, shared by two,
soon over, for another action, denied, a dry run, or not signed. Instants `0..2`
with validities `1..2` give every order of signing, retirement and expiry. The
components of `reference_records`, and those of `public_evidence`, do not interact; one
variable, `focus`, is chosen in `Init` and lets one of them move, so a run is the
sum of their state spaces and not the product. Three authorizations meet a recorder with
room for two; two captures with two reports each give early, late and
contradictory reports; two operators hold snapshots of different age. Chains have at most three
receipts in the code; one corruption follows any issuing. Batches of three and four
leaves contain the duplicated last node, a reordering and a repeated identifier.
Two jobs and two bases give every race for the status. These systems end when
their bounds are used up, so the three runs do not check deadlock.

*Fairness.* `Fairness` of the store (part of `FaultySpec`): the event loop resumes
a call whose system call has ended and every system call ends, perhaps with an error. `FairSpec` of
the gate: the observer and the adapter answer. The gate has no timeout, so
without this a call may hang, as it may in the code. Crashes, issuing and new
calls are not fair. Bridge: handlers run, timers fire, the node, the observer and
the file system answer or fail (they have timeouts of their own), and the page
takes the steps it can take. The user, the wallet and the network owe nothing.

## Findings

`exclusive_claim_recorded` is set for every `claim.json` that can be read.
`core/gate/README.md` line 40 says it means that the store completed its
exclusive claim-record write. Between the hard link and the directory sync, and
after a sync that failed, an inspection reports the flag although `claim()` has
not returned success and may never do so (`claim_store_recorded`).

## Proofs

Every safety property that a passing run checks is also proved, for every value of
the constants.

`DurableClaimStoreProofs` proves, for any sets of stores, calls, capabilities and
authorizations, that `Spec` implies always `TypeOK`, `SingleClaim`,
`ClaimIsDurable`, `CompletionIsDurable`, `TerminalNeedsGrant` and
`HandleAgreesWithDisk`. None of these is inductive alone. `IndInv` adds which
arguments a suspended call carries (`CallInv`); that the disk is part of the file
system and that published records are synchronised (`DiskInv`); that the
tombstone makes the running claim the only one and that none runs once a
capability is granted (`ClaimInv`); that a handle belongs to the one granted claim
(`HandleInv`); and that a suspended `complete()` owns a handle in `FINALIZING`
(`CompleteInv`). Three results rest on it. `ImplementsLedger`: the safe part of the
file system only grows (`DiskGrows`), so each step adds an entry to the ledger or
leaves it alone. `InspectionIsSound`: `SoundInv` says that a running inspection began
with no more than is acknowledged now and that, once past `claim.json`, the record
it read is still there; what is acknowledged bounds what may be missing on the file
system (`AcknowledgedIs`). Under `FaultySpec` records may be damaged at any time and
`IndInv` fails; `FaultInv` keeps only what a fault cannot touch, the tombstones, and
from it follow `SingleClaim` and the action property `NeverRearmed`.

`ReferenceControlProofs` has one section for each component that may say yes. Gate:
`TypeOK`, `SingleForward`, `ForwardIsAuthorized`, `ForwardsInTimeOrder`,
`StateAgreesWithCalls` and `ImplementsLifecycle`; the invariant adds that each
reserved capability has exactly one owner and that the owner's first sample lies in
the window. Receipts: `CorruptionIsEvident` and `StrictRefinesLegacy`; the source
keeps the order of the phases and links each receipt to its last one, so a chain has
at most three receipts and the proof walks back along the links. Strict
verification: `VerdictIsEarned`; a capability is taken to its policy when it is used,
once. Status: `FailureLeavesNoSuccess`; calls still under way were made by jobs that
had posted.

`OperationJournalProofs` proves `TypeOK`, `SingleWriter`, `ConfirmedIsDurable` and
`ImplementsRecord` for any number of journal objects, operations and hashes.
`OwnInv` says that the lock is its owner's until the owner removes it, and where
work may be suspended; `RecordInv` that the open journal's record is the one on
disk up to the write in progress, and that the write of `initialize()` is the first
ever; `FileInv` that disk and file differ by at most one legal transition and that
neither is behind what was confirmed. `FileInv` makes the refinement a matter of
one step: the disk is only ever replaced by the file.

`BridgeServerProofs` proves `TypeOK`, `PendingIsLive`, `AcknowledgedIsDurable`,
`ObservedIsRetained`, `SuccessIsClean` and the action property `AmbiguityIsFinal` for
any number of requests open at once. The inductive invariant `ServerInv` has a part
for the shared state (`StateInv`: the stages of a command in order, what ends a
session, which hash an ambiguity has, and that a stage reached with a journal is
written) and one for the handlers (`RequestInv`: what a suspended handler may rely on
when it resumes). Most of the work is that a step of one handler leaves the others
what they rely on (`Continue`); `AloneInv` says that at most one handler examines
the result and one waits for the transport.

`BridgeSessionProofs` extends it to the page, the wallet and the network:
`WalletNeedsArm`, `InvokedIsAccounted`, `HashIsKept` and `EventIsFinal`. `SessionInv`
adds to `ServerInv` that the page takes each step of a command once, that the view the
server binds is the page's, and what the server has not seen before the page's result
arrives. `EventInv`, proved on top of it, says that no settlement is submitted after an
event and that nothing succeeds before one is; a command that was called is armed, and
`SessionInv` leaves it no other end than ambiguity.

`ProviderGatewayProofs` proves `SentIsBacked`, `EvidenceUsedOnce` and
`AdmittedHasRoom`. `GatewayInv` ties the three parts together: a call of the gate is
under way only while its request waits and is backed by verified evidence
(`CallInv`), the log holds each request that was sent, once (`LogInv`), and what backs
a capability is reserved and backs no other (`UsedInv`).

`ReferenceRecordsProofs` has one section per component. Policy: `KillSwitchHolds`; it
needs that the snapshots operators hold are no newer than the current one, and that
one of the same revision is the current one. Trust: `VerifiedIsBacked`,
`SuccessionIsLinear` and `RecordsOnlyRetire`; the invariant adds that every result is
no later than the clock, without which a later retirement could precede it.
Recorder: `EvidenceOncePerAuthorization`; it needs that an authorization belongs to
one handle and that evidence belongs to a recorded one. Observation:
`VerdictIsUnambiguous`; it needs what each suspended capture has seen of its
observer.

`EvidenceAnchorProofs` proves what batches, bundles and the registry promise together,
for batches of any size the code accepts. Four theorems are about the operators:

- `MerkleProofsAreSound`: `verifyMerkleProof` accepts a commitment under the root of a
  batch only if a receipt of the batch has that commitment, whatever the proof. Leaves
  and nodes are hashed under different prefixes, so a proof can only be followed back
  down the tree (`ProofsStartAtLeaves`).
- `MerkleRootsAreUnique`: batches with the same root have the same commitments in the
  same order. The duplicated last node is the delicate case: all hashes of a level
  differ (`LevelsDistinct`), so a node joined with itself is not one of two others.
- `BuiltProofsVerify`: every proof of a built batch verifies. A leaf has one node above
  it in each level (`IsAbove`), and `MaxLeaves` leaves give at most 14 levels
  (`Halving`), within the 32 steps the verifier allows.
- `BuiltBundlesVerify`: a bundle built from a valid batch verifies.

On them rest `AnchoredProofsHold` and the refinement `AnchorSpec => RegistrySpec`, and on
the registry alone `AttestsFirstOnly`. `AnchorInv` adds to the registry's invariant that
the bundle at hand was built from a batch, that each identifier in use has the
commitment of the bundle built from its first batch, and that the proofs in storage are
sequences. These theorems need induction over a tree and over a proof: the set of
turns at which a statement fails is empty, since it would have a least member
(`LeastNumber`), and the recursive functions are unfolded in the same way
(`LevelsIs`, `CurrentsIs`).

The proofs assume only what the modules name: that `None`, `Unset`, `Invalid` and the
like are no record, store, key, address, outcome or report; that instants, bounds
and revisions are natural; that the shortest lifetime is positive and the gateway's
lifetime lies between the shortest and the longest; that the identities a gateway
starts with are active records; that the session has one request of each kind and
that no hash is called `idle` or `prompt`; that the first kill switch is a Boolean;
and that batches are finite sequences of receipts with natural numbers for identifiers
and instants, whose bundles are among the `Commitments` of the registry
(`BatchesAssumption`). Hashing is taken to be injective: a hash is the term it was
computed from. TLC evaluates these assumptions in the runs. `TypeOK`,
`TerminalNeedsGrant`, `HandleAgreesWithDisk`, `StateAgreesWithCalls`,
`RecordsOnlyRetire` and `AttestsFirstOnly` are proved and need no run.

Model-checked only: liveness under fairness (`CallsReturn`, `CallsSettle`,
`CloseEnds`, `AllowAnswered`, `StopEnds`), which this prover does not cover.

## Not modelled

Hashing and canonical encoding (commitments are model values or terms), shape checks
of single values, JSON ingress, plain data snapshots, and the preflight and effect
builders: one value per synchronous call, with nothing that could run in between.
The isolated runner of the strict verifier starts one child whose answer it parses
and compares; the measurement of package files is the variable `measured` and no
more. Payload canonicalisation, wire receipts and the relay of the proof SDK; time
to live and archival of registry entries; the file lease that fixture generators
take on their destination; the promise transport; the launcher; release scripts,
the risk engine and the member lab.
Of the bridge: static pages, the bootstrap cookie, the status view, the RPC calls of
the observer, wallet discovery before the handshake. The Deny button is modelled
in the server only; it moves nothing but `operationInFlight`.
