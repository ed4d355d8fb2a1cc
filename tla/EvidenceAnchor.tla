--------------------------- MODULE EvidenceAnchor ---------------------------
(***************************************************************************)
(* Anchored evidence: a bundle is built from a batch of receipts, its root *)
(* and manifest are registered, and it is stored where storage, or whoever *)
(* packs it again, may change it.  A reader takes the stored bundle to the *)
(* registry.                                                               *)
(***************************************************************************)
EXTENDS MerkleBatch, EvidenceRegistry

CONSTANT Batches    \* the sequences of receipts a writer may build a bundle from

VARIABLES
    bundle,     \* the bundle that was built last, or Unset
    stored,     \* what storage returns, or Unset
    sources     \* history: per identifier, the receipts of the bundle registered first

anchorVars == <<registryVars, bundle, stored, sources>>

AnchorInit == /\ RegistryInit
              /\ bundle = Unset
              /\ stored = Unset
              /\ sources = [b \in BatchIds |-> <<>>]

CommitmentOf(car) ==
    [root |-> car.manifest.root, manifest |-> car.manifest, evidence |-> car]

ASSUME BatchesAssumption ==
    \A s \in Batches :
        /\ s \in Seq(Range(s))
        /\ \A r \in Range(s) : r.id \in Nat /\ r.occurred \in Nat
        /\ ValidBatch(s) => CommitmentOf(BuildFilecoinEvidenceBundle(s)) \in Commitments

Build(receipts) ==
    /\ ValidBatch(receipts)
    /\ bundle' = [car |-> BuildFilecoinEvidenceBundle(receipts), receipts |-> Ordered(receipts)]
    /\ UNCHANGED <<registryVars, stored, sources>>

RegisterBundle(writer, b) ==
    /\ bundle # Unset
    /\ Register(writer, b, CommitmentOf(bundle.car))
    /\ sources' = [sources EXCEPT ![b] = IF @ = <<>> THEN bundle.receipts ELSE @]
    /\ UNCHANGED <<bundle, stored>>

ReceiptProofs(car) == [i \in DOMAIN car.manifest.receipts |-> car.manifest.receipts[i].cid]

\* What storage may hold instead of a bundle: a block lost, a block other than its
\* identifier says, or a consistent new CAR with a receipt left out, changed, or taken
\* from the bundle stored before.
Changed(car) ==
    LET proofs == ReceiptProofs(car)
    IN  {[car EXCEPT !.blocks = @ \ {b}] : b \in car.blocks}
        \union {[car EXCEPT !.blocks = (@ \ {b}) \union {[b EXCEPT !.content.id = 0]}] : b \in car.blocks}
        \union {CarOf(car.manifest.root, SubSeq(proofs, 1, Len(proofs) - 1)), CarOf(car.manifest.root, Tail(proofs))}
        \union {CarOf(car.manifest.root, [proofs EXCEPT ![1].commitment = c,
                                                        ![1].leafHash = HashMerkleLeaf(c)])
                  : c \in {r.commitment : r \in UNION {Range(s) : s \in Batches}}}
        \union {CarOf(car.manifest.root, [proofs EXCEPT ![1] = p])
                  : p \in IF stored = Unset THEN {} ELSE Range(ReceiptProofs(stored))}

\* uploadAndVerifyWithSynapse reports success when the bytes come back as they were;
\* otherwise, or later, storage holds something else.
Upload(car) ==
    /\ stored' = car
    /\ UNCHANGED <<registryVars, bundle, sources>>

AnchorNext ==
    \/ /\ \/ \E a \in Addresses : Initialize(a)
          \/ \E a \in Addresses, authorized \in BOOLEAN : SetWriter(a, authorized)
          \/ \E a \in Addresses, b \in BatchIds : Revoke(a, b)
       /\ UNCHANGED <<bundle, stored, sources>>
    \/ \E receipts \in Batches : Build(receipts)
    \/ \E a \in Addresses, b \in BatchIds : RegisterBundle(a, b)
    \/ bundle # Unset /\ \E car \in {bundle.car} \union Changed(bundle.car) : Upload(car)

AnchorSpec == AnchorInit /\ [][AnchorNext]_anchorVars

-----------------------------------------------------------------------------
(* Properties *)

Held(car) == {p.commitment : p \in Range(ReceiptProofs(car))}

\* A stored bundle that verifies holds, under a registered root, only receipts of the
\* batch first registered; and if the registry attests it, exactly those receipts, and
\* the identifier was never revoked.  Two batches with the same root are the same
\* commitments in the same order, the duplicated last leaf notwithstanding.
AnchoredProofsHold ==
    \A b \in {x \in BatchIds : sources[x] # <<>>} :
        LET batch == BuildMerkleBatch(sources[b])
            commitments == [i \in DOMAIN sources[b] |-> sources[b][i].commitment]
        IN  /\ stored # Unset /\ VerifyFilecoinEvidenceBundle(stored) =>
                  /\ stored.manifest.root = batch.root => Held(stored) \subseteq Range(commitments)
                  /\ Attests(b, CommitmentOf(stored)) =>
                        Held(stored) = Range(commitments) /\ b \notin revoked
            /\ \A d \in {x \in BatchIds : sources[x] # <<>>} :
                  BuildMerkleBatch(sources[d]).root = batch.root =>
                      commitments = [i \in DOMAIN sources[d] |-> sources[d][i].commitment]
=============================================================================
