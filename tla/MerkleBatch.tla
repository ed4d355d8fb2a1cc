---------------------------- MODULE MerkleBatch ----------------------------
(***************************************************************************)
(* Merkle batches (sdk/typescript/swisstokint-proof.mjs) and the CAR       *)
(* bundles built from them (integrations/filecoin/evidence-bundle.mjs).    *)
(*                                                                         *)
(* A receipt is [id, commitment, occurred].  A hash is the term it was     *)
(* computed from, so equal hashes mean equal terms; leaves and nodes are   *)
(* hashed under different prefixes.  The content identifier of a block is  *)
(* its content.                                                            *)
(***************************************************************************)
EXTENDS Naturals, Sequences, FiniteSets, Functions

MaxLeaves == 10000

MaxProofSteps == 32

HashMerkleLeaf(commitment) == <<"leaf", commitment>>

HashMerkleNode(left, right) == <<"node", left, right>>

-----------------------------------------------------------------------------
(* Batches *)

Before(l, r) == l.occurred < r.occurred \/ (l.occurred = r.occurred /\ l.id < r.id)

\* The receipts of a valid batch differ in their identifiers, so the place of one is the
\* number of those before it.
Ordered(receipts) ==
    LET all == Range(receipts)
    IN  [i \in DOMAIN receipts |->
            CHOOSE r \in all : Cardinality({q \in all : Before(q, r)}) = i - 1]

ValidBatch(receipts) ==
    /\ receipts # <<>>
    /\ Len(receipts) <= MaxLeaves
    /\ Cardinality({r.id : r \in Range(receipts)}) = Len(receipts)
    /\ Cardinality({r.commitment : r \in Range(receipts)}) = Len(receipts)

\* The right neighbour of node i of a level, itself when it is the last one.
Sibling(level, i) ==
    IF i % 2 = 0 THEN i - 1 ELSE IF i < Len(level) THEN i + 1 ELSE i

\* One turn of the loop: pairs of [hash, descendants] are joined.
NextLevel(level) ==
    [j \in 1..(Len(level) + 1) \div 2 |->
        LET left == level[2 * j - 1]
            right == level[Sibling(level, 2 * j - 1)]
        IN  [hash |-> HashMerkleNode(left.hash, right.hash),
             descendants |-> left.descendants \union right.descendants]]

\* What that turn adds to the proof of a leaf.
ProofStep(level, leaf) ==
    LET i == CHOOSE j \in DOMAIN level : leaf \in level[j].descendants
    IN  [position |-> IF i % 2 = 0 THEN "left" ELSE "right", hash |-> level[Sibling(level, i)].hash]

LeafLevel(ordered) ==
    [i \in DOMAIN ordered |->
        [hash |-> HashMerkleLeaf(ordered[i].commitment), descendants |-> {i}]]

\* The level after n turns.  No loop takes as many turns as there are leaves.
Levels(leaves) ==
    LET level[n \in 0..Len(leaves)] == IF n = 0 THEN leaves ELSE NextLevel(level[n - 1])
    IN  level

\* The loop ends with the first level of one node.
Height(levels) ==
    CHOOSE n \in DOMAIN levels :
        Len(levels[n]) = 1 /\ \A m \in DOMAIN levels : m < n => Len(levels[m]) # 1

\* The batch of valid receipts: its root, and per leaf its proof.
BuildMerkleBatch(receipts) ==
    LET ordered == Ordered(receipts)
        levels == Levels(LeafLevel(ordered))
        height == Height(levels)
    IN  [leaves |-> ordered, root |-> levels[height][1].hash,
         proofs |-> [i \in DOMAIN ordered |-> [n \in 1..height |-> ProofStep(levels[n - 1], i)]]]

\* The hash after each step of a proof.
Currents(commitment, proof) ==
    LET current[n \in 0..Len(proof)] ==
            IF n = 0 THEN HashMerkleLeaf(commitment)
            ELSE IF proof[n].position = "left" THEN HashMerkleNode(proof[n].hash, current[n - 1])
                                               ELSE HashMerkleNode(current[n - 1], proof[n].hash)
    IN  current

VerifyMerkleProof(commitment, proof, root) ==
    /\ Len(proof) <= MaxProofSteps
    /\ root = Currents(commitment, proof)[Len(proof)]

-----------------------------------------------------------------------------
(* Bundles *)

\* receiptProofFromLeaf
ReceiptProof(batch, i) ==
    [root |-> batch.root, id |-> batch.leaves[i].id, commitment |-> batch.leaves[i].commitment,
     leaf |-> i, leafHash |-> HashMerkleLeaf(batch.leaves[i].commitment),
     proof |-> batch.proofs[i]]

\* A CAR of a manifest and one block per receipt proof.
CarOf(root, proofs) ==
    LET manifest == [root |-> root, count |-> Len(proofs),
                     receipts |-> [i \in DOMAIN proofs |->
                        [id |-> proofs[i].id, leaf |-> proofs[i].leaf, cid |-> proofs[i]]]]
    IN  [manifest |-> manifest, blocks |-> {[cid |-> p, content |-> p] : p \in Range(proofs)}]

BuildFilecoinEvidenceBundle(receipts) ==
    LET batch == BuildMerkleBatch(receipts)
    IN  CarOf(batch.root, [i \in DOMAIN batch.leaves |-> ReceiptProof(batch, i)])

\* What a receipt proof p, read under descriptor d, has to fulfil.
ReceiptProofHolds(manifest, d, p) ==
    /\ p.root = manifest.root
    /\ p.id = d.id /\ p.leaf = d.leaf
    /\ p.leafHash = HashMerkleLeaf(p.commitment)
    /\ VerifyMerkleProof(p.commitment, p.proof, manifest.root)

VerifyFilecoinEvidenceBundle(car) ==
    LET listed == car.manifest.receipts
        read(d) == {b.content : b \in {x \in car.blocks : x.cid = d.cid}}
    IN  /\ listed # <<>>
        /\ car.manifest.count = Len(listed)
        /\ car.manifest.count <= MaxLeaves
        /\ \A i, j \in DOMAIN listed :
              i # j => listed[i].id # listed[j].id /\ listed[i].cid # listed[j].cid
        /\ \A i \in DOMAIN listed :
              /\ listed[i].leaf = i
              /\ \E p \in read(listed[i]) :
                    p = listed[i].cid /\ ReceiptProofHolds(car.manifest, listed[i], p)
        /\ Cardinality(car.blocks) = car.manifest.count
=============================================================================
