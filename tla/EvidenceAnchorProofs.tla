------------------------ MODULE EvidenceAnchorProofs ------------------------
(***************************************************************************)
(* What the evidence registry, Merkle batches and the bundles anchored in  *)
(* the registry promise, for any receipts, addresses and identifiers.      *)
(* Anchoring adds its inductive invariant to the registry's.               *)
(***************************************************************************)
EXTENDS EvidenceAnchor, FiniteSetTheorems, WellFoundedInduction, TLAPS

-----------------------------------------------------------------------------
(* EvidenceRegistry *)

AnchorRecords == [commitment : Commitments, issuer : Addresses, status : {"active", "revoked"}]

\* An identifier without a record was never registered or revoked; one with a record
\* was registered once, with what the record says.
RegistryInv ==
    /\ records \in [BatchIds -> AnchorRecords \union {Unset}]
    /\ registrations \in [BatchIds -> Seq(Commitments)]
    /\ \A b \in BatchIds :
          /\ records[b] = Unset => registrations[b] = <<>> /\ b \notin revoked
          /\ records[b] # Unset => /\ registrations[b] = <<records[b].commitment>>
                                   /\ records[b].status = "active" => b \notin revoked

LEMMA RegistryInitially == RegistryInit => RegistryInv
  BY DEF RegistryInit, RegistryInv

LEMMA RegistryStep == RegistryInv /\ [RegistryNext]_registryVars => RegistryInv'
<1> SUFFICES ASSUME RegistryInv, [RegistryNext]_registryVars PROVE RegistryInv'
  OBVIOUS
<1>1. CASE UNCHANGED registryVars
  BY <1>1 DEF registryVars, RegistryInv
<1>2. ASSUME NEW a \in Addresses, Initialize(a) PROVE RegistryInv'
  BY <1>2 DEF Initialize, RegistryInv
<1>3. ASSUME NEW a \in Addresses, NEW authorized \in BOOLEAN, SetWriter(a, authorized)
      PROVE RegistryInv'
  BY <1>3 DEF SetWriter, RegistryInv
<1>4. ASSUME NEW a \in Addresses, NEW b \in BatchIds, Revoke(a, b) PROVE RegistryInv'
  <2>1. records[b] \in AnchorRecords
    BY <1>4 DEF Revoke, RegistryInv
  <2>2. records'[b] = [records[b] EXCEPT !.status = "revoked"]
    BY <1>4 DEF Revoke, RegistryInv
  <2>3. /\ records'[b] \in AnchorRecords
        /\ records'[b].status = "revoked"
        /\ records'[b].commitment = records[b].commitment
    BY <2>1, <2>2 DEF AnchorRecords
  <2>4. records' \in [BatchIds -> AnchorRecords \union {Unset}]
    BY <1>4, <2>2, <2>3 DEF Revoke, RegistryInv
  <2>5. ASSUME NEW x \in BatchIds, x # b
        PROVE  records'[x] = records[x] /\ (x \in revoked' <=> x \in revoked)
    BY <1>4, <2>5 DEF Revoke, RegistryInv
  <2>6. records[b] # Unset /\ records'[b] # Unset
    BY <1>4, <2>3, RegistryAssumption DEF Revoke, AnchorRecords
  <2> QED
    BY <1>4, <2>3, <2>4, <2>5, <2>6 DEF Revoke, RegistryInv
<1>5. ASSUME NEW a \in Addresses, NEW b \in BatchIds, NEW c \in Commitments, Register(a, b, c)
      PROVE RegistryInv'
  <2> DEFINE r == [commitment |-> c, issuer |-> a, status |-> "active"]
  <2>1. records' = [records EXCEPT ![b] = r] /\ r \in AnchorRecords
    BY <1>5 DEF Register, AnchorRecords
  <2>2. r # Unset
    BY <2>1, RegistryAssumption DEF AnchorRecords
  <2>3. registrations[b] = <<>> /\ b \notin revoked
    BY <1>5 DEF Register, RegistryInv
  <2>4. registrations' = [registrations EXCEPT ![b] = <<c>>]
    BY <1>5, <2>3 DEF Register, RegistryInv
  <2>5. r.commitment = c
    OBVIOUS
  <2> HIDE DEF r
  <2>6. /\ records' \in [BatchIds -> AnchorRecords \union {Unset}]
        /\ registrations' \in [BatchIds -> Seq(Commitments)]
    BY <2>1, <2>4 DEF RegistryInv
  <2>7. ASSUME NEW x \in BatchIds
        PROVE  /\ records'[x] = IF x = b THEN r ELSE records[x]
               /\ registrations'[x] = IF x = b THEN <<c>> ELSE registrations[x]
    BY <2>1, <2>4 DEF RegistryInv
  <2>8. revoked' = revoked
    BY <1>5 DEF Register
  <2> QED
    BY <2>2, <2>3, <2>5, <2>6, <2>7, <2>8 DEF RegistryInv
<1> QED
  BY <1>1, <1>2, <1>3, <1>4, <1>5 DEF RegistryNext

\* An identifier attests the first thing registered under it or, once revoked,
\* nothing: register() keeps a record for good and revoke() is final.
THEOREM AttestsFirstTheorem == RegistrySpec => []AttestsFirstOnly
<1>1. RegistryInv => AttestsFirstOnly
  BY DEF RegistryInv, AttestsFirstOnly, Attests
<1> QED
  BY <1>1, RegistryInitially, RegistryStep, PTL DEF RegistrySpec

-----------------------------------------------------------------------------
(* MerkleBatch *)

\* Induction over the naturals, as a least counterexample.
LEMMA LeastNumber ==
    ASSUME NEW T, T \subseteq Nat, T # {}
    PROVE  \E n \in T : \A m \in T : n <= m
<1> DEFINE R == OpToRel(<, Nat)
<1>1. IsWellFoundedOn(R, Nat)
  BY NatLessThanWellFounded, Zenon
<1>2. \A m, n \in Nat : m < n => <<m, n>> \in R
  BY DEF OpToRel
<1> HIDE DEF R
<1>3. PICK n \in T : \A m \in T : ~(<<m, n>> \in R)
  BY <1>1, WFMin
<1>4. \A m \in T : ~(m < n)
  BY <1>2, <1>3
<1> QED
  BY <1>3, <1>4

LEMMA HashesDiffer ==
    /\ \A c, d : HashMerkleLeaf(c) = HashMerkleLeaf(d) => c = d
    /\ \A c, l, r : HashMerkleLeaf(c) # HashMerkleNode(l, r)
    /\ \A l, r, x, y : HashMerkleNode(l, r) = HashMerkleNode(x, y) => l = x /\ r = y
  BY DEF HashMerkleLeaf, HashMerkleNode

IsLevel(level) == Len(level) \in Nat /\ Len(level) >= 1 /\ DOMAIN level = 1..Len(level)

LEMMA Halves ==
    ASSUME NEW k \in Nat, k >= 1
    PROVE  /\ (k + 1) \div 2 \in Nat /\ (k + 1) \div 2 >= 1
           /\ k = 2 * ((k + 1) \div 2) \/ k = 2 * ((k + 1) \div 2) - 1
  OBVIOUS

LEMMA OddIsOdd == ASSUME NEW j \in Nat, j >= 1 PROVE (2 * j - 1) % 2 # 0
  OBVIOUS

\* The right one of the nodes that make node j of the next level.
RightOf(level, j) == IF 2 * j <= Len(level) THEN 2 * j ELSE 2 * j - 1

LEMMA SiblingOfLeft ==
    ASSUME NEW level, Len(level) \in Nat, NEW j \in Nat, j >= 1
    PROVE  Sibling(level, 2 * j - 1) = RightOf(level, j)
<1>1. PICK k \in Nat : k = Len(level)
  OBVIOUS
<1>2. (2 * j - 1) % 2 # 0
  BY OddIsOdd
<1>3. Sibling(level, 2 * j - 1) = IF 2 * j - 1 < k THEN 2 * j - 1 + 1 ELSE 2 * j - 1
  BY <1>1, <1>2 DEF Sibling
<1>4. 2 * j - 1 + 1 = 2 * j /\ (2 * j - 1 < k <=> 2 * j <= k)
  OBVIOUS
<1> QED
  BY <1>1, <1>3, <1>4 DEF RightOf

LEMMA NextLevelIs ==
    ASSUME NEW level, IsLevel(level)
    PROVE  LET next == NextLevel(level)
           IN  /\ IsLevel(next)
               /\ Len(level) \in {2 * Len(next), 2 * Len(next) - 1}
               /\ \A j \in 1..Len(next) :
                     /\ 2 * j - 1 \in 1..Len(level) /\ RightOf(level, j) \in 1..Len(level)
                     /\ next[j].hash = HashMerkleNode(level[2 * j - 1].hash,
                                                      level[RightOf(level, j)].hash)
                     /\ next[j].descendants = level[2 * j - 1].descendants
                                              \union level[RightOf(level, j)].descendants
<1>1. PICK k : k = Len(level)
  OBVIOUS
<1>2. PICK m : m = (k + 1) \div 2
  OBVIOUS
<1>3. k \in Nat /\ k >= 1 /\ m \in Nat /\ m >= 1 /\ (k = 2 * m \/ k = 2 * m - 1)
  BY <1>1, <1>2, Halves DEF IsLevel
<1>4. PICK next : next = NextLevel(level)
  OBVIOUS
<1>5. /\ DOMAIN next = 1..m /\ Len(next) = m
      /\ \A j \in 1..m :
            /\ next[j].hash = HashMerkleNode(level[2 * j - 1].hash,
                                             level[Sibling(level, 2 * j - 1)].hash)
            /\ next[j].descendants = level[2 * j - 1].descendants
                                     \union level[Sibling(level, 2 * j - 1)].descendants
  BY <1>1, <1>2, <1>3, <1>4 DEF NextLevel
<1>6. ASSUME NEW j \in 1..m
      PROVE  /\ 2 * j - 1 \in 1..k /\ RightOf(level, j) \in 1..k
             /\ Sibling(level, 2 * j - 1) = RightOf(level, j)
  <2>1. j \in Nat /\ j >= 1 /\ 2 * j - 1 \in 1..k
    BY <1>3
  <2>2. Sibling(level, 2 * j - 1) = RightOf(level, j)
    BY <1>1, <1>3, <2>1, SiblingOfLeft
  <2> QED
    BY <1>1, <1>3, <2>1, <2>2 DEF RightOf
<1> QED
  BY <1>1, <1>3, <1>4, <1>5, <1>6 DEF IsLevel

\* The definition of Levels, unfolded.
LEMMA LevelsIs ==
    ASSUME NEW leaves, Len(leaves) \in Nat
    PROVE  /\ DOMAIN Levels(leaves) = 0..Len(leaves)
           /\ Levels(leaves)[0] = leaves
           /\ \A n \in 1..Len(leaves) : Levels(leaves)[n] = NextLevel(Levels(leaves)[n - 1])
<1> DEFINE Fits(g, n) == g = [m \in 0..n |-> IF m = 0 THEN leaves ELSE NextLevel(g[m - 1])]
           T == {n \in Nat : ~\E g : Fits(g, n)}
<1>1. ASSUME NEW n \in T, \A m \in T : n <= m PROVE FALSE
  <2>1. CASE n = 0
    <3>1. PICK g : g = [m \in 0..0 |-> leaves]
      OBVIOUS
    <3>2. Fits(g, 0)
      BY <3>1
    <3> QED
      BY <2>1, <3>2
  <2>2. CASE n # 0
    <3>0. n \in Nat
      OBVIOUS
    <3>1. n \in Nat /\ n - 1 \in Nat /\ n - 1 \notin T
      <4> HIDE DEF T
      <4> QED
        BY <1>1, <2>2, <3>0
    <3>2. PICK g : Fits(g, n - 1)
      BY <3>1
    <3>3. PICK h : h = [m \in 0..n |-> IF m = n THEN NextLevel(g[n - 1]) ELSE g[m]]
      OBVIOUS
    <3>4. ASSUME NEW m \in 0..n PROVE h[m] = IF m = 0 THEN leaves ELSE NextLevel(h[m - 1])
      <4>1. CASE m = n
        BY <2>2, <3>1, <3>3, <4>1
      <4>2. CASE m # n
        <5>1. m \in 0..(n - 1) /\ h[m] = g[m] /\ (m # 0 => m - 1 \in 0..(n - 1) /\ h[m - 1] = g[m - 1])
          BY <3>1, <3>3, <4>2
        <5>2. g[m] = IF m = 0 THEN leaves ELSE NextLevel(g[m - 1])
          BY <3>2, <5>1
        <5> QED
          BY <5>1, <5>2
      <4> QED
        BY <4>1, <4>2
    <3>5. Fits(h, n)
      BY <3>3, <3>4
    <3> QED
      BY <3>5
  <2> QED
    BY <2>1, <2>2
<1>2. T = {}
  <2> HIDE DEF T
  <2>1. T \subseteq Nat
    BY DEF T
  <2> QED
    BY <1>1, <2>1, LeastNumber
<1>3. PICK g : Fits(g, Len(leaves))
  BY <1>2
<1>4. Fits(Levels(leaves), Len(leaves))
  BY <1>3, Zenon DEF Levels
<1> QED
  BY <1>4

\* The hash above one, after a step of a proof.
Climbed(step, hash) ==
    IF step.position = "left" THEN HashMerkleNode(step.hash, hash) ELSE HashMerkleNode(hash, step.hash)

\* The definition of Currents, unfolded.
LEMMA CurrentsIs ==
    ASSUME NEW c, NEW proof, Len(proof) \in Nat
    PROVE  LET current == Currents(c, proof)
           IN  /\ current[0] = HashMerkleLeaf(c)
               /\ \A n \in 1..Len(proof) : current[n] = Climbed(proof[n], current[n - 1])
<1> DEFINE After(n, hash) == IF proof[n].position = "left" THEN HashMerkleNode(proof[n].hash, hash)
                                                           ELSE HashMerkleNode(hash, proof[n].hash)
           Fits(g, n) == g = [m \in 0..n |->
               IF m = 0 THEN HashMerkleLeaf(c)
               ELSE IF proof[m].position = "left" THEN HashMerkleNode(proof[m].hash, g[m - 1])
                                                  ELSE HashMerkleNode(g[m - 1], proof[m].hash)]
           T == {n \in Nat : ~\E g : Fits(g, n)}
<1>1. ASSUME NEW n \in T, \A m \in T : n <= m PROVE FALSE
  <2>1. CASE n = 0
    <3>1. PICK g : g = [m \in 0..0 |-> HashMerkleLeaf(c)]
      OBVIOUS
    <3>2. Fits(g, 0)
      BY <3>1
    <3> QED
      BY <2>1, <3>2
  <2>2. CASE n # 0
    <3>0. n \in Nat
      OBVIOUS
    <3>1. n \in Nat /\ n - 1 \in Nat /\ n - 1 \notin T
      <4> HIDE DEF T
      <4> QED
        BY <1>1, <2>2, <3>0
    <3>2. PICK g : Fits(g, n - 1)
      BY <3>1
    <3>3. PICK h : h = [m \in 0..n |-> IF m = n THEN After(n, g[n - 1]) ELSE g[m]]
      OBVIOUS
    <3>4. ASSUME NEW m \in 0..n PROVE h[m] = IF m = 0 THEN HashMerkleLeaf(c) ELSE After(m, h[m - 1])
      <4>1. CASE m = n
        BY <2>2, <3>1, <3>3, <4>1
      <4>2. CASE m # n
        <5>1. m \in 0..(n - 1) /\ h[m] = g[m] /\ (m # 0 => m - 1 \in 0..(n - 1) /\ h[m - 1] = g[m - 1])
          BY <3>1, <3>3, <4>2
        <5>2. g[m] = IF m = 0 THEN HashMerkleLeaf(c) ELSE After(m, g[m - 1])
          BY <3>2, <5>1
        <5> QED
          BY <5>1, <5>2
      <4> QED
        BY <4>1, <4>2
    <3>5. Fits(h, n)
      BY <3>3, <3>4
    <3> QED
      BY <3>5
  <2> QED
    BY <2>1, <2>2
<1>2. T = {}
  <2> HIDE DEF T
  <2>1. T \subseteq Nat
    BY DEF T
  <2> QED
    BY <1>1, <2>1, LeastNumber
<1>3. PICK g : Fits(g, Len(proof))
  BY <1>2
<1>4. Fits(Currents(c, proof), Len(proof))
  BY <1>3, Zenon DEF Currents
<1>5. PICK f : f = Currents(c, proof)
  OBVIOUS
<1>6. f[0] = HashMerkleLeaf(c)
  BY <1>4, <1>5
<1>7. ASSUME NEW n \in 1..Len(proof) PROVE f[n] = Climbed(proof[n], f[n - 1])
  <2>1. n \in 0..Len(proof) /\ n # 0
    OBVIOUS
  <2>2. f[n] = After(n, f[n - 1])
    BY <1>4, <1>5, <2>1
  <2> QED
    BY <2>2, Zenon DEF Climbed
<1> QED
  BY <1>5, <1>6, <1>7

\* Levels shrink until one node is left.
LEMMA LevelsShrink ==
    ASSUME NEW leaves, IsLevel(leaves), NEW n \in 0..Len(leaves)
    PROVE  LET level == Levels(leaves)[n]
           IN  IsLevel(level) /\ (Len(level) = 1 \/ Len(level) + n <= Len(leaves))
<1>1. PICK k \in Nat : k = Len(leaves) /\ k >= 1
  BY DEF IsLevel
<1>2. PICK L : L = Levels(leaves)
  OBVIOUS
<1>3. L[0] = leaves /\ \A m \in 1..k : L[m] = NextLevel(L[m - 1])
  BY <1>1, <1>2, LevelsIs
<1> DEFINE Shrunk(m) == IsLevel(L[m]) /\ (Len(L[m]) = 1 \/ Len(L[m]) + m <= k)
           T == {m \in Nat : m <= k /\ ~Shrunk(m)}
<1>4. ASSUME NEW m \in T, \A l \in T : m <= l PROVE FALSE
  <2>1. m # 0
    BY <1>1, <1>3
  <2>2. m \in 1..k /\ m - 1 \in Nat /\ m - 1 <= k /\ m - 1 \notin T
    BY <1>4, <2>1
  <2>3. Shrunk(m - 1)
    BY <2>2
  <2>4. PICK a, b : a = Len(L[m - 1]) /\ b = Len(L[m])
    OBVIOUS
  <2>5. IsLevel(L[m]) /\ a \in {2 * b, 2 * b - 1} /\ a \in Nat /\ a >= 1 /\ b \in Nat /\ b >= 1
    BY <1>3, <2>2, <2>3, <2>4, NextLevelIs DEF IsLevel
  <2>6. a = 1 \/ a + (m - 1) <= k
    BY <2>3, <2>4
  <2>7. b = 1 \/ b + m <= k
    BY <1>1, <2>2, <2>5, <2>6
  <2> QED
    BY <1>4, <2>4, <2>5, <2>7
<1>5. T = {}
  <2> HIDE DEF T
  <2>1. T \subseteq Nat
    BY DEF T
  <2> QED
    BY <1>4, <2>1, LeastNumber
<1> QED
  BY <1>1, <1>2, <1>5

LEMMA HeightIs ==
    ASSUME NEW leaves, IsLevel(leaves)
    PROVE  LET L == Levels(leaves)
           IN  /\ Height(L) \in 0..Len(leaves) /\ Len(L[Height(L)]) = 1
               /\ \A m \in 0..Len(leaves) : m < Height(L) => Len(L[m]) # 1
<1>1. PICK k \in Nat : k = Len(leaves) /\ k >= 1
  BY DEF IsLevel
<1>2. PICK L : L = Levels(leaves)
  OBVIOUS
<1>3. DOMAIN L = 0..k
  BY <1>1, <1>2, LevelsIs
<1>4. Len(L[k]) = 1
  <2>1. IsLevel(L[k]) /\ (Len(L[k]) = 1 \/ Len(L[k]) + k <= k)
    BY <1>1, <1>2, LevelsShrink
  <2> QED
    BY <2>1 DEF IsLevel
<1>5. PICK T : T = {n \in 0..k : Len(L[n]) = 1}
  OBVIOUS
<1>6. PICK n \in T : \A m \in T : n <= m
  <2>1. T \subseteq Nat /\ T # {}
    BY <1>4, <1>5
  <2> QED
    BY <2>1, LeastNumber
<1>7. Len(L[n]) = 1 /\ n \in 0..k /\ \A m \in 0..k : m < n => Len(L[m]) # 1
  BY <1>5, <1>6
<1>8. /\ Height(L) \in 0..k /\ Len(L[Height(L)]) = 1
      /\ \A m \in 0..k : m < Height(L) => Len(L[m]) # 1
  BY <1>3, <1>7 DEF Height
<1> QED
  BY <1>1, <1>2, <1>8

\* Above the leaves every hash is one of a node over two hashes of the level below.
LEMMA NodesAbove ==
    ASSUME NEW leaves, IsLevel(leaves), NEW n \in 1..Len(leaves), NEW i \in DOMAIN Levels(leaves)[n]
    PROVE  LET L == Levels(leaves)
           IN  /\ n - 1 \in 0..Len(leaves)
               /\ \E l, r \in DOMAIN L[n - 1] :
                     L[n][i].hash = HashMerkleNode(L[n - 1][l].hash, L[n - 1][r].hash)
<1>1. PICK L : L = Levels(leaves)
  OBVIOUS
<1>2. n - 1 \in 0..Len(leaves)
  BY DEF IsLevel
<1>3. L[n] = NextLevel(L[n - 1]) /\ IsLevel(L[n - 1])
  BY <1>1, <1>2, LevelsIs, LevelsShrink DEF IsLevel
<1>4. /\ DOMAIN L[n - 1] = 1..Len(L[n - 1]) /\ DOMAIN L[n] = 1..Len(L[n])
      /\ \A j \in 1..Len(L[n]) :
            /\ 2 * j - 1 \in 1..Len(L[n - 1]) /\ RightOf(L[n - 1], j) \in 1..Len(L[n - 1])
            /\ L[n][j].hash = HashMerkleNode(L[n - 1][2 * j - 1].hash,
                                             L[n - 1][RightOf(L[n - 1], j)].hash)
  <2>1. PICK below : below = L[n - 1]
    OBVIOUS
  <2>2. IsLevel(below) /\ L[n] = NextLevel(below)
    BY <1>3, <2>1
  <2>3. /\ IsLevel(L[n])
        /\ \A j \in 1..Len(L[n]) :
              /\ 2 * j - 1 \in 1..Len(below) /\ RightOf(below, j) \in 1..Len(below)
              /\ L[n][j].hash = HashMerkleNode(below[2 * j - 1].hash, below[RightOf(below, j)].hash)
    BY <2>2, NextLevelIs, Zenon
  <2> QED
    BY <2>1, <2>2, <2>3 DEF IsLevel
<1>5. PICK l, r : l = 2 * i - 1 /\ r = RightOf(L[n - 1], i)
  OBVIOUS
<1>6. /\ l \in DOMAIN L[n - 1] /\ r \in DOMAIN L[n - 1]
      /\ L[n][i].hash = HashMerkleNode(L[n - 1][l].hash, L[n - 1][r].hash)
  BY <1>1, <1>4, <1>5
<1> QED
  BY <1>1, <1>2, <1>6

LEMMA LeafLevelIs ==
    ASSUME NEW ordered, IsLevel(ordered)
    PROVE  LET leaves == LeafLevel(ordered)
           IN  /\ IsLevel(leaves) /\ Len(leaves) = Len(ordered) /\ DOMAIN leaves = DOMAIN ordered
               /\ \A i \in DOMAIN leaves : /\ leaves[i].hash = HashMerkleLeaf(ordered[i].commitment)
                                           /\ leaves[i].descendants = {i}
<1>1. PICK k \in Nat : k = Len(ordered) /\ k >= 1 /\ DOMAIN ordered = 1..k
  BY DEF IsLevel
<1>2. PICK leaves : leaves = LeafLevel(ordered)
  OBVIOUS
<1>3. /\ DOMAIN leaves = 1..k /\ Len(leaves) = k
      /\ \A i \in 1..k : /\ leaves[i].hash = HashMerkleLeaf(ordered[i].commitment)
                         /\ leaves[i].descendants = {i}
  BY <1>1, <1>2 DEF LeafLevel
<1> QED
  BY <1>1, <1>2, <1>3 DEF IsLevel

\* A proof that ends in a hash of the tree starts at one of its leaves.
LEMMA ProofsStartAtLeaves ==
    ASSUME NEW ordered, IsLevel(ordered), NEW c, NEW proof, Len(proof) \in Nat,
           NEW top \in 0..Len(ordered), NEW at \in DOMAIN Levels(LeafLevel(ordered))[top],
           Currents(c, proof)[Len(proof)] = Levels(LeafLevel(ordered))[top][at].hash
    PROVE  \E i \in DOMAIN ordered : ordered[i].commitment = c
<1>1. PICK leaves, L, current : /\ leaves = LeafLevel(ordered) /\ L = Levels(leaves)
                                /\ current = Currents(c, proof)
  OBVIOUS
<1>2. /\ IsLevel(leaves) /\ Len(leaves) = Len(ordered) /\ DOMAIN leaves = DOMAIN ordered
      /\ \A i \in DOMAIN leaves : leaves[i].hash = HashMerkleLeaf(ordered[i].commitment)
  BY <1>1, LeafLevelIs
<1>3. PICK k \in Nat : k = Len(leaves) /\ k >= 1
  BY <1>2 DEF IsLevel
<1>4. L[0] = leaves
  BY <1>1, <1>3, LevelsIs
<1>5. ASSUME NEW n \in 1..k, NEW i \in DOMAIN L[n]
      PROVE  /\ n - 1 \in 0..k
             /\ \E l, r \in DOMAIN L[n - 1] :
                   L[n][i].hash = HashMerkleNode(L[n - 1][l].hash, L[n - 1][r].hash)
  <2>1. L = Levels(leaves) /\ IsLevel(leaves) /\ k = Len(leaves)
    BY <1>1, <1>2, <1>3
  <2> QED
    BY <2>1, NodesAbove
<1>6. PICK T : T = {n \in Nat : n <= Len(proof)
                               /\ \E m \in 0..k : \E i \in DOMAIN L[m] : current[n] = L[m][i].hash}
  OBVIOUS
<1>7. T \subseteq Nat /\ Len(proof) \in T
  BY <1>1, <1>2, <1>3, <1>6
<1>8. PICK n \in T : \A m \in T : n <= m
  <2>1. T # {}
    BY <1>7
  <2> QED
    BY <1>7, <2>1, LeastNumber
<1>9. n \in Nat /\ n <= Len(proof) /\ n - 1 \notin T
  BY <1>6, <1>8
<1>m. PICK m \in 0..k : \E i \in DOMAIN L[m] : current[n] = L[m][i].hash
  BY <1>6, <1>8
<1>10. PICK i \in DOMAIN L[m] : current[n] = L[m][i].hash
  BY <1>m
<1>11. current[0] = HashMerkleLeaf(c)
  BY <1>1, CurrentsIs
<1>12. CASE n = 0
  <2>1. m = 0
    <3>1. ASSUME m # 0 PROVE FALSE
      <4>1. m \in 1..k
        BY <1>3, <3>1
      <4>2. PICK l, r \in DOMAIN L[m - 1] :
                L[m][i].hash = HashMerkleNode(L[m - 1][l].hash, L[m - 1][r].hash)
        BY <1>5, <4>1
      <4> QED
        BY <1>10, <1>11, <1>12, <4>2, HashesDiffer
    <3> QED
      BY <3>1
  <2>2. i \in DOMAIN leaves /\ HashMerkleLeaf(c) = HashMerkleLeaf(ordered[i].commitment)
    BY <1>2, <1>4, <1>10, <1>11, <1>12, <2>1
  <2> QED
    BY <1>2, <2>2, HashesDiffer
<1>13. CASE n # 0
  <2>1. n \in 1..Len(proof) /\ n - 1 \in Nat /\ n - 1 <= Len(proof)
    BY <1>9, <1>13
  <2>2. PICK hash : current[n] \in {HashMerkleNode(hash, current[n - 1]),
                                    HashMerkleNode(current[n - 1], hash)}
    BY <1>1, <2>1, CurrentsIs DEF Climbed
  <2>3. m # 0
    <3>1. ASSUME m = 0 PROVE FALSE
      <4>1. current[n] = HashMerkleLeaf(ordered[i].commitment)
        BY <1>2, <1>4, <1>10, <3>1
      <4> QED
        BY <2>2, <4>1, HashesDiffer
    <3> QED
      BY <3>1
  <2>4. m \in 1..k /\ m - 1 \in 0..k
    BY <1>3, <2>3
  <2>5. PICK l, r \in DOMAIN L[m - 1] :
            L[m][i].hash = HashMerkleNode(L[m - 1][l].hash, L[m - 1][r].hash)
    BY <1>5, <2>4
  <2>6. current[n - 1] = L[m - 1][l].hash \/ current[n - 1] = L[m - 1][r].hash
    BY <1>10, <2>2, <2>5, HashesDiffer
  <2>7. n - 1 \in T
    BY <1>6, <2>1, <2>4, <2>5, <2>6
  <2> QED
    BY <1>9, <2>7
<1> QED
  BY <1>12, <1>13

DistinctHashes(level) == \A i, j \in DOMAIN level : level[i].hash = level[j].hash => i = j

SameHashes(one, other) ==
    /\ Len(one) = Len(other)
    /\ \A i \in 1..Len(one) : one[i].hash = other[i].hash

LEMMA NextLevelDistinct ==
    ASSUME NEW level, IsLevel(level), DistinctHashes(level)
    PROVE  DistinctHashes(NextLevel(level))
<1>1. PICK next : next = NextLevel(level)
  OBVIOUS
<1>2. PICK k, m \in Nat : k = Len(level) /\ m = Len(next)
  BY <1>1, NextLevelIs DEF IsLevel
<1>3. DOMAIN level = 1..k /\ DOMAIN next = 1..m
  BY <1>1, <1>2, NextLevelIs DEF IsLevel
<1>4. \A j \in 1..m : /\ 2 * j - 1 \in 1..k
                      /\ \E right : next[j].hash = HashMerkleNode(level[2 * j - 1].hash, right)
  BY <1>1, <1>2, NextLevelIs
<1>5. ASSUME NEW i \in 1..m, NEW j \in 1..m, next[i].hash = next[j].hash PROVE i = j
  <2>1. level[2 * i - 1].hash = level[2 * j - 1].hash
    BY <1>4, <1>5, HashesDiffer
  <2>2. 2 * i - 1 = 2 * j - 1
    BY <1>3, <1>4, <2>1 DEF DistinctHashes
  <2> QED
    BY <2>2
<1> QED
  BY <1>1, <1>3, <1>5 DEF DistinctHashes

LEMMA LevelsDistinct ==
    ASSUME NEW leaves, IsLevel(leaves), DistinctHashes(leaves), NEW n \in 0..Len(leaves)
    PROVE  DistinctHashes(Levels(leaves)[n])
<1>1. PICK k \in Nat : k = Len(leaves) /\ k >= 1
  BY DEF IsLevel
<1>2. PICK L : L = Levels(leaves)
  OBVIOUS
<1>3. L[0] = leaves /\ \A m \in 1..k : L[m] = NextLevel(L[m - 1])
  BY <1>1, <1>2, LevelsIs
<1>4. \A m \in 0..k : IsLevel(L[m])
  BY <1>1, <1>2, LevelsShrink
<1>5. PICK T : T = {m \in Nat : m <= k /\ ~DistinctHashes(L[m])}
  OBVIOUS
<1>6. ASSUME NEW m \in T, \A l \in T : m <= l PROVE FALSE
  <2>1. m \in Nat /\ m <= k /\ ~DistinctHashes(L[m])
    BY <1>5
  <2>2. m # 0
    BY <1>3, <2>1
  <2>3. m \in 1..k /\ m - 1 \in Nat /\ m - 1 \in 0..k /\ m - 1 <= k /\ m - 1 \notin T
    BY <1>6, <2>1, <2>2
  <2>4. DistinctHashes(L[m - 1])
    BY <1>5, <2>3
  <2> QED
    BY <1>3, <1>4, <2>1, <2>3, <2>4, NextLevelDistinct
<1>7. T \subseteq Nat
  BY <1>5
<1>8. T = {}
  BY <1>6, <1>7, LeastNumber
<1> QED
  BY <1>1, <1>2, <1>5, <1>8

\* The duplicated last node cannot be taken for a node of its own: its hashes are distinct.
LEMMA SameLength ==
    ASSUME NEW one, NEW other, IsLevel(one), IsLevel(other), DistinctHashes(other),
           SameHashes(NextLevel(one), NextLevel(other)),
           NEW m \in Nat, m = Len(NextLevel(one)), Len(one) = 2 * m - 1, Len(other) = 2 * m
    PROVE  FALSE
<1>1. m >= 1 /\ m \in 1..m /\ Len(NextLevel(other)) = m
  BY NextLevelIs DEF IsLevel, SameHashes
<1>2. RightOf(one, m) = 2 * m - 1 /\ RightOf(other, m) = 2 * m
  BY DEF RightOf
<1>3. NextLevel(one)[m].hash = HashMerkleNode(one[2 * m - 1].hash, one[2 * m - 1].hash)
  <2>1. NextLevel(one)[m].hash = HashMerkleNode(one[2 * m - 1].hash, one[RightOf(one, m)].hash)
    BY <1>1, NextLevelIs, Zenon
  <2> QED
    BY <1>2, <2>1, Zenon
<1>4. NextLevel(other)[m].hash = HashMerkleNode(other[2 * m - 1].hash, other[2 * m].hash)
  <2>1. NextLevel(other)[m].hash = HashMerkleNode(other[2 * m - 1].hash, other[RightOf(other, m)].hash)
    BY <1>1, NextLevelIs, Zenon
  <2> QED
    BY <1>2, <2>1, Zenon
<1>5. NextLevel(one)[m].hash = NextLevel(other)[m].hash
  BY <1>1 DEF SameHashes
<1>6. other[2 * m - 1].hash = other[2 * m].hash
  <2>1. PICK x, y, z : x = one[2 * m - 1].hash /\ y = other[2 * m - 1].hash /\ z = other[2 * m].hash
    OBVIOUS
  <2>2. HashMerkleNode(x, x) = HashMerkleNode(y, z)
    BY <1>3, <1>4, <1>5, <2>1
  <2>3. x = y /\ x = z
    BY <2>2, HashesDiffer
  <2> QED
    BY <2>1, <2>3
<1>7. 2 * m - 1 \in DOMAIN other /\ 2 * m \in DOMAIN other /\ 2 * m - 1 # 2 * m
  BY <1>1 DEF IsLevel
<1> QED
  BY <1>6, <1>7 DEF DistinctHashes

LEMMA SameBelow ==
    ASSUME NEW one, NEW other, IsLevel(one), IsLevel(other),
           DistinctHashes(one), DistinctHashes(other),
           SameHashes(NextLevel(one), NextLevel(other))
    PROVE  SameHashes(one, other)
<1>1. PICK m, k : m = Len(NextLevel(one)) /\ k = Len(one)
  OBVIOUS
<1>2. m \in Nat /\ m = Len(NextLevel(other)) /\ SameHashes(NextLevel(other), NextLevel(one))
  BY <1>1, NextLevelIs DEF IsLevel, SameHashes
<1>3. k \in {2 * m, 2 * m - 1} /\ Len(other) \in {2 * m, 2 * m - 1}
  BY <1>1, <1>2, NextLevelIs
<1>4. k \in Nat /\ k = Len(other)
  <2>1. ~(k = 2 * m - 1 /\ Len(other) = 2 * m)
    BY <1>1, <1>2, SameLength
  <2>2. ~(k = 2 * m /\ Len(other) = 2 * m - 1)
    BY <1>1, <1>2, SameLength
  <2>3. k \in Nat
    BY <1>1 DEF IsLevel
  <2> QED
    BY <1>3, <2>1, <2>2, <2>3
<1>5. ASSUME NEW j \in 1..m
      PROVE  /\ one[2 * j - 1].hash = other[2 * j - 1].hash
             /\ 2 * j <= k => one[2 * j].hash = other[2 * j].hash
  <2>1. RightOf(one, j) = RightOf(other, j) /\ (2 * j <= k => RightOf(one, j) = 2 * j)
    BY <1>1, <1>4 DEF RightOf
  <2>2. NextLevel(one)[j].hash = HashMerkleNode(one[2 * j - 1].hash, one[RightOf(one, j)].hash)
    BY <1>1, NextLevelIs
  <2>3. NextLevel(other)[j].hash = HashMerkleNode(other[2 * j - 1].hash, other[RightOf(other, j)].hash)
    BY <1>2, NextLevelIs
  <2>4. NextLevel(one)[j].hash = NextLevel(other)[j].hash
    BY <1>1 DEF SameHashes
  <2>5. one[2 * j - 1].hash = other[2 * j - 1].hash /\ one[RightOf(one, j)].hash = other[RightOf(other, j)].hash
    <3>1. PICK w, x, y, z : /\ w = one[2 * j - 1].hash /\ x = one[RightOf(one, j)].hash
                            /\ y = other[2 * j - 1].hash /\ z = other[RightOf(other, j)].hash
      OBVIOUS
    <3>2. HashMerkleNode(w, x) = HashMerkleNode(y, z)
      BY <2>2, <2>3, <2>4, <3>1
    <3>3. w = y /\ x = z
      BY <3>2, HashesDiffer
    <3> QED
      BY <3>1, <3>3
  <2> QED
    BY <2>1, <2>5
<1>6. ASSUME NEW i \in 1..k PROVE one[i].hash = other[i].hash
  <2>1. PICK j : j = (i + 1) \div 2
    OBVIOUS
  <2>2. j \in Nat /\ j >= 1 /\ (i = 2 * j \/ i = 2 * j - 1)
    BY <1>4, <2>1, Halves
  <2>3. j \in 1..m
    BY <1>2, <1>3, <1>4, <2>2
  <2>4. i <= k
    BY <1>4
  <2> QED
    BY <1>5, <2>2, <2>3, <2>4
<1> QED
  BY <1>1, <1>4, <1>6 DEF SameHashes

LEMMA LeavesAreNoNodes ==
    ASSUME NEW one, NEW other, IsLevel(one), IsLevel(other), NEW n \in 1..Len(other),
           SameHashes(LeafLevel(one), Levels(LeafLevel(other))[n])
    PROVE  FALSE
<1>1. PICK leaves, K : leaves = LeafLevel(other) /\ K = Levels(leaves)
  OBVIOUS
<1>2. IsLevel(leaves) /\ Len(leaves) = Len(other)
  BY <1>1, LeafLevelIs
<1>3. n \in 0..Len(leaves)
  BY <1>2 DEF IsLevel
<1>4. 1 \in DOMAIN K[n]
  <2>1. IsLevel(K[n])
    BY <1>1, <1>2, <1>3, LevelsShrink
  <2> QED
    BY <2>1 DEF IsLevel
<1>5. PICK l, r : K[n][1].hash = HashMerkleNode(l, r)
  BY <1>1, <1>2, <1>4, NodesAbove
<1>6. 1 \in DOMAIN one /\ 1 \in 1..Len(LeafLevel(one))
  BY LeafLevelIs DEF IsLevel
<1>7. LeafLevel(one)[1].hash = HashMerkleLeaf(one[1].commitment)
  BY <1>6, LeafLevelIs
<1>8. LeafLevel(one)[1].hash = K[n][1].hash
  BY <1>1, <1>6 DEF SameHashes
<1>9. HashMerkleLeaf(one[1].commitment) = HashMerkleNode(l, r)
  BY <1>5, <1>7, <1>8
<1> QED
  BY <1>9, HashesDiffer

\* Two trees over distinct leaves with the same root have the same leaves.
LEMMA SameRoots ==
    ASSUME NEW one, NEW other, IsLevel(one), IsLevel(other),
           DistinctHashes(LeafLevel(one)), DistinctHashes(LeafLevel(other)),
           NEW L, L = Levels(LeafLevel(one)), NEW K, K = Levels(LeafLevel(other)),
           L[Height(L)][1].hash = K[Height(K)][1].hash
    PROVE  Len(one) = Len(other) /\ \A i \in 1..Len(one) : one[i].commitment = other[i].commitment
<1>1. PICK g, h, p, q : g = Height(L) /\ h = Height(K) /\ p = Len(one) /\ q = Len(other)
  OBVIOUS
<1>2. /\ p \in Nat /\ q \in Nat /\ p >= 1 /\ q >= 1
      /\ IsLevel(LeafLevel(one)) /\ IsLevel(LeafLevel(other))
      /\ Len(LeafLevel(one)) = p /\ Len(LeafLevel(other)) = q
  BY <1>1, LeafLevelIs DEF IsLevel
<1>3. g \in 0..p /\ h \in 0..q /\ Len(L[g]) = 1 /\ Len(K[h]) = 1
  BY <1>1, <1>2, HeightIs
<1>4. /\ \A n \in 0..p : IsLevel(L[n]) /\ DistinctHashes(L[n])
      /\ \A n \in 0..q : IsLevel(K[n]) /\ DistinctHashes(K[n])
  BY <1>2, LevelsShrink, LevelsDistinct
<1>5. /\ L[0] = LeafLevel(one) /\ \A n \in 1..p : L[n] = NextLevel(L[n - 1])
      /\ K[0] = LeafLevel(other) /\ \A n \in 1..q : K[n] = NextLevel(K[n - 1])
  BY <1>2, LevelsIs
<1>6. PICK T : T = {n \in Nat : n <= g /\ n <= h /\ ~SameHashes(L[g - n], K[h - n])}
  OBVIOUS
<1>7. ASSUME NEW n \in T, \A m \in T : n <= m PROVE FALSE
  <2>1. n \in Nat /\ n <= g /\ n <= h /\ ~SameHashes(L[g - n], K[h - n])
    BY <1>6
  <2>2. n # 0
    <3>1. g - 0 = g /\ h - 0 = h
      BY <1>2, <1>3
    <3>2. SameHashes(L[g], K[h])
      BY <1>1, <1>3 DEF SameHashes
    <3> QED
      BY <2>1, <3>1, <3>2
  <2>3. n - 1 \in Nat /\ n - 1 <= g /\ n - 1 <= h /\ n - 1 \notin T
    BY <1>2, <1>3, <1>7, <2>1, <2>2
  <2>4. SameHashes(L[g - (n - 1)], K[h - (n - 1)])
    BY <1>6, <2>3
  <2>5. /\ g - n \in 0..p /\ g - (n - 1) \in 1..p /\ g - (n - 1) - 1 = g - n
        /\ h - n \in 0..q /\ h - (n - 1) \in 1..q /\ h - (n - 1) - 1 = h - n
    BY <1>2, <1>3, <2>1, <2>2
  <2>6. L[g - (n - 1)] = NextLevel(L[g - n]) /\ K[h - (n - 1)] = NextLevel(K[h - n])
    BY <1>5, <2>5
  <2>7. SameHashes(L[g - n], K[h - n])
    BY <1>4, <2>4, <2>5, <2>6, SameBelow
  <2> QED
    BY <2>1, <2>7
<1>8. \A n \in Nat : n <= g /\ n <= h => SameHashes(L[g - n], K[h - n])
  <2>1. T \subseteq Nat
    BY <1>6
  <2>2. T = {}
    BY <1>7, <2>1, LeastNumber
  <2> QED
    BY <1>6, <2>2
<1>9. g = h
  <2>1. ASSUME g < h PROVE FALSE
    <3>1. g \in Nat /\ g <= g /\ g <= h /\ g - g = 0 /\ h - g \in 1..q
      BY <1>2, <1>3, <2>1
    <3>2. SameHashes(L[0], K[h - g])
      BY <1>8, <3>1
    <3>3. SameHashes(LeafLevel(one), Levels(LeafLevel(other))[h - g]) /\ h - g \in 1..Len(other)
      BY <1>1, <1>5, <3>1, <3>2
    <3> QED
      BY <3>3, LeavesAreNoNodes
  <2>2. ASSUME h < g PROVE FALSE
    <3>1. h \in Nat /\ h <= h /\ h <= g /\ h - h = 0 /\ g - h \in 1..p
      BY <1>2, <1>3, <2>2
    <3>2. SameHashes(L[g - h], K[0])
      BY <1>8, <3>1
    <3>3. SameHashes(K[0], L[g - h])
      BY <3>2 DEF SameHashes
    <3>4. SameHashes(LeafLevel(other), Levels(LeafLevel(one))[g - h]) /\ g - h \in 1..Len(one)
      BY <1>1, <1>5, <3>1, <3>3
    <3> QED
      BY <3>4, LeavesAreNoNodes
  <2>3. g \in Nat /\ h \in Nat
    BY <1>2, <1>3
  <2> QED
    BY <2>1, <2>2, <2>3
<1>10. SameHashes(LeafLevel(one), LeafLevel(other))
  <2>1. g \in Nat /\ g <= g /\ g <= h /\ g - g = 0 /\ h - g = 0
    BY <1>2, <1>3, <1>9
  <2> QED
    BY <1>5, <1>8, <2>1
<1>11. p = q
  BY <1>2, <1>10 DEF SameHashes
<1>12. ASSUME NEW i \in 1..p PROVE one[i].commitment = other[i].commitment
  <2>1. i \in DOMAIN one /\ i \in DOMAIN other
    BY <1>1, <1>11 DEF IsLevel
  <2>2. /\ LeafLevel(one)[i].hash = HashMerkleLeaf(one[i].commitment)
        /\ LeafLevel(other)[i].hash = HashMerkleLeaf(other[i].commitment)
    BY <2>1, LeafLevelIs
  <2>3. LeafLevel(one)[i].hash = LeafLevel(other)[i].hash
    BY <1>2, <1>10 DEF SameHashes
  <2> QED
    BY <2>2, <2>3, HashesDiffer
<1> QED
  BY <1>1, <1>11, <1>12

\* As many values as places: no value twice.
LEMMA NoValueTwice ==
    ASSUME NEW n \in Nat, NEW f, f = [i \in 1..n |-> f[i]]
    PROVE  LET values == {f[i] : i \in 1..n}
           IN  /\ IsFiniteSet(values)
               /\ Cardinality(values) = n <=> \A i, j \in 1..n : f[i] = f[j] => i = j
<1>1. PICK V : V = {f[i] : i \in 1..n}
  OBVIOUS
<1>2. f \in Surjection(1..n, V)
  BY <1>1 DEF Surjection
<1>3. IsFiniteSet(1..n) /\ Cardinality(1..n) = n
  BY FS_Interval
<1>4. IsFiniteSet(V) /\ (Cardinality(V) = n <=> f \in Injection(1..n, V))
  BY <1>2, <1>3, FS_Surjection
<1>5. f \in Injection(1..n, V) <=> \A i, j \in 1..n : f[i] = f[j] => i = j
  BY <1>2 DEF Injection, IsInjective, Surjection
<1> QED
  BY <1>1, <1>4, <1>5

\* A sequence of receipts whose identifiers and times can be compared.
IsReceipts(s) ==
    /\ IsLevel(s) /\ s = [i \in 1..Len(s) |-> s[i]]
    /\ \A i \in 1..Len(s) : s[i].id \in Nat /\ s[i].occurred \in Nat

LEMMA ValidBatchIs ==
    ASSUME NEW s, IsReceipts(s), ValidBatch(s)
    PROVE  /\ \A i, j \in 1..Len(s) : s[i].id = s[j].id => i = j
           /\ \A i, j \in 1..Len(s) : s[i].commitment = s[j].commitment => i = j
           /\ IsFiniteSet(Range(s)) /\ Cardinality(Range(s)) = Len(s)
<1>1. PICK n \in Nat : n = Len(s) /\ DOMAIN s = 1..n /\ s = [i \in 1..n |-> s[i]]
  BY DEF IsReceipts, IsLevel
<1>2. Range(s) = {s[i] : i \in 1..n}
  BY <1>1 DEF Range
<1>3. \A i, j \in 1..n : s[i].id = s[j].id => i = j
  <2>1. PICK f : f = [i \in 1..n |-> s[i].id]
    OBVIOUS
  <2>2. f = [i \in 1..n |-> f[i]] /\ {f[i] : i \in 1..n} = {r.id : r \in Range(s)}
    BY <1>2, <2>1
  <2>3. Cardinality({f[i] : i \in 1..n}) = n
    BY <1>1, <2>2 DEF ValidBatch
  <2>4. \A i, j \in 1..n : f[i] = f[j] => i = j
    BY <2>2, <2>3, NoValueTwice
  <2> QED
    BY <2>1, <2>4
<1>4. \A i, j \in 1..n : s[i].commitment = s[j].commitment => i = j
  <2>1. PICK f : f = [i \in 1..n |-> s[i].commitment]
    OBVIOUS
  <2>2. f = [i \in 1..n |-> f[i]] /\ {f[i] : i \in 1..n} = {r.commitment : r \in Range(s)}
    BY <1>2, <2>1
  <2>3. Cardinality({f[i] : i \in 1..n}) = n
    BY <1>1, <2>2 DEF ValidBatch
  <2>4. \A i, j \in 1..n : f[i] = f[j] => i = j
    BY <2>2, <2>3, NoValueTwice
  <2> QED
    BY <2>1, <2>4
<1>5. \A i, j \in 1..n : s[i] = s[j] => i = j
  BY <1>3
<1>6. IsFiniteSet(Range(s)) /\ Cardinality(Range(s)) = n
  <2>1. PICK f : f = [i \in 1..n |-> s[i]]
    OBVIOUS
  <2>2. f = [i \in 1..n |-> f[i]] /\ {f[i] : i \in 1..n} = Range(s)
    BY <1>2, <2>1
  <2>3. \A i, j \in 1..n : f[i] = f[j] => i = j
    BY <1>5, <2>1
  <2>4. IsFiniteSet({f[i] : i \in 1..n}) /\ Cardinality({f[i] : i \in 1..n}) = n
    BY <2>2, <2>3, NoValueTwice
  <2> QED
    BY <2>2, <2>4
<1> QED
  BY <1>1, <1>3, <1>4, <1>6

\* Earlier(all, r): the receipts that are sorted before r.
Earlier(all, r) == {q \in all : Before(q, r)}

\* Ranks in a set of receipts with distinct identifiers are all the places there are.
LEMMA Ranks ==
    ASSUME NEW all, NEW n \in Nat, IsFiniteSet(all), Cardinality(all) = n,
           \A r \in all : r.id \in Nat /\ r.occurred \in Nat,
           \A q, r \in all : q.id = r.id => q = r
    PROVE  /\ \A r \in all : Cardinality(Earlier(all, r)) \in Nat /\ Cardinality(Earlier(all, r)) + 1 \in 1..n
           /\ \A q, r \in all : Cardinality(Earlier(all, q)) = Cardinality(Earlier(all, r)) => q = r
           /\ \A i \in 1..n : \E r \in all : Cardinality(Earlier(all, r)) = i - 1
<1>1. ASSUME NEW r \in all
      PROVE  /\ IsFiniteSet(Earlier(all, r)) /\ Cardinality(Earlier(all, r)) \in Nat
             /\ Cardinality(Earlier(all, r)) <= n - 1
  <2>1. Earlier(all, r) \in SUBSET (all \ {r})
    BY <1>1 DEF Earlier, Before
  <2>2. IsFiniteSet(all \ {r}) /\ Cardinality(all \ {r}) = n - 1
    BY FS_RemoveElement
  <2>3. IsFiniteSet(Earlier(all, r)) /\ Cardinality(Earlier(all, r)) <= n - 1
    BY <2>1, <2>2, FS_Subset
  <2> QED
    BY <2>3, FS_CardinalityType
<1>2. ASSUME NEW q \in all, NEW r \in all, Before(q, r)
      PROVE  Cardinality(Earlier(all, q)) # Cardinality(Earlier(all, r))
  <2>1. Earlier(all, q) \in SUBSET Earlier(all, r)
    BY <1>2 DEF Earlier, Before
  <2>2. q \in Earlier(all, r) /\ q \notin Earlier(all, q)
    BY <1>2 DEF Earlier, Before
  <2> QED
    BY <1>1, <2>1, <2>2, FS_Subset
<1>3. ASSUME NEW q \in all, NEW r \in all,
             Cardinality(Earlier(all, q)) = Cardinality(Earlier(all, r))
      PROVE  q = r
  <2>1. ~Before(q, r) /\ ~Before(r, q)
    BY <1>2, <1>3
  <2>2. q.id = r.id
    BY <2>1 DEF Before
  <2> QED
    BY <2>2
<1>4. PICK rank : rank = [r \in all |-> Cardinality(Earlier(all, r)) + 1]
  OBVIOUS
<1>5. rank \in Injection(all, 1..n)
  <2>1. rank \in [all -> 1..n]
    BY <1>1, <1>4
  <2>2. \A q, r \in all : rank[q] = rank[r] => q = r
    BY <1>1, <1>3, <1>4
  <2> QED
    BY <2>1, <2>2 DEF Injection, IsInjective
<1>6. rank \in Surjection(all, 1..n)
  <2>1. IsFiniteSet(1..n) /\ Cardinality(1..n) = n
    BY FS_Interval
  <2> QED
    BY <1>5, <2>1, FS_Injection
<1>7. ASSUME NEW i \in 1..n PROVE \E r \in all : Cardinality(Earlier(all, r)) = i - 1
  <2>1. PICK r \in all : rank[r] = i
    BY <1>6 DEF Surjection
  <2>2. Cardinality(Earlier(all, r)) + 1 = i
    BY <1>4, <2>1
  <2> QED
    BY <1>1, <2>2
<1>8. ASSUME NEW r \in all PROVE Cardinality(Earlier(all, r)) \in Nat /\ Cardinality(Earlier(all, r)) + 1 \in 1..n
  BY <1>1
<1> QED
  BY <1>3, <1>7, <1>8

LEMMA OrderedFrom ==
    ASSUME NEW s, NEW n, DOMAIN s = 1..n, NEW all, all = Range(s)
    PROVE  Ordered(s) = [i \in 1..n |-> CHOOSE r \in all : Cardinality(Earlier(all, r)) = i - 1]
  BY DEF Ordered, Earlier

\* What sorting a valid batch does: the same receipts, each at one place.
LEMMA OrderedIs ==
    ASSUME NEW s, IsReceipts(s), ValidBatch(s)
    PROVE  LET o == Ordered(s)
           IN  /\ Len(o) = Len(s) /\ IsReceipts(o) /\ Range(o) = Range(s)
               /\ ValidBatch(o) /\ Ordered(o) = o
<1>1. PICK n, all : n = Len(s) /\ all = Range(s)
  OBVIOUS
<1>2. n \in Nat /\ n >= 1 /\ DOMAIN s = 1..n /\ s = [i \in 1..n |-> s[i]]
  BY <1>1 DEF IsReceipts, IsLevel
<1>3. all = {s[i] : i \in 1..n}
  BY <1>1, <1>2 DEF Range
<1>4. /\ IsFiniteSet(all) /\ Cardinality(all) = n
      /\ \A r \in all : r.id \in Nat /\ r.occurred \in Nat
  BY <1>1, <1>3, ValidBatchIs DEF IsReceipts
<1>5. \A q, r \in all : q.id = r.id => q = r
  BY <1>1, <1>3, ValidBatchIs
<1>6. /\ \A r \in all : Cardinality(Earlier(all, r)) \in Nat /\ Cardinality(Earlier(all, r)) + 1 \in 1..n
      /\ \A q, r \in all : Cardinality(Earlier(all, q)) = Cardinality(Earlier(all, r)) => q = r
      /\ \A i \in 1..n : \E r \in all : Cardinality(Earlier(all, r)) = i - 1
  BY <1>2, <1>4, <1>5, Ranks
<1>7. PICK o : o = Ordered(s)
  OBVIOUS
<1>8. o = [i \in 1..n |-> CHOOSE r \in all : Cardinality(Earlier(all, r)) = i - 1]
  <2>1. DOMAIN s = 1..n
    BY <1>2
  <2> QED
    BY <1>1, <1>7, <2>1, OrderedFrom
<1>9. DOMAIN o = 1..n /\ Len(o) = n /\ o = [i \in 1..n |-> o[i]]
  BY <1>2, <1>8
<1>10. \A i \in 1..n : o[i] \in all /\ Cardinality(Earlier(all, o[i])) = i - 1
  BY <1>6, <1>8
<1>11. Range(o) = all
  <2>1. ASSUME NEW r \in all PROVE \E i \in 1..n : r = o[i]
    <3>1. PICK i \in 1..n : i = Cardinality(Earlier(all, r)) + 1
      BY <1>6
    <3>2. o[i] \in all /\ Cardinality(Earlier(all, o[i])) = Cardinality(Earlier(all, r))
      BY <1>6, <1>10, <3>1
    <3> QED
      BY <1>6, <3>2
  <2> QED
    BY <1>9, <1>10, <2>1 DEF Range
<1>12. IsReceipts(o)
  <2>1. IsLevel(o)
    BY <1>2, <1>9 DEF IsLevel
  <2>2. \A i \in 1..n : o[i].id \in Nat /\ o[i].occurred \in Nat
    BY <1>4, <1>10
  <2> QED
    BY <1>9, <2>1, <2>2 DEF IsReceipts
<1>13. ValidBatch(o)
  <2>1. o # <<>>
    BY <1>2, <1>9
  <2> QED
    BY <1>1, <1>9, <1>11, <2>1 DEF ValidBatch
<1>14. Ordered(o) = o
  <2>1. DOMAIN o = 1..n
    BY <1>9
  <2>2. Ordered(o) = [i \in 1..n |-> CHOOSE r \in all : Cardinality(Earlier(all, r)) = i - 1]
    BY OrderedFrom, <2>1, <1>11
  <2> QED
    BY <1>8, <2>2
<1> QED
  BY <1>1, <1>7, <1>9, <1>11, <1>12, <1>13, <1>14

LEMMA BatchIs == ASSUME NEW s \in Batches, ValidBatch(s) PROVE IsReceipts(s)
<1>1. s \in Seq(Range(s)) /\ s # <<>> /\ \A r \in Range(s) : r.id \in Nat /\ r.occurred \in Nat
  BY BatchesAssumption DEF ValidBatch
<1>2. PICK n \in Nat : n = Len(s) /\ n >= 1 /\ DOMAIN s = 1..n /\ s = [i \in 1..n |-> s[i]]
  BY <1>1
<1>3. IsLevel(s)
  BY <1>2 DEF IsLevel
<1>4. \A i \in 1..n : s[i] \in Range(s)
  BY <1>2 DEF Range
<1>5. \A i \in 1..n : s[i].id \in Nat /\ s[i].occurred \in Nat
  BY <1>1, <1>4
<1> QED
  BY <1>2, <1>3, <1>5 DEF IsReceipts

LEMMA LeavesDistinct ==
    ASSUME NEW s, IsReceipts(s), ValidBatch(s)
    PROVE  DistinctHashes(LeafLevel(s))
<1>1. IsLevel(s)
  BY DEF IsReceipts
<1>2. /\ DOMAIN LeafLevel(s) = 1..Len(s)
      /\ \A i \in 1..Len(s) : LeafLevel(s)[i].hash = HashMerkleLeaf(s[i].commitment)
  BY <1>1, LeafLevelIs DEF IsLevel
<1>3. ASSUME NEW i \in 1..Len(s), NEW j \in 1..Len(s), LeafLevel(s)[i].hash = LeafLevel(s)[j].hash
      PROVE  i = j
  <2>1. s[i].commitment = s[j].commitment
    BY <1>2, <1>3, HashesDiffer
  <2> QED
    BY <2>1, ValidBatchIs
<1> QED
  BY <1>2, <1>3 DEF DistinctHashes

LEMMA RootIs ==
    ASSUME NEW s
    PROVE  LET levels == Levels(LeafLevel(Ordered(s)))
           IN  BuildMerkleBatch(s).root = levels[Height(levels)][1].hash
  BY DEF BuildMerkleBatch

\* verifyMerkleProof accepts a commitment under the root of a batch only if a receipt of
\* the batch has that commitment, whatever the steps of the proof are.
THEOREM MerkleProofsAreSound ==
    ASSUME NEW s, IsReceipts(s), ValidBatch(s), NEW c, NEW proof, Len(proof) \in Nat,
           VerifyMerkleProof(c, proof, BuildMerkleBatch(s).root)
    PROVE  \E r \in Range(s) : r.commitment = c
<1>1. PICK o, L : o = Ordered(s) /\ L = Levels(LeafLevel(o))
  OBVIOUS
<1>2. IsReceipts(o) /\ Range(o) = Range(s)
  BY <1>1, OrderedIs
<1>3. IsLevel(o) /\ IsLevel(LeafLevel(o)) /\ Len(LeafLevel(o)) = Len(o)
  BY <1>2, LeafLevelIs DEF IsReceipts
<1>4. PICK h \in 0..Len(o) : h = Height(L) /\ Len(L[h]) = 1
  BY <1>1, <1>3, HeightIs
<1>5. IsLevel(L[h])
  BY <1>1, <1>3, LevelsShrink
<1>6. 1 \in DOMAIN L[h]
  BY <1>4, <1>5 DEF IsLevel
<1>7. Currents(c, proof)[Len(proof)] = L[h][1].hash
  BY <1>1, <1>4, RootIs DEF VerifyMerkleProof
<1>8. PICK i \in DOMAIN o : o[i].commitment = c
  BY <1>1, <1>3, <1>6, <1>7, ProofsStartAtLeaves
<1>9. o[i] \in Range(o)
  BY <1>8 DEF Range
<1> QED
  BY <1>2, <1>8, <1>9

\* Two valid batches with the same root have the same commitments in the same order,
\* although buildMerkleBatch duplicates the last node of an odd level.
THEOREM MerkleRootsAreUnique ==
    ASSUME NEW s, IsReceipts(s), ValidBatch(s), NEW t, IsReceipts(t), ValidBatch(t),
           BuildMerkleBatch(s).root = BuildMerkleBatch(t).root
    PROVE  /\ Len(Ordered(s)) = Len(Ordered(t))
           /\ \A i \in 1..Len(Ordered(s)) : Ordered(s)[i].commitment = Ordered(t)[i].commitment
<1>1. PICK o, p, L, K : /\ o = Ordered(s) /\ L = Levels(LeafLevel(o))
                        /\ p = Ordered(t) /\ K = Levels(LeafLevel(p))
  OBVIOUS
<1>2. IsReceipts(o) /\ ValidBatch(o) /\ IsReceipts(p) /\ ValidBatch(p)
  BY <1>1, OrderedIs
<1>3. IsLevel(o) /\ IsLevel(p) /\ DistinctHashes(LeafLevel(o)) /\ DistinctHashes(LeafLevel(p))
  BY <1>2, LeavesDistinct DEF IsReceipts
<1>4. L[Height(L)][1].hash = K[Height(K)][1].hash
  BY <1>1, RootIs
<1>5. Len(o) = Len(p) /\ \A i \in 1..Len(o) : o[i].commitment = p[i].commitment
  <2>1. L = Levels(LeafLevel(o)) /\ K = Levels(LeafLevel(p))
    BY <1>1
  <2> QED
    BY <1>3, <1>4, <2>1, SameRoots
<1> QED
  BY <1>1, <1>5

\* Node j of a level is the one above a leaf.
IsAbove(level, leaf, j) ==
    /\ j \in DOMAIN level /\ leaf \in level[j].descendants
    /\ \A x \in DOMAIN level : leaf \in level[x].descendants => x = j

\* One step of a leaf's proof leads from the node above the leaf to the one above that.
LEMMA ProofStepClimbs ==
    ASSUME NEW level, IsLevel(level), NEW leaf, NEW j, IsAbove(level, leaf, j)
    PROVE  \E m : /\ IsAbove(NextLevel(level), leaf, m)
                  /\ NextLevel(level)[m].hash = Climbed(ProofStep(level, leaf), level[j].hash)
<1>1. PICK k, next, step, m : /\ k = Len(level) /\ next = NextLevel(level)
                              /\ step = ProofStep(level, leaf) /\ m = (j + 1) \div 2
  OBVIOUS
<1>2. PICK n : n = Len(next)
  OBVIOUS
<1>3. k \in Nat /\ k >= 1 /\ DOMAIN level = 1..k /\ j \in 1..k
  BY <1>1 DEF IsLevel, IsAbove
<1>4. n \in Nat /\ DOMAIN next = 1..n /\ k \in {2 * n, 2 * n - 1}
  BY <1>1, <1>2, NextLevelIs DEF IsLevel
<1>5. \A x \in 1..n :
          /\ 2 * x - 1 \in 1..k /\ RightOf(level, x) \in 1..k
          /\ next[x].hash = HashMerkleNode(level[2 * x - 1].hash, level[RightOf(level, x)].hash)
          /\ next[x].descendants = level[2 * x - 1].descendants
                                   \union level[RightOf(level, x)].descendants
  BY <1>1, <1>2, NextLevelIs
<1>6. m \in Nat /\ m >= 1 /\ (j = 2 * m \/ j = 2 * m - 1)
  BY <1>1, <1>3, Halves
<1>7. m \in 1..n
  BY <1>3, <1>4, <1>6
<1>8. j = (CHOOSE x \in DOMAIN level : leaf \in level[x].descendants)
  BY DEF IsAbove
<1>9. /\ step.position = (IF j % 2 = 0 THEN "left" ELSE "right")
      /\ step.hash = level[Sibling(level, j)].hash
  BY <1>1, <1>8 DEF ProofStep
<1>10. CASE j = 2 * m
  <2>1. j % 2 = 0 /\ j - 1 = 2 * m - 1
    BY <1>6, <1>10
  <2>2. step.position = "left" /\ step.hash = level[2 * m - 1].hash
    BY <1>9, <2>1 DEF Sibling
  <2>3. RightOf(level, m) = j
    BY <1>1, <1>3, <1>10 DEF RightOf
  <2> QED
    <3>1. next[m].hash = HashMerkleNode(step.hash, level[j].hash) /\ leaf \in next[m].descendants
      BY <1>5, <1>7, <2>2, <2>3 DEF IsAbove
    <3>2. next[m].hash = Climbed(step, level[j].hash)
      BY <2>2, <3>1 DEF Climbed
    <3>3. \A x \in 1..n : leaf \in next[x].descendants => 2 * x - 1 = j \/ RightOf(level, x) = j
      BY <1>3, <1>5 DEF IsAbove
    <3>4. \A x \in 1..n : leaf \in next[x].descendants => x = m
      BY <1>4, <1>6, <1>10, <3>3 DEF RightOf
    <3> QED
      BY <1>1, <1>4, <1>7, <3>1, <3>2, <3>4 DEF IsAbove
<1>11. CASE j = 2 * m - 1
  <2>1. j % 2 # 0
    BY <1>6, <1>11, OddIsOdd
  <2>2. Sibling(level, j) = RightOf(level, m)
    BY <1>1, <1>3, <1>6, <1>11, SiblingOfLeft
  <2>3. step.position = "right" /\ step.hash = level[RightOf(level, m)].hash
    BY <1>9, <2>1, <2>2
  <2> QED
    <3>1. next[m].hash = HashMerkleNode(level[j].hash, step.hash) /\ leaf \in next[m].descendants
      BY <1>5, <1>7, <1>11, <2>3 DEF IsAbove
    <3>2. next[m].hash = Climbed(step, level[j].hash)
      BY <2>3, <3>1 DEF Climbed
    <3>3. \A x \in 1..n : leaf \in next[x].descendants => 2 * x - 1 = j \/ RightOf(level, x) = j
      BY <1>3, <1>5 DEF IsAbove
    <3>4. \A x \in 1..n : leaf \in next[x].descendants => x = m
      BY <1>4, <1>6, <1>11, <3>3 DEF RightOf
    <3> QED
      BY <1>1, <1>4, <1>7, <3>1, <3>2, <3>4 DEF IsAbove
<1> QED
  BY <1>6, <1>10, <1>11

LEMMA Halving ==
    ASSUME NEW len, len[0] \in Nat, len[0] <= MaxLeaves,
           \A n \in 1..14 : len[n] \in Nat /\ len[n] >= 1 /\ 2 * len[n] <= len[n - 1] + 1
    PROVE  len[14] = 1
<1>1. len[2] <= 2500
  BY DEF MaxLeaves
<1>2. len[4] <= 625
  BY <1>1
<1>3. len[6] <= 157
  BY <1>2
<1>4. len[8] <= 40
  BY <1>3
<1>5. len[10] <= 10
  BY <1>4
<1>6. len[12] <= 3
  BY <1>5
<1>7. len[13] <= 2
  BY <1>6
<1>8. len[14] \in Nat /\ len[14] >= 1 /\ 2 * len[14] <= len[13] + 1 /\ len[13] \in Nat
  OBVIOUS
<1> QED
  BY <1>7, <1>8

\* Ten thousand leaves are halved to one in fourteen turns.
LEMMA HeightIsBounded ==
    ASSUME NEW leaves, IsLevel(leaves), Len(leaves) <= MaxLeaves
    PROVE  Height(Levels(leaves)) <= 14
<1>1. PICK k, L, h : k = Len(leaves) /\ L = Levels(leaves) /\ h = Height(L)
  OBVIOUS
<1>2. k \in Nat /\ k <= MaxLeaves
  BY <1>1 DEF IsLevel
<1>3. h \in 0..k /\ \A m \in 0..k : m < h => Len(L[m]) # 1
  BY <1>1, HeightIs
<1>4. \A n \in 0..k : Len(L[n]) \in Nat /\ Len(L[n]) >= 1
  BY <1>1, LevelsShrink DEF IsLevel
<1>5. \A n \in 1..k : IsLevel(L[n - 1]) /\ L[n] = NextLevel(L[n - 1])
  BY <1>1, <1>2, LevelsIs, LevelsShrink
<1>6. \A n \in 1..k : Len(L[n - 1]) \in {2 * Len(L[n]), 2 * Len(L[n]) - 1}
  BY <1>5, NextLevelIs
<1>7. PICK len : len = [n \in 0..k |-> Len(L[n])]
  OBVIOUS
<1>8. len[0] = k
  BY <1>1, <1>2, <1>7, LevelsIs
<1>9. \A n \in 0..k : len[n] \in Nat /\ len[n] >= 1
  BY <1>4, <1>7
<1>10. ASSUME k >= 14 PROVE len[14] = 1
  <2>1. ASSUME NEW n \in 1..14 PROVE len[n] \in Nat /\ len[n] >= 1 /\ 2 * len[n] <= len[n - 1] + 1
    <3>1. n \in 1..k /\ n \in 0..k /\ n - 1 \in 0..k
      BY <1>2, <1>10
    <3>2. len[n] \in Nat /\ len[n] >= 1 /\ len[n - 1] \in Nat
      BY <1>9, <3>1
    <3>3. len[n - 1] = 2 * len[n] \/ len[n - 1] = 2 * len[n] - 1
      BY <1>6, <1>7, <3>1
    <3> QED
      BY <3>2, <3>3
  <2>2. len[0] \in Nat /\ len[0] <= MaxLeaves
    BY <1>2, <1>8
  <2>3. \A n \in 1..14 : len[n] \in Nat /\ len[n] >= 1 /\ 2 * len[n] <= len[n - 1] + 1
    BY <2>1
  <2> QED
    BY <2>2, <2>3, Halving, Zenon
<1>11. CASE k >= 14
  <2>1. 14 \in 0..k /\ Len(L[14]) = 1
    BY <1>2, <1>7, <1>10, <1>11
  <2>2. ~(14 < h)
    BY <1>3, <2>1
  <2> QED
    BY <1>1, <1>2, <1>3, <2>2
<1>12. CASE ~(k >= 14)
  BY <1>1, <1>2, <1>3, <1>12
<1> QED
  BY <1>11, <1>12

\* verifyMerkleProof accepts every proof buildMerkleBatch makes: its 32 steps are enough
\* for the 10,000 receipts a batch may have.
THEOREM BuiltProofsVerify ==
    ASSUME NEW s, IsReceipts(s), ValidBatch(s), NEW i \in 1..Len(Ordered(s))
    PROVE  LET batch == BuildMerkleBatch(s)
           IN  VerifyMerkleProof(Ordered(s)[i].commitment, batch.proofs[i], batch.root)
<1>1. PICK o, leaves, L, h : /\ o = Ordered(s) /\ leaves = LeafLevel(o)
                             /\ L = Levels(leaves) /\ h = Height(L)
  OBVIOUS
<1>2. PICK k : k = Len(o)
  OBVIOUS
<1>3. IsReceipts(o) /\ ValidBatch(o)
  BY <1>1, OrderedIs
<1>4. k \in Nat /\ k <= MaxLeaves /\ DOMAIN o = 1..k /\ IsLevel(o)
  BY <1>2, <1>3 DEF IsReceipts, IsLevel, ValidBatch
<1>5. /\ IsLevel(leaves) /\ Len(leaves) = k /\ DOMAIN leaves = 1..k
      /\ \A x \in 1..k : /\ leaves[x].hash = HashMerkleLeaf(o[x].commitment)
                         /\ leaves[x].descendants = {x}
  BY <1>1, <1>2, <1>4, LeafLevelIs
<1>6. h \in 0..k /\ Len(L[h]) = 1 /\ h <= 14
  BY <1>1, <1>4, <1>5, HeightIs, HeightIsBounded
<1>7. h \in Nat
  BY <1>4, <1>6
<1>8. /\ L[0] = leaves /\ \A n \in 1..k : L[n] = NextLevel(L[n - 1])
      /\ \A n \in 0..k : IsLevel(L[n])
  <2>1. L[0] = leaves /\ \A n \in 1..k : L[n] = NextLevel(L[n - 1])
    BY <1>1, <1>4, <1>5, LevelsIs
  <2>2. \A n \in 0..k : IsLevel(L[n])
    BY <1>1, <1>5, LevelsShrink
  <2> QED
    BY <2>1, <2>2
<1>9. PICK proof, current : /\ proof = [n \in 1..h |-> ProofStep(L[n - 1], i)]
                            /\ current = Currents(o[i].commitment, proof)
  OBVIOUS
<1>10. i \in 1..k /\ BuildMerkleBatch(s).proofs[i] = proof /\ BuildMerkleBatch(s).root = L[h][1].hash
  BY <1>1, <1>2, <1>4, <1>9 DEF BuildMerkleBatch
<1>11. Len(proof) = h
  BY <1>7, <1>9
<1>12. current[0] = HashMerkleLeaf(o[i].commitment)
  BY <1>7, <1>9, <1>11, CurrentsIs
<1>13. ASSUME NEW n \in 1..h PROVE current[n] = Climbed(ProofStep(L[n - 1], i), current[n - 1])
  <2>1. current[n] = Climbed(proof[n], current[n - 1])
    BY <1>7, <1>9, <1>11, CurrentsIs
  <2> QED
    BY <1>9, <2>1
<1>14. PICK T : T = {n \in Nat : n <= h /\ ~\E j : IsAbove(L[n], i, j) /\ current[n] = L[n][j].hash}
  OBVIOUS
<1>15. ASSUME NEW n \in T, \A m \in T : n <= m PROVE FALSE
  <2>1. n \in Nat /\ n <= h /\ ~\E j : IsAbove(L[n], i, j) /\ current[n] = L[n][j].hash
    BY <1>14
  <2>2. n # 0
    <3>1. IsAbove(leaves, i, i) /\ current[0] = leaves[i].hash
      BY <1>5, <1>10, <1>12 DEF IsAbove
    <3> QED
      BY <1>8, <2>1, <3>1
  <2>3. n - 1 \in Nat /\ n - 1 <= h /\ n - 1 \notin T /\ n \in 1..h /\ n \in 1..k /\ n - 1 \in 0..k
    BY <1>4, <1>6, <1>7, <1>15, <2>1, <2>2
  <2>4. PICK j : IsAbove(L[n - 1], i, j) /\ current[n - 1] = L[n - 1][j].hash
    BY <1>14, <2>3
  <2>5. PICK m : /\ IsAbove(NextLevel(L[n - 1]), i, m)
                 /\ NextLevel(L[n - 1])[m].hash = Climbed(ProofStep(L[n - 1], i), L[n - 1][j].hash)
    BY <1>8, <2>3, <2>4, ProofStepClimbs
  <2>6. IsAbove(L[n], i, m) /\ current[n] = L[n][m].hash
    BY <1>8, <1>13, <2>3, <2>4, <2>5
  <2> QED
    BY <2>1, <2>6
<1>16. PICK j : IsAbove(L[h], i, j) /\ current[h] = L[h][j].hash
  <2>1. T \subseteq Nat
    BY <1>14
  <2>2. T = {}
    BY <1>15, <2>1, LeastNumber
  <2> QED
    BY <1>7, <1>14, <2>2
<1>17. j = 1
  BY <1>6, <1>8, <1>16 DEF IsAbove, IsLevel
<1>18. VerifyMerkleProof(o[i].commitment, proof, L[h][1].hash)
  BY <1>6, <1>7, <1>9, <1>11, <1>16, <1>17 DEF VerifyMerkleProof, MaxProofSteps
<1> QED
  BY <1>1, <1>10, <1>18

-----------------------------------------------------------------------------
(* Bundles *)

LEMMA CarIs ==
    ASSUME NEW root, NEW proofs
    PROVE  LET car == CarOf(root, proofs)
           IN  /\ car.manifest.root = root
               /\ DOMAIN car.manifest.receipts = DOMAIN proofs
               /\ \A i \in DOMAIN proofs : car.manifest.receipts[i].cid = proofs[i]
               /\ ReceiptProofs(car) = [i \in DOMAIN proofs |-> proofs[i]]
               /\ car = [manifest |-> car.manifest, blocks |-> car.blocks]
  BY DEF CarOf, ReceiptProofs

\* The bundle of a valid batch: one proof per receipt, in order.
LEMMA BundleIs ==
    ASSUME NEW s, IsReceipts(s), ValidBatch(s)
    PROVE  \E proofs :
              /\ BuildFilecoinEvidenceBundle(s) = CarOf(BuildMerkleBatch(s).root, proofs)
              /\ Len(proofs) = Len(Ordered(s)) /\ Len(proofs) \in Nat /\ Len(proofs) >= 1
              /\ proofs = [i \in 1..Len(proofs) |-> ReceiptProof(BuildMerkleBatch(s), i)]
              /\ \A i \in 1..Len(proofs) : /\ proofs[i].commitment = Ordered(s)[i].commitment
                                           /\ Len(proofs[i].proof) \in Nat
<1>1. PICK o, batch : o = Ordered(s) /\ batch = BuildMerkleBatch(s)
  OBVIOUS
<1>2. PICK n : n = Len(o)
  OBVIOUS
<1>3. n \in Nat /\ n >= 1 /\ DOMAIN o = 1..n /\ IsLevel(o)
  BY <1>1, <1>2, OrderedIs DEF IsReceipts, IsLevel
<1>4. PICK proofs : proofs = [i \in 1..n |-> ReceiptProof(batch, i)]
  OBVIOUS
<1>5. batch.leaves = o
  BY <1>1 DEF BuildMerkleBatch
<1>6. BuildFilecoinEvidenceBundle(s) = CarOf(batch.root, proofs)
  BY <1>1, <1>3, <1>4, <1>5 DEF BuildFilecoinEvidenceBundle
<1>7. Len(proofs) = n
  BY <1>3, <1>4
<1>8. PICK h : h = Height(Levels(LeafLevel(o)))
  OBVIOUS
<1>9. h \in Nat
  <2>1. IsLevel(LeafLevel(o)) /\ Len(LeafLevel(o)) = n
    BY <1>2, <1>3, LeafLevelIs
  <2>2. h \in 0..n
    BY <1>8, <2>1, HeightIs
  <2> QED
    BY <1>3, <2>2
<1>10. ASSUME NEW i \in 1..n PROVE Len(batch.proofs[i]) \in Nat
  <2>1. batch.proofs[i] = [m \in 1..h |-> ProofStep(Levels(LeafLevel(o))[m - 1], i)]
    BY <1>1, <1>3, <1>8 DEF BuildMerkleBatch
  <2>2. Len(batch.proofs[i]) = h
    BY <1>9, <2>1
  <2> QED
    BY <1>9, <2>2
<1>11. ASSUME NEW i \in 1..n
       PROVE  proofs[i].commitment = o[i].commitment /\ proofs[i].proof = batch.proofs[i]
  BY <1>4, <1>5 DEF ReceiptProof
<1>12. \A i \in 1..n : proofs[i].commitment = o[i].commitment /\ Len(proofs[i].proof) \in Nat
  BY <1>10, <1>11
<1> QED
  BY <1>1, <1>2, <1>3, <1>4, <1>6, <1>7, <1>12

LEMMA BlocksAre ==
    ASSUME NEW root, NEW n \in Nat, NEW proofs, proofs = [i \in 1..n |-> proofs[i]],
           \A i, j \in 1..n : proofs[i] = proofs[j] => i = j
    PROVE  LET blocks == CarOf(root, proofs).blocks
           IN  /\ Cardinality(blocks) = n
               /\ \A i \in 1..n : [cid |-> proofs[i], content |-> proofs[i]] \in blocks
<1>1. PICK f : f = [i \in 1..n |-> [cid |-> proofs[i], content |-> proofs[i]]]
  OBVIOUS
<1>2. DOMAIN proofs = 1..n
  OBVIOUS
<1>3. CarOf(root, proofs).blocks = {f[i] : i \in 1..n}
  BY <1>1, <1>2 DEF CarOf, Range
<1>4. f = [i \in 1..n |-> f[i]]
  BY <1>1
<1>5. \A i, j \in 1..n : f[i] = f[j] => i = j
  BY <1>1
<1>6. Cardinality({f[i] : i \in 1..n}) = n
  BY <1>4, <1>5, NoValueTwice
<1> QED
  BY <1>1, <1>3, <1>6

\* verifyFilecoinEvidenceBundle accepts the bundle of every valid batch as it was built.
THEOREM BuiltBundlesVerify ==
    ASSUME NEW s, IsReceipts(s), ValidBatch(s)
    PROVE  VerifyFilecoinEvidenceBundle(BuildFilecoinEvidenceBundle(s))
<1>1. PICK o, batch : o = Ordered(s) /\ batch = BuildMerkleBatch(s)
  OBVIOUS
<1>2. PICK proofs :
          /\ BuildFilecoinEvidenceBundle(s) = CarOf(batch.root, proofs)
          /\ Len(proofs) = Len(o) /\ Len(proofs) \in Nat /\ Len(proofs) >= 1
          /\ proofs = [i \in 1..Len(proofs) |-> ReceiptProof(batch, i)]
  BY <1>1, BundleIs
<1>3. PICK n \in Nat : n = Len(proofs)
  BY <1>2
<1>4. n >= 1 /\ n = Len(o) /\ DOMAIN proofs = 1..n /\ \A i \in 1..n : proofs[i] = ReceiptProof(batch, i)
  BY <1>2, <1>3
<1>5. IsReceipts(o) /\ ValidBatch(o)
  BY <1>1, OrderedIs
<1>6. batch.leaves = o
  BY <1>1 DEF BuildMerkleBatch
<1>7. ASSUME NEW i \in 1..n
      PROVE  /\ proofs[i].root = batch.root /\ proofs[i].id = o[i].id
             /\ proofs[i].commitment = o[i].commitment /\ proofs[i].leaf = i
             /\ proofs[i].leafHash = HashMerkleLeaf(o[i].commitment)
             /\ proofs[i].proof = batch.proofs[i]
  BY <1>4, <1>6 DEF ReceiptProof
<1>8. PICK car : car = CarOf(batch.root, proofs)
  OBVIOUS
<1> DEFINE manifest == car.manifest
           listed == manifest.receipts
<1>9. /\ manifest.root = batch.root /\ manifest.count = n
       /\ listed = [i \in 1..n |-> [id |-> proofs[i].id, leaf |-> proofs[i].leaf, cid |-> proofs[i]]]
  BY <1>3, <1>4, <1>8 DEF CarOf
<1> HIDE DEF manifest, listed
<1>10. /\ DOMAIN listed = 1..n
       /\ \A i \in 1..n : listed[i].id = o[i].id /\ listed[i].leaf = i /\ listed[i].cid = proofs[i]
  BY <1>7, <1>9
<1>11. Len(listed) = n /\ listed # <<>> /\ n <= MaxLeaves
  <2>1. Len(listed) = n
    BY <1>9
  <2>2. n <= MaxLeaves
    BY <1>4, <1>5 DEF ValidBatch
  <2> QED
    BY <1>4, <2>1, <2>2
<1>12. \A i, j \in 1..n : proofs[i] = proofs[j] => i = j
  BY <1>7
<1>13. \A i, j \in 1..n : i # j => listed[i].id # listed[j].id /\ listed[i].cid # listed[j].cid
  BY <1>4, <1>5, <1>10, <1>12, ValidBatchIs
<1>14. /\ Cardinality(car.blocks) = n
       /\ \A i \in 1..n : [cid |-> proofs[i], content |-> proofs[i]] \in car.blocks
  <2>1. proofs = [i \in 1..n |-> proofs[i]]
    BY <1>2, <1>3
  <2> QED
    BY <1>8, <1>12, <2>1, BlocksAre
<1>15. ASSUME NEW i \in 1..n PROVE ReceiptProofHolds(manifest, listed[i], proofs[i])
  <2>1. VerifyMerkleProof(o[i].commitment, batch.proofs[i], batch.root)
    BY <1>1, <1>4, BuiltProofsVerify
  <2>2. manifest.root = batch.root
    BY <1>9
  <2> QED
    BY <1>7, <1>10, <2>1, <2>2 DEF ReceiptProofHolds
<1>16. ASSUME NEW i \in 1..n
       PROVE  \E p \in {b.content : b \in {x \in car.blocks : x.cid = listed[i].cid}} :
                 p = listed[i].cid /\ ReceiptProofHolds(manifest, listed[i], p)
  <2>1. PICK b \in car.blocks : b.cid = proofs[i] /\ b.content = proofs[i]
    BY <1>14
  <2>2. listed[i].cid = proofs[i] /\ ReceiptProofHolds(manifest, listed[i], proofs[i])
    BY <1>10, <1>15
  <2>3. proofs[i] \in {x.content : x \in {y \in car.blocks : y.cid = listed[i].cid}}
    BY <2>1, <2>2
  <2> QED
    BY <2>2, <2>3
<1>17. VerifyFilecoinEvidenceBundle(car)
  <2>1. \A i, j \in DOMAIN listed :
            i # j => listed[i].id # listed[j].id /\ listed[i].cid # listed[j].cid
    BY <1>10, <1>13
  <2>2. \A i \in DOMAIN listed :
            /\ listed[i].leaf = i
            /\ \E p \in {b.content : b \in {x \in car.blocks : x.cid = listed[i].cid}} :
                  p = listed[i].cid /\ ReceiptProofHolds(manifest, listed[i], p)
    BY <1>10, <1>16
  <2>3. manifest.count = n
    BY <1>9
  <2>4. /\ listed # <<>> /\ manifest.count = Len(listed) /\ manifest.count <= MaxLeaves
        /\ Cardinality(car.blocks) = manifest.count
    BY <1>11, <1>14, <2>3
  <2> QED
    BY <2>1, <2>2, <2>4, Zenon DEF VerifyFilecoinEvidenceBundle, manifest, listed
<1> QED
  BY <1>2, <1>8, <1>17

-----------------------------------------------------------------------------
(* EvidenceAnchor *)

ProofsHaveLengths(car) ==
    \A i \in DOMAIN car.manifest.receipts : Len(car.manifest.receipts[i].cid.proof) \in Nat

\* What was registered first under b, and is there still.
Anchored(s, b) ==
    /\ ValidBatch(s)
    /\ sources[b] = Ordered(s)
    /\ records[b] # Unset
    /\ records[b].commitment = CommitmentOf(BuildFilecoinEvidenceBundle(s))

BundleInv ==
    bundle = Unset \/ \E s \in Batches :
        ValidBatch(s) /\ bundle = [car |-> BuildFilecoinEvidenceBundle(s), receipts |-> Ordered(s)]

StoredInv == stored = Unset \/ ProofsHaveLengths(stored)

SourcesInv ==
    /\ DOMAIN sources = BatchIds
    /\ \A b \in BatchIds : \/ records[b] = Unset /\ sources[b] = <<>>
                           \/ \E s \in Batches : Anchored(s, b)

AnchorInv == RegistryInv /\ BundleInv /\ StoredInv /\ SourcesInv

LEMMA AnchorInitially == AnchorInit => AnchorInv
<1> SUFFICES ASSUME AnchorInit PROVE AnchorInv
  OBVIOUS
<1>1. RegistryInv
  BY RegistryInitially DEF AnchorInit
<1>2. BundleInv /\ StoredInv /\ SourcesInv
  BY DEF AnchorInit, RegistryInit, BundleInv, StoredInv, SourcesInv
<1> QED
  BY <1>1, <1>2 DEF AnchorInv

\* Whatever storage makes of a bundle, the proofs in it are sequences.
LEMMA ChangedStep ==
    ASSUME NEW s \in Batches, ValidBatch(s), StoredInv,
           NEW car \in {BuildFilecoinEvidenceBundle(s)} \union Changed(BuildFilecoinEvidenceBundle(s))
    PROVE  ProofsHaveLengths(car)
<1>1. PICK root, proofs, built :
          /\ built = BuildFilecoinEvidenceBundle(s) /\ built = CarOf(root, proofs)
          /\ Len(proofs) \in Nat /\ Len(proofs) >= 1
          /\ proofs = [i \in 1..Len(proofs) |-> ReceiptProof(BuildMerkleBatch(s), i)]
          /\ \A i \in 1..Len(proofs) : Len(proofs[i].proof) \in Nat
  BY BatchIs, BundleIs
<1>2. PICK n \in Nat : n = Len(proofs) /\ n >= 1 /\ DOMAIN proofs = 1..n
  BY <1>1
<1>3. /\ built.manifest.root = root
      /\ built = [manifest |-> built.manifest, blocks |-> built.blocks]
      /\ ReceiptProofs(built) = [i \in 1..n |-> proofs[i]]
  BY <1>1, <1>2, CarIs
<1>4. ProofsHaveLengths(built)
  BY <1>1, <1>2, CarIs DEF ProofsHaveLengths
<1>5. ASSUME NEW other, \A i \in DOMAIN other : Len(other[i].proof) \in Nat
      PROVE  ProofsHaveLengths(CarOf(root, other))
  BY <1>5, CarIs DEF ProofsHaveLengths
<1>6. ReceiptProofs(built) = proofs
  BY <1>1, <1>2, <1>3
<1>7. CASE \E blocks : car = [built EXCEPT !.blocks = blocks]
  <2>1. car.manifest = built.manifest
    BY <1>3, <1>7
  <2> QED
    BY <1>4, <2>1 DEF ProofsHaveLengths
<1>8. CASE car \in {CarOf(root, SubSeq(proofs, 1, n - 1)), CarOf(root, Tail(proofs))}
  <2>1. proofs \in Seq({proofs[i] : i \in 1..n})
    BY <1>1, <1>2
  <2>2. \A i \in DOMAIN SubSeq(proofs, 1, n - 1) : Len(SubSeq(proofs, 1, n - 1)[i].proof) \in Nat
    BY <1>1, <1>2, <2>1
  <2>3. \A i \in DOMAIN Tail(proofs) : Len(Tail(proofs)[i].proof) \in Nat
    BY <1>1, <1>2, <2>1
  <2> QED
    BY <1>5, <1>8, <2>2, <2>3
<1>9. CASE \E c : car = CarOf(root, [proofs EXCEPT ![1].commitment = c,
                                                   ![1].leafHash = HashMerkleLeaf(c)])
  <2>1. PICK c, other : /\ car = CarOf(root, other)
                        /\ other = [proofs EXCEPT ![1].commitment = c,
                                                  ![1].leafHash = HashMerkleLeaf(c)]
    BY <1>9
  <2>2. DOMAIN other = 1..n /\ \A i \in 1..n : other[i].proof = proofs[i].proof
    BY <1>1, <1>2, <2>1 DEF ReceiptProof
  <2> QED
    BY <1>1, <1>2, <1>5, <2>1, <2>2
<1>10. CASE stored # Unset /\ \E p \in Range(ReceiptProofs(stored)) :
                 car = CarOf(root, [proofs EXCEPT ![1] = p])
  <2>1. PICK p \in Range(ReceiptProofs(stored)) : car = CarOf(root, [proofs EXCEPT ![1] = p])
    BY <1>10
  <2>2. Len(p.proof) \in Nat
    BY <1>10, <2>1 DEF StoredInv, ProofsHaveLengths, ReceiptProofs, Range
  <2>3. PICK other : other = [proofs EXCEPT ![1] = p]
    OBVIOUS
  <2>4. \A i \in DOMAIN other : Len(other[i].proof) \in Nat
    BY <1>1, <1>2, <2>2, <2>3
  <2> QED
    BY <1>5, <2>1, <2>3, <2>4
<1> QED
  BY <1>1, <1>2, <1>3, <1>4, <1>6, <1>7, <1>8, <1>9, <1>10 DEF Changed

\* To the registry, anchoring is registering, revoking and appointing writers.
LEMMA AnchorIsRegistry ==
    ASSUME BundleInv, [AnchorNext]_anchorVars
    PROVE  [RegistryNext]_registryVars
<1>1. ASSUME NEW a \in Addresses, NEW b \in BatchIds, RegisterBundle(a, b)
      PROVE  \E c \in Commitments : Register(a, b, c)
  <2>1. PICK s \in Batches :
            /\ ValidBatch(s)
            /\ bundle = [car |-> BuildFilecoinEvidenceBundle(s), receipts |-> Ordered(s)]
    BY <1>1 DEF RegisterBundle, BundleInv
  <2>2. CommitmentOf(BuildFilecoinEvidenceBundle(s)) \in Commitments
    BY <2>1, BatchesAssumption
  <2>3. Register(a, b, CommitmentOf(BuildFilecoinEvidenceBundle(s)))
    BY <1>1, <2>1 DEF RegisterBundle
  <2> QED
    BY <2>2, <2>3
<1>2. (\E s \in Batches : Build(s)) => UNCHANGED registryVars
  BY DEF Build
<1>3. (\E car \in {bundle.car} \union Changed(bundle.car) : Upload(car)) => UNCHANGED registryVars
  BY DEF Upload
<1>4. UNCHANGED anchorVars => UNCHANGED registryVars
  BY DEF anchorVars
<1> QED
  BY <1>1, <1>2, <1>3, <1>4 DEF AnchorNext, RegistryNext

LEMMA SourcesKept ==
    ASSUME SourcesInv, RegistryInv, RegistryInv', UNCHANGED sources,
           NEW b \in BatchIds,
           \/ records'[b] = records[b]
           \/ /\ records[b] # Unset /\ records'[b] # Unset
              /\ records'[b].commitment = records[b].commitment
    PROVE  \/ records'[b] = Unset /\ sources'[b] = <<>>
           \/ \E s \in Batches : Anchored(s, b)'
  BY DEF SourcesInv, Anchored

LEMMA RevokeKeeps ==
    ASSUME RegistryInv, RegistryInv', NEW a, NEW b \in BatchIds, Revoke(a, b), NEW x \in BatchIds
    PROVE  \/ records'[x] = records[x]
           \/ /\ records[x] # Unset /\ records'[x] # Unset
              /\ records'[x].commitment = records[x].commitment
<1>1. CASE x # b
  BY <1>1 DEF Revoke, RegistryInv
<1>2. CASE x = b
  <2>1. records[b] \in AnchorRecords /\ records[b] # Unset
    BY DEF Revoke, RegistryInv
  <2>2. records'[b] = [records[b] EXCEPT !.status = "revoked"]
    BY DEF Revoke, RegistryInv
  <2>3. records'[b] \in AnchorRecords /\ records'[b].commitment = records[b].commitment
    BY <2>1, <2>2 DEF AnchorRecords
  <2>4. records'[b] # Unset
    BY <2>3, RegistryAssumption DEF AnchorRecords
  <2> QED
    BY <1>2, <2>1, <2>3, <2>4
<1> QED
  BY <1>1, <1>2

LEMMA RegisterBundleStep ==
    ASSUME RegistryInv, BundleInv, SourcesInv,
           NEW a \in Addresses, NEW b \in BatchIds, RegisterBundle(a, b)
    PROVE  SourcesInv'
<1>1. PICK s \in Batches :
          /\ ValidBatch(s)
          /\ bundle = [car |-> BuildFilecoinEvidenceBundle(s), receipts |-> Ordered(s)]
  BY DEF RegisterBundle, BundleInv
<1>2. PICK c, record : /\ c = CommitmentOf(BuildFilecoinEvidenceBundle(s))
                       /\ record = [commitment |-> c, issuer |-> a, status |-> "active"]
  OBVIOUS
<1>3. c \in Commitments
  BY <1>1, <1>2, BatchesAssumption
<1>4. record # Unset /\ record.commitment = c
  BY <1>2, <1>3, RegistryAssumption
<1>5. Register(a, b, c)
  BY <1>1, <1>2 DEF RegisterBundle
<1>6. records[b] = Unset /\ records' = [records EXCEPT ![b] = record]
  BY <1>2, <1>5 DEF Register
<1>7. sources[b] = <<>>
  BY <1>6 DEF SourcesInv, Anchored
<1>8. sources' = [sources EXCEPT ![b] = Ordered(s)]
  BY <1>1, <1>7 DEF RegisterBundle, SourcesInv
<1>9. DOMAIN sources' = BatchIds
  BY <1>8 DEF SourcesInv
<1>10. ASSUME NEW x \in BatchIds
       PROVE  \/ records'[x] = Unset /\ sources'[x] = <<>>
              \/ \E t \in Batches : Anchored(t, x)'
  <2>1. CASE x = b
    <3>1. records'[b] = record /\ sources'[b] = Ordered(s)
      BY <1>6, <1>8 DEF RegistryInv, SourcesInv
    <3>2. Anchored(s, b)'
      BY <1>1, <1>2, <1>4, <3>1 DEF Anchored
    <3> QED
      BY <2>1, <3>2
  <2>2. CASE x # b
    <3>1. records'[x] = records[x] /\ sources'[x] = sources[x]
      BY <1>6, <1>8, <2>2 DEF RegistryInv, SourcesInv
    <3> QED
      BY <3>1 DEF SourcesInv, Anchored
  <2> QED
    BY <2>1, <2>2
<1> QED
  BY <1>9, <1>10 DEF SourcesInv

LEMMA AnchorStep == AnchorInv /\ [AnchorNext]_anchorVars => AnchorInv'
<1> SUFFICES ASSUME RegistryInv, BundleInv, StoredInv, SourcesInv, [AnchorNext]_anchorVars
             PROVE  RegistryInv' /\ BundleInv' /\ StoredInv' /\ SourcesInv'
  BY DEF AnchorInv
<1>1. RegistryInv'
  BY AnchorIsRegistry, RegistryStep
<1>2. ASSUME UNCHANGED sources,
             \A b \in BatchIds : \/ records'[b] = records[b]
                                 \/ /\ records[b] # Unset /\ records'[b] # Unset
                                    /\ records'[b].commitment = records[b].commitment
      PROVE  SourcesInv'
  <2>1. DOMAIN sources' = BatchIds
    BY <1>2 DEF SourcesInv
  <2>2. ASSUME NEW b \in BatchIds
        PROVE  \/ records'[b] = Unset /\ sources'[b] = <<>>
               \/ \E s \in Batches : Anchored(s, b)'
    BY <1>1, <1>2, SourcesKept
  <2> QED
    BY <2>1, <2>2 DEF SourcesInv
<1>3. UNCHANGED bundle => BundleInv'
  BY DEF BundleInv
<1>4. UNCHANGED stored => StoredInv'
  BY DEF StoredInv, ProofsHaveLengths
<1>5. UNCHANGED records /\ UNCHANGED sources => SourcesInv'
  BY <1>2
<1>6. CASE UNCHANGED anchorVars
  BY <1>1, <1>3, <1>4, <1>5, <1>6 DEF anchorVars, registryVars
<1>7. ASSUME NEW a \in Addresses, Initialize(a), UNCHANGED <<bundle, stored, sources>>
      PROVE  BundleInv' /\ StoredInv' /\ SourcesInv'
  BY <1>3, <1>4, <1>5, <1>7 DEF Initialize
<1>8. ASSUME NEW a \in Addresses, NEW authorized \in BOOLEAN, SetWriter(a, authorized),
             UNCHANGED <<bundle, stored, sources>>
      PROVE  BundleInv' /\ StoredInv' /\ SourcesInv'
  BY <1>3, <1>4, <1>5, <1>8 DEF SetWriter
<1>9. ASSUME NEW a \in Addresses, NEW b \in BatchIds, Revoke(a, b),
             UNCHANGED <<bundle, stored, sources>>
      PROVE  BundleInv' /\ StoredInv' /\ SourcesInv'
  <2>1. SourcesInv'
    BY <1>1, <1>2, <1>9, RevokeKeeps
  <2> QED
    BY <1>3, <1>4, <1>9, <2>1
<1>10. ASSUME NEW s \in Batches, Build(s) PROVE BundleInv' /\ StoredInv' /\ SourcesInv'
  <2>1. BundleInv'
    BY <1>10 DEF Build, BundleInv
  <2> QED
    BY <1>4, <1>5, <1>10, <2>1 DEF Build, registryVars
<1>11. ASSUME NEW a \in Addresses, NEW b \in BatchIds, RegisterBundle(a, b)
       PROVE  BundleInv' /\ StoredInv' /\ SourcesInv'
  <2>1. SourcesInv'
    BY <1>11, RegisterBundleStep
  <2> QED
    BY <1>3, <1>4, <1>11, <2>1 DEF RegisterBundle
<1>12. ASSUME bundle # Unset, NEW car \in {bundle.car} \union Changed(bundle.car), Upload(car)
       PROVE  BundleInv' /\ StoredInv' /\ SourcesInv'
  <2>1. PICK s \in Batches : ValidBatch(s) /\ bundle.car = BuildFilecoinEvidenceBundle(s)
    BY <1>12 DEF BundleInv
  <2>2. ProofsHaveLengths(car)
    BY <1>12, <2>1, ChangedStep
  <2>3. StoredInv'
    BY <1>12, <2>2 DEF Upload, StoredInv, ProofsHaveLengths
  <2> QED
    BY <1>3, <1>5, <1>12, <2>3 DEF Upload, registryVars
<1> QED
  BY <1>1, <1>6, <1>7, <1>8, <1>9, <1>10, <1>11, <1>12 DEF AnchorNext

LEMMA HeldUnderRoot ==
    ASSUME NEW s, IsReceipts(s), ValidBatch(s), NEW car, ProofsHaveLengths(car),
           VerifyFilecoinEvidenceBundle(car), car.manifest.root = BuildMerkleBatch(s).root
    PROVE  Held(car) \subseteq {r.commitment : r \in Range(s)}
<1>1. PICK listed : listed = car.manifest.receipts
  OBVIOUS
<1>2. ASSUME NEW i \in DOMAIN listed
      PROVE  \E r \in Range(s) : r.commitment = listed[i].cid.commitment
  <2>1. PICK p : p = listed[i].cid
    OBVIOUS
  <2>2. ReceiptProofHolds(car.manifest, listed[i], p)
    BY <1>1, <2>1 DEF VerifyFilecoinEvidenceBundle
  <2>3. VerifyMerkleProof(p.commitment, p.proof, BuildMerkleBatch(s).root)
    BY <2>2 DEF ReceiptProofHolds
  <2>4. Len(p.proof) \in Nat
    BY <1>1, <2>1 DEF ProofsHaveLengths
  <2> QED
    BY <2>1, <2>3, <2>4, MerkleProofsAreSound
<1>3. Held(car) = {listed[i].cid.commitment : i \in DOMAIN listed}
  BY <1>1 DEF Held, ReceiptProofs, Range
<1> QED
  BY <1>2, <1>3

LEMMA HeldByBundle ==
    ASSUME NEW s, IsReceipts(s), ValidBatch(s), NEW car,
           car.manifest = BuildFilecoinEvidenceBundle(s).manifest
    PROVE  Held(car) = {Ordered(s)[i].commitment : i \in 1..Len(Ordered(s))}
<1>1. PICK proofs :
          /\ BuildFilecoinEvidenceBundle(s) = CarOf(BuildMerkleBatch(s).root, proofs)
          /\ Len(proofs) = Len(Ordered(s))
          /\ proofs = [i \in 1..Len(proofs) |-> ReceiptProof(BuildMerkleBatch(s), i)]
          /\ \A i \in 1..Len(proofs) : proofs[i].commitment = Ordered(s)[i].commitment
  BY BundleIs
<1>2. PICK n : n = Len(proofs) /\ DOMAIN proofs = 1..n
  BY <1>1
<1>3. PICK listed : listed = car.manifest.receipts
  OBVIOUS
<1>4. DOMAIN listed = 1..n /\ \A i \in 1..n : listed[i].cid = proofs[i]
  BY <1>1, <1>2, <1>3, CarIs
<1>5. Held(car) = {listed[i].cid.commitment : i \in DOMAIN listed}
  BY <1>3 DEF Held, ReceiptProofs, Range
<1>6. \A i \in 1..n : listed[i].cid.commitment = Ordered(s)[i].commitment
  BY <1>1, <1>2, <1>4
<1>7. n = Len(Ordered(s))
  BY <1>1, <1>2
<1> QED
  BY <1>4, <1>5, <1>6, <1>7

\* A registered batch, as the property reads it.
LEMMA AnchoredIs ==
    ASSUME AnchorInv, NEW b \in BatchIds, sources[b] # <<>>
    PROVE  \E s \in Batches :
              /\ Anchored(s, b) /\ IsReceipts(s) /\ IsReceipts(sources[b]) /\ ValidBatch(sources[b])
              /\ BuildMerkleBatch(sources[b]).root = BuildMerkleBatch(s).root
              /\ Ordered(sources[b]) = sources[b]
<1>1. PICK s \in Batches : Anchored(s, b)
  BY DEF AnchorInv, SourcesInv
<1>2. IsReceipts(s) /\ ValidBatch(s) /\ sources[b] = Ordered(s)
  BY <1>1, BatchIs DEF Anchored
<1>3. IsReceipts(sources[b]) /\ ValidBatch(sources[b]) /\ Ordered(sources[b]) = sources[b]
  BY <1>2, OrderedIs
<1>4. Ordered(sources[b]) = Ordered(s)
  BY <1>2, <1>3
<1>5. BuildMerkleBatch(sources[b]).root = BuildMerkleBatch(s).root
  BY <1>4, RootIs
<1> QED
  BY <1>1, <1>2, <1>3, <1>5

\* A stored bundle that verifies holds, under a registered root, only receipts of the
\* batch registered first; if the registry attests it, exactly those, and the identifier
\* was never revoked; and registered batches with the same root are the same commitments
\* in the same order.
THEOREM AnchoredProofsHoldTheorem == AnchorSpec => []AnchoredProofsHold
<1>1. ASSUME AnchorInv PROVE AnchoredProofsHold
  <2> DEFINE commitments(b) == [i \in DOMAIN sources[b] |-> sources[b][i].commitment]
  <2>1. ASSUME NEW b \in BatchIds, sources[b] # <<>>,
               stored # Unset, VerifyFilecoinEvidenceBundle(stored),
               stored.manifest.root = BuildMerkleBatch(sources[b]).root
        PROVE  Held(stored) \subseteq Range(commitments(b))
    <3>1. IsReceipts(sources[b]) /\ ValidBatch(sources[b])
      BY <1>1, <2>1, AnchoredIs
    <3>2. ProofsHaveLengths(stored)
      BY <1>1, <2>1 DEF AnchorInv, StoredInv
    <3>3. Held(stored) \subseteq {r.commitment : r \in Range(sources[b])}
      BY <2>1, <3>1, <3>2, HeldUnderRoot
    <3>4. {r.commitment : r \in Range(sources[b])} \subseteq Range(commitments(b))
      BY DEF Range
    <3> QED
      BY <3>3, <3>4
  <2>2. ASSUME NEW b \in BatchIds, sources[b] # <<>>, Attests(b, CommitmentOf(stored))
        PROVE  Held(stored) = Range(commitments(b)) /\ b \notin revoked
    <3>1. PICK s \in Batches : Anchored(s, b) /\ IsReceipts(s) /\ IsReceipts(sources[b])
      BY <1>1, <2>2, AnchoredIs
    <3>2. CommitmentOf(stored) = CommitmentOf(BuildFilecoinEvidenceBundle(s))
      BY <2>2, <3>1 DEF Attests, Anchored
    <3>3. stored.manifest = BuildFilecoinEvidenceBundle(s).manifest
      BY <3>2 DEF CommitmentOf
    <3>4. Held(stored) = {sources[b][i].commitment : i \in 1..Len(sources[b])}
      <4>1. ValidBatch(s) /\ sources[b] = Ordered(s)
        BY <3>1 DEF Anchored
      <4>2. Held(stored) = {Ordered(s)[i].commitment : i \in 1..Len(Ordered(s))}
        BY <3>1, <3>3, <4>1, HeldByBundle, Zenon
      <4> QED
        BY <4>1, <4>2, Zenon
    <3>5. DOMAIN sources[b] = 1..Len(sources[b])
      BY <3>1 DEF IsReceipts, IsLevel
    <3>6. Held(stored) = Range(commitments(b))
      BY <3>4, <3>5 DEF Range
    <3>7. b \notin revoked
      BY <1>1, <2>2 DEF Attests, AnchorInv, RegistryInv
    <3> QED
      BY <3>6, <3>7
  <2>3. ASSUME NEW b \in BatchIds, NEW d \in BatchIds, sources[b] # <<>>, sources[d] # <<>>,
               BuildMerkleBatch(sources[d]).root = BuildMerkleBatch(sources[b]).root
        PROVE  commitments(b) = commitments(d)
    <3>1. /\ IsReceipts(sources[b]) /\ ValidBatch(sources[b]) /\ Ordered(sources[b]) = sources[b]
          /\ IsReceipts(sources[d]) /\ ValidBatch(sources[d]) /\ Ordered(sources[d]) = sources[d]
      BY <1>1, <2>3, AnchoredIs
    <3>2. /\ Len(sources[b]) = Len(sources[d])
          /\ \A i \in 1..Len(sources[b]) : sources[b][i].commitment = sources[d][i].commitment
      <4>1. PICK s, t : s = sources[b] /\ t = sources[d]
        OBVIOUS
      <4>2. /\ IsReceipts(s) /\ ValidBatch(s) /\ Ordered(s) = s
            /\ IsReceipts(t) /\ ValidBatch(t) /\ Ordered(t) = t
            /\ BuildMerkleBatch(s).root = BuildMerkleBatch(t).root
        BY <2>3, <3>1, <4>1
      <4>3. /\ Len(Ordered(s)) = Len(Ordered(t))
            /\ \A i \in 1..Len(Ordered(s)) : Ordered(s)[i].commitment = Ordered(t)[i].commitment
        BY <4>2, MerkleRootsAreUnique, Zenon
      <4> QED
        BY <4>1, <4>2, <4>3
    <3>3. DOMAIN sources[b] = 1..Len(sources[b]) /\ DOMAIN sources[d] = 1..Len(sources[d])
      BY <3>1 DEF IsReceipts, IsLevel
    <3> QED
      BY <3>2, <3>3
  <2> QED
    BY <2>1, <2>2, <2>3 DEF AnchoredProofsHold
<1> QED
  BY <1>1, AnchorInitially, AnchorStep, PTL DEF AnchorSpec

\* Anchoring uses the registry as the contract allows: registerBundle registers only
\* commitments, and nothing else the writer or storage does touches the registry.
THEOREM AnchorRefinesRegistryTheorem == AnchorSpec => RegistrySpec
<1>1. AnchorInit => RegistryInit
  BY DEF AnchorInit
<1>2. AnchorInv /\ [AnchorNext]_anchorVars => [RegistryNext]_registryVars
  BY AnchorIsRegistry DEF AnchorInv
<1> QED
  BY <1>1, <1>2, AnchorInitially, AnchorStep, PTL DEF AnchorSpec, RegistrySpec
=============================================================================
