-------------------------- MODULE MCPublicEvidence --------------------------
(***************************************************************************)
(* Instances of the modules about evidence that others read: receipt       *)
(* chains, their strict verification, anchored bundles and the commit      *)
(* status.  They share nothing but receipt chains, so each behaviour       *)
(* explores one of them, its focus.                                        *)
(***************************************************************************)
EXTENDS StrictVerification, EvidenceAnchor, TrustedStatus, TLC

CONSTANTS files, otherFiles,        \* digests of the verifier
          admin, writer,            \* addresses
          ca, cb, cc, cd,           \* commitment hashes
          p1, p2,                   \* publishers
          old, new                  \* commits of main

VARIABLE focus

vars == <<focus, chainVars, strictVars, anchorVars, statusVars>>

-----------------------------------------------------------------------------
(* Verification *)

MCPolicies ==
    [accepted : {{}, {[verifier |-> files, runtime |-> "runtime"]}},
     withdrawn : {{}, {[verifier |-> files, at |-> 1]}}]

MCReceipt(phase, outcome, previous, occurred) ==
    [id |-> occurred, shared |-> "run", phase |-> phase, outcome |-> outcome, input |-> "input",
     action |-> "action", results |-> {"pass"}, previous |-> previous, occurred |-> occurred]

MCAllowed == MCReceipt("preflight", "allow", NoReceipt, 1)

\* A chain for every status, under a bound verifier.
MCChains == {<<MCAllowed>>, <<MCAllowed, MCReceipt("execution", "rejected", MCAllowed, 2)>>, <<>>}

-----------------------------------------------------------------------------
(* Batches: three and four leaves, the same in another order, the three with the last
   one doubled, and an identifier used twice *)

MCLeaf(id, commitment, occurred) == [id |-> id, commitment |-> commitment, occurred |-> occurred]

MCBatches ==
    LET a == MCLeaf(1, ca, 1)
        b == MCLeaf(2, cb, 0)
        c == MCLeaf(3, cc, 1)
    IN  {<<a, b, c>>, <<c, b, a>>, <<a, b, c, MCLeaf(4, cd, 2)>>,
         <<a, b, c, MCLeaf(4, cc, 2)>>, <<a, b, c, MCLeaf(3, cd, 2)>>}

MCCommitments ==
    {CommitmentOf(BuildFilecoinEvidenceBundle(s)) : s \in {x \in MCBatches : ValidBatch(x)}}

-----------------------------------------------------------------------------

MCInit ==
    /\ focus \in {"chain", "strict", "anchor", "status"}
    /\ corruptions = 0 /\ issued = <<>>
    /\ chain \in IF focus = "strict" THEN MCChains ELSE {<<>>}
    /\ StrictInit /\ AnchorInit /\ StatusInit
    /\ focus # "status" =>
          main = old /\ \A p \in Publishers : publisher[p].state = "success" /\ publisher[p].base = old

MCNext ==
    /\ UNCHANGED focus
    /\ \/ focus = "chain" /\ ChainNext /\ UNCHANGED <<strictVars, anchorVars, statusVars>>
       \/ focus = "strict" /\ StrictNext /\ UNCHANGED <<chainVars, anchorVars, statusVars>>
       \/ focus = "anchor" /\ AnchorNext /\ UNCHANGED <<chainVars, strictVars, statusVars>>
       \/ focus = "status" /\ StatusNext /\ UNCHANGED <<chainVars, strictVars, anchorVars>>

MCSpec == MCInit /\ [][MCNext]_vars

\* Nothing tells two addresses, two identifiers or two publishers apart.
MCSymmetry == Permutations(Addresses) \union Permutations(BatchIds) \union Permutations(Publishers)
=============================================================================
