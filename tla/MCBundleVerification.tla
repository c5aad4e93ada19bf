------------------------ MODULE MCBundleVerification ------------------------
(***************************************************************************)
(* The instance of BundleVerification that TLC checks.                     *)
(***************************************************************************)
EXTENDS BundleVerification, TLC

CONSTANTS m1, m2, w1, w2

\* A row of the registry, and others with its hash or its model.
MCRegistered == {[model |-> m1, hash |-> w1]}

MCKnownLists ==
  LET own == [model |-> m1, hash |-> w1]
      twin == [model |-> m2, hash |-> w1]
      later == [model |-> m1, hash |-> w2]
  IN {<<own>>, <<own, twin>>, <<twin, own>>, <<later>>}

Symmetry == Permutations(Blobs)
=============================================================================
