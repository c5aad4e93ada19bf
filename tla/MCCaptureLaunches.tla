--------------------------- MODULE MCCaptureLaunches ---------------------------
(***************************************************************************)
(* Two instances, one of each kind of sidecar, and a script of each kind   *)
(* run by hand.  The first is set to a model of its own; the others leave  *)
(* it to the defaults of their scripts.  The registry has the rows of the  *)
(* repository's index, each at its own revision, and one of main.          *)
(***************************************************************************)
EXTENDS CaptureLaunches, TLC

CONSTANTS a1, a2, o1, o2, gemmaMlx, gemmaMistral, otherMlx, mistralRevision

MCKind == (a1 :> "mlx") @@ (a2 :> "mistralrs") @@ (o1 :> "mistralrs")
          @@ (o2 :> "mlx")

MCModelEnv == (a1 :> otherMlx) @@ (a2 :> Unset) @@ (o1 :> Unset)
              @@ (o2 :> Unset)

MCDefaultModel == [k \in Kinds |-> IF k = "mlx" THEN gemmaMlx ELSE gemmaMistral]

MCRegistry == {<<gemmaMlx, Pinned>>, <<gemmaMistral, mistralRevision>>,
               <<otherMlx, Main>>}
=============================================================================
