-------------------------- MODULE MCCaptureSession --------------------------
(***************************************************************************)
(* Properties of CaptureSession and the instances TLC checks them on.      *)
(***************************************************************************)
EXTENDS CaptureSessionInvariant, TLC

\* Clock readings, contents, models and invocations are interchangeable.
Symmetry ==
  Permutations(Seconds) \cup Permutations(ImageData) \cup Permutations(Models)
    \cup Permutations(InferCalls) \cup Permutations(SealCalls)

=============================================================================
