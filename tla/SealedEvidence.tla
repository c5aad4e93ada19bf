--------------------------- MODULE SealedEvidence ---------------------------
(***************************************************************************)
(* What the capture application promises about evidence, without files,    *)
(* commands or a mutex.  Runs of the pipeline are numbered; each takes in  *)
(* one recording and a list of images.  Sealed bundles form a ledger.      *)
(*                                                                         *)
(*   - A bundle holds exactly the inputs of one run that was carried out   *)
(*     and names that run.                                                 *)
(*   - One bundle enters the ledger at a time and none ever leaves it or   *)
(*     is replaced.                                                        *)
(*   - What a run took in is never revised.                                *)
(***************************************************************************)
CONSTANTS
  RunIds,  \* numbers of pipeline runs
  Inputs,  \* what a run can take in
  Paths    \* names a bundle can be filed under

VARIABLES
  done,    \* the runs carried out, each with its inputs: <<run, inputs>>
  ledger   \* the bundles: <<path, run, inputs>>

Init == done = {} /\ ledger = {}

\* A run is carried out once, on some inputs.
CarryOut(n) ==
  /\ \A r \in done : r[1] # n
  /\ \E in \in Inputs : done' = done \cup {<<n, in>>}
  /\ UNCHANGED ledger

\* A bundle of a run is filed under a name not yet taken.
File(p) ==
  /\ \A b \in ledger : b[1] # p
  /\ \E r \in done : ledger' = ledger \cup {<<p, r[1], r[2]>>}
  /\ UNCHANGED done

Next == (\E n \in RunIds : CarryOut(n)) \/ (\E p \in Paths : File(p))

Spec == Init /\ [][Next]_<<done, ledger>>
=============================================================================
