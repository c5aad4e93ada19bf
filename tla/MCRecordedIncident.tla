-------------------------- MODULE MCRecordedIncident --------------------------
(***************************************************************************)
(* The texts that TLC tries: all of up to five bytes, and those of six and *)
(* seven that begin and end with a brace, next to nothing, to idle talk    *)
(* and to an object.                                                       *)
(***************************************************************************)
EXTENDS RecordedIncident

TextsOf(n) == [1..n -> Bytes]

MCTexts ==
  TextsOf(0) \cup TextsOf(1) \cup TextsOf(2) \cup TextsOf(3) \cup
  TextsOf(4) \cup TextsOf(5) \cup
  {t \in TextsOf(6) \cup TextsOf(7) : t[1] = "open" /\ t[Len(t)] = "close"}

MCShortTexts == {<<>>, <<"other">>, <<"open", "close">>}
=============================================================================
