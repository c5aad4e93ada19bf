--------------------------- MODULE RecordedIncident ---------------------------
(***************************************************************************)
(* A recording and the inference run over it: stop_recording_cmd hands the *)
(* path of the WAV file over as captured_audio when finish succeeded, and  *)
(* run_inference_cmd takes it from there.  The audio thread may still be   *)
(* in its callback then.                                                   *)
(***************************************************************************)
EXTENDS Recorder, InferencePipeline

CONSTANT ShortTexts  \* bound: texts that any other is tried next to

ASSUME ShortTextsAssumption == ShortTexts \subseteq Texts

VARIABLES
  hashed,  \* samples in the WAV file that transcribe hashed
  heard    \* samples in the WAV file that the sidecar opened

vars == <<recording, pipeline, hashed, heard>>

Init ==
  /\ RecorderInit
  /\ PipelineInit
  /\ hashed = 0
  /\ heard = 0

\* captured_audio is set by a stop whose finish succeeded.
CapturedAudio == recorder = "finished" /\ summary.ok

Record ==
  /\ RecorderStep
  /\ UNCHANGED <<pipeline, hashed, heard>>

Begin ==
  /\ CapturedAudio
  /\ BeginPipeline
  /\ hashed' = file
  /\ UNCHANGED <<recording, heard>>

\* Bound: one of the two texts is short; long ones are tried in runs that
\* had nothing else to them.
Tried ==
  IF requests = 3 /\ chunks = 0 /\ streamError = "none"
  THEN [content : ShortTexts, reasoning : Texts] \cup
       [content : Texts, reasoning : ShortTexts]
  ELSE [content : ShortTexts, reasoning : ShortTexts]

\* The sidecar opens the file by its path some time before it answers.
Infer ==
  /\ PipelineStep(Tried)
  /\ heard' = IF pass = "transcribe" /\ pass' = "structure" THEN file
              ELSE heard
  /\ UNCHANGED <<recording, hashed>>

Next == Record \/ Begin \/ Infer

\* The tasks of the runtime go on, and every request ends: with an answer,
\* with an error of the connection, or by REQUEST_TIMEOUT.
Spec == Init /\ [][Next]_vars /\ WF_vars(Infer)

-----------------------------------------------------------------------------
TypeOK ==
  /\ RecorderTypeOK
  /\ PipelineTypeOK
  /\ hashed \in Nat /\ heard \in Nat

\* What is hashed and what is transcribed is the recording the user was
\* told of, although the audio thread may write after the stop flag was set
\* and the sidecar opens the file on its own (audio.rs, finish;
\* transcribe.rs, transcribe).
AnalysedIsWhatWasReported ==
  /\ pass # "idle" => hashed = summary.samples
  /\ pass \in {"structure", "images", "verdict", "done"} => heard = hashed

\* A run that began comes to an end, whatever the sidecar answers: the
\* repairs of the structuring pass run out (client.rs, structure_incident).
PipelineEnds == pass \in Passes ~> pass \in {"done", "failed"}
=============================================================================
