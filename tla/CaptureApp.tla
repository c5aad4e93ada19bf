----------------------------- MODULE CaptureApp -----------------------------
(***************************************************************************)
(* The window of the capture application (apps/capture/src/app.svelte and  *)
(* its components) together with the backend it talks to.  A click runs a  *)
(* handler up to its await; the command runs in the backend; its answer    *)
(* runs the rest of the handler.  Between the three, other clicks, other   *)
(* commands and other answers may come, in any order.  What is on screen   *)
(* decides which clicks there are.                                         *)
(*                                                                         *)
(* CaptureSession models the commands step by step on their files.  Here a *)
(* command is one step, two when it is long (its two lock scopes), a       *)
(* recording is a number, and a selection of images is a member of         *)
(* Selections: what the pinned hashes tell apart.                          *)
(***************************************************************************)
EXTENDS Naturals

CONSTANTS
  Calls,       \* slots for handlers waiting for a command
  Selections,  \* non-empty selections of images, told apart by their bytes
  None,        \* null in the window, Option::None in the backend
  NoImages,    \* the empty selection
  MaxTakes,    \* bound: recordings that are stopped successfully
  MaxRuns      \* bound: pipeline runs that succeed

ASSUME AppBounds == MaxTakes \in Nat /\ MaxRuns \in Nat
ASSUME AppValues == /\ NoImages \notin Selections
                    /\ None \notin Nat

VARIABLES
  \* the window
  phase,       \* Phase of app.svelte
  recording,   \* the recording shown, or None
  imagePaths,  \* the selection shown
  summary,     \* the pipeline result shown, or None
  sealed,      \* the bundle shown, or None
  call,        \* the handlers waiting for a command
  \* the backend
  active,      \* a recording is in progress
  captured,    \* recording in captured_audio, or None
  picked,      \* selection in picked_images
  pipeline,    \* result in last_pipeline, or None
  runningInference,
  runningSeal,
  takes,       \* recordings so far
  runs         \* pipeline runs so far

window  == <<phase, recording, imagePaths, summary, sealed>>
backend == <<active, captured, picked, pipeline, runningInference,
             runningSeal, takes, runs>>
vars    == <<window, call, backend>>

Idle == [op |-> "none", at |-> "idle", audio |-> None, images |-> NoImages,
         ok |-> FALSE, result |-> None]

\* A pipeline result, and a bundle, name the run and what went into it.
Result == [run : 1..MaxRuns, audio : 1..MaxTakes,
           images : Selections \cup {NoImages}]

ASSUME ResultAssumption == None \notin Result

Init ==
  /\ phase = "idle"
  /\ recording = None
  /\ imagePaths = NoImages
  /\ summary = None
  /\ sealed = None
  /\ call = [c \in Calls |-> Idle]
  /\ active = FALSE
  /\ captured = None
  /\ picked = NoImages
  /\ pipeline = None
  /\ runningInference = FALSE
  /\ runningSeal = FALSE
  /\ takes = 0
  /\ runs = 0

-----------------------------------------------------------------------------
(* What is on screen, and the handlers up to their await.                  *)

SealedShown  == phase = "sealed" /\ sealed # None
ReviewShown  == phase \in {"reviewed", "sealing"} /\ summary # None
CaptureShown == ~SealedShown /\ ~ReviewShown

Send(c, op) ==
  /\ call[c].at = "idle"
  /\ call' = [call EXCEPT ![c] = [Idle EXCEPT !.op = op, !.at = "sent"]]
  /\ UNCHANGED backend

\* handleRecord: the button stays enabled while a call of it is in flight.
ClickRecord(c) ==
  /\ CaptureShown
  /\ phase # "running"
  /\ Send(c, IF phase = "recording" THEN "stop" ELSE "start")
  /\ UNCHANGED window

ClickPick(c) ==
  /\ CaptureShown
  /\ phase \notin {"recording", "running"}
  /\ Send(c, "pick")
  /\ UNCHANGED window

\* Slip: the button is enabled before a recording was made.
CanRunAnyway == phase \in {"idle", "ready"}

CanRunInference == recording # None /\ phase = "ready"

ClickRun(c) ==
  /\ CaptureShown
  /\ CanRunInference
  /\ Send(c, "infer")
  /\ phase' = "running"
  /\ UNCHANGED <<recording, imagePaths, summary, sealed>>

ClickSeal(c) ==
  /\ ReviewShown
  /\ phase = "reviewed"
  /\ Send(c, "seal")
  /\ phase' = "sealing"
  /\ UNCHANGED <<recording, imagePaths, summary, sealed>>

\* "Start a new capture": the window forgets; no command is sent.
Reset ==
  /\ SealedShown
  /\ phase' = "idle"
  /\ recording' = None
  /\ imagePaths' = NoImages
  /\ summary' = None
  /\ sealed' = None
  /\ UNCHANGED <<call, backend>>

-----------------------------------------------------------------------------
(* The commands.                                                           *)

Is(c, op, at) == call[c].op = op /\ call[c].at = at

\* The call as it is, answered with ok; a refusal carries nothing.
Answer(c, r) == call' = [call EXCEPT ![c] = [r EXCEPT !.at = "answered"]]
Refuse(c)    == Answer(c, call[c])

StartCommand(c) ==
  /\ Is(c, "start", "sent")
  /\ \E ok \in {FALSE, ~active} :
       /\ active' = (active \/ ok)
       /\ Answer(c, [call[c] EXCEPT !.ok = ok])
  /\ UNCHANGED <<window, captured, picked, pipeline, runningInference,
                 runningSeal, takes, runs>>

\* The recording is over even when finish() reports an error.
StopCommand(c) ==
  /\ Is(c, "stop", "sent")
  /\ active' = FALSE
  /\ \/ /\ active
        /\ takes < MaxTakes
        /\ takes' = takes + 1
        /\ captured' = takes + 1
        /\ Answer(c, [call[c] EXCEPT !.ok = TRUE, !.audio = takes + 1])
     \/ /\ Refuse(c)
        /\ UNCHANGED <<captured, takes>>
  /\ UNCHANGED <<window, picked, pipeline, runningInference, runningSeal,
                 runs>>

\* A cancelled dialog is answered with an empty list and changes nothing.
PickCommand(c) ==
  /\ Is(c, "pick", "sent")
  /\ \/ \E s \in Selections :
          /\ picked' = s
          /\ Answer(c, [call[c] EXCEPT !.ok = TRUE, !.images = s])
     \/ /\ Answer(c, [call[c] EXCEPT !.ok = TRUE])
        /\ UNCHANGED picked
     \/ /\ Refuse(c)
        /\ UNCHANGED picked
  /\ UNCHANGED <<window, active, captured, pipeline, runningInference,
                 runningSeal, takes, runs>>

BeginInference(c) ==
  /\ Is(c, "infer", "sent")
  /\ IF ~runningInference /\ captured # None
     THEN /\ runningInference' = TRUE
          /\ call' = [call EXCEPT ![c].at = "working",
                                  ![c].audio = captured,
                                  ![c].images = picked]
     ELSE Refuse(c) /\ UNCHANGED runningInference
  /\ UNCHANGED <<window, active, captured, picked, pipeline, runningSeal,
                 takes, runs>>

\* The pipeline succeeds and its result is committed, or it fails.
FinishPipeline(c) ==
  /\ Is(c, "infer", "working")
  /\ \/ /\ runs < MaxRuns
        /\ runs' = runs + 1
        /\ pipeline' = [run |-> runs + 1, audio |-> call[c].audio,
                        images |-> call[c].images]
        /\ call' = [call EXCEPT ![c].at = "done", ![c].ok = TRUE,
                                ![c].result = pipeline']
     \/ /\ call' = [call EXCEPT ![c].at = "done"]
        /\ UNCHANGED <<pipeline, runs>>
  /\ UNCHANGED <<window, active, captured, picked, runningInference,
                 runningSeal, takes>>

\* Slip: the guard is put up but never taken down.
KeepsGuard(c) ==
  /\ Is(c, "infer", "done")
  /\ Answer(c, call[c])
  /\ UNCHANGED <<window, backend>>

EndInference(c) ==
  /\ Is(c, "infer", "done")
  /\ runningInference' = FALSE
  /\ Answer(c, call[c])
  /\ UNCHANGED <<window, active, captured, picked, pipeline, runningSeal,
                 takes, runs>>

BeginSeal(c) ==
  /\ Is(c, "seal", "sent")
  /\ IF ~runningSeal /\ captured # None /\ pipeline # None
     THEN /\ runningSeal' = TRUE
          /\ call' = [call EXCEPT ![c].at = "working",
                                  ![c].audio = captured,
                                  ![c].images = picked,
                                  ![c].result = pipeline]
     ELSE Refuse(c) /\ UNCHANGED runningSeal
  /\ UNCHANGED <<window, active, captured, picked, pipeline,
                 runningInference, takes, runs>>

\* The assets are the pinned ones.
PinsMatch(c) == /\ call[c].audio = call[c].result.audio
                /\ call[c].images = call[c].result.images

\* Sealed, or refused: for its pins, its signer, its model, its file.
FinishSeal(c) ==
  /\ Is(c, "seal", "working")
  /\ \E ok \in {FALSE, PinsMatch(c)} :
       call' = [call EXCEPT ![c].at = "done", ![c].ok = ok]
  /\ UNCHANGED <<window, backend>>

EndSeal(c) ==
  /\ Is(c, "seal", "done")
  /\ runningSeal' = FALSE
  /\ Answer(c, call[c])
  /\ UNCHANGED <<window, active, captured, picked, pipeline,
                 runningInference, takes, runs>>

Command(c) == \/ StartCommand(c) \/ StopCommand(c) \/ PickCommand(c)
              \/ BeginInference(c) \/ FinishPipeline(c) \/ EndInference(c)
              \/ BeginSeal(c) \/ FinishSeal(c) \/ EndSeal(c)

-----------------------------------------------------------------------------
(* The answers, and the handlers after their await.                        *)

Resume(c, op, ok) ==
  /\ Is(c, op, "answered")
  /\ call[c].ok = ok
  /\ call' = [call EXCEPT ![c] = Idle]
  /\ UNCHANGED backend

Started(c) ==
  /\ Resume(c, "start", TRUE)
  /\ phase' = "recording"
  /\ UNCHANGED <<recording, imagePaths, summary, sealed>>

Stopped(c) ==
  /\ Resume(c, "stop", TRUE)
  /\ recording' = call[c].audio
  /\ phase' = "ready"
  /\ UNCHANGED <<imagePaths, summary, sealed>>

Picked(c) ==
  /\ Resume(c, "pick", TRUE)
  /\ imagePaths' = call[c].images
  /\ UNCHANGED <<phase, recording, summary, sealed>>

\* reportError: the banner, and the phase it was.
Refused(c) ==
  /\ \E op \in {"start", "stop", "pick"} : Resume(c, op, FALSE)
  /\ UNCHANGED window

Inferred(c) ==
  /\ Resume(c, "infer", TRUE)
  /\ summary' = call[c].result
  /\ phase' = "reviewed"
  /\ UNCHANGED <<recording, imagePaths, sealed>>

\* Slip: the error is reported and the phase left as it was.
ReportsOnly(c) ==
  /\ Resume(c, "infer", FALSE)
  /\ UNCHANGED window

InferenceFailed(c) ==
  /\ Resume(c, "infer", FALSE)
  /\ phase' = "ready"
  /\ UNCHANGED <<recording, imagePaths, summary, sealed>>

SealDone(c) ==
  /\ Resume(c, "seal", TRUE)
  /\ sealed' = call[c].result
  /\ phase' = "sealed"
  /\ UNCHANGED <<recording, imagePaths, summary>>

SealFailed(c) ==
  /\ Resume(c, "seal", FALSE)
  /\ phase' = "reviewed"
  /\ UNCHANGED <<recording, imagePaths, summary, sealed>>

Continue(c) == \/ Started(c) \/ Stopped(c) \/ Picked(c) \/ Refused(c)
               \/ Inferred(c) \/ InferenceFailed(c)
               \/ SealDone(c) \/ SealFailed(c)

-----------------------------------------------------------------------------
Click == \/ \E c \in Calls : \/ ClickRecord(c) \/ ClickPick(c)
                             \/ ClickRun(c) \/ ClickSeal(c)
         \/ Reset

Next == Click \/ \E c \in Calls : Command(c) \/ Continue(c)

\* Commands end and their answers arrive; nobody has to click.
Spec == /\ Init /\ [][Next]_vars
        /\ \A c \in Calls : WF_vars(Command(c) \/ Continue(c))

-----------------------------------------------------------------------------
CallType ==
  [op     : {"none", "start", "stop", "pick", "infer", "seal"},
   at     : {"idle", "sent", "working", "done", "answered"},
   audio  : (1..MaxTakes) \cup {None},
   images : Selections \cup {NoImages},
   ok     : BOOLEAN,
   result : Result \cup {None}]

\* The window and the backend hold values of their types, the window is in
\* one of its seven phases, and a guard is up only while a call of its
\* command is in flight.
TypeOK ==
  /\ phase \in {"idle", "recording", "ready", "running", "reviewed",
                "sealing", "sealed"}
  /\ recording \in (1..MaxTakes) \cup {None}
  /\ imagePaths \in Selections \cup {NoImages}
  /\ summary \in Result \cup {None}
  /\ sealed \in Result \cup {None}
  /\ call \in [Calls -> CallType]
  /\ active \in BOOLEAN /\ runningInference \in BOOLEAN
  /\ runningSeal \in BOOLEAN
  /\ captured \in (1..MaxTakes) \cup {None}
  /\ picked \in Selections \cup {NoImages}
  /\ pipeline \in Result \cup {None}
  /\ takes \in 0..MaxTakes /\ runs \in 0..MaxRuns
  /\ runningInference =>
       \E c \in Calls : Is(c, "infer", "working") \/ Is(c, "infer", "done")
  /\ runningSeal =>
       \E c \in Calls : Is(c, "seal", "working") \/ Is(c, "seal", "done")

\* The window never asks for a run without a recording, nor for a seal
\* without a pipeline result: the phases alone, with the answers in any
\* order, keep NoCapturedAudio and "run inference before sealing" from the
\* user (app.svelte; inference_commands.rs and seal_commands.rs).
NothingAskedTooEarly ==
  \A c \in Calls :
    /\ Is(c, "infer", "sent") => captured # None
    /\ Is(c, "seal", "sent") => captured # None /\ pipeline # None

\* The two busy phases, in which every button is disabled, come to an end,
\* whatever else was in flight when they began (app.svelte).
BusyEnds == /\ phase = "running" ~> phase # "running"
            /\ phase = "sealing" ~> phase # "sealing"

-----------------------------------------------------------------------------
(* What the repository says and the code does not do.                      *)

Quiet == \A c \in Calls : call[c].at = "idle"

\* With no command in flight, the images on screen are the ones the next
\* run of inference takes in ("per-capture staging directory", state.rs;
\* "Start a new capture", sealed.svelte).  A cancelled dialog and a reset
\* clear the screen and leave picked_images as it was.
ShownImagesAreUsed == Quiet => imagePaths = picked
=============================================================================
