--------------------------- MODULE CaptureAppProofs ---------------------------
(***************************************************************************)
(* The window and the backend for any number of handlers in flight, any    *)
(* selections, recordings and runs.                                        *)
(*                                                                         *)
(* What the window shows and what a waiting handler carries was in the     *)
(* backend before, and the backend never gives up its recording or its     *)
(* result (Backed); so what the phases let the user ask for is there.      *)
(* A busy phase is there only while its call is (BusyIsBacked), and a call *)
(* only moves towards its answer.                                          *)
(***************************************************************************)
EXTENDS CaptureApp, TLAPS

\* What a call carries is there: the recording, and the result.
BackedBy(r, audio, result) ==
  /\ r.audio # None => audio # None
  /\ r.op = "infer" /\ r.at \in {"sent", "working"} => audio # None
  /\ r.op = "infer" /\ r.at = "working" => r.audio # None
  /\ r.result # None => result # None
  /\ r.op = "seal" /\ r.at = "sent" => audio # None /\ result # None

CallsBacked == \A c \in Calls : BackedBy(call[c], captured, pipeline)

Backed ==
  /\ recording # None => captured # None
  /\ summary # None => pipeline # None
  /\ pipeline # None => captured # None
  /\ CallsBacked

\* A guard is up only for a call that works under it.
GuardsHeld ==
  /\ runningInference =>
       \E c \in Calls : Is(c, "infer", "working") \/ Is(c, "infer", "done")
  /\ runningSeal =>
       \E c \in Calls : Is(c, "seal", "working") \/ Is(c, "seal", "done")

WindowTyped ==
  /\ phase \in {"idle", "recording", "ready", "running", "reviewed",
                "sealing", "sealed"}
  /\ recording \in (1..MaxTakes) \cup {None}
  /\ imagePaths \in Selections \cup {NoImages}
  /\ summary \in Result \cup {None}
  /\ sealed \in Result \cup {None}

BackendTyped ==
  /\ active \in BOOLEAN /\ runningInference \in BOOLEAN
  /\ runningSeal \in BOOLEAN
  /\ captured \in (1..MaxTakes) \cup {None}
  /\ picked \in Selections \cup {NoImages}
  /\ pipeline \in Result \cup {None}
  /\ takes \in 0..MaxTakes /\ runs \in 0..MaxRuns

CallsTyped == call \in [Calls -> CallType]

Sound == WindowTyped /\ BackendTyped /\ CallsTyped /\ GuardsHeld /\ Backed

\* The parts of the type invariant, put together.
LEMMA TypeParts == Sound => TypeOK
BY DEF Sound, TypeOK, WindowTyped, BackendTyped, CallsTyped, GuardsHeld

\* At the start nothing is shown, held or asked.
LEMMA InitSound == Init => Sound
<1> SUFFICES ASSUME Init PROVE Sound
  OBVIOUS
<1> USE AppBounds, AppValues
<1>1. Idle \in CallType /\ BackedBy(Idle, captured, pipeline)
  BY DEF Idle, CallType, BackedBy
<1>2. WindowTyped /\ BackendTyped
  <2>1. WindowTyped
    BY DEF Init, WindowTyped
  <2>2. active \in BOOLEAN /\ runningInference \in BOOLEAN /\ runningSeal \in BOOLEAN
    BY Zenon DEF Init
  <2>3. /\ captured = None /\ picked = NoImages /\ pipeline = None
        /\ takes = 0 /\ runs = 0
    BY DEF Init
  <2> QED BY <2>1, <2>2, <2>3 DEF BackendTyped
<1>3. GuardsHeld
  BY Zenon DEF Init, GuardsHeld
<1>4. CallsTyped /\ Backed
  BY <1>1 DEF Init, CallsTyped, Backed, CallsBacked
<1> QED BY <1>2, <1>3, <1>4 DEF Sound

-----------------------------------------------------------------------------
\* A handler's call becomes r, and the others stay as they are.
Becomes(c, r) == call' = [call EXCEPT ![c] = r]

\* Working for the command op, past its guard.
Guarded(r, op) == r.op = op /\ r.at \in {"working", "done"}

\* One call changes: the calls keep their types, those that worked under a
\* guard that stays still do, and what the others carry is as it was.
LEMMA OneCallChanges ==
  ASSUME NEW c \in Calls, NEW r, CallsTyped, GuardsHeld, r \in CallType,
         Becomes(c, r)
  PROVE  /\ CallsTyped'
         /\ call'[c] = r
         /\ \A d \in Calls \ {c} : call'[d] = call[d]
         /\ (/\ runningInference' => runningInference \/ Guarded(r, "infer")
             /\ runningSeal' => runningSeal \/ Guarded(r, "seal")
             /\ runningInference' /\ Guarded(call[c], "infer") => Guarded(r, "infer")
             /\ runningSeal' /\ Guarded(call[c], "seal") => Guarded(r, "seal"))
              => GuardsHeld'
<1>1. CallsTyped' /\ call'[c] = r /\ \A d \in Calls \ {c} : call'[d] = call[d]
  BY DEF CallsTyped, Becomes
<1>2. ASSUME NEW op,
             \E d \in Calls : Is(d, op, "working") \/ Is(d, op, "done"),
             Guarded(call[c], op) => Guarded(r, op)
      PROVE  \E d \in Calls : (Is(d, op, "working") \/ Is(d, op, "done"))'
  <2>1. PICK d \in Calls : Is(d, op, "working") \/ Is(d, op, "done")
    BY <1>2
  <2>2. CASE d = c
    BY <1>1, <1>2, <2>1, <2>2 DEF Is, Guarded
  <2>3. CASE d # c
    BY <1>1, <2>1, <2>3 DEF Is
  <2> QED BY <2>2, <2>3
<1>3. ASSUME NEW op, Guarded(r, op)
      PROVE  \E d \in Calls : (Is(d, op, "working") \/ Is(d, op, "done"))'
  BY <1>1, <1>3 DEF Is, Guarded
<1>4. ASSUME /\ runningInference' => runningInference \/ Guarded(r, "infer")
             /\ runningSeal' => runningSeal \/ Guarded(r, "seal")
             /\ runningInference' /\ Guarded(call[c], "infer") => Guarded(r, "infer")
             /\ runningSeal' /\ Guarded(call[c], "seal") => Guarded(r, "seal")
      PROVE  GuardsHeld'
  <2>1. ASSUME runningInference'
        PROVE  \E d \in Calls : (Is(d, "infer", "working") \/ Is(d, "infer", "done"))'
    BY <1>2, <1>3, <1>4, <2>1, Zenon DEF GuardsHeld
  <2>2. ASSUME runningSeal'
        PROVE  \E d \in Calls : (Is(d, "seal", "working") \/ Is(d, "seal", "done"))'
    BY <1>2, <1>3, <1>4, <2>2, Zenon DEF GuardsHeld
  <2> QED BY <2>1, <2>2, Zenon DEF GuardsHeld
<1> QED BY <1>1, <1>4, Zenon

\* One call changes and the backend loses nothing: all calls stay backed.
LEMMA BackedStays ==
  ASSUME NEW c \in Calls, NEW r, CallsBacked, BackedBy(r, captured', pipeline'),
         call'[c] = r, \A d \in Calls \ {c} : call'[d] = call[d],
         captured # None => captured' # None,
         pipeline # None => pipeline' # None
  PROVE  CallsBacked'
BY DEF CallsBacked, BackedBy

-----------------------------------------------------------------------------
(* The clicks.  A call is sent with what the window shows behind it.       *)

LEMMA SendSound ==
  ASSUME Sound, NEW c \in Calls,
         NEW op \in {"start", "stop", "pick", "infer", "seal"}, Send(c, op),
         op = "infer" => recording # None,
         op = "seal" => summary # None
  PROVE  BackendTyped' /\ CallsTyped' /\ GuardsHeld' /\ CallsBacked'
<1> DEFINE r == [Idle EXCEPT !.op = op, !.at = "sent"]
<1>1. r \in CallType
  BY DEF Idle, CallType
<1>2. Becomes(c, r) /\ UNCHANGED backend /\ call[c].at = "idle"
  BY DEF Send, Becomes
<1>3. BackendTyped'
  BY <1>2 DEF backend, Sound, BackendTyped
<1>4. r.at = "sent" /\ r.op = op /\ r.audio = None /\ r.result = None
  BY DEF Idle
<1>5. BackedBy(r, captured', pipeline')
  BY <1>2, <1>4 DEF backend, Sound, Backed, BackedBy
<1> HIDE DEF r
<1>6. UNCHANGED <<runningInference, runningSeal, captured, pipeline>>
  BY <1>2 DEF backend
<1>7. ~Guarded(call[c], "infer") /\ ~Guarded(call[c], "seal")
  BY <1>2 DEF Guarded
<1>8. /\ CallsTyped' /\ GuardsHeld' /\ call'[c] = r
      /\ \A d \in Calls \ {c} : call'[d] = call[d]
  BY <1>1, <1>2, <1>6, <1>7, OneCallChanges, Zenon DEF Sound
<1>9. CallsBacked'
  BY <1>5, <1>6, <1>8, BackedStays DEF Sound, Backed
<1> QED BY <1>3, <1>8, <1>9

LEMMA ClickSound ==
  ASSUME Sound, Click PROVE Sound'
<1>1. ASSUME NEW c \in Calls, ClickRecord(c) \/ ClickPick(c) PROVE Sound'
  <2>1. PICK op \in {"start", "stop", "pick"} : Send(c, op)
    BY <1>1 DEF ClickRecord, ClickPick
  <2>2. UNCHANGED window
    BY <1>1 DEF ClickRecord, ClickPick
  <2>3. /\ BackendTyped' /\ CallsTyped' /\ GuardsHeld' /\ CallsBacked'
    BY <2>1, SendSound
  <2>4. UNCHANGED backend
    BY <2>1 DEF Send
  <2> QED BY <2>2, <2>3, <2>4 DEF Sound, window, backend, WindowTyped, Backed
<1>2. ASSUME NEW c \in Calls, ClickRun(c) PROVE Sound'
  <2>1. Send(c, "infer") /\ recording # None
    BY <1>2 DEF ClickRun, CanRunInference
  <2>2. UNCHANGED <<recording, imagePaths, summary, sealed>> /\ phase' = "running"
    BY <1>2 DEF ClickRun
  <2>3. /\ BackendTyped' /\ CallsTyped' /\ GuardsHeld' /\ CallsBacked'
    BY <2>1, SendSound
  <2>4. UNCHANGED backend
    BY <2>1 DEF Send
  <2> QED BY <2>2, <2>3, <2>4 DEF Sound, backend, WindowTyped, Backed
<1>3. ASSUME NEW c \in Calls, ClickSeal(c) PROVE Sound'
  <2>1. Send(c, "seal") /\ summary # None
    BY <1>3 DEF ClickSeal, ReviewShown
  <2>2. UNCHANGED <<recording, imagePaths, summary, sealed>> /\ phase' = "sealing"
    BY <1>3 DEF ClickSeal
  <2>3. /\ BackendTyped' /\ CallsTyped' /\ GuardsHeld' /\ CallsBacked'
    BY <2>1, SendSound
  <2>4. UNCHANGED backend
    BY <2>1 DEF Send
  <2> QED BY <2>2, <2>3, <2>4 DEF Sound, backend, WindowTyped, Backed
<1>4. ASSUME Reset PROVE Sound'
  <2>1. WindowTyped'
    BY <1>4 DEF Reset, WindowTyped
  <2>2. BackendTyped' /\ CallsTyped' /\ Backed'
    BY <1>4 DEF Reset, backend, Sound, BackendTyped, CallsTyped, Backed, CallsBacked, BackedBy
  <2>3. GuardsHeld'
    BY <1>4, Zenon DEF Reset, backend, Sound, GuardsHeld, Is
  <2> QED BY <2>1, <2>2, <2>3 DEF Sound
<1> QED BY <1>1, <1>2, <1>3, <1>4 DEF Click
-----------------------------------------------------------------------------
(* The commands.  The window is as it was; the backend only gains.         *)

\* The backend has at least what it had, and a result only with a recording.
Gains ==
  /\ captured # None => captured' # None
  /\ pipeline # None => pipeline' # None
  /\ pipeline' # None => captured' # None

\* A command makes one call r; a guard is up after it only if it was, or r
\* is under it, and r does not leave it.
LEMMA CommandStep ==
  ASSUME Sound, NEW c \in Calls, NEW r \in CallType, Becomes(c, r),
         UNCHANGED window, BackendTyped', Gains,
         BackedBy(r, captured', pipeline'),
         runningInference' => runningInference \/ Guarded(r, "infer"),
         runningSeal' => runningSeal \/ Guarded(r, "seal"),
         runningInference' /\ Guarded(call[c], "infer") => Guarded(r, "infer"),
         runningSeal' /\ Guarded(call[c], "seal") => Guarded(r, "seal")
  PROVE  Sound'
<1>1. /\ CallsTyped' /\ GuardsHeld' /\ call'[c] = r
      /\ \A d \in Calls \ {c} : call'[d] = call[d]
  BY OneCallChanges, Zenon DEF Sound
<1>2. CallsBacked'
  BY <1>1, BackedStays DEF Sound, Backed, Gains
<1>3. Backed' /\ WindowTyped'
  BY <1>2 DEF window, Sound, Backed, WindowTyped, Gains
<1> QED BY <1>1, <1>3 DEF Sound

\* The same for a command that answers its call with what e carries.
LEMMA AnswerStep ==
  ASSUME Sound, NEW c \in Calls, NEW e \in CallType, Answer(c, e),
         UNCHANGED window, BackendTyped', Gains,
         e.audio # None => captured' # None,
         e.result # None => pipeline' # None,
         runningInference' => runningInference /\ ~Guarded(call[c], "infer"),
         runningSeal' => runningSeal /\ ~Guarded(call[c], "seal")
  PROVE  Sound'
<1> DEFINE r == [e EXCEPT !.at = "answered"]
<1>1. r \in CallType /\ Becomes(c, r)
  BY DEF CallType, Answer, Becomes
<1>2. r.at = "answered" /\ r.audio = e.audio /\ r.result = e.result
  BY DEF CallType
<1> HIDE DEF r
<1>3. BackedBy(r, captured', pipeline')
  BY <1>2 DEF BackedBy
<1> QED BY <1>1, <1>3, CommandStep

\* A refusal answers a call that stands under no guard with what it carries.
LEMMA RefusalStep ==
  ASSUME Sound, NEW c \in Calls, Refuse(c), UNCHANGED window, BackendTyped',
         Gains, UNCHANGED <<runningInference, runningSeal>>,
         call[c].at = "sent"
  PROVE  Sound'
<1>1. call[c] \in CallType /\ BackedBy(call[c], captured, pipeline)
  BY DEF Sound, CallsTyped, Backed, CallsBacked
<1>2. ~Guarded(call[c], "infer") /\ ~Guarded(call[c], "seal")
  BY DEF Guarded
<1>3. /\ call[c].audio # None => captured' # None
      /\ call[c].result # None => pipeline' # None
  BY <1>1 DEF BackedBy, Gains
<1> QED BY <1>1, <1>2, <1>3, AnswerStep DEF Refuse

LEMMA RecordingCommandSound ==
  ASSUME Sound, NEW c \in Calls,
         StartCommand(c) \/ StopCommand(c) \/ PickCommand(c)
  PROVE  Sound'
<1> USE AppBounds, AppValues
<1>0. /\ call[c] \in CallType /\ BackedBy(call[c], captured, pipeline)
      /\ BackendTyped /\ (pipeline # None => captured # None)
  BY DEF Sound, CallsTyped, Backed, CallsBacked
<1>1. /\ call[c].at = "sent" /\ call[c].op \in {"start", "stop", "pick"}
      /\ UNCHANGED <<window, runningInference, runningSeal, pipeline>>
  BY DEF StartCommand, StopCommand, PickCommand, Is
<1>2. ~Guarded(call[c], "infer") /\ ~Guarded(call[c], "seal")
  BY <1>1 DEF Guarded
<1>3. CASE StartCommand(c)
  <2>1. PICK ok \in {FALSE, ~active} :
          /\ active' = (active \/ ok)
          /\ Answer(c, [call[c] EXCEPT !.ok = ok])
    BY <1>3 DEF StartCommand
  <2>2. active' \in BOOLEAN /\ ok \in BOOLEAN
    BY <2>1, <1>0, Zenon DEF BackendTyped
  <2>3. BackendTyped' /\ Gains
    BY <1>0, <1>1, <1>3, <2>2 DEF StartCommand, BackendTyped, Gains
  <2> DEFINE e == [call[c] EXCEPT !.ok = ok]
  <2>4. e \in CallType /\ e.audio = call[c].audio /\ e.result = call[c].result
    BY <1>0, <2>2 DEF CallType
  <2>5. Answer(c, e)
    BY <2>1
  <2> HIDE DEF e
  <2>6. /\ e.audio # None => captured' # None
        /\ e.result # None => pipeline' # None
    BY <1>0, <2>3, <2>4 DEF BackedBy, Gains
  <2> QED BY <1>1, <1>2, <2>3, <2>4, <2>5, <2>6, AnswerStep
<1>4. CASE StopCommand(c)
  <2>1. active' \in BOOLEAN
    BY <1>4, Zenon DEF StopCommand
  <2>2. BackendTyped' /\ Gains
    BY <1>0, <1>1, <1>4, <2>1 DEF StopCommand, BackendTyped, Gains
  <2>3. CASE Refuse(c)
    BY <1>1, <2>2, <2>3, RefusalStep
  <2>4. CASE /\ takes < MaxTakes /\ captured' = takes + 1
             /\ Answer(c, [call[c] EXCEPT !.ok = TRUE, !.audio = takes + 1])
    <3> DEFINE e == [call[c] EXCEPT !.ok = TRUE, !.audio = takes + 1]
    <3>1. takes + 1 \in 1..MaxTakes /\ captured' # None
      BY <1>0, <2>4 DEF BackendTyped
    <3>2. TRUE \in BOOLEAN /\ takes + 1 \in (1..MaxTakes) \cup {None}
      BY <3>1, Zenon
    <3>3. /\ e \in CallType /\ e.result = call[c].result
          /\ captured' # None
      BY <1>0, <3>1, <3>2 DEF CallType
    <3>4. Answer(c, e)
      BY <2>4
    <3> HIDE DEF e
    <3>5. e.result # None => pipeline' # None
      BY <1>0, <1>1, <3>3 DEF BackedBy
    <3> QED BY <1>1, <1>2, <2>2, <3>3, <3>4, <3>5, AnswerStep
  <2> QED BY <1>4, <2>3, <2>4 DEF StopCommand
<1>5. CASE PickCommand(c)
  <2>1. BackendTyped' /\ Gains
    BY <1>0, <1>1, <1>5 DEF PickCommand, BackendTyped, Gains
  <2>2. CASE Refuse(c)
    BY <1>1, <2>1, <2>2, RefusalStep
  <2>3. ASSUME NEW s \in Selections \cup {call[c].images},
               Answer(c, [call[c] EXCEPT !.ok = TRUE, !.images = s])
        PROVE  Sound'
    <3> DEFINE e == [call[c] EXCEPT !.ok = TRUE, !.images = s]
    <3>1. TRUE \in BOOLEAN
      BY Zenon
    <3>2. e \in CallType /\ e.audio = call[c].audio /\ e.result = call[c].result
      BY <1>0, <3>1 DEF CallType
    <3>3. Answer(c, e)
      BY <2>3
    <3> HIDE DEF e
    <3>4. /\ e.audio # None => captured' # None
          /\ e.result # None => pipeline' # None
      BY <1>0, <2>1, <3>2 DEF BackedBy, Gains
    <3> QED BY <1>1, <1>2, <2>1, <3>2, <3>3, <3>4, AnswerStep
  <2>4. ASSUME Answer(c, [call[c] EXCEPT !.ok = TRUE])
        PROVE  Answer(c, [call[c] EXCEPT !.ok = TRUE, !.images = call[c].images])
    BY <1>0, <2>4 DEF Answer, CallType
  <2> QED BY <1>5, <2>2, <2>3, <2>4 DEF PickCommand
<1> QED BY <1>3, <1>4, <1>5

LEMMA InferenceCommandSound ==
  ASSUME Sound, NEW c \in Calls,
         BeginInference(c) \/ FinishPipeline(c) \/ EndInference(c)
  PROVE  Sound'
<1> USE AppBounds, AppValues
<1>0. /\ call[c] \in CallType /\ BackedBy(call[c], captured, pipeline)
      /\ BackendTyped /\ (pipeline # None => captured # None)
  BY DEF Sound, CallsTyped, Backed, CallsBacked
<1>1. /\ call[c].op = "infer"
      /\ UNCHANGED <<window, active, captured, picked, runningSeal, takes>>
      /\ ~Guarded(call[c], "seal")
  BY DEF BeginInference, FinishPipeline, EndInference, Is, Guarded
<1>2. CASE BeginInference(c)
  <2>1. call[c].at = "sent" /\ UNCHANGED <<pipeline, runs>>
    BY <1>2 DEF BeginInference, Is
  <2>2. runningInference' \in BOOLEAN
    BY <1>0, <1>2, Zenon DEF BeginInference, BackendTyped
  <2>3. BackendTyped' /\ Gains
    BY <1>0, <1>1, <2>1, <2>2 DEF BackendTyped, Gains
  <2>4. CASE Refuse(c) /\ UNCHANGED runningInference
    BY <1>1, <2>1, <2>3, <2>4, RefusalStep
  <2>5. CASE /\ captured # None
             /\ call' = [call EXCEPT ![c].at = "working",
                                     ![c].audio = captured,
                                     ![c].images = picked]
    <3> DEFINE r == [call[c] EXCEPT !.at = "working", !.audio = captured,
                                    !.images = picked]
    <3>1. r \in CallType /\ Becomes(c, r)
      BY <1>0, <2>5 DEF CallType, BackendTyped, Becomes
    <3>2. /\ r.op = "infer" /\ r.at = "working" /\ r.audio = captured
          /\ r.result = call[c].result
      BY <1>0, <1>1 DEF CallType
    <3> HIDE DEF r
    <3>3. BackedBy(r, captured', pipeline')
      BY <1>0, <1>1, <2>1, <2>5, <3>2 DEF BackedBy
    <3>4. Guarded(r, "infer")
      BY <3>2 DEF Guarded
    <3> QED BY <1>1, <2>3, <3>1, <3>3, <3>4, CommandStep
  <2> QED BY <1>2, <2>4, <2>5 DEF BeginInference
<1>3. CASE FinishPipeline(c)
  <2>1. /\ call[c].at = "working" /\ UNCHANGED runningInference
        /\ call[c].audio # None /\ captured # None
    BY <1>0, <1>1, <1>3 DEF FinishPipeline, Is, BackedBy
  <2>2. PICK made \in BOOLEAN :
          /\ made => /\ runs < MaxRuns /\ runs' = runs + 1
                     /\ pipeline' = [run |-> runs + 1, audio |-> call[c].audio,
                                     images |-> call[c].images]
                     /\ call' = [call EXCEPT ![c].at = "done", ![c].ok = TRUE,
                                             ![c].result = pipeline']
          /\ ~made => /\ call' = [call EXCEPT ![c].at = "done"]
                      /\ UNCHANGED <<pipeline, runs>>
    BY <1>3, Zenon DEF FinishPipeline
  <2>3. CASE made
    <3> DEFINE res == [run |-> runs + 1, audio |-> call[c].audio,
                       images |-> call[c].images]
               r == [call[c] EXCEPT !.at = "done", !.ok = TRUE, !.result = res]
    <3>1. res \in Result /\ res # None /\ runs + 1 \in 0..MaxRuns
      BY <1>0, <2>1, <2>2, <2>3, ResultAssumption DEF Result, CallType, BackendTyped
    <3>2. /\ pipeline' = res /\ runs' = runs + 1
          /\ call' = [call EXCEPT ![c].at = "done", ![c].ok = TRUE, ![c].result = res]
      BY <2>2, <2>3
    <3> HIDE DEF res
    <3>3. BackendTyped' /\ Gains
      BY <1>0, <1>1, <2>1, <3>1, <3>2 DEF BackendTyped, Gains
    <3>4. TRUE \in BOOLEAN
      BY Zenon
    <3>5. r \in CallType /\ Becomes(c, r)
      BY <1>0, <3>1, <3>2, <3>4 DEF CallType, Becomes
    <3>6. /\ r.op = "infer" /\ r.at = "done" /\ r.audio = call[c].audio
          /\ r.result = res
      BY <1>0, <1>1 DEF CallType
    <3> HIDE DEF r
    <3>7. BackedBy(r, captured', pipeline') /\ Guarded(r, "infer")
      BY <1>0, <2>1, <3>1, <3>2, <3>3, <3>6 DEF BackedBy, Gains, Guarded
    <3> QED BY <1>1, <2>1, <3>3, <3>5, <3>7, CommandStep
  <2>4. CASE ~made
    <3> DEFINE r == [call[c] EXCEPT !.at = "done"]
    <3>1. r \in CallType /\ Becomes(c, r)
      BY <1>0, <2>2, <2>4 DEF CallType, Becomes
    <3>2. /\ r.op = "infer" /\ r.at = "done" /\ r.audio = call[c].audio
          /\ r.result = call[c].result
      BY <1>0, <1>1 DEF CallType
    <3> HIDE DEF r
    <3>3. BackendTyped' /\ Gains
      BY <1>0, <1>1, <2>1, <2>2, <2>4 DEF BackendTyped, Gains
    <3>4. BackedBy(r, captured', pipeline') /\ Guarded(r, "infer")
      BY <1>0, <3>2, <3>3, <2>1 DEF BackedBy, Gains, Guarded
    <3> QED BY <1>1, <2>1, <3>1, <3>3, <3>4, CommandStep
  <2> QED BY <2>3, <2>4
<1>4. CASE EndInference(c)
  <2>1. ~runningInference' /\ Answer(c, call[c]) /\ UNCHANGED <<pipeline, runs>>
    BY <1>4 DEF EndInference
  <2>2. runningInference' \in BOOLEAN
    BY <1>4, Zenon DEF EndInference
  <2>3. BackendTyped' /\ Gains
    BY <1>0, <1>1, <2>1, <2>2 DEF BackendTyped, Gains
  <2>4. /\ call[c].audio # None => captured' # None
        /\ call[c].result # None => pipeline' # None
    BY <1>0, <2>3 DEF BackedBy, Gains
  <2> QED BY <1>0, <1>1, <2>1, <2>3, <2>4, AnswerStep
<1> QED BY <1>2, <1>3, <1>4

LEMMA SealCommandSound ==
  ASSUME Sound, NEW c \in Calls,
         BeginSeal(c) \/ FinishSeal(c) \/ EndSeal(c)
  PROVE  Sound'
<1> USE AppBounds, AppValues
<1>0. /\ call[c] \in CallType /\ BackedBy(call[c], captured, pipeline)
      /\ BackendTyped /\ (pipeline # None => captured # None)
  BY DEF Sound, CallsTyped, Backed, CallsBacked
<1>1. /\ call[c].op = "seal"
      /\ UNCHANGED <<window, active, captured, picked, pipeline,
                     runningInference, takes, runs>>
      /\ ~Guarded(call[c], "infer")
  BY DEF BeginSeal, FinishSeal, EndSeal, Is, Guarded, backend
<1>2. runningSeal' \in BOOLEAN
  BY <1>0, Zenon DEF BeginSeal, FinishSeal, EndSeal, backend, BackendTyped
<1>3. BackendTyped' /\ Gains
  BY <1>0, <1>1, <1>2 DEF BackendTyped, Gains
<1>4. CASE BeginSeal(c)
  <2>1. call[c].at = "sent"
    BY <1>4 DEF BeginSeal, Is
  <2>2. CASE Refuse(c) /\ UNCHANGED runningSeal
    BY <1>1, <1>3, <2>1, <2>2, RefusalStep
  <2>3. CASE /\ captured # None /\ pipeline # None
             /\ call' = [call EXCEPT ![c].at = "working",
                                     ![c].audio = captured,
                                     ![c].images = picked,
                                     ![c].result = pipeline]
    <3> DEFINE r == [call[c] EXCEPT !.at = "working", !.audio = captured,
                                    !.images = picked, !.result = pipeline]
    <3>1. r \in CallType /\ Becomes(c, r)
      BY <1>0, <2>3 DEF CallType, BackendTyped, Becomes
    <3>2. r.op = "seal" /\ r.at = "working"
      BY <1>0, <1>1 DEF CallType
    <3> HIDE DEF r
    <3>3. BackedBy(r, captured', pipeline') /\ Guarded(r, "seal")
      BY <1>1, <2>3, <3>2 DEF BackedBy, Guarded
    <3> QED BY <1>1, <1>3, <3>1, <3>3, CommandStep
  <2> QED BY <1>4, <2>2, <2>3 DEF BeginSeal
<1>5. CASE FinishSeal(c)
  <2>1. PICK ok \in {FALSE, PinsMatch(c)} :
          call' = [call EXCEPT ![c].at = "done", ![c].ok = ok]
    BY <1>5 DEF FinishSeal
  <2>2. ok \in BOOLEAN
    BY <2>1, Zenon DEF PinsMatch
  <2> DEFINE r == [call[c] EXCEPT !.at = "done", !.ok = ok]
  <2>3. r \in CallType /\ Becomes(c, r)
    BY <1>0, <2>1, <2>2 DEF CallType, Becomes
  <2>4. /\ r.op = "seal" /\ r.at = "done" /\ r.audio = call[c].audio
        /\ r.result = call[c].result
    BY <1>0, <1>1 DEF CallType
  <2>5. UNCHANGED runningSeal
    BY <1>5 DEF FinishSeal, backend
  <2> HIDE DEF r
  <2>6. BackedBy(r, captured', pipeline') /\ Guarded(r, "seal")
    BY <1>0, <1>1, <2>4 DEF BackedBy, Guarded
  <2> QED BY <1>1, <1>3, <2>3, <2>5, <2>6, CommandStep
<1>6. CASE EndSeal(c)
  <2>1. ~runningSeal' /\ Answer(c, call[c])
    BY <1>6 DEF EndSeal
  <2>2. /\ call[c].audio # None => captured' # None
        /\ call[c].result # None => pipeline' # None
    BY <1>0, <1>3 DEF BackedBy, Gains
  <2> QED BY <1>0, <1>1, <1>3, <2>1, <2>2, AnswerStep
<1> QED BY <1>4, <1>5, <1>6

-----------------------------------------------------------------------------
(* The answers.  The window shows what the call carried.                   *)

LEMMA ResumeSound ==
  ASSUME Sound, NEW c \in Calls, NEW op, NEW ok, Resume(c, op, ok)
  PROVE  /\ BackendTyped' /\ CallsTyped' /\ GuardsHeld' /\ CallsBacked'
         /\ UNCHANGED <<captured, pipeline>>
         /\ call[c] \in CallType /\ BackedBy(call[c], captured, pipeline)
<1>1. UNCHANGED backend /\ Becomes(c, Idle) /\ call[c].at = "answered"
  BY DEF Resume, Becomes, Is
<1>2. call[c] \in CallType /\ BackedBy(call[c], captured, pipeline)
  BY DEF Sound, CallsTyped, Backed, CallsBacked
<1>3. Idle \in CallType /\ BackedBy(Idle, captured', pipeline')
  BY DEF Idle, CallType, BackedBy
<1>4. ~Guarded(call[c], "infer") /\ ~Guarded(call[c], "seal")
  BY <1>1 DEF Guarded
<1>5. UNCHANGED <<runningInference, runningSeal, captured, pipeline>>
  BY <1>1 DEF backend
<1>6. /\ CallsTyped' /\ GuardsHeld' /\ call'[c] = Idle
      /\ \A d \in Calls \ {c} : call'[d] = call[d]
  BY <1>1, <1>3, <1>4, <1>5, OneCallChanges, Zenon DEF Sound
<1>7. CallsBacked'
  BY <1>3, <1>5, <1>6, BackedStays DEF Sound, Backed
<1>8. BackendTyped'
  BY <1>1 DEF backend, Sound, BackendTyped
<1> QED BY <1>2, <1>5, <1>6, <1>7, <1>8

LEMMA ContinueSound ==
  ASSUME Sound, NEW c \in Calls, Continue(c) PROVE Sound'
<1>1. PICK op, ok : Resume(c, op, ok)
  BY DEF Continue, Started, Stopped, Picked, Refused, Inferred,
         InferenceFailed, SealDone, SealFailed
<1>2. /\ BackendTyped' /\ CallsTyped' /\ GuardsHeld' /\ CallsBacked'
      /\ UNCHANGED <<captured, pipeline>>
      /\ call[c] \in CallType /\ BackedBy(call[c], captured, pipeline)
  BY <1>1, ResumeSound
<1>3. /\ phase' \in {phase, "recording", "ready", "reviewed", "sealed"}
      /\ recording' \in {recording, call[c].audio}
      /\ imagePaths' \in {imagePaths, call[c].images}
      /\ summary' \in {summary, call[c].result}
      /\ sealed' \in {sealed, call[c].result}
  BY DEF Continue, Started, Stopped, Picked, Refused, Inferred,
         InferenceFailed, SealDone, SealFailed, window
<1>4. /\ call[c].audio \in (1..MaxTakes) \cup {None}
      /\ call[c].images \in Selections \cup {NoImages}
      /\ call[c].result \in Result \cup {None}
  BY <1>2 DEF CallType
<1>5. WindowTyped'
  BY <1>3, <1>4 DEF Sound, WindowTyped
<1>6. Backed'
  BY <1>2, <1>3 DEF Sound, Backed, BackedBy
<1> QED BY <1>2, <1>5, <1>6 DEF Sound

LEMMA StepSound == Sound /\ [Next]_vars => Sound'
<1> SUFFICES ASSUME Sound, [Next]_vars PROVE Sound'
  OBVIOUS
<1>1. CASE Click
  BY <1>1, ClickSound
<1>2. ASSUME NEW c \in Calls, Command(c) PROVE Sound'
  BY <1>2, RecordingCommandSound, InferenceCommandSound, SealCommandSound
     DEF Command
<1>3. ASSUME NEW c \in Calls, Continue(c) PROVE Sound'
  BY <1>3, ContinueSound
<1>4. CASE UNCHANGED vars
  <2>1. WindowTyped' /\ BackendTyped' /\ CallsTyped' /\ Backed'
    BY <1>4 DEF vars, window, backend, Sound, WindowTyped, BackendTyped,
                CallsTyped, Backed, CallsBacked
  <2>2. GuardsHeld'
    BY <1>4, Zenon DEF vars, window, backend, Sound, GuardsHeld, Is
  <2> QED BY <2>1, <2>2 DEF Sound
<1> QED BY <1>1, <1>2, <1>3, <1>4 DEF Next

LEMMA AlwaysSound == Spec => []Sound
BY InitSound, StepSound, PTL DEF Spec

-----------------------------------------------------------------------------
\* The window and the backend hold values of their types, and a guard is up
\* only while a call of its command works under it (inference_commands.rs,
\* seal_commands.rs: the guards come down on every path).
THEOREM AppTyped == Spec => []TypeOK
BY AlwaysSound, TypeParts, PTL

\* The phases never let the user ask for a run without a recording or for a
\* seal without a result, with any number of handlers in flight and their
\* answers in any order (app.svelte).
THEOREM NothingEarly == Spec => []NothingAskedTooEarly
<1>1. Sound => NothingAskedTooEarly
  BY DEF Sound, Backed, CallsBacked, BackedBy, NothingAskedTooEarly, Is
<1> QED BY <1>1, AlwaysSound, PTL

-----------------------------------------------------------------------------
(* The end of the busy phases.  A call only moves towards its answer, and  *)
(* a busy phase is there only while a call that will end it is in flight.  *)

Stages == [idle |-> 0, answered |-> 1, done |-> 2, working |-> 3, sent |-> 4]

StagesLeft(r) == Stages[r.at]

CallInFlight(op) == \E c \in Calls : call[c].op = op /\ call[c].at # "idle"

BusyIsBacked ==
  /\ phase = "running" => CallInFlight("infer")
  /\ phase = "sealing" => CallInFlight("seal")

\* A step leaves a call alone, sends it, or takes it closer to its answer;
\* and the end of a call is the end of its busy phase.
CallsOnlyAdvance ==
  \A c \in Calls :
    \/ call'[c] = call[c]
    \/ call[c].at = "idle"
    \/ /\ StagesLeft(call[c]) \in 1..4
       /\ StagesLeft(call'[c]) \in 0..StagesLeft(call[c]) - 1
       /\ call'[c].at = "idle" => /\ call[c].op = "infer" => phase' # "running"
                                  /\ call[c].op = "seal" => phase' # "sealing"

\* A command moves its call on and leaves the window alone.
LEMMA CommandAdvances ==
  ASSUME CallsTyped, NEW c \in Calls, Command(c)
  PROVE  /\ UNCHANGED window
         /\ call'[c].op = call[c].op
         /\ <<call[c].at, call'[c].at>> \in
              {<<"sent", "working">>, <<"sent", "answered">>,
               <<"working", "done">>, <<"done", "answered">>}
         /\ \A d \in Calls \ {c} : call'[d] = call[d]
<1> USE DEF CallsTyped, Is
<1>1. call[c] \in CallType
  OBVIOUS
<1>2. ASSUME NEW e, e.op = call[c].op, DOMAIN e = DOMAIN call[c], Answer(c, e)
      PROVE  /\ call'[c].op = call[c].op
             /\ call'[c].at = "answered"
             /\ \A d \in Calls \ {c} : call'[d] = call[d]
  <2>1. call' = [call EXCEPT ![c] = [e EXCEPT !.at = "answered"]]
    BY <1>2 DEF Answer
  <2>2. {"at", "op"} \subseteq DOMAIN e
    BY <1>1, <1>2 DEF CallType
  <2>3. call'[c] = [e EXCEPT !.at = "answered"]
    BY <2>1
  <2> QED BY <1>2, <2>1, <2>2, <2>3
<1>3. CASE StartCommand(c)
  <2>1. PICK ok : Answer(c, [call[c] EXCEPT !.ok = ok])
    BY <1>3, Zenon DEF StartCommand
  <2>2. call[c].at = "sent" /\ UNCHANGED window
    BY <1>3 DEF StartCommand
  <2> QED BY <1>1, <1>2, <2>1, <2>2 DEF CallType
<1>4. CASE StopCommand(c)
  <2>1. \/ Answer(c, [call[c] EXCEPT !.ok = TRUE, !.audio = takes + 1])
        \/ Answer(c, call[c])
    BY <1>4 DEF StopCommand, Refuse
  <2>2. call[c].at = "sent" /\ UNCHANGED window
    BY <1>4 DEF StopCommand
  <2> QED BY <1>1, <1>2, <2>1, <2>2 DEF CallType
<1>5. CASE PickCommand(c)
  <2>1. \/ \E s : Answer(c, [call[c] EXCEPT !.ok = TRUE, !.images = s])
        \/ Answer(c, [call[c] EXCEPT !.ok = TRUE])
        \/ Answer(c, call[c])
    BY <1>5, Zenon DEF PickCommand, Refuse
  <2>2. call[c].at = "sent" /\ UNCHANGED window
    BY <1>5 DEF PickCommand
  <2> QED BY <1>1, <1>2, <2>1, <2>2 DEF CallType
<1>6. CASE BeginInference(c) \/ BeginSeal(c)
  <2>1. call[c].at = "sent" /\ UNCHANGED window
    BY <1>6 DEF BeginInference, BeginSeal
  <2>2. CASE Answer(c, call[c])
    BY <1>2, <2>1, <2>2
  <2>3. ASSUME BeginInference(c), ~Answer(c, call[c])
        PROVE  call' = [call EXCEPT ![c].at = "working", ![c].audio = captured,
                                    ![c].images = picked]
    BY <2>3 DEF BeginInference, Refuse
  <2>4. ASSUME BeginSeal(c), ~Answer(c, call[c])
        PROVE  call' = [call EXCEPT ![c].at = "working", ![c].audio = captured,
                                    ![c].images = picked,
                                    ![c].result = pipeline]
    BY <2>4 DEF BeginSeal, Refuse
  <2>5. CASE ~Answer(c, call[c])
    <3>1. /\ call'[c].op = call[c].op /\ call'[c].at = "working"
          /\ \A d \in Calls \ {c} : call'[d] = call[d]
      BY <1>1, <1>6, <2>3, <2>4, <2>5 DEF CallType
    <3> QED BY <2>1, <3>1
  <2> QED BY <2>2, <2>5
<1>7. CASE FinishPipeline(c) \/ FinishSeal(c)
  <2>1. call[c].at = "working" /\ UNCHANGED window
    BY <1>7 DEF FinishPipeline, FinishSeal
  <2>2. ASSUME FinishPipeline(c)
        PROVE  \/ call' = [call EXCEPT ![c].at = "done", ![c].ok = TRUE,
                                       ![c].result = pipeline']
               \/ call' = [call EXCEPT ![c].at = "done"]
    BY <2>2 DEF FinishPipeline
  <2>3. ASSUME FinishSeal(c)
        PROVE  \E ok : call' = [call EXCEPT ![c].at = "done", ![c].ok = ok]
    BY <2>3, Zenon DEF FinishSeal
  <2>4. /\ call'[c].op = call[c].op /\ call'[c].at = "done"
        /\ \A d \in Calls \ {c} : call'[d] = call[d]
    BY <1>1, <1>7, <2>2, <2>3 DEF CallType
  <2> QED BY <2>1, <2>4
<1>8. CASE EndInference(c) \/ EndSeal(c)
  <2>1. call[c].at = "done" /\ UNCHANGED window /\ Answer(c, call[c])
    BY <1>8 DEF EndInference, EndSeal, window
  <2> QED BY <1>2, <2>1
<1> QED BY <1>3, <1>4, <1>5, <1>6, <1>7, <1>8 DEF Command

\* The rest of a handler ends its call, and with it the phase its click
\* began; no answer begins one.
LEMMA AnswerEndsBusy ==
  ASSUME CallsTyped, NEW c \in Calls, Continue(c)
  PROVE  /\ call[c].at = "answered" /\ call'[c].at = "idle"
         /\ \A d \in Calls \ {c} : call'[d] = call[d]
         /\ phase' \in {phase, "recording", "ready", "reviewed", "sealed"}
         /\ call[c].op = "infer" => phase' # "running"
         /\ call[c].op = "seal" => phase' # "sealing"
<1>1. PICK op, ok : Resume(c, op, ok)
  BY DEF Continue, Started, Stopped, Picked, Refused, Inferred,
         InferenceFailed, SealDone, SealFailed
<1>2. call[c].at = "answered" /\ call' = [call EXCEPT ![c] = Idle]
  BY <1>1 DEF Resume, Is
<1>3. call'[c].at = "idle" /\ \A d \in Calls \ {c} : call'[d] = call[d]
  BY <1>2 DEF CallsTyped, Idle
<1>4. phase' \in {phase, "recording", "ready", "reviewed", "sealed"}
  BY DEF Continue, Started, Stopped, Picked, Refused, Inferred,
         InferenceFailed, SealDone, SealFailed, window
<1>5. /\ call[c].op = "infer" => phase' # "running"
      /\ call[c].op = "seal" => phase' # "sealing"
  BY DEF Continue, Started, Stopped, Picked, Refused, Inferred,
         InferenceFailed, SealDone, SealFailed, Resume, Is, window
<1> QED BY <1>2, <1>3, <1>4, <1>5

\* A click sends one call, and begins a busy phase only with the call for it.
LEMMA ClickSends ==
  ASSUME CallsTyped, Click
  PROVE  /\ \A d \in Calls : call'[d] = call[d] \/ call[d].at = "idle"
         /\ phase' = "running" => phase = "running" \/ CallInFlight("infer")'
         /\ phase' = "sealing" => phase = "sealing" \/ CallInFlight("seal")'
<1>1. ASSUME NEW c \in Calls, NEW op, Send(c, op)
      PROVE  /\ \A d \in Calls : call'[d] = call[d] \/ call[d].at = "idle"
             /\ CallInFlight(op)'
  <2>1. call'[c].op = op /\ call'[c].at = "sent"
    BY <1>1 DEF Send, CallsTyped, Idle
  <2>2. \A d \in Calls : call'[d] = call[d] \/ call[d].at = "idle"
    BY <1>1 DEF Send, CallsTyped
  <2> QED BY <2>1, <2>2 DEF CallInFlight
<1>2. ASSUME NEW c \in Calls, ClickRecord(c) \/ ClickPick(c)
      PROVE  phase' = phase /\ \E op : Send(c, op)
  BY <1>2 DEF ClickRecord, ClickPick, window
<1>3. ASSUME NEW c \in Calls, ClickRun(c)
      PROVE  phase' = "running" /\ Send(c, "infer")
  BY <1>3 DEF ClickRun
<1>4. ASSUME NEW c \in Calls, ClickSeal(c)
      PROVE  phase' = "sealing" /\ Send(c, "seal")
  BY <1>4 DEF ClickSeal
<1>5. CASE Reset
  BY <1>5 DEF Reset
<1> QED BY <1>1, <1>2, <1>3, <1>4, <1>5 DEF Click

\* A call that stays in flight backs a phase as long as the phase lasts.
LEMMA StepBacked ==
  CallsTyped /\ BusyIsBacked /\ [Next]_vars => BusyIsBacked'
<1> SUFFICES ASSUME CallsTyped, BusyIsBacked, [Next]_vars PROVE BusyIsBacked'
  OBVIOUS
<1>1. CASE Click
  <2>1. ASSUME NEW op, CallInFlight(op) PROVE CallInFlight(op)'
    BY <1>1, <2>1, ClickSends DEF CallInFlight
  <2> QED BY <1>1, <2>1, ClickSends DEF BusyIsBacked
<1>2. ASSUME NEW c \in Calls, Command(c) PROVE BusyIsBacked'
  <2>1. /\ call'[c].op = call[c].op /\ call'[c].at # "idle"
        /\ \A d \in Calls \ {c} : call'[d] = call[d]
        /\ phase' = phase
    BY <1>2, CommandAdvances DEF window
  <2>2. ASSUME NEW op, CallInFlight(op) PROVE CallInFlight(op)'
    BY <2>1, <2>2 DEF CallInFlight
  <2> QED BY <2>1, <2>2 DEF BusyIsBacked
<1>3. ASSUME NEW c \in Calls, Continue(c) PROVE BusyIsBacked'
  <2>1. ASSUME NEW op, CallInFlight(op), call[c].op # op PROVE CallInFlight(op)'
    BY <1>3, <2>1, AnswerEndsBusy DEF CallInFlight
  <2> QED BY <1>3, <2>1, AnswerEndsBusy DEF BusyIsBacked
<1>4. CASE UNCHANGED vars
  BY <1>4 DEF vars, window, BusyIsBacked, CallInFlight
<1> QED BY <1>1, <1>2, <1>3, <1>4 DEF Next

\* The window is never busy without the call whose answer ends it: with any
\* number of handlers in flight, a phase in which every control is disabled
\* was not left behind by an answer to another one (app.svelte).
THEOREM BusyBacked == Spec => []BusyIsBacked
<1>1. Init => BusyIsBacked
  BY DEF Init, BusyIsBacked
<1>2. Sound /\ BusyIsBacked /\ [Next]_vars => BusyIsBacked'
  BY StepBacked DEF Sound
<1> QED BY <1>1, <1>2, AlwaysSound, PTL DEF Spec

\* No step sets a call back: four at most bring it to its answer and back to
\* the window, which is not busy with it then.  With commands that end and
\* answers that arrive, which the fairness of Spec says, and with BusyBacked,
\* BusyEnds follows (app.svelte).
THEOREM CallsAdvance == Spec => [][CallsOnlyAdvance]_vars
<1>1. Sound /\ [Next]_vars => [CallsOnlyAdvance]_vars
  <2> SUFFICES ASSUME CallsTyped, Next PROVE CallsOnlyAdvance
    BY DEF Sound
  <2> USE DEF StagesLeft, Stages
  <2>1. CASE Click
    BY <2>1, ClickSends DEF CallsOnlyAdvance
  <2>2. ASSUME NEW c \in Calls, Command(c) PROVE CallsOnlyAdvance
    BY <2>2, CommandAdvances DEF CallsOnlyAdvance
  <2>3. ASSUME NEW c \in Calls, Continue(c) PROVE CallsOnlyAdvance
    BY <2>3, AnswerEndsBusy DEF CallsOnlyAdvance
  <2> QED BY <2>1, <2>2, <2>3 DEF Next
<1> QED BY <1>1, AlwaysSound, PTL DEF Spec
=============================================================================
