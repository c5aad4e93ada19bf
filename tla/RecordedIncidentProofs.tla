------------------------ MODULE RecordedIncidentProofs ------------------------
(***************************************************************************)
(* What the recorder and the inference client promise, for every rate,     *)
(* cap, number of callbacks, retries and images.                           *)
(*                                                                         *)
(* The recorder's argument: what is counted is what is in the file         *)
(* (Written), and a writer that was taken is never written through again,  *)
(* so a summary stays true of its file.  The client's argument: the        *)
(* requests posted are a function of the pass, the attempts and the images *)
(* (Accounts), and inside the structuring pass the two variables that a    *)
(* repair prompt is made of are both about the latest attempts (Repairs).  *)
(*                                                                         *)
(* The scan's argument: it crosses a string and an object with the depth   *)
(* it had before (StringScanned, ObjectScanned), by induction on their     *)
(* length, so what it locates is the next object of any reading.           *)
(***************************************************************************)
EXTENDS RecordedIncident, FiniteSetTheorems, TLAPS

\* The recorder: the count follows the file, and after finish both rest.
Written ==
  /\ written = file
  /\ file <= MaxSamples
  /\ recorder = "idle" => writer = "none" /\ file = 0 /\ frames = 0
  /\ Locked \/ recorder = "finished" => writer = "finalized"
  /\ recorder = "checked" => streamError \in {"none", "checked"}
  /\ summary.ok => /\ recorder = "finished"
                   /\ summary.samples = file
                   /\ streamError \in {"none", "checked"}

\* Callbacks whose samples are written or dropped.
Settled == IF callback > 0 THEN chunks - 1 ELSE chunks

Drift ==
  /\ callback > 0 => chunks > 0
  /\ ~lost /\ written < MaxSamples =>
       /\ 2 * (file * SourceRate) <= 2 * (frames * TargetRate) + Settled * SourceRate
       /\ 2 * (frames * TargetRate) <= 2 * (file * SourceRate) + Settled * SourceRate

\* The run is over the file of a finished recording.
Analysed ==
  /\ pass # "idle" => summary.ok /\ hashed = file
  /\ pass \in {"structure", "images", "verdict", "done"} => heard = hashed

Out == IF posted THEN 1 ELSE 0

Accounts ==
  /\ images + described <= MaxImages
  /\ posted => pass \in Passes
  /\ posted /\ pass = "images" => images > 0
  /\ pass \in {"idle", "transcribe"} => attempt = 0 /\ described = 0
  /\ pass = "idle" => requests = 0
  /\ pass = "transcribe" => requests = Out
  /\ pass = "structure" => requests = 1 + attempt + Out /\ described = 0
  /\ pass \in {"images", "verdict"} => requests = 2 + attempt + described + Out
  /\ pass = "done" => requests = 3 + attempt + described
  /\ attempt > MaxRetries => pass = "failed" /\ requests = MaxRetries + 2

Repairs ==
  /\ pass \in {"idle", "transcribe", "structure"} =>
       /\ lastRaw = toolCall
       /\ lastError = attempt
       /\ lastRaw <= lastError
  /\ prompt.error >= prompt.raw
  /\ posted /\ prompt # NoPrompt => /\ pass = "structure"
                                    /\ prompt.raw = toolCall
                                    /\ prompt.error = attempt

\* The steps a run has before it at most: two for each request and answer,
\* one between the images and the verdict.
StepsLeft ==
  LET verdict == 2
      drained == verdict + 1 + 2 * images
  IN CASE pass = "transcribe" -> drained + 2 * (MaxRetries + 1 - attempt) + 2 - Out
       [] pass = "structure"  -> drained + 2 * (MaxRetries + 1 - attempt) - Out
       [] pass = "images"     -> drained - Out
       [] pass = "verdict"    -> verdict - Out
       [] OTHER               -> 0

\* Where the verdict of an answer is.
Verdict(a) ==
  LET found == VerdictSpan(a.content, a.reasoning)
  IN IF found.span = NoObject THEN Nowhere ELSE found

\* An answer is looked through once, when it comes, and the run is over.
Answered ==
  /\ answer.content \in Seq(Bytes) /\ answer.reasoning \in Seq(Bytes)
  /\ pass \notin {"done", "failed"} => answer = NoAnswer /\ located = Nowhere
  /\ answer # NoAnswer => located = Verdict(answer)

Sound ==
  TypeOK /\ Written /\ Drift /\ Analysed /\ Accounts /\ Repairs /\ Answered

-----------------------------------------------------------------------------
(* The recorder.                                                           *)

\* A chunk of n frames becomes a whole number of samples, within half a
\* sample of its length at the new rate (audio.rs, resample_linear).
LEMMA ResampledWithinHalf ==
  ASSUME NEW n \in Nat
  PROVE  /\ Resampled(n) \in Nat
         /\ 2 * (Resampled(n) * SourceRate) <= 2 * (n * TargetRate) + SourceRate
         /\ 2 * (n * TargetRate) <= 2 * (Resampled(n) * SourceRate) + SourceRate
<1> DEFINE a == 2 * n * TargetRate + SourceRate
           b == 2 * SourceRate
           q == a \div b
<1>1. a \in Nat /\ b \in Nat /\ b > 0
  BY RatesAssumption
<1> HIDE DEF a, b
<1>2. q \in Nat /\ b * q <= a /\ a < b * q + b
  BY <1>1
<1>3. Resampled(n) = q
  BY DEF Resampled, a, b
<1> HIDE DEF q
<1>4. b * q = 2 * (q * SourceRate)
  BY <1>2, RatesAssumption DEF b
<1>5. a = 2 * (n * TargetRate) + SourceRate /\ n * TargetRate \in Nat /\ q * SourceRate \in Nat
  BY <1>2, RatesAssumption DEF a
<1> QED BY <1>1, <1>2, <1>3, <1>4, <1>5, RatesAssumption DEF b

\* Each step of the recorder keeps the count in step with the file, and the
\* file of a finished recording as it is.
LEMMA RecorderSound ==
  ASSUME RecorderTypeOK, Written, RecorderStep
  PROVE  RecorderTypeOK' /\ Written' /\ (summary.ok => summary' = summary /\ file' = file)
<1> USE SamplesAssumption, ChunksAssumption DEF RecorderTypeOK, Written, Locked
<1>1. CASE StartRecording
  BY <1>1 DEF StartRecording
<1>2. ASSUME NEW n \in Chunks, CallbackBegins(n)
      PROVE  RecorderTypeOK' /\ Written' /\ (summary.ok => summary' = summary /\ file' = file)
  BY <1>2 DEF CallbackBegins, StreamRuns
<1>3. CASE CallbackWrites
  <2>1. CASE writer # "open"
    BY <1>3, <2>1 DEF CallbackWrites
  <2>2. CASE writer = "open"
    <3> DEFINE k == UpToCap(Resampled(callback))
    <3>1. callback \in Nat /\ Resampled(callback) \in Nat
      BY ResampledWithinHalf
    <3>2. k \in Nat /\ written + k <= MaxSamples
      BY <3>1 DEF UpToCap
    <3>3. recorder \notin {"idle", "finished"} => ~summary.ok
      OBVIOUS
    <3>4. recorder # "idle" /\ recorder # "finished"
      BY <2>2
    <3> HIDE DEF k
    <3>5. \/ /\ written' = written + k /\ file' = file + k
             /\ frames' = frames + callback /\ stopFlag' \in BOOLEAN /\ lost' = lost
          \/ \E j \in 0..k : /\ written' = written + j /\ file' = file + j
                            /\ frames' = frames /\ stopFlag' = stopFlag /\ lost' = TRUE
      BY <1>3, <2>2 DEF CallbackWrites, k
    <3>6. /\ callback' = 0
          /\ UNCHANGED <<recorder, writer, streamError, summary, chunks>>
      BY <1>3 DEF CallbackWrites
    <3>7. CASE /\ written' = written + k /\ file' = file + k
               /\ frames' = frames + callback /\ stopFlag' \in BOOLEAN /\ lost' = lost
      BY <3>1, <3>2, <3>3, <3>4, <3>6, <3>7
    <3>8. ASSUME NEW j \in 0..k, written' = written + j, file' = file + j,
                 frames' = frames, stopFlag' = stopFlag, lost' = TRUE
          PROVE  RecorderTypeOK' /\ Written' /\ (summary.ok => summary' = summary /\ file' = file)
      BY <3>2, <3>3, <3>4, <3>6, <3>8
    <3>9. CASE \E j \in 0..k :
                 /\ written' = written + j /\ file' = file + j
                 /\ frames' = frames /\ stopFlag' = stopFlag /\ lost' = TRUE
      BY <3>8, <3>9, Zenon
    <3> QED BY <3>5, <3>7, <3>9
  <2> QED BY <2>1, <2>2
<1>4. CASE StreamFails
  BY <1>4 DEF StreamFails, StreamRuns
<1>5. CASE FinishBegins
  BY <1>5 DEF FinishBegins
<1>6. CASE FinishTakesWriter
  BY <1>6 DEF FinishTakesWriter
<1>7. CASE FinishChecks
  BY <1>7 DEF FinishChecks
<1>8. CASE FinishReturns
  <2>1. /\ recorder = "checked" /\ recorder' = "finished" /\ ~summary.ok
        /\ summary' = [ok |-> TRUE, samples |-> written]
        /\ UNCHANGED <<stopFlag, callback, written, writer, file, streamError,
                       chunks, frames, lost>>
    BY <1>8 DEF FinishReturns
  <2>2. summary'.ok = TRUE /\ summary'.samples = file /\ summary' \in [ok : BOOLEAN, samples : Nat]
    BY <2>1
  <2> QED BY <2>1, <2>2
<1> QED BY <1>1, <1>2, <1>3, <1>4, <1>5, <1>6, <1>7, <1>8 DEF RecorderStep

\* A product with a successor, for the provers.
LEMMA OneMore ==
  ASSUME NEW a \in Nat, NEW b \in Nat, NEW c \in Nat
  PROVE  (a + b) * c = a * c + b * c /\ (a + 1) * c = a * c + c
OBVIOUS

\* One more chunk adds at most half a sample to the drift.
LEMMA DriftSound ==
  ASSUME RecorderTypeOK, Written, Drift, RecorderStep
  PROVE  Drift'
<1> USE SamplesAssumption, ChunksAssumption, RatesAssumption DEF RecorderTypeOK
<1>1. ASSUME NEW n \in Chunks, CallbackBegins(n)
      PROVE  Drift'
  <2>1. CASE stopFlag
    <3>1. chunks' = chunks + 1 /\ callback = 0 /\ callback' = 0
      BY <1>1, <2>1 DEF CallbackBegins
    <3>2. Settled' = chunks + 1 /\ Settled = chunks
      BY <3>1 DEF Settled
    <3>3. (chunks + 1) * SourceRate = chunks * SourceRate + SourceRate
      BY OneMore
    <3>4. UNCHANGED <<file, frames, lost, written>>
      BY <1>1 DEF CallbackBegins
    <3>5. /\ file * SourceRate \in Nat /\ frames * TargetRate \in Nat
          /\ chunks * SourceRate \in Nat
      OBVIOUS
    <3> QED BY <3>1, <3>2, <3>3, <3>4, <3>5 DEF Drift
  <2>2. CASE ~stopFlag
    <3>1. chunks' = chunks + 1 /\ callback = 0 /\ callback' = n /\ n > 0
      BY <1>1, <2>2 DEF CallbackBegins
    <3>2. Settled' = Settled
      BY <3>1 DEF Settled
    <3>3. UNCHANGED <<file, frames, lost, written>>
      BY <1>1 DEF CallbackBegins
    <3> QED BY <3>1, <3>2, <3>3 DEF Drift
  <2> QED BY <2>1, <2>2
<1>2. CASE CallbackWrites
  <2> DEFINE r == Resampled(callback)
  <2>1. /\ callback \in Nat /\ callback > 0 /\ chunks > 0 /\ callback' = 0
        /\ chunks' = chunks /\ chunks - 1 \in Nat
    BY <1>2 DEF CallbackWrites, Drift
  <2>2. Settled' = Settled + 1 /\ Settled \in Nat
    BY <2>1 DEF Settled
  <2>3. Settled' * SourceRate = Settled * SourceRate + SourceRate
    BY <2>2, OneMore
  <2>4. /\ r \in Nat
        /\ 2 * (r * SourceRate) <= 2 * (callback * TargetRate) + SourceRate
        /\ 2 * (callback * TargetRate) <= 2 * (r * SourceRate) + SourceRate
    BY <2>1, ResampledWithinHalf
  <2> HIDE DEF r
  <2>5. /\ file * SourceRate \in Nat /\ frames * TargetRate \in Nat
        /\ Settled * SourceRate \in Nat
        /\ r * SourceRate \in Nat /\ callback * TargetRate \in Nat
    BY <2>1, <2>2, <2>4
  <2>6. CASE writer # "open"
    <3>1. UNCHANGED <<file, frames, lost, written>>
      BY <1>2, <2>6 DEF CallbackWrites
    <3> QED BY <2>1, <2>3, <2>5, <3>1 DEF Drift
  <2>7. CASE writer = "open"
    <3> SUFFICES ASSUME ~lost', written' < MaxSamples
                 PROVE  /\ 2 * (file' * SourceRate) <= 2 * (frames' * TargetRate) + Settled' * SourceRate
                        /\ 2 * (frames' * TargetRate) <= 2 * (file' * SourceRate) + Settled' * SourceRate
      BY <2>1 DEF Drift
    <3>1. /\ written' = written + UpToCap(r) /\ file' = file + UpToCap(r)
          /\ frames' = frames + callback /\ ~lost
      BY <1>2, <2>7 DEF CallbackWrites, r
    <3>2. UpToCap(r) = r /\ written < MaxSamples
      BY <2>4, <3>1 DEF UpToCap
    <3>3. /\ file' * SourceRate = file * SourceRate + r * SourceRate
          /\ frames' * TargetRate = frames * TargetRate + callback * TargetRate
      BY <2>1, <2>4, <3>1, <3>2, OneMore
    <3> QED BY <2>3, <2>4, <2>5, <3>1, <3>2, <3>3 DEF Drift
  <2> QED BY <2>6, <2>7
<1>3. CASE UNCHANGED <<file, frames, lost, written, chunks, callback>>
  BY <1>3 DEF Drift, Settled
<1> QED
  BY <1>1, <1>2, <1>3
     DEF RecorderStep, StartRecording, StreamFails, FinishBegins, FinishTakesWriter,
         FinishChecks, FinishReturns

-----------------------------------------------------------------------------
(* The inference client.                                                   *)

\* What the steps of a pipeline do to what the invariants speak of.
LEMMA PipelineSound ==
  ASSUME PipelineTypeOK, Accounts, Repairs, NEW answers, PipelineStep(answers)
  PROVE  PipelineTypeOK' /\ Accounts' /\ Repairs'
<1> USE RetriesAssumption
    DEF PipelineTypeOK, Accounts, Repairs, Out, Passes, Attempts, MaxRequests, NoPrompt
<1>1. CASE PreparationFails
  BY <1>1 DEF PreparationFails
<1>2. CASE PostChat
  <2>1. requests' = requests + 1
    BY <1>2 DEF PostChat
  <2>2. CASE pass = "structure" /\ lastRaw # 0
    <3>1. prompt' = [raw |-> lastRaw, error |-> lastError]
      BY <1>2, <2>2 DEF PostChat, BuildRequest
    <3> QED BY <1>2, <2>1, <2>2, <3>1 DEF PostChat
  <2>3. CASE ~(pass = "structure" /\ lastRaw # 0)
    <3>1. prompt' = [raw |-> 0, error |-> 0]
      BY <1>2, <2>3 DEF PostChat, BuildRequest
    <3> QED BY <1>2, <2>1, <2>3, <3>1 DEF PostChat
  <2> QED BY <2>2, <2>3
<1>3. CASE PostFails
  BY <1>3 DEF PostFails
<1>4. CASE Transcribed
  <2>1. PipelineTypeOK'
    BY <1>4 DEF Transcribed
  <2>2. Accounts'
    BY <1>4 DEF Transcribed
  <2>3. Repairs'
    BY <1>4 DEF Transcribed
  <2> QED BY <2>1, <2>2, <2>3
<1>5. CASE Structured
  <2>1. PipelineTypeOK'
    <3>1. attempt + 1 \in Attempts
      BY <1>5 DEF Structured
    <3> HIDE DEF Attempts, Accounts, Repairs, MaxRequests
    <3> QED BY <1>5, <3>1 DEF Structured
  <2>2. Accounts'
    BY <1>5 DEF Structured
  <2>3. Repairs'
    BY <1>5 DEF Structured
  <2> QED BY <2>1, <2>2, <2>3
<1>6. CASE NoToolCall
  <2>1. PipelineTypeOK'
    <3>1. attempt + 1 \in Attempts
      BY <1>6 DEF NoToolCall
    <3> HIDE DEF Attempts, Accounts, Repairs, MaxRequests
    <3> QED BY <1>6, <3>1 DEF NoToolCall, AttemptFails
  <2>2. Accounts'
    BY <1>6 DEF NoToolCall, AttemptFails
  <2>3. Repairs'
    BY <1>6 DEF NoToolCall, AttemptFails
  <2> QED BY <2>1, <2>2, <2>3
<1>7. CASE BadArguments
  <2>1. PipelineTypeOK'
    <3>1. attempt + 1 \in Attempts
      BY <1>7 DEF BadArguments
    <3> HIDE DEF Attempts, Accounts, Repairs, MaxRequests
    <3> QED BY <1>7, <3>1 DEF BadArguments, AttemptFails
  <2>2. Accounts'
    BY <1>7 DEF BadArguments, AttemptFails
  <2>3. Repairs'
    BY <1>7 DEF BadArguments, AttemptFails
  <2> QED BY <2>1, <2>2, <2>3
<1>8. CASE ImageDescribed
  <2>1. PipelineTypeOK'
    <3>1. images - 1 \in 0..MaxImages /\ described + 1 \in 0..MaxImages
      BY <1>8 DEF ImageDescribed
    <3> HIDE DEF Attempts, Accounts, Repairs, MaxRequests
    <3> QED BY <1>8, <3>1 DEF ImageDescribed
  <2>2. Accounts'
    BY <1>8 DEF ImageDescribed
  <2>3. Repairs'
    BY <1>8 DEF ImageDescribed
  <2> QED BY <2>1, <2>2, <2>3
<1>9. CASE AllDescribed
  <2>1. PipelineTypeOK'
    BY <1>9 DEF AllDescribed
  <2>2. Accounts'
    BY <1>9 DEF AllDescribed
  <2>3. Repairs'
    BY <1>9 DEF AllDescribed
  <2> QED BY <2>1, <2>2, <2>3
<1>10. CASE VerdictAnswered(answers)
  <2>1. /\ pass = "verdict" /\ posted /\ posted' = FALSE
        /\ pass' \in {"done", "failed"}
        /\ UNCHANGED <<images, attempt, lastRaw, lastError, prompt, requests,
                       described, toolCall>>
    BY <1>10, Zenon DEF VerdictAnswered
  <2>2. PipelineTypeOK'
    BY <2>1
  <2>3. Accounts'
    BY <2>1
  <2>4. Repairs'
    BY <2>1
  <2> QED BY <2>2, <2>3, <2>4
<1> QED
  BY <1>1, <1>2, <1>3, <1>4, <1>5, <1>6, <1>7, <1>8, <1>9, <1>10
     DEF PipelineStep

\* A run that is over does not move, and the structuring pass is entered
\* from the transcript only (pipeline.rs, run_full_pipeline).
LEMMA PassesInOrder ==
  ASSUME PipelineTypeOK, Accounts, NEW answers, PipelineStep(answers)
  PROVE  /\ pass \in Passes
         /\ pass' \in Passes \cup {"done", "failed"}
         /\ pass = "transcribe" => pass' \in {"transcribe", "structure", "failed"}
<1>1. CASE VerdictAnswered(answers)
  <2>1. pass = "verdict" /\ pass' \in {"done", "failed"}
    BY <1>1, Zenon DEF VerdictAnswered
  <2> QED BY <2>1 DEF Passes
<1>2. CASE ~VerdictAnswered(answers)
  BY <1>2 DEF PipelineStep, PipelineTypeOK, Accounts, Passes, PreparationFails,
     PostChat, PostFails, Transcribed, Structured, NoToolCall, BadArguments,
     AttemptFails, ImageDescribed, AllDescribed
<1> QED BY <1>1, <1>2

\* Every step of a run uses up one of those it had left: an answer that
\* does not hold costs one of the attempts, an answer that does ends its
\* pass, and nothing is posted twice for the same purpose.
LEMMA StepsRunOut ==
  ASSUME PipelineTypeOK, Accounts, NEW answers, PipelineStep(answers)
  PROVE  /\ StepsLeft \in 1..2 * (MaxRetries + MaxImages) + 7
         /\ StepsLeft' \in 0..StepsLeft - 1
         /\ StepsLeft' = 0 <=> pass' \in {"done", "failed"}
<1> DEFINE Left(p, i, a, o) ==
             CASE p = "transcribe" -> 3 + 2 * i + 2 * (MaxRetries + 1 - a) + 2 - o
               [] p = "structure"  -> 3 + 2 * i + 2 * (MaxRetries + 1 - a) - o
               [] p = "images"     -> 3 + 2 * i - o
               [] p = "verdict"    -> 2 - o
               [] OTHER            -> 0
<1>1. /\ StepsLeft = Left(pass, images, attempt, Out)
      /\ StepsLeft' = Left(pass', images', attempt', Out')
  BY DEF StepsLeft
<1>2. /\ MaxRetries \in Nat /\ MaxImages \in Nat
      /\ images \in Nat /\ images <= MaxImages
      /\ attempt \in Nat
      /\ pass \in Passes => attempt <= MaxRetries
      /\ pass = "transcribe" => attempt = 0
      /\ posted /\ pass = "images" => images > 0
  BY RetriesAssumption DEF PipelineTypeOK, Accounts, Attempts, Passes
<1>3. pass \in Passes /\ pass' \in Passes \cup {"done", "failed"}
  BY PassesInOrder
<1>4. CASE PreparationFails \/ PostFails
  BY <1>1, <1>2, <1>3, <1>4 DEF PreparationFails, PostFails, Out, Passes
<1>5. CASE PostChat
  BY <1>1, <1>2, <1>3, <1>5 DEF PostChat, Out, Passes
<1>6. CASE Transcribed
  BY <1>1, <1>2, <1>6 DEF Transcribed, Out
<1>7. CASE Structured
  BY <1>1, <1>2, <1>3, <1>7 DEF Structured, Out, Passes
<1>8. CASE NoToolCall \/ BadArguments
  BY <1>1, <1>2, <1>3, <1>8 DEF NoToolCall, BadArguments, AttemptFails, Out, Passes
<1>9. CASE ImageDescribed
  BY <1>1, <1>2, <1>9 DEF ImageDescribed, Out
<1>10. CASE AllDescribed
  BY <1>1, <1>2, <1>3, <1>10 DEF AllDescribed, Out
<1>11. CASE VerdictAnswered(answers)
  <2>1. pass = "verdict" /\ posted /\ posted' = FALSE /\ pass' \in {"done", "failed"}
    BY <1>11, Zenon DEF VerdictAnswered
  <2> QED BY <1>1, <1>2, <2>1 DEF Out
<1> QED BY <1>4, <1>5, <1>6, <1>7, <1>8, <1>9, <1>10, <1>11 DEF PipelineStep

-----------------------------------------------------------------------------
(* Induction, for one set or one step at a time, from a fact on finite     *)
(* sets.                                                                   *)

\* A set of numbers with 0 and every successor has them all: going one down
\* from each of the numbers up to m that are missing would map them into
\* fewer.
LEMMA NatInductive ==
  ASSUME NEW S, 0 \in S, \A n \in Nat : n \in S => n + 1 \in S
  PROVE  Nat \subseteq S
<1> SUFFICES ASSUME NEW m \in Nat, m \notin S PROVE FALSE
  OBVIOUS
<1> DEFINE out  == {k \in 0..m : k \notin S}
           less == out \ {m}
           down == [k \in out |-> k - 1]
<1>1. IsFiniteSet(out) /\ m \in out
  <2>1. IsFiniteSet(0..m)
    BY FS_Interval
  <2>2. out \in SUBSET (0..m)
    OBVIOUS
  <2>3. m \in out
    OBVIOUS
  <2> QED BY <2>1, <2>2, <2>3, FS_Subset
<1>2. IsFiniteSet(less) /\ Cardinality(less) < Cardinality(out)
  <2>1. IsFiniteSet(less) /\ Cardinality(less) = Cardinality(out) - 1
    BY <1>1, FS_RemoveElement
  <2>2. Cardinality(out) \in Nat
    BY <1>1, FS_CardinalityType
  <2> QED BY <2>1, <2>2
<1>3. \A k \in out : k \in Nat /\ k - 1 \in less
  <2> SUFFICES ASSUME NEW k \in out PROVE k \in Nat /\ k - 1 \in less
    OBVIOUS
  <2>1. k \in Nat /\ k # 0 /\ k <= m /\ k \notin S
    OBVIOUS
  <2>2. k - 1 \in Nat /\ k - 1 \notin S /\ k - 1 < m
    <3>1. k - 1 \in Nat /\ (k - 1) + 1 = k /\ k - 1 < m
      BY <2>1
    <3> HIDE DEF out
    <3> QED BY <2>1, <3>1
  <2> QED BY <2>2
<1>4. down \in [out -> less]
  BY <1>3
<1>5. \E x, y \in out : x # y /\ down[x] = down[y]
  <2> HIDE DEF out, less, down
  <2> QED BY <1>1, <1>2, <1>4, FS_PigeonHole
<1> QED BY <1>3, <1>5

\* A set of numbers has a least one.
LEMMA Least ==
  ASSUME NEW T \in SUBSET Nat, T # {}
  PROVE  \E n \in T : \A m \in T : n <= m
<1> SUFFICES ASSUME ~\E n \in T : \A m \in T : n <= m PROVE FALSE
  OBVIOUS
<1> DEFINE S == {n \in Nat : \A m \in T : n <= m}
<1>1. 0 \in S
  OBVIOUS
<1>2. \A n \in Nat : n \in S => n + 1 \in S
  <2> SUFFICES ASSUME NEW n \in Nat, \A m \in T : n <= m, NEW m \in T, ~(n + 1 <= m)
               PROVE  FALSE
    OBVIOUS
  <2>1. m = n
    OBVIOUS
  <2> QED BY <2>1
<1> HIDE DEF S
<1>3. Nat \subseteq S
  BY <1>1, <1>2, NatInductive
<1>4. PICK t \in T : TRUE
  OBVIOUS
<1>5. t + 1 <= t
  BY <1>3, <1>4 DEF S
<1> QED BY <1>4, <1>5

\* Induction from all smaller numbers.
LEMMA Strong ==
  ASSUME NEW S, \A n \in Nat : (\A m \in 0..n - 1 : m \in S) => n \in S
  PROVE  Nat \subseteq S
<1> SUFFICES ASSUME Nat \ S # {} PROVE FALSE
  OBVIOUS
<1>1. PICK n \in Nat \ S : \A m \in Nat \ S : n <= m
  BY Least
<1>2. \A m \in 0..n - 1 : m \in S
  BY <1>1
<1> QED BY <1>1, <1>2

\* The same along an interval: it may be assumed below k.
LEMMA Upwards ==
  ASSUME NEW a \in Int, NEW b \in Int, NEW S,
         \A k \in a..b : (\A j \in a..k - 1 : j \in S) => k \in S
  PROVE  a..b \subseteq S
<1> DEFINE T == {n \in Nat : a + n <= b => a + n \in S}
<1>1. \A n \in Nat : (\A m \in 0..n - 1 : m \in T) => n \in T
  <2> SUFFICES ASSUME NEW n \in Nat, \A m \in 0..n - 1 : m \in T, a + n <= b
               PROVE  a + n \in S
    OBVIOUS
  <2>1. ASSUME NEW j \in a..(a + n) - 1 PROVE j \in S
    <3>1. j - a \in 0..n - 1 /\ a + (j - a) = j /\ j <= b
      OBVIOUS
    <3> QED BY <3>1
  <2>2. a + n \in a..b
    OBVIOUS
  <2> QED BY <2>1, <2>2
<1>2. Nat \subseteq T
  <2> HIDE DEF T
  <2> QED BY <1>1, Strong
<1>3. ASSUME NEW k \in a..b PROVE k \in S
  <2>1. k - a \in Nat /\ a + (k - a) = k /\ k <= b
    OBVIOUS
  <2> QED BY <1>2, <2>1
<1> QED BY <1>3

\* And down: to be shown for k, a property may be assumed above k.
LEMMA Downwards ==
  ASSUME NEW a \in Int, NEW b \in Int, NEW S,
         \A k \in a..b : (\A j \in k + 1..b : j \in S) => k \in S
  PROVE  a..b \subseteq S
<1> DEFINE T == {n \in Nat : a <= b - n => b - n \in S}
<1>1. \A n \in Nat : (\A m \in 0..n - 1 : m \in T) => n \in T
  <2> SUFFICES ASSUME NEW n \in Nat, \A m \in 0..n - 1 : m \in T, a <= b - n
               PROVE  b - n \in S
    OBVIOUS
  <2>1. ASSUME NEW j \in (b - n) + 1..b PROVE j \in S
    <3>1. b - j \in 0..n - 1 /\ b - (b - j) = j /\ a <= j
      OBVIOUS
    <3> QED BY <3>1
  <2>2. b - n \in a..b
    OBVIOUS
  <2> QED BY <2>1, <2>2
<1>2. Nat \subseteq T
  <2> HIDE DEF T
  <2> QED BY <1>1, Strong
<1>3. ASSUME NEW k \in a..b PROVE k \in S
  <2>1. b - k \in Nat /\ b - (b - k) = k /\ a <= k
    OBVIOUS
  <2> QED BY <1>2, <2>1
<1> QED BY <1>3

\* A step from function to function that looks, at each argument, only at
\* values for smaller ones.
LooksBack(D, V, size, bound, step) ==
  /\ V # {}
  /\ size \in [D -> Nat]
  /\ bound \in Nat /\ \A d \in D : size[d] <= bound
  /\ step \in [[D -> V] -> [D -> V]]
  /\ \A f, g \in [D -> V] : \A d \in D :
       (\A e \in D : size[e] < size[d] => f[e] = g[e]) => step[f][d] = step[g][d]

\* Such a step has a fixed point: the function that recursion defines.
LEMMA Recursion ==
  ASSUME NEW D, NEW V, NEW size, NEW bound, NEW step,
         LooksBack(D, V, size, bound, step)
  PROVE  \E f \in [D -> V] : step[f] = f
<1> USE DEF LooksBack
<1> DEFINE Done(f, n) == \A d \in D : size[d] < n => step[f][d] = f[d]
           S == {n \in Nat : \E f \in [D -> V] : Done(f, n)}
<1>1. 0 \in S
  <2>1. PICK v \in V : TRUE
    OBVIOUS
  <2>2. [d \in D |-> v] \in [D -> V] /\ Done([d \in D |-> v], 0)
    OBVIOUS
  <2> QED BY <2>2
<1>2. \A n \in Nat : n \in S => n + 1 \in S
  <2> SUFFICES ASSUME NEW n \in Nat, NEW f \in [D -> V], Done(f, n)
               PROVE  step[f] \in [D -> V] /\ Done(step[f], n + 1)
    <3> HIDE DEF Done
    <3> QED OBVIOUS
  <2>1. step[f] \in [D -> V]
    OBVIOUS
  <2>2. ASSUME NEW d \in D, size[d] < n + 1
        PROVE  step[step[f]][d] = step[f][d]
    <3>1. \A e \in D : size[e] < size[d] => step[f][e] = f[e]
      BY <2>2
    <3> QED BY <2>1, <3>1
  <2> QED BY <2>1, <2>2
<1> HIDE DEF S, Done
<1>3. bound + 1 \in S
  BY <1>1, <1>2, NatInductive
<1>4. PICK f \in [D -> V] : Done(f, bound + 1)
  BY <1>3 DEF S
<1>5. \A d \in D : step[f][d] = f[d]
  BY <1>4 DEF Done
<1> QED BY <1>4, <1>5

-----------------------------------------------------------------------------
(* The scan for the verdict.                                               *)

ScanStates == [mode : {"plain", "string", "escaped"}, depth : Int]

\* One byte of the scan keeps its state of its kind.
LEMMA ScanTyped ==
  ASSUME NEW s \in ScanStates, NEW b
  PROVE  ScanByte(s, b) \in ScanStates
BY DEF ScanStates, ScanByte, Mode

\* The recursion of ScanFrom is well founded: it is the step of each byte.
LEMMA ScanUnfolds ==
  ASSUME NEW text \in Seq(Bytes), NEW start \in 1..Len(text)
  PROVE  /\ ScanFrom(text, start) \in [start - 1..Len(text) -> ScanStates]
         /\ ScanFrom(text, start)[start - 1] = Scanning
         /\ \A i \in start..Len(text) :
              ScanFrom(text, start)[i] = ScanByte(ScanFrom(text, start)[i - 1], text[i])
<1> DEFINE D       == start - 1..Len(text)
           size    == [i \in D |-> i - (start - 1)]
           next(f) == [i \in D |-> IF i < start THEN Scanning
                                   ELSE ScanByte(f[i - 1], text[i])]
           step    == [f \in [D -> ScanStates] |-> next(f)]
<1>1. Scanning \in ScanStates
  BY DEF Scanning, ScanStates
<1>2. \A f \in [D -> ScanStates] : next(f) \in [D -> ScanStates]
  <2> SUFFICES ASSUME NEW f \in [D -> ScanStates], NEW i \in D, ~(i < start)
               PROVE  ScanByte(f[i - 1], text[i]) \in ScanStates
    BY <1>1
  <2>1. f[i - 1] \in ScanStates
    OBVIOUS
  <2> QED BY <2>1, ScanTyped
<1>3. step \in [[D -> ScanStates] -> [D -> ScanStates]]
  BY <1>2
<1>4. size \in [D -> Nat] /\ \A i \in D : size[i] <= Len(text)
  OBVIOUS
<1>5. \A f, g \in [D -> ScanStates] : \A d \in D :
         (\A e \in D : size[e] < size[d] => f[e] = g[e]) => step[f][d] = step[g][d]
  <2> SUFFICES ASSUME NEW f \in [D -> ScanStates], NEW g \in [D -> ScanStates], NEW d \in D,
                      \A e \in D : size[e] < size[d] => f[e] = g[e]
               PROVE  next(f)[d] = next(g)[d]
    OBVIOUS
  <2>1. CASE d < start
    BY <2>1
  <2>2. CASE ~(d < start)
    <3>1. d - 1 \in D /\ size[d - 1] < size[d]
      BY <2>2
    <3>2. f[d - 1] = g[d - 1]
      BY <3>1
    <3> QED BY <3>2
  <2> QED BY <2>1, <2>2
<1>6. \E f \in [D -> ScanStates] : step[f] = f
  <2>1. ScanStates # {} /\ Len(text) \in Nat
    BY <1>1
  <2> HIDE DEF D, size, next, step
  <2>2. LooksBack(D, ScanStates, size, Len(text), step)
    BY <1>3, <1>4, <1>5, <2>1, Zenon DEF LooksBack
  <2> QED BY <2>2, Recursion
<1>7. \E f : f = next(f)
  BY <1>6
<1>8. ScanFrom(text, start) = next(ScanFrom(text, start))
  BY <1>7 DEF ScanFrom
<1> DEFINE scan == ScanFrom(text, start)
<1>9. /\ scan[start - 1] = Scanning
      /\ \A i \in start..Len(text) : scan[i] = ScanByte(scan[i - 1], text[i])
  <2> HIDE DEF scan
  <2>1. \A i \in D : scan[i] = IF i < start THEN Scanning ELSE ScanByte(scan[i - 1], text[i])
    BY <1>8 DEF scan
  <2> QED BY <2>1
<1>10. \A i \in D : scan[i] \in ScanStates
  <2> DEFINE S == {i \in D : scan[i] \in ScanStates}
  <2> HIDE DEF scan
  <2>1. ASSUME NEW k \in D, \A j \in start - 1..k - 1 : j \in S
        PROVE  k \in S
    <3>1. CASE k = start - 1
      BY <1>1, <1>9, <3>1
    <3>2. CASE k # start - 1
      <4>1. k \in start..Len(text) /\ k - 1 \in start - 1..k - 1
        BY <3>2
      <4>2. scan[k - 1] \in ScanStates
        BY <2>1, <4>1
      <4>3. scan[k] = ScanByte(scan[k - 1], text[k])
        BY <1>9, <4>1
      <4> QED BY <4>2, <4>3, ScanTyped
    <3> QED BY <3>1, <3>2
  <2>2. start - 1 \in Int /\ Len(text) \in Int
    OBVIOUS
  <2>3. start - 1..Len(text) \subseteq S
    <3> HIDE DEF S
    <3> QED BY <2>1, <2>2, Upwards
  <2> QED BY <2>3
<1>11. scan \in [D -> ScanStates]
  BY <1>8, <1>10
<1> QED BY <1>9, <1>11

\* Outside strings, at a depth.
Plain(d) == [mode |-> "plain", depth |-> d]

\* What one byte does in each mode of the scan.
LEMMA ScanSteps ==
  ASSUME NEW s, NEW b, NEW d \in Int
  PROVE  /\ s = Plain(d) => ScanByte(s, b) =
              CASE b = "open"  -> Plain(d + 1)
                [] b = "close" -> Plain(d - 1)
                [] b = "quote" -> [mode |-> "string", depth |-> d]
                [] OTHER       -> Plain(d)
         /\ s = [mode |-> "string", depth |-> d] => ScanByte(s, b) =
              CASE b = "quote"     -> Plain(d)
                [] b = "backslash" -> [mode |-> "escaped", depth |-> d]
                [] OTHER           -> s
         /\ s = [mode |-> "escaped", depth |-> d] =>
              ScanByte(s, b) = [mode |-> "string", depth |-> d]
BY DEF ScanByte, Mode, Plain

\* The scan crosses a string without a change of depth: the backslashes that
\* escape a byte are those after which it is in the escaped mode.
LEMMA StringScanned ==
  ASSUME NEW text \in Seq(Bytes), NEW start \in 1..Len(text),
         NEW p \in Strings(text), start <= p[1], NEW d \in Int,
         ScanFrom(text, start)[p[1] - 1] = Plain(d)
  PROVE  /\ ScanFrom(text, start)[p[2]] = Plain(d)
         /\ \A i \in p[1]..p[2] - 1 : ScanFrom(text, start)[i].depth = d
<1> DEFINE scan == ScanFrom(text, start)
<1>1. PICK escapes \in SUBSET (p[1] + 1..p[2] - 1) : Quoted(text, p, escapes)
  BY DEF Strings
<1>2. /\ p[1] \in 1..Len(text) /\ p[2] \in 1..Len(text) /\ p[1] < p[2]
      /\ text[p[1]] = "quote" /\ text[p[2]] = "quote"
  BY DEF Strings, Spans
<1>3. \A i \in start..Len(text) : scan[i] = ScanByte(scan[i - 1], text[i])
  BY ScanUnfolds
<1>4. scan[p[1] - 1] = Plain(d)
  OBVIOUS
<1> HIDE DEF scan
<1> DEFINE Inside(k) == scan[k] = [mode |-> IF k \in escapes THEN "escaped" ELSE "string",
                                   depth |-> d]
           S == {k \in p[1]..p[2] - 1 : Inside(k)}
<1>5. Inside(p[1])
  <2>1. scan[p[1]] = ScanByte(scan[p[1] - 1], text[p[1]])
    BY <1>2, <1>3
  <2>2. p[1] \notin escapes
    BY <1>1, <1>2
  <2> QED BY <1>2, <1>4, <2>1, <2>2, ScanSteps
<1>6. ASSUME NEW k \in p[1] + 1..p[2] - 1, Inside(k - 1)
      PROVE  Inside(k)
  <2>1. scan[k] = ScanByte(scan[k - 1], text[k])
    <3>1. k \in start..Len(text)
      BY <1>2
    <3> QED BY <1>3, <3>1
  <2>2. CASE k - 1 \in escapes /\ k \notin escapes
    BY <1>6, <2>1, <2>2, ScanSteps
  <2>3. CASE k - 1 \notin escapes /\ k \in escapes /\ text[k] = "backslash"
    BY <1>6, <2>1, <2>3, ScanSteps
  <2>4. CASE k - 1 \notin escapes /\ k \notin escapes /\ text[k] \notin {"quote", "backslash"}
    BY <1>6, <2>1, <2>4, ScanSteps
  <2> HIDE DEF Inside
  <2> QED BY <1>1, <2>2, <2>3, <2>4 DEF Quoted
<1> HIDE DEF Inside
<1>7. ASSUME NEW k \in p[1]..p[2] - 1, \A j \in p[1]..k - 1 : j \in S
      PROVE  k \in S
  <2>1. CASE k = p[1]
    BY <1>5, <2>1
  <2>2. CASE k # p[1]
    <3>1. k \in p[1] + 1..p[2] - 1 /\ k - 1 \in p[1]..k - 1
      BY <1>2, <2>2
    <3>2. Inside(k - 1)
      BY <1>7, <3>1
    <3> QED BY <1>6, <3>1, <3>2
  <2> QED BY <2>1, <2>2
<1>8. ASSUME NEW k \in p[1]..p[2] - 1 PROVE Inside(k)
  <2> DEFINE lo == p[1]
             hi == p[2] - 1
  <2>1. lo \in Int /\ hi \in Int
    BY <1>2
  <2>2. \A j \in lo..hi : (\A i \in lo..j - 1 : i \in S) => j \in S
    BY <1>7
  <2>3. lo..hi \subseteq S
    <3> HIDE DEF lo, hi, S
    <3> QED BY <2>1, <2>2, Upwards
  <2> QED BY <2>3
<1> USE DEF Inside
<1>9. p[2] - 1 \notin escapes
  <2> SUFFICES ASSUME p[2] - 1 \in escapes PROVE FALSE
    OBVIOUS
  <2>1. p[2] - 1 \in p[1] + 1..p[2] - 1 /\ ~((p[2] - 1) + 1 < p[2])
    BY <1>1, <1>2
  <2> QED BY <1>1, <2>1 DEF Quoted
<1>10. scan[p[2]] = Plain(d)
  <2>1. Inside(p[2] - 1)
    BY <1>2, <1>8
  <2>2. scan[p[2]] = ScanByte(scan[p[2] - 1], text[p[2]])
    BY <1>2, <1>3
  <2> QED BY <1>2, <1>9, <2>1, <2>2, ScanSteps
<1>11. ASSUME NEW i \in p[1]..p[2] - 1 PROVE scan[i].depth = d
  <2>1. Inside(i)
    BY <1>8
  <2> QED BY <2>1
<1> QED BY <1>10, <1>11 DEF scan

\* Between the ends of a span at some depth the scan does not get below it,
\* and at the end it is back.
Level(scan, p) ==
  \A d \in Int : scan[p[1] - 1] = Plain(d) =>
    /\ scan[p[2]] = Plain(d)
    /\ \A i \in p[1]..p[2] - 1 : scan[i].depth >= d

Deeper(scan, p) ==
  \A d \in Int : scan[p[1] - 1] = Plain(d) =>
    /\ scan[p[2]] = Plain(d)
    /\ \A i \in p[1]..p[2] - 1 : scan[i].depth > d

\* The scan crosses a pair of braces if it crosses each part in between;
\* outside the parts it is one deeper.
LEMMA EnclosedScanned ==
  ASSUME NEW text \in Seq(Bytes), NEW start \in 1..Len(text),
         NEW p \in Braced(text), start <= p[1],
         NEW parts \in SUBSET Within(Spans(text), p), Enclosed(text, p, parts),
         \A q \in parts : Level(ScanFrom(text, start), q)
  PROVE  Deeper(ScanFrom(text, start), p)
<1> DEFINE scan == ScanFrom(text, start)
<1>1. /\ p[1] \in 1..Len(text) /\ p[2] \in 1..Len(text) /\ p[1] < p[2]
      /\ text[p[1]] = "open" /\ text[p[2]] = "close"
  BY DEF Braced, Spans
<1>2. \A q \in parts : /\ q[1] \in Int /\ q[2] \in Int /\ q[1] < q[2]
                       /\ p[1] < q[1] /\ q[2] < p[2]
  BY DEF Within, Spans
<1>3. \A q, r \in parts : q # r => q[2] < r[1] \/ r[2] < q[1]
  BY DEF Enclosed, Apart
<1>4. \A i \in start..Len(text) : /\ scan[i] = ScanByte(scan[i - 1], text[i])
                                 /\ scan[i].depth \in Int
  <2>1. /\ scan \in [start - 1..Len(text) -> ScanStates]
        /\ \A i \in start..Len(text) : scan[i] = ScanByte(scan[i - 1], text[i])
    BY ScanUnfolds
  <2> HIDE DEF scan
  <2>2. ASSUME NEW i \in start..Len(text) PROVE scan[i].depth \in Int
    <3>1. i \in start - 1..Len(text)
      OBVIOUS
    <3> QED BY <2>1, <3>1 DEF ScanStates
  <2> QED BY <2>1, <2>2
<1>5. \A q \in parts : Level(scan, q)
  OBVIOUS
<1> HIDE DEF scan
<1> SUFFICES ASSUME NEW d \in Int, scan[p[1] - 1] = Plain(d)
             PROVE  /\ scan[p[2]] = Plain(d)
                    /\ \A i \in p[1]..p[2] - 1 : scan[i].depth > d
  BY DEF Deeper, scan
<1> DEFINE Between(k) == \A q \in parts : ~(q[1] <= k /\ k < q[2])
           Good(k) == /\ Between(k) => scan[k] = Plain(d + 1)
                      /\ scan[k].depth > d
           S == {k \in p[1]..p[2] - 1 : Good(k)}
<1>6. ASSUME NEW k \in p[1]..p[2] - 1, \A j \in p[1]..k - 1 : Good(j)
      PROVE  Good(k)
  <2>1. k \in start..Len(text) /\ k - 1 \in Int
    BY <1>1, <1>6
  <2>2. scan[k] = ScanByte(scan[k - 1], text[k])
    BY <1>4, <2>1
  <2>3. scan[k] = Plain(d + 1) => Good(k)
    BY DEF Plain
  <2>4. CASE k = p[1]
    <3>1. scan[k] = Plain(d + 1)
      BY <1>1, <2>2, <2>4, ScanSteps
    <3> QED BY <2>3, <3>1
  <2>5. CASE k # p[1] /\ \E q \in parts : Covers(q, k)
    <3>1. PICK q \in parts : q[1] <= k /\ k <= q[2]
      BY <2>5 DEF Covers
    <3>2. q[1] - 1 \in p[1]..k - 1
      BY <1>1, <1>2, <1>6, <3>1
    <3>3. Between(q[1] - 1)
      BY <1>2, <1>3
    <3>4. scan[q[1] - 1] = Plain(d + 1)
      BY <1>6, <3>2, <3>3
    <3>5. /\ scan[q[2]] = Plain(d + 1)
          /\ \A i \in q[1]..q[2] - 1 : scan[i].depth >= d + 1
      BY <1>5, <3>4 DEF Level
    <3>6. CASE k = q[2]
      BY <2>3, <3>5, <3>6
    <3>7. CASE k < q[2]
      <4>1. ~Between(k)
        BY <3>1, <3>7
      <4>2. k \in q[1]..q[2] - 1
        BY <1>2, <3>1, <3>7
      <4>3. scan[k].depth >= d + 1 /\ scan[k].depth \in Int
        BY <1>4, <2>1, <3>5, <4>2
      <4> QED BY <4>1, <4>3
    <3> QED BY <1>2, <3>1, <3>6, <3>7
  <2>6. CASE k # p[1] /\ ~\E q \in parts : Covers(q, k)
    <3>1. k \in p[1] + 1..p[2] - 1 /\ k - 1 \in p[1]..k - 1
      BY <1>1, <1>6, <2>6
    <3>2. text[k] \notin {"open", "close", "quote"}
      BY <2>6, <3>1 DEF Enclosed
    <3>3. Between(k - 1)
      BY <1>2, <2>6 DEF Covers
    <3>4. scan[k - 1] = Plain(d + 1)
      BY <1>6, <3>1, <3>3
    <3>5. d + 1 \in Int
      OBVIOUS
    <3>6. scan[k] = Plain(d + 1)
      <4> HIDE DEF Good, Between
      <4> QED BY <2>2, <3>2, <3>4, <3>5, ScanSteps
    <3> QED BY <2>3, <3>6
  <2> QED BY <2>4, <2>5, <2>6
<1> HIDE DEF Good
<1>7. p[1]..p[2] - 1 \subseteq S
  <2> DEFINE lo == p[1]
             hi == p[2] - 1
  <2>1. lo \in Int /\ hi \in Int
    BY <1>1
  <2>2. \A k \in lo..hi : (\A j \in lo..k - 1 : j \in S) => k \in S
    BY <1>6
  <2>3. lo..hi \subseteq S
    <3> HIDE DEF lo, hi, S
    <3> QED BY <2>1, <2>2, Upwards
  <2> QED BY <2>3
<1>8. ASSUME NEW k \in p[1]..p[2] - 1 PROVE Good(k)
  BY <1>7
<1> USE DEF Good
<1>9. scan[p[2]] = Plain(d)
  <2>1. Between(p[2] - 1) /\ p[2] - 1 \in p[1]..p[2] - 1
    BY <1>1, <1>2
  <2>2. scan[p[2] - 1] = Plain(d + 1)
    BY <1>8, <2>1
  <2>3. scan[p[2]] = ScanByte(scan[p[2] - 1], text[p[2]])
    BY <1>1, <1>4
  <2>4. d + 1 \in Int /\ (d + 1) - 1 = d
    OBVIOUS
  <2> HIDE DEF Good, Between
  <2> QED BY <1>1, <2>2, <2>3, <2>4, ScanSteps
<1>10. ASSUME NEW i \in p[1]..p[2] - 1 PROVE scan[i].depth > d
  BY <1>8
<1> QED BY <1>9, <1>10

\* The scan crosses every object, whatever objects and strings are in it.
LEMMA ObjectScanned ==
  ASSUME NEW text \in Seq(Bytes), NEW start \in 1..Len(text),
         NEW p \in Objects(text), start <= p[1]
  PROVE  p \in Braced(text) /\ Deeper(ScanFrom(text, start), p)
<1> DEFINE scan == ScanFrom(text, start)
<1>1. PICK objects \in SUBSET Braced(text) :
        /\ p \in objects
        /\ \A q \in objects : \E parts \in SUBSET Within(objects \cup Strings(text), q) :
             Enclosed(text, q, parts)
  BY DEF Objects
<1> DEFINE S == {n \in Nat : \A q \in objects :
                   q[2] - q[1] = n /\ start <= q[1] => Deeper(scan, q)}
<1>2. \A n \in Nat : (\A m \in 0..n - 1 : m \in S) => n \in S
  <2> SUFFICES ASSUME NEW n \in Nat, \A m \in 0..n - 1 : m \in S,
                      NEW q \in objects, q[2] - q[1] = n, start <= q[1]
               PROVE  Deeper(scan, q)
    OBVIOUS
  <2>1. PICK parts \in SUBSET Within(objects \cup Strings(text), q) : Enclosed(text, q, parts)
    BY <1>1
  <2>2. parts \in SUBSET Within(Spans(text), q) /\ q \in Braced(text)
    BY <1>1, <2>1 DEF Within, Braced, Strings
  <2>3. ASSUME NEW r \in parts PROVE Level(scan, r)
    <3>1. /\ q[1] < r[1] /\ r[2] < q[2] /\ r[1] < r[2]
          /\ q[1] \in Int /\ q[2] \in Int /\ r[1] \in Int /\ r[2] \in Int
          /\ r[2] \in 1..Len(text) /\ r[1] \in 1..Len(text)
      BY <2>2 DEF Within, Braced, Spans
    <3>2. start <= r[1]
      BY <3>1
    <3>3. CASE r \in Strings(text)
      <4> SUFFICES ASSUME NEW d \in Int, scan[r[1] - 1] = Plain(d)
                   PROVE  scan[r[2]] = Plain(d) /\ \A i \in r[1]..r[2] - 1 : scan[i].depth >= d
        BY DEF Level
      <4>1. scan[r[2]] = Plain(d) /\ \A i \in r[1]..r[2] - 1 : scan[i].depth = d
        BY <3>2, <3>3, StringScanned
      <4> QED BY <4>1
    <3>4. CASE r \in objects
      <4>1. r[2] - r[1] \in 0..n - 1
        BY <3>1
      <4>2. Deeper(scan, r)
        BY <3>2, <3>4, <4>1
      <4>3. ASSUME NEW i \in r[1]..r[2] - 1 PROVE scan[i].depth \in Int
        <5>1. i \in start - 1..Len(text)
          BY <3>1, <3>2
        <5> QED BY <5>1, ScanUnfolds DEF ScanStates
      <4> HIDE DEF S, scan
      <4> QED BY <4>2, <4>3 DEF Deeper, Level
    <3> QED BY <2>1, <3>3, <3>4 DEF Within
  <2> QED BY <2>1, <2>2, <2>3, EnclosedScanned
<1>3. Nat \subseteq S
  <2> HIDE DEF S
  <2> QED BY <1>2, Strong
<1>4. p \in Braced(text) /\ p[2] - p[1] \in Nat
  BY <1>1 DEF Braced, Spans
<1>5. p[2] - p[1] \in S
  BY <1>3, <1>4
<1> QED BY <1>1, <1>4, <1>5

\* The least element is the one that Min chooses.
LEMMA MinIs ==
  ASSUME NEW S \in SUBSET Int, NEW m \in S, \A n \in S : m <= n
  PROVE  Min(S) = m
<1>1. \A k \in S : (\A n \in S : k <= n) => k = m
  OBVIOUS
<1> QED BY <1>1 DEF Min

\* Min of numbers is the least of them.
LEMMA MinOf ==
  ASSUME NEW S \in SUBSET Nat, S # {}
  PROVE  Min(S) \in S /\ \A n \in S : Min(S) <= n
BY Least DEF Min

\* What is located lies in the text and ends at or after the position.
LEMMA Located ==
  ASSUME NEW text \in Seq(Bytes), NEW from \in 1..Len(text) + 1,
         LocateFrom(text, from) # NoObject
  PROVE  /\ LocateFrom(text, from) \in (1..Len(text)) \X (1..Len(text))
         /\ from <= LocateFrom(text, from)[2]
<1> DEFINE opens == {i \in from..Len(text) : text[i] = "open"}
           start == Min(opens)
           ends  == {i \in start..Len(text) : ScanFrom(text, start)[i].depth = 0}
<1>1. opens # {} /\ ends # {} /\ LocateFrom(text, from) = <<start, Min(ends)>>
  BY DEF LocateFrom
<1>2. start \in from..Len(text)
  <2>1. opens \in SUBSET Nat
    OBVIOUS
  <2>2. start \in opens
    BY <1>1, <2>1, MinOf
  <2> QED BY <2>2
<1>3. Min(ends) \in start..Len(text)
  <2>1. ends \in SUBSET Nat
    <3> HIDE DEF start
    <3>1. start \in Nat
      BY <1>2
    <3> QED BY <3>1
  <2>2. Min(ends) \in ends
    BY <1>1, <2>1, MinOf
  <2> QED BY <2>2
<1> HIDE DEF opens, ends, start
<1> QED BY <1>1, <1>2, <1>3

\* What starts at the first opening brace and is an object is located.
LEMMA ObjectLocated ==
  ASSUME NEW text \in Seq(Bytes), NEW from \in 1..Len(text) + 1,
         NEW p \in Objects(text), from <= p[1],
         \A i \in from..Len(text) : text[i] = "open" => p[1] <= i
  PROVE  LocateFrom(text, from) = p
<1> DEFINE opens == {i \in from..Len(text) : text[i] = "open"}
           start == Min(opens)
           ends  == {i \in start..Len(text) : ScanFrom(text, start)[i].depth = 0}
<1>1. /\ p \in (1..Len(text)) \X (1..Len(text)) /\ p[1] < p[2] /\ text[p[1]] = "open"
      /\ Deeper(ScanFrom(text, p[1]), p)
  <2>1. p \in Braced(text)
    BY DEF Objects
  <2>2. p \in (1..Len(text)) \X (1..Len(text)) /\ p[1] < p[2] /\ text[p[1]] = "open"
    BY <2>1 DEF Braced, Spans
  <2> QED BY <2>2, ObjectScanned
<1>2. p[1] \in opens /\ opens \in SUBSET Int /\ \A i \in opens : p[1] <= i
  BY <1>1
<1>3. start = p[1]
  <2> HIDE DEF opens
  <2> QED BY <1>2, MinIs
<1> HIDE DEF start
<1>4. /\ ScanFrom(text, start)[p[2]].depth = 0
      /\ \A i \in p[1]..p[2] - 1 : ScanFrom(text, start)[i].depth > 0
  <2>1. ScanFrom(text, start)[p[1] - 1] = Plain(0)
    BY <1>1, <1>3, ScanUnfolds DEF Scanning, Plain
  <2>2. /\ ScanFrom(text, start)[p[2]] = Plain(0)
        /\ \A i \in p[1]..p[2] - 1 : ScanFrom(text, start)[i].depth > 0
    BY <1>1, <1>3, <2>1 DEF Deeper
  <2> QED BY <2>2 DEF Plain
<1>5. p[2] \in ends /\ ends \in SUBSET Int /\ \A i \in ends : p[2] <= i
  BY <1>1, <1>3, <1>4
<1>6. Min(ends) = p[2]
  <2> HIDE DEF ends
  <2> QED BY <1>5, MinIs
<1>7. LocateFrom(text, from) = <<start, Min(ends)>>
  <2>1. opens # {} /\ ends # {}
    BY <1>2, <1>5
  <2> QED BY <2>1 DEF LocateFrom, start
<1> QED BY <1>1, <1>3, <1>6, <1>7

\* The objects of a reading from a position on.
After(objects, from) == {p \in objects : from <= p[1]}

\* No object of a reading is cut in two at the position.
Whole(objects, from) == \A p \in objects : from <= p[1] \/ p[2] < from

\* The objects of a reading are spans that begin with a brace.
LEMMA ReadingTyped ==
  ASSUME NEW text, NEW objects \in Readings(text)
  PROVE  \A p \in objects : /\ p \in Objects(text)
                            /\ p \in (1..Len(text)) \X (1..Len(text))
                            /\ p[1] < p[2] /\ text[p[1]] = "open"
BY DEF Readings, Objects, Braced, Spans

\* From a position that cuts no object, the next object is located, or
\* nothing when there is none.
LEMMA NextLocated ==
  ASSUME NEW text \in Seq(Bytes), NEW objects \in Readings(text),
         NEW from \in 1..Len(text) + 1, Whole(objects, from)
  PROVE  /\ After(objects, from) = {} => LocateFrom(text, from) = NoObject
         /\ After(objects, from) # {} =>
              /\ LocateFrom(text, from) \in After(objects, from)
              /\ \A q \in After(objects, from) : LocateFrom(text, from)[1] <= q[1]
<1> DEFINE opens == {i \in from..Len(text) : text[i] = "open"}
<1>1. \A i \in opens : \E p \in After(objects, from) : p[1] <= i
  <2> SUFFICES ASSUME NEW i \in opens PROVE \E p \in After(objects, from) : p[1] <= i
    OBVIOUS
  <2>1. PICK p \in objects : p[1] <= i /\ i <= p[2]
    BY DEF Readings, Covers
  <2>2. p[1] \in Int /\ p[2] \in Int
    BY ReadingTyped
  <2> QED BY <2>1, <2>2 DEF Whole, After
<1>2. \A p \in After(objects, from) : p[1] \in opens
  BY ReadingTyped DEF After
<1>3. CASE After(objects, from) = {}
  <2>1. opens = {}
    BY <1>1, <1>3
  <2> QED BY <1>3, <2>1 DEF LocateFrom
<1>4. CASE After(objects, from) # {}
  <2>1. PICK i \in opens : \A j \in opens : i <= j
    <3>1. opens \in SUBSET Nat /\ opens # {}
      BY <1>2, <1>4
    <3> HIDE DEF opens
    <3> QED BY <3>1, Least
  <2>2. PICK p \in After(objects, from) : p[1] <= i
    BY <1>1, <2>1
  <2>3. \A j \in opens : p[1] <= j
    BY <1>2, <2>1, <2>2
  <2>4. p \in Objects(text) /\ from <= p[1]
    BY <2>2, ReadingTyped DEF After
  <2>5. LocateFrom(text, from) = p
    BY <2>3, <2>4, ObjectLocated
  <2>6. \A q \in After(objects, from) : p[1] <= q[1]
    BY <1>2, <2>3
  <2> QED BY <1>4, <2>2, <2>5, <2>6
<1> QED BY <1>3, <1>4

\* The recursion of LastFrom is well founded: what is located ends further on.
LEMMA LastUnfolds ==
  ASSUME NEW text \in Seq(Bytes), NEW from \in 1..Len(text) + 1
  PROVE  LastFrom(text)[from] =
           LET found == LocateFrom(text, from)
               later == LastFrom(text)[found[2] + 1]
           IN IF found = NoObject THEN NoObject
              ELSE IF later = NoObject THEN found ELSE later
<1> DEFINE D       == 1..Len(text) + 1
           V       == ((1..Len(text)) \X (1..Len(text))) \cup {NoObject}
           found(i) == LocateFrom(text, i)
           size    == [i \in D |-> Len(text) + 1 - i]
           next(f) == [i \in D |->
                         IF found(i) = NoObject THEN NoObject
                         ELSE IF f[found(i)[2] + 1] = NoObject THEN found(i)
                              ELSE f[found(i)[2] + 1]]
           step    == [f \in [D -> V] |-> next(f)]
<1>1. ASSUME NEW i \in D, found(i) # NoObject
      PROVE  found(i) \in V /\ found(i)[2] + 1 \in D /\ i < found(i)[2] + 1
  <2>1. /\ found(i) \in (1..Len(text)) \X (1..Len(text))
        /\ i <= found(i)[2]
    BY <1>1, Located
  <2> HIDE DEF found
  <2> QED BY <2>1
<1> HIDE DEF found
<1>2. \A f \in [D -> V] : next(f) \in [D -> V]
  <2> SUFFICES ASSUME NEW f \in [D -> V], NEW i \in D, found(i) # NoObject,
                      f[found(i)[2] + 1] # NoObject
               PROVE  f[found(i)[2] + 1] \in V
    BY <1>1
  <2> HIDE DEF V, D
  <2> QED BY <1>1
<1>3. step \in [[D -> V] -> [D -> V]]
  BY <1>2
<1>4. size \in [D -> Nat] /\ \A i \in D : size[i] <= Len(text)
  OBVIOUS
<1>5. \A f, g \in [D -> V] : \A d \in D :
         (\A e \in D : size[e] < size[d] => f[e] = g[e]) => step[f][d] = step[g][d]
  <2> SUFFICES ASSUME NEW f \in [D -> V], NEW g \in [D -> V], NEW d \in D,
                      \A e \in D : size[e] < size[d] => f[e] = g[e]
               PROVE  step[f][d] = step[g][d]
    <3> HIDE DEF D, V, size, next, step
    <3> QED OBVIOUS
  <2> SUFFICES next(f)[d] = next(g)[d]
    <3> HIDE DEF next
    <3> QED OBVIOUS
  <2>1. CASE found(d) = NoObject
    BY <2>1
  <2>2. CASE found(d) # NoObject
    <3> DEFINE e == found(d)[2] + 1
    <3>1. e \in D /\ d < e
      BY <1>1, <2>2
    <3> HIDE DEF e
    <3>2. size[e] < size[d]
      BY <3>1
    <3>3. f[e] = g[e]
      BY <3>1, <3>2
    <3> QED BY <2>2, <3>3 DEF e
  <2> QED BY <2>1, <2>2
<1>6. \E f \in [D -> V] : step[f] = f
  <2>1. V # {} /\ Len(text) \in Nat
    OBVIOUS
  <2> HIDE DEF D, V, size, next, step
  <2>2. LooksBack(D, V, size, Len(text), step)
    BY <1>3, <1>4, <1>5, <2>1, Zenon DEF LooksBack
  <2> QED BY <2>2, Recursion
<1>7. \E f : f = next(f)
  BY <1>6
<1>8. LastFrom(text) = next(LastFrom(text))
  BY <1>7 DEF LastFrom, found
<1> HIDE DEF V
<1>9. LastFrom(text)[from] = next(LastFrom(text))[from] /\ from \in D
  BY <1>8
<1> QED BY <1>9 DEF found

\* And the last object is what the loop ends with.
LEMMA LastLocated ==
  ASSUME NEW text \in Seq(Bytes), NEW objects \in Readings(text)
  PROVE  \A from \in 1..Len(text) + 1 : Whole(objects, from) =>
           /\ After(objects, from) = {} => LastFrom(text)[from] = NoObject
           /\ After(objects, from) # {} =>
                /\ LastFrom(text)[from] \in After(objects, from)
                /\ \A q \in After(objects, from) : q[1] <= LastFrom(text)[from][1]
<1> DEFINE Right(from) ==
             Whole(objects, from) =>
               /\ After(objects, from) = {} => LastFrom(text)[from] = NoObject
               /\ After(objects, from) # {} =>
                    /\ LastFrom(text)[from] \in After(objects, from)
                    /\ \A q \in After(objects, from) : q[1] <= LastFrom(text)[from][1]
           S == {from \in 1..Len(text) + 1 : Right(from)}
<1>1. ASSUME NEW from \in 1..Len(text) + 1, \A j \in from + 1..Len(text) + 1 : Right(j)
      PROVE  Right(from)
  <2> SUFFICES ASSUME Whole(objects, from)
               PROVE  /\ After(objects, from) = {} => LastFrom(text)[from] = NoObject
                      /\ After(objects, from) # {} =>
                           /\ LastFrom(text)[from] \in After(objects, from)
                           /\ \A q \in After(objects, from) : q[1] <= LastFrom(text)[from][1]
    OBVIOUS
  <2> DEFINE p == LocateFrom(text, from)
             next == p[2] + 1
  <2>1. CASE After(objects, from) = {}
    BY <2>1, NextLocated, LastUnfolds
  <2>2. CASE After(objects, from) # {}
    <3>1. p \in After(objects, from) /\ \A q \in After(objects, from) : p[1] <= q[1]
      BY <2>2, NextLocated
    <3>2. \A q \in objects : /\ q[1] \in 1..Len(text) /\ q[2] \in 1..Len(text)
                             /\ q[1] < q[2] /\ q # NoObject
      BY ReadingTyped DEF NoObject
    <3>3. \A q, r \in objects : q # r => q[2] < r[1] \/ r[2] < q[1]
      BY DEF Readings, Apart
    <3> HIDE DEF p
    <3>4. p \in objects /\ from <= p[1] /\ next \in from + 1..Len(text) + 1
      <4>1. p \in objects /\ from <= p[1]
        BY <3>1 DEF After
      <4> QED BY <3>2, <4>1
    <3>5. \A q \in objects : q # p /\ from <= q[1] => next <= q[1]
      BY <3>1, <3>2, <3>3, <3>4 DEF After
    <3>6. Whole(objects, next)
      BY <3>2, <3>4, <3>5 DEF Whole
    <3>7. After(objects, from) = After(objects, next) \cup {p}
      BY <3>1, <3>2, <3>4, <3>5 DEF After
    <3>8. LastFrom(text)[from] = IF LastFrom(text)[next] = NoObject THEN p
                                 ELSE LastFrom(text)[next]
      BY <3>2, <3>4, LastUnfolds DEF p
    <3>9. CASE After(objects, next) = {}
      <4>1. LastFrom(text)[next] = NoObject
        BY <1>1, <3>4, <3>6, <3>9
      <4> QED BY <3>2, <3>4, <3>7, <3>8, <3>9, <4>1
    <3>10. CASE After(objects, next) # {}
      <4> DEFINE last == LastFrom(text)[next]
      <4>1. last \in After(objects, next) /\ \A q \in After(objects, next) : q[1] <= last[1]
        BY <1>1, <3>4, <3>6, <3>10
      <4> HIDE DEF last
      <4>2. last \in objects /\ next <= last[1] /\ last # NoObject
        BY <3>2, <4>1 DEF After
      <4>3. p[1] <= last[1]
        BY <3>2, <3>4, <4>2
      <4>4. LastFrom(text)[from] = last
        BY <3>8, <4>2 DEF last
      <4> QED BY <3>7, <4>1, <4>3, <4>4
    <3> QED BY <3>9, <3>10
  <2> QED BY <2>1, <2>2
<1> HIDE DEF Right
<1>2. 1..Len(text) + 1 \subseteq S
  <2>1. ASSUME NEW k \in 1..Len(text) + 1, \A j \in k + 1..Len(text) + 1 : j \in S
        PROVE  k \in S
    BY <1>1, <2>1
  <2>2. 1 \in Int /\ Len(text) + 1 \in Int
    OBVIOUS
  <2> HIDE DEF S
  <2> QED BY <2>1, <2>2, Downwards
<1>3. \A from \in 1..Len(text) + 1 : Right(from)
  BY <1>2
<1> QED BY <1>3 DEF Right

\* For every text without a stray brace the scan finds the object that a
\* reader of the grammar would take (check_consistency.rs, parse_verdict).
THEOREM ScanReadsRight ==
  ASSUME NEW content \in Seq(Bytes), NEW reasoning \in Seq(Bytes),
         NoStrayBrace(content), NoStrayBrace(reasoning)
  PROVE  VerdictSpan(content, reasoning) = ReadSpan(content, reasoning)
<1> DEFINE first == CHOOSE objects \in Readings(content) : TRUE
           other == CHOOSE objects \in Readings(reasoning) : TRUE
<1>1. first \in Readings(content) /\ other \in Readings(reasoning)
  BY DEF NoStrayBrace
<1> HIDE DEF first, other
<1>2. ASSUME NEW text \in Seq(Bytes), NEW objects \in Readings(text)
      PROVE  /\ Whole(objects, 1) /\ After(objects, 1) = objects
             /\ 1 \in 1..Len(text) + 1 /\ NoObject \notin objects
             /\ \A p, q \in objects : p[1] = q[1] => p = q
             /\ \A p \in objects : p[1] \in Int
  <2>1. \A p \in objects : /\ p \in (1..Len(text)) \X (1..Len(text)) /\ p[1] < p[2]
    BY <1>2, ReadingTyped
  <2>2. \A p \in objects : p[1] \in 1..Len(text) /\ p[2] \in 1..Len(text)
    BY <2>1
  <2>3. \A p, q \in objects : p # q => p[2] < q[1] \/ q[2] < p[1]
    BY <1>2 DEF Readings, Apart
  <2>4. Whole(objects, 1) /\ After(objects, 1) = objects
    BY <2>2 DEF Whole, After
  <2>5. NoObject \notin objects
    BY <2>2 DEF NoObject
  <2>6. ASSUME NEW p \in objects, NEW q \in objects, p[1] = q[1] PROVE p = q
    <3>1. p # q => p[2] < q[1] \/ q[2] < p[1]
      BY <2>3
    <3>2. /\ p[1] \in Int /\ p[2] \in Int /\ p[1] < p[2]
          /\ q[1] \in Int /\ q[2] \in Int /\ q[1] < q[2]
      BY <2>1, <2>2
    <3> QED BY <2>6, <3>1, <3>2
  <2> QED BY <2>2, <2>4, <2>5, <2>6
<1>3. /\ first = {} => Locate(content) = NoObject
      /\ first # {} => /\ Locate(content) # NoObject
                       /\ Locate(content) = CHOOSE p \in first : \A q \in first : p[1] <= q[1]
  <2>1. CASE first = {}
    BY <1>1, <1>2, <2>1, NextLocated DEF Locate
  <2>2. CASE first # {}
    <3> DEFINE p == Locate(content)
    <3>1. p \in first /\ \A q \in first : p[1] <= q[1]
      BY <1>1, <1>2, <2>2, NextLocated DEF Locate
    <3> HIDE DEF p
    <3>2. \A r \in first : (\A q \in first : r[1] <= q[1]) => r = p
      BY <1>1, <1>2, <3>1
    <3>3. p # NoObject
      BY <1>1, <1>2, <3>1
    <3>4. p = CHOOSE r \in first : \A q \in first : r[1] <= q[1]
      BY <3>1, <3>2
    <3> QED BY <2>2, <3>3, <3>4 DEF p
  <2> QED BY <2>1, <2>2
<1>4. /\ other = {} => LocateLast(reasoning) = NoObject
      /\ other # {} => LocateLast(reasoning) =
           CHOOSE p \in other : \A q \in other : q[1] <= p[1]
  <2>1. CASE other = {}
    BY <1>1, <1>2, <2>1, LastLocated DEF LocateLast
  <2>2. CASE other # {}
    <3> DEFINE p == LocateLast(reasoning)
    <3>1. p \in other /\ \A q \in other : q[1] <= p[1]
      BY <1>1, <1>2, <2>2, LastLocated DEF LocateLast
    <3> HIDE DEF p
    <3>2. \A r \in other : (\A q \in other : q[1] <= r[1]) => r = p
      BY <1>1, <1>2, <3>1
    <3>3. p = CHOOSE r \in other : \A q \in other : q[1] <= r[1]
      BY <3>1, <3>2
    <3> QED BY <2>2, <3>3 DEF p
  <2> QED BY <2>1, <2>2
<1> QED BY <1>3, <1>4 DEF VerdictSpan, ReadSpan, first, other

\* A verdict pass looks for the verdict in the answer it got; no other step
\* touches either.
LEMMA AnswerSound ==
  ASSUME PipelineTypeOK, Accounts, Answered,
         NEW answers \in SUBSET Answers, PipelineStep(answers)
  PROVE  Answered'
<1>1. pass \in Passes
  BY PassesInOrder
<1>2. answer = NoAnswer /\ located = Nowhere
  BY <1>1 DEF Answered, Passes
<1>3. CASE VerdictAnswered(answers)
  <2>1. answer' \in answers
    BY <1>3, Zenon DEF VerdictAnswered
  <2>2. answer'.content \in Texts /\ answer'.reasoning \in Texts
    BY <2>1 DEF Answers
  <2>3. answer'.content \in Seq(Bytes) /\ answer'.reasoning \in Seq(Bytes)
    BY <2>2, TextsAssumption, Zenon
  <2>4. pass' \in {"done", "failed"} /\ located' = Verdict(answer')
    <3> DEFINE found == VerdictSpan(answer'.content, answer'.reasoning)
    <3>1. IF found.span = NoObject
          THEN pass' = "failed" /\ UNCHANGED located
          ELSE pass' \in {"done", "failed"} /\ located' = found
      BY <1>3, Zenon DEF VerdictAnswered
    <3>2. Verdict(answer') = IF found.span = NoObject THEN Nowhere ELSE found
      BY DEF Verdict
    <3> HIDE DEF found
    <3> QED BY <1>2, <3>1, <3>2
  <2> QED BY <2>3, <2>4 DEF Answered
<1>4. CASE ~VerdictAnswered(answers)
  <2>1. answer' = answer /\ located' = located
    BY <1>4 DEF PipelineStep, PreparationFails, PostChat, PostFails, Transcribed,
       Structured, NoToolCall, BadArguments, ImageDescribed, AllDescribed
  <2> QED BY <1>2, <2>1 DEF Answered
<1> QED BY <1>3, <1>4

-----------------------------------------------------------------------------
LEMMA InitSound == Init => Sound
<1> SUFFICES ASSUME Init PROVE Sound
  OBVIOUS
<1> USE RatesAssumption, SamplesAssumption, ChunksAssumption, RetriesAssumption
    DEF Init, RecorderInit, PipelineInit, NoSummary
<1>1. TypeOK
  <2>1. RecorderTypeOK
    <3>1. 0 \in 0..MaxChunks /\ summary \in [ok : BOOLEAN, samples : Nat]
      OBVIOUS
    <3> QED BY <3>1 DEF RecorderTypeOK
  <2>2. 0 \in Attempts /\ 0 \in 0..MaxImages /\ 0 \in 0..MaxRequests - 1
    BY DEF Attempts, MaxRequests
  <2>3. PipelineTypeOK
    BY <2>2 DEF PipelineTypeOK, NoPrompt
  <2> QED BY <2>1, <2>3 DEF TypeOK
<1>2. Written
  BY DEF Written, Locked
<1>3. Drift
  BY DEF Drift, Settled
<1>4. Analysed
  BY DEF Analysed
<1>5. Accounts
  BY DEF Accounts, Out, Passes
<1>6. Repairs
  BY DEF Repairs, NoPrompt
<1>7. Answered
  BY DEF Answered, NoAnswer
<1> QED BY <1>1, <1>2, <1>3, <1>4, <1>5, <1>6, <1>7 DEF Sound

LEMMA StepSound == Sound /\ [Next]_vars => Sound'
<1> SUFFICES ASSUME Sound, [Next]_vars PROVE Sound'
  OBVIOUS
<1> USE DEF Sound
<1>1. CASE Record
  <2>1. RecorderStep /\ UNCHANGED <<pipeline, hashed, heard>>
    BY <1>1 DEF Record
  <2>2. RecorderTypeOK' /\ Written' /\ (summary.ok => summary' = summary /\ file' = file)
    BY <2>1, RecorderSound DEF TypeOK
  <2>3. Drift'
    BY <2>1, DriftSound DEF TypeOK
  <2>4. PipelineTypeOK' /\ Accounts' /\ Repairs' /\ UNCHANGED <<pass, hashed, heard>>
    BY <2>1 DEF pipeline, TypeOK, PipelineTypeOK, Accounts, Out, Repairs
  <2>5. TypeOK'
    BY <2>1, <2>2, <2>4 DEF TypeOK
  <2>6. Analysed'
    BY <2>2, <2>4 DEF Analysed
  <2>7. Answered'
    BY <2>1 DEF pipeline, Answered
  <2> QED BY <2>2, <2>3, <2>4, <2>5, <2>6, <2>7
<1>2. CASE Begin
  <2>1. /\ summary.ok /\ recorder = "finished" /\ pass = "idle" /\ pass' = "transcribe"
        /\ images' \in 0..MaxImages /\ hashed' = file /\ heard' = heard
        /\ UNCHANGED <<posted, attempt, lastRaw, lastError, prompt, requests,
                       described, toolCall>>
    BY <1>2 DEF Begin, CapturedAudio, BeginPipeline
  <2>2. RecorderTypeOK' /\ Written' /\ Drift' /\ UNCHANGED <<summary, file>>
    BY <1>2 DEF Begin, recording, TypeOK, RecorderTypeOK, Written, Locked, Drift, Settled
  <2>3. PipelineTypeOK'
    BY <2>1 DEF TypeOK, PipelineTypeOK, Passes
  <2>4. Accounts'
    <3>1. ~posted /\ attempt = 0 /\ described = 0 /\ requests = 0
      BY <2>1 DEF Accounts, Passes
    <3>2. images' \in Nat /\ images' <= MaxImages
      BY <2>1, RetriesAssumption
    <3>3. ~(0 > MaxRetries)
      BY RetriesAssumption
    <3>4. ~posted' /\ attempt' = 0 /\ described' = 0 /\ requests' = 0 /\ pass' = "transcribe"
      BY <2>1, <3>1
    <3> QED BY <3>2, <3>3, <3>4 DEF Accounts, Out, Passes
  <2>5. Repairs'
    BY <2>1 DEF Repairs
  <2>6. TypeOK' /\ Analysed'
    BY <2>1, <2>2, <2>3 DEF TypeOK, RecorderTypeOK, Analysed
  <2>7. Answered'
    <3>1. UNCHANGED <<answer, located>>
      BY <1>2 DEF Begin, BeginPipeline
    <3> QED BY <2>1, <3>1 DEF Answered
  <2> QED BY <2>2, <2>3, <2>4, <2>5, <2>6, <2>7
<1>3. CASE Infer
  <2>1. /\ PipelineStep(Tried) /\ UNCHANGED recording /\ hashed' = hashed
        /\ heard' = IF pass = "transcribe" /\ pass' = "structure" THEN file ELSE heard
    BY <1>3 DEF Infer
  <2>2. PipelineTypeOK' /\ Accounts' /\ Repairs'
    BY <2>1, PipelineSound DEF TypeOK
  <2>3. RecorderTypeOK' /\ Written' /\ Drift' /\ UNCHANGED <<summary, file>>
    BY <2>1 DEF recording, TypeOK, RecorderTypeOK, Written, Locked, Drift, Settled
  <2>4. /\ pass \in Passes
        /\ pass' \in Passes \cup {"done", "failed"}
        /\ pass = "transcribe" => pass' \in {"transcribe", "structure", "failed"}
    BY <2>1, PassesInOrder DEF TypeOK
  <2>5. Analysed'
    BY <2>1, <2>3, <2>4 DEF Analysed, Passes
  <2>6. TypeOK'
    BY <2>1, <2>2, <2>3 DEF TypeOK, RecorderTypeOK
  <2>7. Answered'
    <3>1. Tried \in SUBSET Answers
      <4>1. ASSUME NEW a \in Tried PROVE a \in Answers
        <5>1. \/ a \in [content : ShortTexts, reasoning : Texts]
              \/ a \in [content : Texts, reasoning : ShortTexts]
              \/ a \in [content : ShortTexts, reasoning : ShortTexts]
          BY <4>1, Zenon DEF Tried
        <5> QED BY <5>1, ShortTextsAssumption DEF Answers
      <4> QED BY <4>1
    <3> QED BY <2>1, <3>1, AnswerSound DEF TypeOK
  <2> QED BY <2>2, <2>3, <2>5, <2>6, <2>7
<1>4. CASE UNCHANGED vars
  BY <1>4 DEF vars, recording, pipeline, TypeOK, RecorderTypeOK, PipelineTypeOK,
     Written, Locked, Drift, Settled, Analysed, Accounts, Out, Repairs, Answered
<1> QED BY <1>1, <1>2, <1>3, <1>4 DEF Next

LEMMA AlwaysSound == Spec => []Sound
BY InitSound, StepSound, PTL DEF Spec

-----------------------------------------------------------------------------
(* The properties.                                                         *)

\* Recorder and client keep their types, the count of requests its bound,
\* for every rate, cap, number of retries and of images.
THEOREM RunTyped == Spec => []TypeOK
BY AlwaysSound, PTL DEF Sound

\* A successful stop reports exactly the samples of the file, passes over no
\* stream error that was stored when it looked, and the cap holds, whatever
\* the audio thread and the error callback do around and inside the stop
\* (audio.rs, finish and err_fn).
THEOREM Reported == Spec => []ReportedIsRecorded
<1>1. Sound => ReportedIsRecorded
  BY DEF Sound, Written, ReportedIsRecorded
<1> QED BY AlwaysSound, <1>1, PTL

\* Rounding chunk by chunk never adds up to more than half a sample per
\* chunk, at any pair of rates (audio.rs, resample_linear).
THEOREM DriftIsBounded == Spec => []DriftBounded
<1>1. Sound => DriftBounded
  <2> SUFFICES ASSUME Sound, ~lost, written < MaxSamples
               PROVE  /\ 2 * (file * SourceRate) <= 2 * (frames * TargetRate) + chunks * SourceRate
                      /\ 2 * (frames * TargetRate) <= 2 * (file * SourceRate) + chunks * SourceRate
    BY DEF DriftBounded, Twice
  <2> USE RatesAssumption DEF Sound, TypeOK, RecorderTypeOK
  <2>1. /\ file * SourceRate \in Nat /\ frames * TargetRate \in Nat
        /\ chunks * SourceRate \in Nat
    BY DEF Sound
  <2>2. Settled \in Nat /\ (Settled = chunks \/ chunks = Settled + 1)
    BY ChunksAssumption DEF Drift, Settled
  <2>3. (Settled + 1) * SourceRate = Settled * SourceRate + SourceRate
    BY <2>2, OneMore
  <2>4. Settled * SourceRate \in Nat /\ Settled * SourceRate <= chunks * SourceRate
    BY <2>1, <2>2, <2>3
  <2> QED BY <2>1, <2>4 DEF Drift
<1> QED BY AlwaysSound, <1>1, PTL

\* What is hashed and what the sidecar hears is the recording as reported
\* (transcribe.rs, transcribe).
THEOREM AnalysedReported == Spec => []AnalysedIsWhatWasReported
<1>1. Sound => AnalysedIsWhatWasReported
  BY DEF Sound, Written, Analysed, AnalysedIsWhatWasReported
<1> QED BY AlwaysSound, <1>1, PTL

\* A repair prompt is about the latest arguments and the latest error, for
\* every number of retries (client.rs, structure_incident).
THEOREM RepairsQuoteLatest == Spec => []RepairQuotesLatest
<1>1. Sound => RepairQuotesLatest
  BY DEF Sound, Repairs, RepairQuotesLatest
<1> QED BY AlwaysSound, <1>1, PTL

\* The requests of a run are exactly those its passes, attempts and images
\* call for (pipeline.rs, client.rs).
THEOREM RequestsAreAccounted == Spec => []RequestsAccounted
<1>1. Sound => RequestsAccounted
  BY RetriesAssumption DEF Sound, TypeOK, PipelineTypeOK, Attempts, Accounts, RequestsAccounted
<1> QED BY AlwaysSound, <1>1, PTL

\* Whatever a sidecar answers, the verdict is read from the object a reader
\* would take, whatever set of texts Texts and ShortTexts are, that of all
\* texts included: content and thinking channel may both be anything then
\* (check_consistency.rs, parse_verdict).
THEOREM VerdictReadRight == Spec => []VerdictIsReadRight
<1>1. Sound => VerdictIsReadRight
  <2> SUFFICES ASSUME Sound, answer # NoAnswer,
                      NoStrayBrace(answer.content), NoStrayBrace(answer.reasoning)
               PROVE  LET read == ReadSpan(answer.content, answer.reasoning)
                      IN located = IF read.span = NoObject THEN Nowhere ELSE read
    BY DEF VerdictIsReadRight
  <2>1. VerdictSpan(answer.content, answer.reasoning) = ReadSpan(answer.content, answer.reasoning)
    BY ScanReadsRight DEF Sound, Answered
  <2> QED BY <2>1 DEF Sound, Answered, Verdict
<1> QED BY AlwaysSound, <1>1, PTL

\* Whatever the sidecar answers, a run has only so many steps: each takes
\* one away, and none are left exactly when it is over.  With requests that
\* end, which WF_vars(Infer) says, PipelineEnds follows (client.rs,
\* structure_incident; pipeline.rs, run_full_pipeline).
THEOREM RunsAreFinite ==
  Spec => [][Infer => /\ StepsLeft \in 1..2 * (MaxRetries + MaxImages) + 7
                      /\ StepsLeft' \in 0..StepsLeft - 1
                      /\ StepsLeft' = 0 <=> pass' \in {"done", "failed"}]_vars
<1>1. Sound /\ [Next]_vars =>
        [Infer => /\ StepsLeft \in 1..2 * (MaxRetries + MaxImages) + 7
                  /\ StepsLeft' \in 0..StepsLeft - 1
                  /\ StepsLeft' = 0 <=> pass' \in {"done", "failed"}]_vars
  <2> SUFFICES ASSUME Sound, Infer
               PROVE  /\ StepsLeft \in 1..2 * (MaxRetries + MaxImages) + 7
                      /\ StepsLeft' \in 0..StepsLeft - 1
                      /\ StepsLeft' = 0 <=> pass' \in {"done", "failed"}
    OBVIOUS
  <2>1. PipelineStep(Tried)
    BY DEF Infer
  <2> QED BY <2>1, StepsRunOut DEF Sound, TypeOK
<1> QED BY AlwaysSound, <1>1, PTL DEF Spec

\* A recording that was reported is final: no step of the audio thread, of
\* another stop or of the inference changes the file or what was said of it
\* (audio.rs, finish).
THEOREM ReportedStays == Spec => [][summary.ok => UNCHANGED <<summary, file>>]_vars
<1>1. Sound /\ [Next]_vars => [summary.ok => UNCHANGED <<summary, file>>]_vars
  <2> SUFFICES ASSUME Sound, Next, summary.ok PROVE UNCHANGED <<summary, file>>
    OBVIOUS
  <2>1. CASE Record
    BY <2>1, RecorderSound DEF Record, Sound, TypeOK
  <2>2. CASE Begin \/ Infer
    BY <2>2 DEF Begin, Infer, recording
  <2> QED BY <2>1, <2>2 DEF Next
<1> QED BY AlwaysSound, <1>1, PTL DEF Spec
=============================================================================
