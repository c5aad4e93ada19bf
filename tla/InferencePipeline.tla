-------------------------- MODULE InferencePipeline --------------------------
(***************************************************************************)
(* The inference client (crates/witness-inference): the four passes of     *)
(* run_full_pipeline, one request at a time to a sidecar that may answer   *)
(* anything or nothing, and the retries of the structuring pass.           *)
(*                                                                         *)
(* A tool call is the number of the attempt that made it, a validator      *)
(* error the number of the attempt it is about; 0 is none.  What the       *)
(* model writes is kept only where the verdict is looked for.              *)
(***************************************************************************)
EXTENDS Naturals, VerdictObject

CONSTANTS
  MaxRetries,  \* DEFAULT_MAX_RETRIES
  MaxImages,   \* bound: images of a run
  Texts        \* what the model may write as content or thinking channel

ASSUME RetriesAssumption ==
  MaxRetries \in Nat /\ MaxImages \in Nat
ASSUME TextsAssumption == Texts \subseteq Seq(Bytes)

VARIABLES
  pass,       \* where run_full_pipeline is
  posted,     \* a request is out
  images,     \* images still to be described
  attempt,    \* attempts of structure_incident so far
  lastRaw,    \* attempt whose arguments are in last_raw
  lastError,  \* attempt whose error is in last_error
  prompt,     \* what the request that is out quotes of the two
  answer,     \* content and reasoning of the verdict pass, once answered
  located,    \* where the verdict was read in them
  \* history
  requests,   \* requests posted
  described,  \* images described
  toolCall    \* latest attempt that made a tool call

pipeline == <<pass, posted, images, attempt, lastRaw, lastError, prompt,
              answer, located, requests, described, toolCall>>

Passes   == {"transcribe", "structure", "images", "verdict"}
Answers  == [content : Texts, reasoning : Texts]
NoAnswer == [content |-> <<>>, reasoning |-> <<>>]
NoPrompt == [raw |-> 0, error |-> 0]
Nowhere  == [of |-> "none", span |-> NoObject]

\* Bound: the count of requests stops one past what any run may post.
MaxRequests == MaxRetries + MaxImages + 4

PipelineInit ==
  /\ pass = "idle"
  /\ posted = FALSE
  /\ images = 0
  /\ attempt = 0
  /\ lastRaw = 0
  /\ lastError = 0
  /\ prompt = NoPrompt
  /\ answer = NoAnswer
  /\ located = Nowhere
  /\ requests = 0
  /\ described = 0
  /\ toolCall = 0

-----------------------------------------------------------------------------
BeginPipeline ==
  /\ pass = "idle"
  /\ pass' = "transcribe"
  /\ images' \in 0..MaxImages
  /\ UNCHANGED <<posted, attempt, lastRaw, lastError, prompt, answer,
                 located, requests, described, toolCall>>

\* Before its first post a pass reads and hashes its file, compiles the
\* schema, builds its client: when one of these fails the run is over.
PreparationFails ==
  /\ pass \in Passes
  /\ ~posted
  /\ pass = "structure" => attempt = 0
  /\ pass = "images" => images > 0
  /\ pass' = "failed"
  /\ UNCHANGED <<posted, images, attempt, lastRaw, lastError, prompt,
                 answer, located, requests, described, toolCall>>

\* build_request quotes the last arguments, if there are any, and with them
\* the last error.
BuildRequest == IF lastRaw = 0 THEN NoPrompt
                ELSE [raw |-> lastRaw, error |-> lastError]

PostChat ==
  /\ pass \in Passes
  /\ pass = "images" => images > 0
  /\ ~posted
  /\ posted' = TRUE
  /\ requests' = IF requests < MaxRequests THEN requests + 1 ELSE requests
  /\ prompt' = IF pass = "structure" THEN BuildRequest ELSE NoPrompt
  /\ UNCHANGED <<pass, images, attempt, lastRaw, lastError, answer, located,
                 described, toolCall>>

\* Refused, cut off by a timeout, over MAX_RESPONSE_BYTES, a bad status, no
\* JSON, or without the field a pass needs: the run is over.
PostFails ==
  /\ posted
  /\ posted' = FALSE
  /\ pass' = "failed"
  /\ UNCHANGED <<images, attempt, lastRaw, lastError, prompt, answer,
                 located, requests, described, toolCall>>

Transcribed ==
  /\ pass = "transcribe" /\ posted
  /\ posted' = FALSE
  /\ pass' = "structure"
  /\ UNCHANGED <<images, attempt, lastRaw, lastError, prompt, answer,
                 located, requests, described, toolCall>>

Structured ==
  /\ pass = "structure" /\ posted
  /\ posted' = FALSE
  /\ pass' = "images"
  /\ toolCall' = attempt + 1
  /\ lastRaw' = attempt + 1
  /\ UNCHANGED <<images, attempt, lastError, prompt, answer, located,
                 requests, described>>

\* Slip: an answer without a tool call is not counted as an attempt.
UncountedAttempt ==
  /\ lastError' = attempt + 1
  /\ UNCHANGED <<attempt, pass>>

\* An attempt is over: the next one, or SchemaInvalid after the last.
AttemptFails ==
  /\ attempt' = attempt + 1
  /\ lastError' = attempt + 1
  /\ pass' = IF attempt < MaxRetries THEN "structure" ELSE "failed"

NoToolCall ==
  /\ pass = "structure" /\ posted
  /\ posted' = FALSE
  /\ AttemptFails
  /\ UNCHANGED <<images, lastRaw, prompt, answer, located, requests,
                 described, toolCall>>

\* Slip: arguments are remembered only once they parse.
KeepsOldArguments ==
  /\ pass = "structure" /\ posted
  /\ posted' = FALSE
  /\ AttemptFails
  /\ toolCall' = attempt + 1
  /\ lastRaw' \in {lastRaw, attempt + 1}
  /\ UNCHANGED <<images, prompt, answer, located, requests, described>>

\* Arguments that are no JSON, do not meet the schema, or not the type.
BadArguments ==
  /\ pass = "structure" /\ posted
  /\ posted' = FALSE
  /\ AttemptFails
  /\ toolCall' = attempt + 1
  /\ lastRaw' = attempt + 1
  /\ UNCHANGED <<images, prompt, answer, located, requests, described>>

ImageDescribed ==
  /\ pass = "images" /\ posted
  /\ posted' = FALSE
  /\ images' = images - 1
  /\ described' = described + 1
  /\ UNCHANGED <<pass, attempt, lastRaw, lastError, prompt, answer, located,
                 requests, toolCall>>

AllDescribed ==
  /\ pass = "images" /\ images = 0
  /\ pass' = "verdict"
  /\ UNCHANGED <<posted, images, attempt, lastRaw, lastError, prompt, answer,
                 located, requests, described, toolCall>>

\* The thinking channel must be there, if empty; content that is missing is
\* taken for empty; a model that thinks aloud fills both.  Then
\* parse_verdict: without an object the run fails; with one, it also has to
\* be of the type and its label one of ALLOWED_VERDICTS.
VerdictAnswered(answers) ==
  /\ pass = "verdict" /\ posted
  /\ posted' = FALSE
  /\ answer' \in answers
  /\ LET found == VerdictSpan(answer'.content, answer'.reasoning)
     IN IF found.span = NoObject
        THEN pass' = "failed" /\ UNCHANGED located
        ELSE pass' \in {"done", "failed"} /\ located' = found
  /\ UNCHANGED <<images, attempt, lastRaw, lastError, prompt, requests,
                 described, toolCall>>

PipelineStep(answers) ==
  \/ PreparationFails \/ PostChat \/ PostFails \/ Transcribed
  \/ Structured \/ NoToolCall \/ BadArguments
  \/ ImageDescribed \/ AllDescribed \/ VerdictAnswered(answers)

-----------------------------------------------------------------------------
Attempts == 0..MaxRetries + 1

PipelineTypeOK ==
  /\ pass \in Passes \cup {"idle", "done", "failed"}
  /\ posted \in BOOLEAN
  /\ images \in 0..MaxImages /\ described \in 0..MaxImages
  /\ attempt \in Attempts
  /\ lastRaw \in Attempts /\ lastError \in Attempts
  /\ toolCall \in Attempts
  /\ prompt \in [raw : Attempts, error : Attempts]
  /\ requests \in 0..MaxRequests - 1

\* A repair prompt quotes the latest arguments the model gave and the
\* error of the attempt just made, so never an error older than the
\* arguments it stands under (client.rs, structure_incident).
RepairQuotesLatest ==
  prompt # NoPrompt => /\ prompt.raw = toolCall \/ ~posted
                       /\ prompt.error >= prompt.raw
                       /\ posted => prompt.error = attempt

\* Every pass has posted exactly the requests it may when a run is done:
\* one for the transcript, one per attempt up to the one that held, one per
\* image, one for the verdict; and when the attempts have run out, nothing
\* came after the last of them (pipeline.rs, client.rs).
RequestsAccounted ==
  /\ pass = "done" => requests = attempt + described + 3
  /\ attempt > MaxRetries => requests = MaxRetries + 2 /\ pass = "failed"

\* When no brace is left open in what the model wrote, the verdict is read
\* from the object a reader would take: the first of the content, or else
\* the last of the thinking channel, whatever strings and escapes it has in
\* it (check_consistency.rs, parse_verdict).
VerdictIsReadRight ==
  (/\ pass \in {"done", "failed"}
   /\ answer # NoAnswer
   /\ NoStrayBrace(answer.content)
   /\ NoStrayBrace(answer.reasoning)) =>
     LET read == ReadSpan(answer.content, answer.reasoning)
     IN located = IF read.span = NoObject THEN Nowhere ELSE read
=============================================================================
