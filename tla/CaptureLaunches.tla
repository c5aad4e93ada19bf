---------------------------- MODULE CaptureLaunches ----------------------------
(***************************************************************************)
(* Launches of the capture app side by side, and the seals made in them:   *)
(* each seal chooses its signer, asks whatever sidecar has the port for    *)
(* its model, and signs.  The instances share the keychain, the port and   *)
(* the PID files, and nothing else.                                        *)
(***************************************************************************)
EXTENDS DeviceKey, SidecarLifecycle

CONSTANTS
  Models,         \* ids of models
  ModelEnv,       \* GW_SIDECAR_MODEL of each launcher, or Unset
  Unset,          \* the variable is not set
  DefaultModel,   \* per kind, the default of its script; DEFAULT_MODEL of
                  \* the client is that of mlx
  InCache,        \* models in the Hugging Face cache
  Registry,       \* rows <<model, revision>> of the registry with a hash
  Pinned, Main,   \* the revision pinned in the code, and "main"
  MaxSeals,       \* bound: seals of all instances
  MaxTasks,       \* bound: seals, scripts run by hand and stops under
                  \* way, together
  MaxFaults       \* bound: things that go wrong

ASSUME ModelsAssumption ==
  /\ Signers = Apps
  /\ Unset \notin Models
  /\ ModelEnv \in [Launchers -> Models \cup {Unset}]
  /\ DefaultModel \in [Kinds -> Models]
  /\ InCache \subseteq Models
  /\ MaxSeals \in Nat /\ MaxTasks \in Nat /\ MaxFaults \in Nat

VARIABLES
  asked,    \* per instance: the model its seal was told of, and by whom
  \* history
  unknown,  \* models for which the registry had no row
  seals,    \* seals begun
  faults    \* things that went wrong

vars == <<keys, sidecars, asked, unknown, seals, faults>>

NoAnswer == [model |-> Unset, by |-> Nobody]

Init ==
  /\ KeyInit
  /\ SidecarInit
  /\ asked = [a \in Apps |-> NoAnswer]
  /\ unknown = {}
  /\ seals = 0
  /\ faults = 0

-----------------------------------------------------------------------------
\* The model a launcher's server was started with.
Served(l) == IF ModelEnv[l] # Unset THEN ModelEnv[l] ELSE DefaultModel[Kind[l]]

\* GET /v1/models: mlx lists what is in the cache, mistralrs what it serves.
Listed(l) == {Served(l)} \cup (IF Kind[l] = "mlx" THEN InCache ELSE {})

Configured(a) ==
  IF ModelEnv[a] # Unset THEN ModelEnv[a] ELSE DefaultModel["mlx"]

\* Slip: the compiled default comes before the environment's model.
DefaultFirst(ids, configured) ==
  IF DefaultModel["mlx"] \in ids THEN {DefaultModel["mlx"]}
  ELSE ids \cap {configured}

\* fetch_active_model_id, as the set of its result, empty for an error.
ActiveModel(ids, configured) ==
  IF configured \in ids THEN {configured}
  ELSE IF Cardinality(ids) = 1 THEN ids
  ELSE {}

\* revision_for_model_id.
RevisionFor(m) == IF m = DefaultModel["mlx"] THEN Pinned ELSE Main

\* witness_fingerprints::lookup.
Lookup(m) == {row \in Registry : row = <<m, RevisionFor(m)>>}

-----------------------------------------------------------------------------
(* A seal, from choose_signer on; one at a time in each instance.          *)

Tasks == seals + Cardinality({o \in Operators : script[o] # "none"})
               + Cardinality({k \in Kinds : stopping[k] # Nobody})

BeginSeal(a) ==
  /\ app[a] = "up"
  /\ seals < MaxSeals /\ Tasks < MaxTasks
  /\ seals' = seals + 1
  /\ ChooseSigner(a)
  /\ UNCHANGED <<sidecars, asked, unknown, faults>>

LoadKey(a) ==
  /\ LoadStep(a)
  /\ UNCHANGED <<sidecars, asked, unknown, seals, faults>>

AskModel(a) ==
  /\ use[a].at = "public"
  /\ asked[a] = NoAnswer
  /\ port # Nobody
  /\ \E m \in ActiveModel(Listed(port), Configured(a)) :
       asked' = [asked EXCEPT ![a] = [model |-> m, by |-> port]]
  /\ UNCHANGED <<keys, sidecars, unknown, seals, faults>>

\* No row for it: "not in the pinned fingerprint registry".
ModelUnknown(a) ==
  /\ asked[a] # NoAnswer
  /\ Lookup(asked[a].model) = {}
  /\ unknown' = unknown \cup {asked[a].model}
  /\ DropSigner(a)
  /\ asked' = [asked EXCEPT ![a] = NoAnswer]
  /\ UNCHANGED <<sidecars, seals, faults>>

\* No answer or none that names a model, weights on disk that are others,
\* pins that do not fit, a signer that has no key: the seal is over.
RefuseSeal(a) ==
  /\ use[a].at = "public"
  /\ DropSigner(a)
  /\ asked' = [asked EXCEPT ![a] = NoAnswer]
  /\ UNCHANGED <<sidecars, unknown, seals, faults>>

BeginSign(a) ==
  /\ asked[a] # NoAnswer
  /\ Lookup(asked[a].model) # {}
  /\ CallSign(a)
  /\ UNCHANGED <<sidecars, asked, unknown, seals, faults>>

FinishSeal(a) ==
  /\ Sign(a)
  /\ asked' = [asked EXCEPT ![a] = NoAnswer]
  /\ UNCHANGED <<sidecars, unknown, seals, faults>>

SealStep(a) ==
  \/ LoadKey(a) \/ AskModel(a) \/ ModelUnknown(a) \/ RefuseSeal(a)
  \/ BeginSign(a) \/ FinishSeal(a)

\* A seal goes with its instance.
WithTheirSeals ==
  /\ use' = [a \in Apps |-> IF app'[a] = "up" THEN use[a] ELSE NoUse]
  /\ asked' = [a \in Apps |-> IF app'[a] = "up" THEN asked[a] ELSE NoAnswer]
  /\ UNCHANGED <<keychain, signed, created, stored, deletions, crossings,
                 unknown, seals>>

Lifecycle ==
  /\ SidecarStep
  /\ WithTheirSeals
  /\ Tasks' <= MaxTasks
  /\ UNCHANGED faults

Fault ==
  /\ faults < MaxFaults
  /\ faults' = faults + 1
  /\ \/ KeyFault /\ UNCHANGED <<sidecars, asked, unknown, seals>>
     \/ SidecarFault /\ WithTheirSeals

Next ==
  \/ \E a \in Apps : BeginSeal(a) \/ SealStep(a)
  \/ Lifecycle
  \/ Fault

Spec == Init /\ [][Next]_vars

-----------------------------------------------------------------------------
TypeOK ==
  /\ KeyTypeOK
  /\ SidecarTypeOK
  /\ asked \in [Apps -> [model : Models \cup {Unset},
                         by : Launchers \cup {Nobody}]]
  /\ unknown \subseteq Models
  /\ seals \in 0..MaxSeals /\ faults \in 0..MaxFaults

\* An instance whose own sidecar answers names the model that sidecar was
\* started with, although mlx lists every model of the cache and the
\* defaults of scripts and client differ; and whoever is answered by a
\* mistralrs server names its model (http.rs, fetch_active_model_id).
ModelNamedRightly ==
  \A a \in Apps :
    LET l == asked[a].by
    IN l # Nobody /\ (l = a \/ Kind[l] = "mistralrs") =>
         asked[a].model = Served(l)

-----------------------------------------------------------------------------
(* What the repository says and the code does not do.                      *)

\* A model that the registry has a row for is not refused as unknown ("The
\* capture app uses that string to pick the matching fingerprint registry
\* entry", mistralrs-sidecar README; seal_commands.rs,
\* revision_for_model_id).
RegisteredModelResolves ==
  \A m \in unknown : ~\E row \in Registry : row[1] = m
=============================================================================
