------------------------------ MODULE Providers ------------------------------
(***************************************************************************)
(* One provider endpoint, its credential and one of its models             *)
(* (internal/providers).  Operators edit them; a discovery asks the         *)
(* endpoint for its models and a probe tries what the model can do.  Both   *)
(* are captures: they record the versions they are about, a durable job     *)
(* executes them outside any transaction, and the completion decides under  *)
(* the locks of the rows whether what was found still applies.              *)
(*                                                                         *)
(* Capture i is executed by job i, used as module JobLifecycle specifies.   *)
(* A command with a stale expected version is refused and changes nothing,  *)
(* so every command here expects the current one.  The settings of a model  *)
(* are the capabilities a probe can find, each with its origin; whether the *)
(* other settings allow an assignment is the field "complete".              *)
(***************************************************************************)
EXTENDS Naturals, FiniteSets

CONSTANTS ProviderWorkers,
          Capabilities,      \* what a probe can find: streaming, tools, structured output
          Needed,            \* the capabilities a documentation model must have
          DiscoveryAttempts, \* max_attempts of a discovery job (3 in the code)
          MaxCaptures,       \* bound: captures ever scheduled
          MaxEdits,          \* bound: commands that change a row
          MaxLosses          \* bound: lost leases and cancellations

ProvidersAssumption ==
    /\ DiscoveryAttempts \in Nat \ {0} /\ MaxCaptures \in Nat \ {0} /\ Needed \subseteq Capabilities

Captures == 1..MaxCaptures
NoWorker == "no worker"

VARIABLES endpoint,    \* the row of provider_endpoints
          apiKey,      \* secret_version of its credential
          profile,     \* the row of model_profiles with its current version
          assigned,    \* the row of model_assignments: its version, 0 for none
          capture,     \* rows of discovery_runs and probe_runs
          captureJob,  \* their jobs
          executor,    \* what each worker executes
          edits, losses

providerVars == <<endpoint, apiKey, profile, assigned, capture, captureJob, executor, edits, losses>>

OpenCapture == {"PENDING", "RUNNING"}
\* CaptureStatus.Terminal
TerminalCapture == {"SUCCEEDED", "FAILED", "SUPERSEDED"}
LiveJob == {"queued", "running", "cancelling"}

NoCapture == [kind |-> "none", status |-> "none", configuration |-> 0, apiKey |-> 0, profile |-> 0]
NoCaptureJob == [phase |-> "none", budget |-> 0, holder |-> NoWorker]
Resting_ == [at |-> "idle", capture |-> 0, budget |-> 0, fresh |-> FALSE, ok |-> FALSE, found |-> "nothing", retry |-> FALSE]

\* DiscoveredUnknownSettings: nothing is known but the name.
DiscoveredUnknownSettings == [c \in Capabilities |-> [value |-> "unknown", origin |-> "UNKNOWN"]]
\* NormalizeManualSettings: what the operator does not state is unknown.
NormalizeManualSettings(values) ==
    [c \in Capabilities |-> [value |-> values[c], origin |-> IF values[c] = "unknown" THEN "UNKNOWN" ELSE "OPERATOR"]]

\* What is found replaces what the operator stated, too.
MergeProbeFindings_Overwrites(settings, findings) ==
    [c \in Capabilities |-> IF findings[c] = "not probed" THEN settings[c]
                            ELSE [value |-> findings[c], origin |-> "PROBED"]]
\* MergeProbeFindings: what no selected check examined stays, and what the
\* operator stated stands.
MergeProbeFindings(settings, findings) ==
    [c \in Capabilities |-> IF findings[c] = "not probed" \/ settings[c].origin = "OPERATOR" THEN settings[c]
                            ELSE [value |-> findings[c], origin |-> "PROBED"]]
\* ApplyOperatorEdit: a field that changes becomes the operator's.
ApplyOperatorEdit(settings, values) ==
    [c \in Capabilities |-> [value |-> values[c],
                             origin |-> IF values[c] = settings[c].value THEN settings[c].origin ELSE "OPERATOR"]]

Values_ == {"unknown", "yes", "no"}
Absent == [availability |-> "none", number |-> 0, configuration |-> 0, settings |-> DiscoveredUnknownSettings,
           complete |-> FALSE, source |-> "none", probed |-> 0]
\* insertVersion and appendVersion: a version is bound to the configuration
\* of the endpoint at that moment.
AppendVersion(settings, complete, source, probed) ==
    [profile EXCEPT !.number = @ + 1, !.configuration = endpoint.configuration, !.settings = settings,
                    !.complete = complete, !.source = source, !.probed = probed]

\* "checked" is history: the configuration the health is about.
ProvidersInit ==
    /\ endpoint = [lifecycle |-> "ACTIVE", health |-> "UNKNOWN", configuration |-> 1, checked |-> 0]
    /\ apiKey = 1 /\ profile = Absent /\ assigned = 0
    /\ capture = [i \in Captures |-> NoCapture]
    /\ captureJob = [i \in Captures |-> NoCaptureJob]
    /\ executor = [w \in ProviderWorkers |-> Resting_]
    /\ edits = 0 /\ losses = 0

-----------------------------------------------------------------------------
(***************************************************************************)
(* Commands of operators.                                                  *)
(***************************************************************************)
Edit == edits < MaxEdits /\ edits' = edits + 1
NoJobs == UNCHANGED <<capture, captureJob, executor, losses>>

\* UpdateEndpoint: a change of what a request uses, or of the lifecycle, is a
\* new configuration of unknown health.  (A change of name changes only the version.)
UpdateEndpoint(lifecycle) ==
    /\ Edit
    /\ endpoint' = [lifecycle |-> lifecycle, health |-> "UNKNOWN", configuration |-> endpoint.configuration + 1,
                    checked |-> 0]
    /\ UNCHANGED <<apiKey, profile, assigned>> /\ NoJobs

\* The secret of the credential is replaced.
RotateApiKey ==
    /\ Edit
    /\ apiKey' = apiKey + 1
    /\ UNCHANGED <<endpoint, profile, assigned>> /\ NoJobs

CreateProfile(values, complete) ==
    /\ Edit
    /\ endpoint.lifecycle = "ACTIVE" /\ profile = Absent
    /\ profile' = [AppendVersion(NormalizeManualSettings(values), complete, "OPERATOR", 0) EXCEPT !.availability = "MANUAL"]
    /\ UNCHANGED <<endpoint, apiKey, assigned>> /\ NoJobs

EditProfile(values, complete) ==
    /\ Edit
    /\ endpoint.lifecycle = "ACTIVE" /\ profile # Absent
    /\ profile' = AppendVersion(ApplyOperatorEdit(profile.settings, values), complete, "OPERATOR", 0)
    /\ UNCHANGED <<endpoint, apiKey, assigned>> /\ NoJobs

\* validateAssignment: limits and reasoning fit, tools and structured output are known to work.
ValidateAssignment == profile.complete /\ \A c \in Needed : profile.settings[c].value = "yes"

\* Assign: the version of the model must describe the endpoint as it is.
Assign ==
    /\ Edit
    /\ endpoint.lifecycle = "ACTIVE" /\ profile.availability \in {"AVAILABLE", "MANUAL"}
    /\ profile.configuration = endpoint.configuration
    /\ ValidateAssignment
    /\ assigned' = assigned + 1
    /\ UNCHANGED <<endpoint, apiKey, profile>> /\ NoJobs

NextCapture == 1 + Cardinality({i \in Captures : capture[i] # NoCapture})

Schedule_(kind, attempts) ==
    /\ NextCapture \in Captures
    /\ endpoint.lifecycle = "ACTIVE"
    /\ capture' = [capture EXCEPT ![NextCapture] =
         [kind |-> kind, status |-> "PENDING", configuration |-> endpoint.configuration, apiKey |-> apiKey,
          profile |-> profile.number]]
    /\ captureJob' = [captureJob EXCEPT ![NextCapture] = [phase |-> "queued", budget |-> attempts, holder |-> NoWorker]]
    /\ UNCHANGED <<endpoint, apiKey, profile, assigned, executor, edits, losses>>

ScheduleDiscovery == Schedule_("discovery", DiscoveryAttempts)
\* A probe costs money and is tried once.
ScheduleProbe == profile.availability \in {"AVAILABLE", "MANUAL"} /\ Schedule_("probe", 1)

-----------------------------------------------------------------------------
(***************************************************************************)
(* Jobs and their terminal callback.                                       *)
(***************************************************************************)
JobsOnly == UNCHANGED <<endpoint, apiKey, profile, assigned, edits>>
Holds_(w, i) == captureJob[i].phase \in {"running", "cancelling"} /\ captureJob[i].holder = w
                /\ captureJob[i].budget = executor[w].budget

LeaseCapture(w, i) ==
    /\ executor[w].at = "idle" /\ captureJob[i].phase = "queued"
    /\ captureJob' = [captureJob EXCEPT ![i] = [phase |-> "running", budget |-> @.budget - 1, holder |-> w]]
    /\ executor' = [executor EXCEPT ![w] = [Resting_ EXCEPT !.at = "beginning", !.capture = i,
                    !.budget = captureJob[i].budget - 1]]
    /\ UNCHANGED <<capture, losses>> /\ JobsOnly

\* Only a capture that has begun is closed.
CloseCapture_RunningOnly(i) ==
    capture' = [capture EXCEPT ![i].status = IF @ = "RUNNING" THEN "FAILED" ELSE @]
\* failDiscoveryJob and failProbeJob: a capture that is still open has failed.
CloseCapture(i) == capture' = [capture EXCEPT ![i].status = IF @ \in OpenCapture THEN "FAILED" ELSE @]

\* A lease expires; the next claim requeues the job or, without attempts or
\* with a cancellation, settles it with the callback.  The worker may not know.
LoseLease(i) ==
    /\ captureJob[i].phase \in {"running", "cancelling"}
    /\ losses < MaxLosses /\ losses' = losses + 1
    /\ IF captureJob[i].phase = "running" /\ captureJob[i].budget > 0
       THEN /\ captureJob' = [captureJob EXCEPT ![i].phase = "queued", ![i].holder = NoWorker]
            /\ UNCHANGED capture
       ELSE /\ captureJob' = [captureJob EXCEPT ![i].phase = "settled", ![i].holder = NoWorker]
            /\ CloseCapture(i)
    /\ UNCHANGED executor /\ JobsOnly

\* A queued job is cancelled at once, a running one when its worker notices.
CancelCapture(i) ==
    /\ captureJob[i].phase \in {"queued", "running"}
    /\ losses < MaxLosses /\ losses' = losses + 1
    /\ IF captureJob[i].phase = "queued"
       THEN captureJob' = [captureJob EXCEPT ![i].phase = "settled"] /\ CloseCapture(i)
       ELSE captureJob' = [captureJob EXCEPT ![i].phase = "cancelling"] /\ UNCHANGED capture
    /\ UNCHANGED executor /\ JobsOnly

\* The worker stops for a cancellation or for a permit it has lost.
StopExecutor(w) ==
    /\ executor[w].at # "idle"
    /\ LET i == executor[w].capture IN
       \/ /\ Holds_(w, i) /\ captureJob[i].phase = "cancelling"
          /\ captureJob' = [captureJob EXCEPT ![i].phase = "settled", ![i].holder = NoWorker]
          /\ CloseCapture(i)
       \/ ~Holds_(w, i) /\ UNCHANGED <<capture, captureJob>>
    /\ executor' = [executor EXCEPT ![w] = Resting_]
    /\ UNCHANGED losses /\ JobsOnly

-----------------------------------------------------------------------------
(***************************************************************************)
(* The handlers Discover and Probe.  AssertPermit fences every transaction. *)
(***************************************************************************)
InTransaction(w, at) ==
    executor[w].at = at /\ Holds_(w, executor[w].capture) /\ captureJob[executor[w].capture].phase = "running"
ToStep(w, at) == executor' = [executor EXCEPT ![w].at = at]

\* A discovery that failed is begun again, a probe is not.
BeginStatus(c) == IF c.status = "PENDING" \/ (c.kind = "discovery" /\ c.status = "FAILED") THEN "RUNNING" ELSE c.status

\* BeginDiscovery and BeginProbe.
BeginCapture(w) ==
    /\ InTransaction(w, "beginning")
    /\ LET i == executor[w].capture IN
       /\ capture' = [capture EXCEPT ![i].status = BeginStatus(capture[i])]
       /\ ToStep(w, IF BeginStatus(capture[i]) = "RUNNING" THEN "reading" ELSE "done")
    /\ UNCHANGED <<captureJob, losses>> /\ JobsOnly

\* GetEndpoint and GetProfile, without a lock, and the first check of
\* Execution.Discover and Execution.Probe on what was read.
ReadTarget(w) ==
    /\ executor[w].at = "reading"
    /\ LET c == capture[executor[w].capture] IN
       executor' = [executor EXCEPT ![w].at = "asking",
         ![w].fresh = /\ endpoint.lifecycle = "ACTIVE" /\ endpoint.configuration = c.configuration
                      /\ c.kind = "probe" => profile.number = c.profile
                                             /\ profile.configuration = endpoint.configuration]
    /\ UNCHANGED <<capture, captureJob, losses>> /\ JobsOnly

\* What the provider may answer: the models it lists, or what the model can do,
\* of the capabilities whose checks the operator selected.
Found(c) ==
    IF c.kind = "discovery" THEN {"listed", "not listed"}
    ELSE [Capabilities -> {"yes", "no", "not probed"}]

\* headers and the request: the secret must be the captured version, and the
\* provider may fail in a way worth a retry or not.
AskProvider(w) ==
    /\ executor[w].at = "asking"
    /\ LET c == capture[executor[w].capture] IN
       \/ /\ executor[w].fresh /\ apiKey = c.apiKey
          /\ \E answer \in Found(c) :
               executor' = [executor EXCEPT ![w].at = "completing", ![w].ok = TRUE, ![w].found = answer]
       \/ \E retry \in BOOLEAN :
            /\ retry => executor[w].fresh /\ apiKey = c.apiKey
            /\ executor' = [executor EXCEPT ![w].at = "completing", ![w].retry = retry]
    /\ UNCHANGED <<capture, captureJob, losses>> /\ JobsOnly

\* The versions of the endpoint and its secret alone.
Stale_AnyProfile(c) == endpoint.configuration # c.configuration \/ apiKey # c.apiKey
\* The version of the endpoint's secret alone.
Stale_KeyOnly(c) == apiKey # c.apiKey
\* What was captured is not what the rows say now.
Stale(c) ==
    \/ endpoint.configuration # c.configuration \/ apiKey # c.apiKey
    \/ c.kind = "probe" /\ profile.number # c.profile

\* mergeDiscovery: a model that is listed is available, one that is not is
\* unavailable, and one entered by hand is left alone.
MergeDiscovery(found) ==
    CASE profile.availability = "MANUAL" -> profile
      [] profile = Absent /\ found = "listed" ->
           [AppendVersion(DiscoveredUnknownSettings, FALSE, "DISCOVERY", 0) EXCEPT !.availability = "AVAILABLE"]
      [] profile = Absent /\ found = "not listed" -> profile
      [] OTHER -> [profile EXCEPT !.availability = IF found = "listed" THEN "AVAILABLE" ELSE "UNAVAILABLE"]

Outcome(c, ok) == IF Stale(c) THEN "SUPERSEDED" ELSE IF ok THEN "SUCCEEDED" ELSE "FAILED"

\* CompleteDiscovery.
CompleteDiscovery(w) ==
    /\ InTransaction(w, "completing")
    /\ LET i == executor[w].capture
           status == Outcome(capture[i], executor[w].ok)
       IN  /\ capture[i].kind = "discovery" /\ capture[i].status = "RUNNING"
           /\ capture' = [capture EXCEPT ![i].status = status]
           /\ profile' = IF status = "SUCCEEDED" THEN MergeDiscovery(executor[w].found) ELSE profile
           /\ endpoint' = IF status = "SUPERSEDED" THEN endpoint
                          ELSE [endpoint EXCEPT !.health = IF status = "SUCCEEDED" THEN "HEALTHY" ELSE "UNHEALTHY",
                                                !.checked = capture[i].configuration]
    /\ ToStep(w, "done")
    /\ UNCHANGED <<apiKey, assigned, captureJob, edits, losses>>

\* CompleteProbe: the findings are merged into the version that was probed.
CompleteProbe(w) ==
    /\ InTransaction(w, "completing")
    /\ LET i == executor[w].capture
           status == Outcome(capture[i], executor[w].ok)
       IN  /\ capture[i].kind = "probe" /\ capture[i].status = "RUNNING"
           /\ capture' = [capture EXCEPT ![i].status = status]
           /\ profile' = IF status = "SUCCEEDED"
                         THEN AppendVersion(MergeProbeFindings(profile.settings, executor[w].found),
                                            profile.complete, "PROBE", capture[i].profile)
                         ELSE profile
    /\ ToStep(w, "done")
    /\ UNCHANGED <<endpoint, apiKey, assigned, captureJob, edits, losses>>

\* The handler's result: FAILED is an error of the handler, requeued when it is
\* worth a retry and attempts are left.
EndHandler(w) ==
    /\ InTransaction(w, "done")
    /\ LET i == executor[w].capture
           again == capture[i].status = "FAILED" /\ executor[w].retry /\ captureJob[i].budget > 0
       IN  /\ captureJob' = [captureJob EXCEPT ![i].phase = IF again THEN "queued" ELSE "settled", ![i].holder = NoWorker]
           /\ IF again THEN UNCHANGED capture ELSE CloseCapture(i)
    /\ executor' = [executor EXCEPT ![w] = Resting_]
    /\ UNCHANGED losses /\ JobsOnly

-----------------------------------------------------------------------------
ExecutorStep(w) ==
    \/ \E i \in Captures : LeaseCapture(w, i)
    \/ BeginCapture(w) \/ ReadTarget(w) \/ AskProvider(w) \/ CompleteDiscovery(w) \/ CompleteProbe(w)
    \/ EndHandler(w) \/ StopExecutor(w)

ProvidersNext ==
    \/ \E w \in ProviderWorkers : ExecutorStep(w)
    \/ \E i \in Captures : LoseLease(i) \/ CancelCapture(i)
    \/ \E l \in {"ACTIVE", "ARCHIVED"} : UpdateEndpoint(l)
    \/ \E v \in [Capabilities -> Values_], complete \in BOOLEAN : CreateProfile(v, complete) \/ EditProfile(v, complete)
    \/ RotateApiKey \/ Assign \/ ScheduleDiscovery \/ ScheduleProbe

ProvidersSpec == ProvidersInit /\ [][ProvidersNext]_providerVars

-----------------------------------------------------------------------------
\* What a discovery says of the endpoint is about its present configuration,
\* although the request ran while an operator was free to change it
\* (CompleteDiscovery, UpdateEndpoint).
EndpointHealthIsCurrent == endpoint.health # "UNKNOWN" => endpoint.checked = endpoint.configuration

\* Findings of a probe are merged into the version that was probed: an edit
\* made meanwhile is never described by them (CompleteProbe).
FindingsDescribeVersion == profile.source = "PROBE" => profile.probed = profile.number - 1

\* What an operator stated about a model changes only by an edit, whatever
\* probes and discoveries find later (MergeProbeFindings, mergeDiscovery).
OperatorValueStands ==
    [][\A c \in Capabilities :
         profile.settings[c].origin = "OPERATOR" /\ profile'.settings[c] # profile.settings[c]
           => profile'.source = "OPERATOR"]_providerVars

\* No capture is open without a job that will close it, and none is still open
\* when its job has been settled, in whatever step the worker, its lease or
\* a cancellation ended it (TerminalCallback, BeginDiscovery, CompleteDiscovery).
CaptureHasJob == \A i \in Captures : capture[i].status \in OpenCapture => captureJob[i].phase \in LiveJob

\* Captures are closed with their jobs, findings of a probe describe the version
\* probed, and an endpoint's health is about its present configuration
\* (CompleteDiscovery, CompleteProbe, TerminalCallback).
ProvidersAreSound == CaptureHasJob /\ FindingsDescribeVersion /\ EndpointHealthIsCurrent
=============================================================================
