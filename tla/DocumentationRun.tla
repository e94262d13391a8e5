--------------------------- MODULE DocumentationRun ---------------------------
(***************************************************************************)
(* Documentation runs of one knowledge base (internal/documentation).  A   *)
(* run captures the configuration, is driven by durable jobs (prepare,     *)
(* plan, one job per page, finalize), and ends with a new published wiki   *)
(* or without touching the published one.  Runs of different knowledge     *)
(* bases share no rows.                                                    *)
(*                                                                         *)
(* Jobs are used here as module JobLifecycle specifies them, which module  *)
(* JobQueue implements: a job runs under one permit at a time, an expired  *)
(* lease starts it over, and its failure or cancellation calls             *)
(* TerminalCallback in the step that settles it.  A handler whose permit   *)
(* was lost can write nothing, so only the handler of the current attempt  *)
(* is kept: stage says how far it is.                                      *)
(*                                                                         *)
(* Every store operation locks its job, then its run, then the knowledge   *)
(* base, and is one step.                                                  *)
(***************************************************************************)
EXTENDS Integers, FiniteSets

CONSTANTS
    MaxRuns,    \* bound: how many runs are ever created
    Attempts,   \* max_attempts of every job (3 in the code)
    Pages,      \* the slugs a plan may contain, as strings
    Sources,    \* sources of the knowledge base
    MaxRev,     \* bound: immutable revisions per source
    Texts,      \* instructions and language of the knowledge base
    MaxModels,  \* bound: versions of a model route
    MaxEdits,   \* bound: changes, cancellations, lost workers and errors
    Changes     \* bound: which kinds of them happen

RunIds == 1..MaxRuns
None == 0

ActiveStatus == {"PREPARING", "PLANNING", "GENERATING", "FINALIZING"}
TerminalStatus == {"NO_OP", "PUBLISHED", "INTERRUPTED", "FAILED"}
PageStatus == {"NONE", "PENDING", "RUNNING", "COMPLETE", "SKIPPED"}
Roles == {"planner", "writer"}
Kinds == {"prepare", "plan", "finalize"} \cup Pages
DocJobs == RunIds \X Kinds

ASSUME DocumentationAssumption ==
    /\ MaxRuns \in Nat /\ Attempts \in Nat \ {0} /\ MaxRev \in Nat \ {0}
    /\ MaxModels \in Nat \ {0} /\ MaxEdits \in Nat
    /\ Pages # {} /\ Pages \cap {"prepare", "plan", "finalize"} = {}
    /\ Texts # {}

VARIABLES
    kb,      \* the row of knowledge_bases
    source,  \* the rows of sources: ACTIVE?, configuration_version, revision
    model,   \* what each role's assignment resolves to, None if unassigned
    run,     \* rows of documentation_runs with what they captured and pages
    job,     \* the jobs that drive the runs
    edits    \* changes, cancellations, losses and errors so far

vars == <<kb, source, model, run, job, edits>>

\* A captured source is present exactly when it was active.
Captured == [active : BOOLEAN, conf : Nat, rev : Nat]

AbsentRun ==
    [status |-> "ABSENT", version |-> 0, text |-> CHOOSE t \in Texts : TRUE,
     sources |-> [s \in Sources |-> [active |-> FALSE, conf |-> 0, rev |-> 0]],
     models |-> [r \in Roles |-> None], prior |-> None, parent |-> None,
     key |-> None, page |-> [p \in Pages |-> "NONE"]]
NoJob == [phase |-> "none", budget |-> 0, stage |-> "start"]
\* Mutant: one attempt too many.
QueuedJob_OneMore == [phase |-> "queued", budget |-> Attempts + 1, stage |-> "start"]

QueuedJob == [phase |-> "queued", budget |-> Attempts, stage |-> "start"]

\* An active knowledge base; its sources are synchronized, or drafts that
\* were never synchronized; its models are assigned.
Init ==
    /\ kb = [lifecycle |-> "ACTIVE", version |-> 1, wiki |-> None,
             text |-> CHOOSE t \in Texts : TRUE]
    /\ source \in [Sources -> {[active |-> TRUE, conf |-> 1, rev |-> 1],
                              [active |-> FALSE, conf |-> 1, rev |-> None]}]
    /\ model = [r \in Roles |-> 1]
    /\ run = [r \in RunIds |-> AbsentRun]
    /\ job = [j \in DocJobs |-> NoJob]
    /\ edits = 0

-----------------------------------------------------------------------------
(***************************************************************************)
(* newRunTx                                                                *)
(***************************************************************************)
ActiveRuns(runs) == {r \in RunIds : runs[r].status \in ActiveStatus}
FreeRuns == {r \in RunIds : run[r].status = "ABSENT"}
NewRun == CHOOSE r \in FreeRuns : \A q \in FreeRuns : r <= q

\* Mutant: newRunTx does not look for an active run.
CanStart_Beside(runs, base) ==
    /\ base.lifecycle = "ACTIVE"
    /\ \E s \in Sources : source[s].active
    /\ \A s \in Sources : source[s].active => source[s].rev # None

\* The checks of newRunTx; captureSourcesTx wants a revision of every active
\* source.
CanStart(runs, base) ==
    /\ base.lifecycle = "ACTIVE"
    /\ ActiveRuns(runs) = {}
    /\ \E s \in Sources : source[s].active
    /\ \A s \in Sources : source[s].active => source[s].rev # None

\* The row with everything it captures, and its prepare job.
NewRow(base, parent, key) ==
    [AbsentRun EXCEPT
        !.status = "PREPARING", !.version = base.version, !.text = base.text,
        !.sources = [s \in Sources |-> IF source[s].active THEN source[s]
                                       ELSE AbsentRun.sources[s]],
        !.models = model, !.prior = base.wiki, !.parent = parent, !.key = key]

WithNewRun(runs, base, parent, key) ==
    [runs EXCEPT ![NewRun] = NewRow(base, parent, key)]
WithPrepare(jobs) == [jobs EXCEPT ![<<NewRun, "prepare">>] = QueuedJob]

\* The operation key of a requested run names the version of the knowledge
\* base: EnqueueTx adopts a prepare job that is still active under it.
Settled == {"none", "succeeded", "failed", "cancelled"}
Adopted(version) ==
    {r \in RunIds : run[r].key = version /\ job[<<r, "prepare">>].phase \notin Settled}

\* An adopted job has a run, which newRunTx returns as it is.
RequestGeneration ==
    /\ CanStart(run, kb)
    /\ Adopted(kb.version) = {}
    /\ FreeRuns # {}
    /\ run' = WithNewRun(run, kb, None, kb.version)
    /\ job' = WithPrepare(job)
    /\ UNCHANGED <<kb, source, model, edits>>

-----------------------------------------------------------------------------
(***************************************************************************)
(* What store operations share.                                            *)
(***************************************************************************)
ConfigurationCurrent(r) ==
    /\ kb.lifecycle = "ACTIVE"
    /\ kb.version = run[r].version /\ kb.text = run[r].text
    /\ \A s \in Sources :
        /\ source[s].active <=> run[r].sources[s].active
        /\ source[s].active => source[s].conf = run[r].sources[s].conf
    /\ \A role \in Roles :
        run[r].models[role] # None => run[r].models[role] = model[role]

\* AssertPermit: the job is leased to this handler.
Permitted(j) == job[j].phase = "running"

Returns(j, result) == [job EXCEPT ![j].stage = result]

\* interruptTx, then the handler's answer.  When the knowledge base is active
\* but no run can be captured (an active source without revision, or none)
\* newRunTx fails and takes the whole transaction with it.
Interrupt(r, j, answer, otherwise) ==
    LET ended == [run EXCEPT ![r].status = "INTERRUPTED"]
    IN  IF kb.lifecycle # "ACTIVE"
        THEN run' = ended /\ job' = Returns(j, answer)
        ELSE IF CanStart(ended, kb)
        THEN /\ FreeRuns # {}
             /\ run' = WithNewRun(ended, kb, r, None)
             /\ job' = WithPrepare(Returns(j, answer))
        ELSE run' = run /\ job' = Returns(j, otherwise)

\* Mutant: drift of the configuration is looked for, not of the content.
Behind_Configuration(r) ==
    \E s \in Sources :
        run[r].sources[s].active /\ run[r].sources[s].conf # source[s].conf

\* followUpContentDriftTx after run r has ended: one more run if a captured
\* source has another revision now.
Behind(r) ==
    \E s \in Sources :
        run[r].sources[s].active /\ run[r].sources[s].rev # source[s].rev

FollowUp(r, ended, base, jobs) ==
    IF Behind(r)
    THEN /\ FreeRuns # {}
         /\ run' = WithNewRun(ended, base, r, None)
         /\ job' = WithPrepare(jobs)
    ELSE run' = ended /\ job' = jobs

EndRun(r, status) == [run EXCEPT ![r].status = status]

\* A handler that finds its run over reports a failed run as its failure.
Answer(r) == IF run[r].status = "FAILED" THEN "failure" ELSE "ok"

-----------------------------------------------------------------------------
(***************************************************************************)
(* Prepare                                                                 *)
(***************************************************************************)
\* isNoOpTx without the check of the stored wiki.
SameSnapshot(r) ==
    LET q == run[run[r].prior]
    IN  /\ run[r].prior # None
        /\ q.text = run[r].text /\ q.sources = run[r].sources
        /\ \A role \in Roles : q.models[role] # None
        /\ q.models = run[r].models

\* intact: retainedWikiHealthyTx, the stored wiki still matches its rows.
Prepare(r, intact) ==
    LET j == <<r, "prepare">>
    IN  /\ Permitted(j) /\ job[j].stage = "start"
        /\ IF run[r].status # "PREPARING"
           THEN run' = run /\ job' = Returns(j, Answer(r))
           ELSE IF ~ConfigurationCurrent(r) THEN Interrupt(r, j, "ok", "retry")
           ELSE IF SameSnapshot(r) /\ intact
           THEN FollowUp(r, EndRun(r, "NO_OP"), kb, Returns(j, "ok"))
           ELSE IF \E role \in Roles : run[r].models[role] = None
           THEN run' = EndRun(r, "FAILED") /\ job' = Returns(j, "failure")
           ELSE /\ run' = EndRun(r, "PLANNING")
                /\ job' = [Returns(j, "ok") EXCEPT ![<<r, "plan">>] = QueuedJob]
        /\ UNCHANGED <<kb, source, model, edits>>

-----------------------------------------------------------------------------
(***************************************************************************)
(* Plan                                                                    *)
(***************************************************************************)
\* GetRun outside any transaction; model work follows.
BeginPlan(r) ==
    LET j == <<r, "plan">>
    IN  /\ job[j].phase \in {"running", "cancelling"} /\ job[j].stage = "start"
        /\ job' = Returns(j, IF run[r].status = "PLANNING" THEN "working"
                             ELSE Answer(r))
        /\ UNCHANGED <<kb, source, model, run, edits>>

AcceptPlan(r, pages) ==
    LET j == <<r, "plan">>
    IN  /\ Permitted(j) /\ job[j].stage = "working"
        /\ IF run[r].status # "PLANNING"
           THEN run' = run /\ job' = Returns(j, "retry")
           ELSE IF ~ConfigurationCurrent(r) THEN Interrupt(r, j, "ok", "retry")
           ELSE /\ run' = [run EXCEPT
                            ![r].status = "GENERATING",
                            ![r].page = [p \in Pages |-> IF p \in pages THEN "PENDING"
                                                         ELSE "NONE"]]
                /\ job' = [i \in DocJobs |->
                            IF i[1] = r /\ i[2] \in pages THEN QueuedJob
                            ELSE Returns(j, "ok")[i]]
        /\ UNCHANGED <<kb, source, model, edits>>

\* Mutant: a run that has ended is failed all the same.
FailRun_Ended(r, kind) ==
    LET j == <<r, kind>>
    IN  /\ Permitted(j)
        /\ job[j].stage = IF kind = "plan" THEN "working" ELSE "publishing"
        /\ run' = EndRun(r, "FAILED")
        /\ job' = Returns(j, "failure")
        /\ UNCHANGED <<kb, source, model, edits>>

\* FailRun, from a planner that gave up or a publication that went wrong: the
\* handler fails whether or not there was still a run to fail.
FailRun(r, kind) ==
    LET j == <<r, kind>>
    IN  /\ Permitted(j)
        /\ job[j].stage = IF kind = "plan" THEN "working" ELSE "publishing"
        /\ run' = IF run[r].status \in TerminalStatus THEN run
                  ELSE EndRun(r, "FAILED")
        /\ job' = Returns(j, "failure")
        /\ UNCHANGED <<kb, source, model, edits>>

-----------------------------------------------------------------------------
(***************************************************************************)
(* GeneratePage                                                            *)
(***************************************************************************)
BeginPage(r, p) ==
    LET j == <<r, p>>
    IN  /\ Permitted(j) /\ job[j].stage = "start"
        /\ IF run[r].status # "GENERATING"
           THEN run' = run /\ job' = Returns(j, "ok")
           ELSE IF ~ConfigurationCurrent(r) THEN Interrupt(r, j, "ok", "retry")
           ELSE IF run[r].page[p] \in {"COMPLETE", "SKIPPED"}
           THEN run' = run /\ job' = Returns(j, "ok")
           ELSE /\ run' = [run EXCEPT ![r].page[p] = "RUNNING"]
                /\ job' = Returns(j, "working")
        /\ UNCHANGED <<kb, source, model, edits>>

\* maybeFinalizeTx: the last page to end enqueues the finalize job.
WithPage(r, p, status) ==
    LET paged == [run EXCEPT ![r].page[p] = status]
    IN  IF \E q \in Pages : paged[r].page[q] \in {"PENDING", "RUNNING"} THEN paged
        ELSE [paged EXCEPT ![r].status = "FINALIZING"]

\* Mutant: only a completed page looks whether it was the last one.
AfterPage_Completed(r, p, status, jobs) ==
    IF status = "COMPLETE" /\ WithPage(r, p, status)[r].status = "FINALIZING"
    THEN [jobs EXCEPT ![<<r, "finalize">>] = QueuedJob] ELSE jobs

AfterPage(r, p, status, jobs) ==
    IF WithPage(r, p, status)[r].status = "FINALIZING"
    THEN [jobs EXCEPT ![<<r, "finalize">>] = QueuedJob] ELSE jobs

CompletePage(r, p) ==
    LET j == <<r, p>>
    IN  /\ Permitted(j) /\ job[j].stage = "working"
        /\ IF run[r].page[p] = "COMPLETE" \/ run[r].status # "GENERATING"
           THEN run' = run /\ job' = Returns(j, "ok")
           ELSE IF ~ConfigurationCurrent(r) THEN Interrupt(r, j, "ok", "retry")
           ELSE /\ run' = WithPage(r, p, "COMPLETE")
                /\ job' = AfterPage(r, p, "COMPLETE", Returns(j, "ok"))
        /\ UNCHANGED <<kb, source, model, edits>>

\* No look at the configuration here: finalization looks again.
SkipPage(r, p) ==
    LET j == <<r, p>>
    IN  /\ Permitted(j) /\ job[j].stage = "working"
        /\ IF run[r].page[p] \in {"COMPLETE", "SKIPPED"} \/ run[r].status # "GENERATING"
           THEN run' = run /\ job' = Returns(j, "ok")
           ELSE /\ run' = WithPage(r, p, "SKIPPED")
                /\ job' = AfterPage(r, p, "SKIPPED", Returns(j, "ok"))
        /\ UNCHANGED <<kb, source, model, edits>>

-----------------------------------------------------------------------------
(***************************************************************************)
(* Finalize                                                                *)
(***************************************************************************)
\* Mutant: skipped pages do not interrupt the run.
BeginFinalization_Partial(r) ==
    LET j == <<r, "finalize">>
    IN  /\ Permitted(j) /\ job[j].stage = "start"
        /\ IF run[r].status # "FINALIZING"
           THEN run' = run /\ job' = Returns(j, Answer(r))
           ELSE IF ~ConfigurationCurrent(r)
           THEN Interrupt(r, j, "ok", "retry")
           ELSE run' = run /\ job' = Returns(j, "publishing")
        /\ UNCHANGED <<kb, source, model, edits>>

BeginFinalization(r) ==
    LET j == <<r, "finalize">>
    IN  /\ Permitted(j) /\ job[j].stage = "start"
        /\ IF run[r].status # "FINALIZING"
           THEN run' = run /\ job' = Returns(j, Answer(r))
           ELSE IF \/ \E p \in Pages : run[r].page[p] = "SKIPPED"
                   \/ ~ConfigurationCurrent(r)
           THEN Interrupt(r, j, "ok", "retry")
           ELSE run' = run /\ job' = Returns(j, "publishing")
        /\ UNCHANGED <<kb, source, model, edits>>

\* Mutant: a publication is replayed although the run has ended, and the
\* configuration is not compared again.
Publish_Again(r) ==
    LET j == <<r, "finalize">>
        base == [kb EXCEPT !.wiki = r, !.version = @ + 1]
    IN  /\ Permitted(j) /\ job[j].stage = "publishing"
        /\ kb' = base
        /\ \E answer \in {"ok", "publishing"} :
            FollowUp(r, EndRun(r, "PUBLISHED"), base, Returns(j, answer))
        /\ UNCHANGED <<source, model, edits>>

\* Publish.  Any error, the loss of the answer to a commit included, sends
\* the handler to FailRun.
Publish(r) ==
    LET j == <<r, "finalize">>
        base == [kb EXCEPT !.wiki = r, !.version = @ + 1]
    IN  /\ Permitted(j) /\ job[j].stage = "publishing"
        /\ run[r].status = "FINALIZING"
        /\ IF ~ConfigurationCurrent(r)
           THEN Interrupt(r, j, "ok", "publishing") /\ UNCHANGED kb
           ELSE /\ kb' = base
                /\ \E answer \in {"ok", "publishing"} :
                    FollowUp(r, EndRun(r, "PUBLISHED"), base, Returns(j, answer))
        /\ UNCHANGED <<source, model, edits>>

-----------------------------------------------------------------------------
Change(kind) == kind \in Changes /\ edits < MaxEdits /\ edits' = edits + 1

(***************************************************************************)
(* The life of a job.                                                      *)
(***************************************************************************)
\* terminateRunJob and terminatePageJob.
SkipOpenPages(row) ==
    [row EXCEPT !.page = [p \in Pages |-> IF @[p] \in {"PENDING", "RUNNING"}
                                          THEN "SKIPPED" ELSE @[p]]]

Driven(kind) == CASE kind = "prepare" -> "PREPARING"
                  [] kind = "plan" -> "PLANNING"
                  [] kind = "finalize" -> "FINALIZING"

\* Mutant: a job that drives a run ends it whatever has become of the run.
TerminalCallback_Late(j, outcome) ==
    [run EXCEPT ![j[1]] = [SkipOpenPages(run[j[1]]) EXCEPT
        !.status = IF outcome = "failed" /\ j[2] \notin Pages THEN "FAILED"
                   ELSE "INTERRUPTED"]]

TerminalCallback(j, outcome) ==
    LET r == j[1]
        row == run[r]
        closed == SkipOpenPages(row)
    IN  IF j[2] \in Pages
        THEN IF row.page[j[2]] \in {"COMPLETE", "SKIPPED"} THEN run
             ELSE [run EXCEPT ![r] = [closed EXCEPT
                    !.status = IF @ \in TerminalStatus THEN @ ELSE "INTERRUPTED"]]
        ELSE IF row.status # Driven(j[2]) THEN run
        ELSE [run EXCEPT ![r] = [closed EXCEPT
                !.status = IF outcome = "failed" THEN "FAILED" ELSE "INTERRUPTED"]]

\* Failed or cancelled for good: the callback runs in the same transaction.
SettleBadly(j, outcome) ==
    /\ run' = TerminalCallback(j, outcome)
    /\ job' = [job EXCEPT ![j].phase = outcome, ![j].stage = "start"]
    /\ UNCHANGED <<kb, source, model>>

Settle(j, phase) ==
    /\ job' = [job EXCEPT ![j].phase = phase, ![j].stage = "start"]
    /\ UNCHANGED <<kb, source, model, run, edits>>

\* Mutant: a lease does not count as an attempt.
LeaseTo_Free(j) ==
    /\ job[j].budget > 0
    /\ job' = [job EXCEPT ![j] = [phase |-> "running", budget |-> @.budget,
                                  stage |-> "start"]]
    /\ UNCHANGED <<kb, source, model, run>>

\* A worker starts the job, or takes it over from a worker that was lost.
LeaseTo(j) ==
    /\ job[j].budget > 0
    /\ job' = [job EXCEPT ![j] = [phase |-> "running", budget |-> @.budget - 1,
                                  stage |-> "start"]]
    /\ UNCHANGED <<kb, source, model, run>>
Lease(j) == job[j].phase = "queued" /\ LeaseTo(j) /\ UNCHANGED edits
TakeOver(j) == job[j].phase = "running" /\ Change("lost worker") /\ LeaseTo(j)

\* The last lease expired.
Exhaust(j) ==
    /\ job[j].phase = "running" /\ job[j].budget = 0
    /\ Change("lost worker") /\ SettleBadly(j, "failed")

\* The model runtime, the artifact store or the database failed.
HandlerError(j) ==
    /\ Permitted(j) /\ job[j].stage \in {"start", "working", "publishing"}
    /\ Change("error")
    /\ job' = Returns(j, "retry")
    /\ UNCHANGED <<kb, source, model, run>>

\* acceptHandlerResult
Accept(j) ==
    \/ /\ job[j].phase \in {"running", "cancelling"} /\ job[j].stage = "ok"
       /\ Settle(j, "succeeded")
    \/ /\ Permitted(j) /\ job[j].stage = "failure"
       /\ SettleBadly(j, "failed") /\ UNCHANGED edits
    \/ /\ Permitted(j) /\ job[j].stage = "retry"
       /\ IF job[j].budget > 0 THEN Settle(j, "queued")
          ELSE SettleBadly(j, "failed") /\ UNCHANGED edits

\* An operator cancels: at once if no worker holds a live lease, or else by
\* asking the worker.
RequestCancel(j) ==
    /\ Change("cancel")
    /\ \/ /\ job[j].phase = "running"
          /\ job' = [job EXCEPT ![j].phase = "cancelling"]
          /\ UNCHANGED <<kb, source, model, run>>
       \/ job[j].phase \in {"queued", "running"} /\ SettleBadly(j, "cancelled")

\* The worker acknowledges, or its lease expires.
FinishCancel(j) ==
    /\ job[j].phase = "cancelling"
    /\ SettleBadly(j, "cancelled") /\ UNCHANGED edits

-----------------------------------------------------------------------------
(***************************************************************************)
(* Changes operators and source synchronizations make meanwhile.           *)
(***************************************************************************)
Edit(kind) == Change(kind) /\ UNCHANGED <<run, job>>

\* Update, RequestDelete and Restore: any of them increments the version.
EditKnowledgeBase ==
    /\ Edit("knowledge base")
    /\ \E lifecycle \in {"ACTIVE", "ARCHIVED"}, text \in Texts :
        kb' = [kb EXCEPT !.lifecycle = lifecycle, !.text = text, !.version = @ + 1]
    /\ UNCHANGED <<source, model>>

\* A changed configuration puts an active source back to DRAFT.
EditSource(s) ==
    /\ Edit("source")
    /\ source' = [source EXCEPT ![s].conf = @ + 1, ![s].active = FALSE]
    /\ UNCHANGED <<kb, model>>

\* Validation activates a draft; an operator disables or removes a source.
ChangeLifecycle(s) ==
    /\ Edit("membership")
    /\ source' = [source EXCEPT ![s].active = ~@]
    /\ UNCHANGED <<kb, model>>

\* CompleteSync: content only.  An earlier revision may be current again.
CompleteSync(s) ==
    /\ Edit("content")
    /\ source[s].active
    /\ \E rev \in 1..MaxRev : source' = [source EXCEPT ![s].rev = rev]
    /\ UNCHANGED <<kb, model>>

\* Assignments, profiles, endpoints and credentials of a role.
EditModel(role) ==
    /\ Edit("model")
    /\ \E m \in 0..MaxModels : model' = [model EXCEPT ![role] = m]
    /\ UNCHANGED <<kb, source>>

-----------------------------------------------------------------------------
\* The handler of job j, one of the four in the registry.
HandlerStep(j) ==
    LET r == j[1]
        kind == j[2]
    IN  \/ kind = "prepare" /\ \E intact \in BOOLEAN : Prepare(r, intact)
        \/ /\ kind = "plan"
           /\ \/ BeginPlan(r)
              \/ \E pages \in (SUBSET Pages) \ {{}} : AcceptPlan(r, pages)
              \/ FailRun(r, kind)
        \/ /\ kind \in Pages
           /\ BeginPage(r, kind) \/ CompletePage(r, kind) \/ SkipPage(r, kind)
        \/ /\ kind = "finalize"
           /\ BeginFinalization(r) \/ Publish(r) \/ FailRun(r, kind)

JobStep(j) ==
    \/ Lease(j) \/ TakeOver(j) \/ Exhaust(j)
    \/ HandlerError(j) \/ Accept(j)
    \/ RequestCancel(j) \/ FinishCancel(j)

Environment ==
    \/ EditKnowledgeBase
    \/ \E s \in Sources : EditSource(s) \/ ChangeLifecycle(s) \/ CompleteSync(s)
    \/ \E role \in Roles : EditModel(role)

Next ==
    \/ RequestGeneration
    \/ \E j \in DocJobs : HandlerStep(j) \/ JobStep(j)
    \/ Environment

Spec == Init /\ [][Next]_vars

-----------------------------------------------------------------------------
(***************************************************************************)
(* Properties                                                              *)
(***************************************************************************)
\* The rows have the types of their columns.
DocTypeOK ==
    /\ kb \in [lifecycle : {"ACTIVE", "ARCHIVED"}, version : Nat \ {0},
               wiki : RunIds \cup {None}, text : Texts]
    /\ source \in [Sources -> Captured]
    /\ model \in [Roles -> Nat]
    /\ run \in [RunIds ->
        [status : ActiveStatus \cup TerminalStatus \cup {"ABSENT"},
         version : Nat, text : Texts, sources : [Sources -> Captured],
         models : [Roles -> Nat], prior : RunIds \cup {None},
         parent : RunIds \cup {None}, key : Nat, page : [Pages -> PageStatus]]]
    /\ job \in [DocJobs ->
        [phase : {"queued", "running", "cancelling"} \cup Settled,
         budget : 0..Attempts,
         stage : {"start", "working", "publishing", "ok", "failure", "retry"}]]
    /\ edits \in 0..MaxEdits

\* A knowledge base has at most one active run, whoever asks for runs:
\* operators, interrupted runs and runs that fell behind.
OneActiveRun == Cardinality(ActiveRuns(run)) <= 1

\* No active run is stranded: the job that moves it on is still alive, every
\* open page of a generating run has its job, and a run with no open page has
\* left GENERATING. Lost workers, exhausted retries, cancellations, drift and
\* failing follow-ups included.
RunHasDriver ==
    \A r \in RunIds :
        LET Alive(kind) == job[<<r, kind>>].phase \notin Settled
            open == {p \in Pages : run[r].page[p] \in {"PENDING", "RUNNING"}}
        IN  /\ run[r].status = "PREPARING" => Alive("prepare")
            /\ run[r].status = "PLANNING" => Alive("plan")
            /\ run[r].status = "GENERATING" =>
                open # {} /\ \A p \in open : Alive(p)
            /\ run[r].status = "FINALIZING" => Alive("finalize") /\ open = {}

\* The published wiki is a whole one: it comes from a run that was published,
\* all of whose pages were completed.
WikiIsWhole ==
    kb.wiki # None =>
        /\ run[kb.wiki].status = "PUBLISHED"
        /\ \A p \in Pages : run[kb.wiki].page[p] \in {"NONE", "COMPLETE"}
        /\ \E p \in Pages : run[kb.wiki].page[p] = "COMPLETE"

\* A run gets at most one follow-up, also when its publication or its
\* interruption is replayed by a job that is run again, and no failed run
\* gets one.
OneFollowUp ==
    \A q \in RunIds : run[q].parent # None =>
        /\ run[run[q].parent].status \in {"PUBLISHED", "NO_OP", "INTERRUPTED"}
        /\ \A o \in RunIds : run[o].parent = run[q].parent => o = q

\* A finished run keeps its outcome: no late job, replayed handler or
\* terminal callback changes it.
OutcomeKept ==
    [][\A r \in RunIds : run[r].status \in TerminalStatus =>
        run'[r].status = run[r].status]_vars

\* Publications form a chain: only a run that was finalizing replaces the
\* wiki, and it replaces the very wiki it captured as its predecessor. A
\* failed or interrupted run never does.
WikiChain ==
    [][kb'.wiki # kb.wiki =>
        /\ run[kb'.wiki].status = "FINALIZING" /\ run'[kb'.wiki].status = "PUBLISHED"
        /\ run[kb'.wiki].prior = kb.wiki]_vars

\* A content change during a run is not forgotten: a run that publishes (or
\* finds nothing to do) while a captured source has moved on leaves, in the
\* same step, an active run with the latest revisions.
DriftFollowedUp ==
    [][\A r \in RunIds :
        /\ run[r].status \in ActiveStatus
        /\ run'[r].status \in {"PUBLISHED", "NO_OP"}
        /\ \E s \in Sources :
            run[r].sources[s].active /\ source[s].rev # run[r].sources[s].rev
        => \E q \in ActiveRuns(run') :
            /\ run'[q].parent = r
            /\ \A s \in Sources : run'[q].sources[s].rev =
                    IF source[s].active THEN source[s].rev ELSE None]_vars

\* At most one run is active, an active run is driven by a live job, and the
\* published wiki is whole, whatever workers, cancellations, retries and
\* changes of the configuration do (newRunTx, RecoverRun, AfterPage,
\* TerminalCallback).
RunIsDriven == DocTypeOK /\ OneActiveRun /\ RunHasDriver /\ WikiIsWhole

\* What happened to runs stands and nothing is forgotten: a finished run keeps
\* its outcome, a published wiki replaces the very one its run captured, and a
\* content change during a run is followed up in the step that ends it
\* (PublishRun, FailRun, TerminalCallback, reconcileDriftTx).
RunHistory == OutcomeKept /\ WikiChain /\ DriftFollowedUp

\* Documentation jobs ask of the queue only what it promises.
Queue == INSTANCE JobLifecycle WITH
    Jobs <- DocJobs, MaxRuns <- Attempts,
    phase <- [j \in DocJobs |-> job[j].phase],
    budget <- [j \in DocJobs |-> job[j].budget],
    announced <- [j \in DocJobs |->
                    IF job[j].phase \in {"failed", "cancelled"} THEN 1 ELSE 0]

UsesLifecycle == Queue!Spec

\* Workers keep polling and handlers return; nothing makes a worker fail, an
\* operator cancel or a source change.
DocFairness ==
    \A j \in DocJobs :
        WF_vars(Lease(j) \/ HandlerStep(j) \/ Accept(j) \/ FinishCancel(j))

DocFairSpec == Spec /\ DocFairness

\* Every run ends: whatever is lost, cancelled or changed meanwhile, no run
\* stays active for good, which would bar the knowledge base from every
\* further run. (The last run within the bound is left out: it may have to
\* create one more.)
RunsEnd ==
    \A r \in RunIds \ {MaxRuns} :
        run[r].status \in ActiveStatus ~> run[r].status \in TerminalStatus
=============================================================================
