# Verification of the documentation bot

The repository (ref0, "CommandPrompter Doc Bot") builds wikis from source
repositories and web sites with language models, and answers questions from
them. Its state is in PostgreSQL and in a directory of artifacts. Several
processes (an API server and any number of workers) share both. This directory
holds TLA+ models of the parts in which the hard behaviour lives, the TLC runs
that check them, and TLAPS proofs about all of them except the algorithms of
answers and the splitting of messages.

Run a check with `tlc -workers 2 -config <cfg> <MC module>`, a proof with
`tlapm <module>Proofs.tla` (two to ten minutes each). `PROJECT.json` lists the runs, the source lines
each definition stands for, the mutants that show that each property can fail,
and the hazards the properties are about. An operator `Name_bug`, defined before
`Name`, is a plausible bug in the code `Name` models; one per property is listed,
the others were tried against further conjuncts of the same properties by
replacing the body of `Name` with a use of them.

## Inventory

| Component | State | Operations | Interacts with |
|---|---|---|---|
| Durable job queue (`internal/jobs`) | `jobs`, `job_attempts`, `job_events` | Enqueue, Claim, Heartbeat, Succeed, CompleteAcceptedResult, Retry, Fail, AcknowledgeCancel, RequestCancel, AssertPermit | every service enqueues; workers claim; terminal callbacks |
| Model admission (`internal/jobs/model_calls.go`) | `provider_call_leases`, concurrency keys of jobs | Claim, AcquireModelCall and its release | answers and model jobs share an endpoint |
| Worker (`internal/worker`) | goroutines of one process | RunOnce, the handler, heartbeats, acceptHandlerResult, adoptCancellation | job queue, handlers |
| Documentation (`internal/documentation`) | `documentation_runs`, pages, claims, published wikis | RequestGeneration, Prepare, AcceptPlan, BeginPage, CompletePage, SkipPage, BeginFinalization, Publish, FailRun, TerminalCallback | jobs, knowledge bases, sources, models, artifacts |
| Capsule documentation runtime (`internal/capsuledoc`) | budget and history of a tool session | list, search, read, submit a plan or a page, correct it | capsule sessions, snapshots |
| Capsules (`internal/capsule`, `capsule/`) | slots, waiters, sessions, attempts, supervisors | acquire, hand over, release, close; one conversation per attempt; read a provider's stream | documentation handlers, model providers |
| Artifacts (`internal/artifacts`) | files of runs and wikis, locks, staging directories | SavePage, LoadPage, DiscardRun, Publish, purge | documentation, retention, knowledge bases |
| Knowledge bases (`internal/knowledgebases`) | `knowledge_bases`, deletion intents | Create, Update, RequestDelete, Restore, Purge, TerminalCallback | jobs, artifacts |
| Sources (`internal/sources`) | `sources`, `source_syncs`, revisions | create, update, lifecycle, request, poll, Begin, CompleteValidation, CompleteSync, TerminalCallback | jobs, documentation, credentials, snapshots |
| Acquisition (`internal/sourcegit`, `internal/sources/website.go`, `tinyfish.go`) | the mirror of a repository; frontier and pages of a capture | Materialize, validate; crawl, fetch, merge, publish | sources, snapshots, remote systems |
| Snapshots (`internal/sourcefiles`) | directory, marker and intent file of each revision | StoreSnapshot, LoadSnapshot, DiscardSnapshot | acquisition, retention, readers |
| Retention (`internal/retention`) | deletion intents, event watermark | stage, discard, replay, prune | artifacts, snapshots, wikis, answers, events |
| Providers (`internal/providers`) | endpoints, profiles with versions, assignments, discovery and probe runs | edit, assign, discover, probe, complete, TerminalCallback | jobs, credentials, documentation, agents |
| Agents (`internal/agents`), model budget, chat tokens | versioned agents, runs, receipts, wiki reservations, tokens | capture a scope, build a prompt, execute, assert it fresh, record, deliver | wikis, model admission, Discord, API |
| Discord (`internal/discord`) | connections, bindings, directory, invocations, contexts, gateways | supervise gateways, admit, reauthorize, deliver, remember, validate, register | agents, jobs |
| Idempotent commands, events | `idempotency_records`, `event_log`, `pruned_through` | Execute, Append, ReadAfter, prune, stream | every operator command; dashboards |
| Authentication (`internal/auth`) | bootstrap token, operator, sessions, password slots | InitializeBootstrap, Bootstrap, Login, Logout | API, connection pool |
| Credentials, network policy, API, worker runtime, frontend, migrations | versions of secrets; otherwise none of their own | rotate; I/O and translation | |

What is hard here: every handler may lose its lease at any moment and go on
running; several workers may have the same `WORKER_ID`; permits are checked in
one transaction and used in a later one; answers of the database are lost after
the commit; a job ends without its handler (exhaustion, cancellation, expiry)
and the domain only hears of it by a callback; configuration, content and
lifecycle change while a run of many jobs is under way; files are written and
removed outside transactions by handlers that may have lost their lease; permission
is checked before slow calls and has to hold after them; models, providers, web
sites and the process in a capsule are not trusted; and a handful of goroutines
wait for slots, connections and locks of each other.

## Modules

| Module | Models | Reads like |
|---|---|---|
| `JobLifecycle` | what the queue promises its clients | abstract specification: submit, start, requeue, settle once, announce once |
| `JobQueue` | `internal/jobs` with `db/queries/jobs.sql` | rows, attempts, leases as countdowns, row locks as open transactions, admission |
| `WorkerRunner` | `internal/worker`, extends `JobQueue` | main, handler and heartbeat goroutines of each process |
| `DocumentationRun` | `internal/documentation`, uses jobs as `JobLifecycle` | runs, pages, their jobs, concurrent changes |
| `DocumentationAgent` | `internal/capsuledoc`, the generation loop | planner and writers with tools, untrusted submissions, corrections |
| `WikiArtifacts` | `internal/artifacts` | the files of one run, attempt by attempt |
| `Capsule` | `internal/capsule`, `capsule/supervisor` | pool, sessions, attempts and the untrusted child behind each slot |
| `ProviderStream` | `internal/capsule/sse.go` | a parser of any stream of events |
| `KnowledgePurge` | `internal/knowledgebases` and the purger of `internal/artifacts` | deletion with intent, removal outside transactions, recovery |
| `SourceSync` | `internal/sources`, the snapshot part of `internal/retention` | one source, its captures, jobs, revisions and deletion intents |
| `GitMirror` | `internal/sourcegit` | a mirror that processes share, and the snapshot of one commit |
| `WebsiteCrawl` | `internal/sources/website.go`, `tinyfish.go` | captures of one site, fetched in concurrent batches |
| `SnapshotStore` | `internal/sourcefiles/store.go` | one snapshot on a disk, step by step, with kills, failures and losses of power |
| `Providers` | `internal/providers` | one endpoint and model, edited while captures examine them |
| `AgentAnswer` | `internal/agents`, `internal/chattokens`, `internal/api/compatibility.go`, the wiki part of `internal/retention` | an answer from its token to its delivery, and the wikis it reserves |
| `AnswerAlgorithms` | `internal/agents/guardrails.go`, `retrieval.go`, `internal/modelbudget` | the prompt's budget, the merge of hits and the truncation, with what they promise |
| `Discord` | `internal/discord` | one connection, its gateways, jobs and questions |
| `DiscordPresentation` | `internal/discord/presentation.go` | the loop of SplitMessage |
| `CommandEvents` | `internal/idempotency`, `internal/events`, `internal/api/events.go`, the event part of `internal/retention` | commands as open transactions, streams as readers |
| `OperatorAuth` | `internal/auth` | requests that compete for a token, slots and connections |
| `JobQueueProofs`, `WorkerRunnerProofs`, `DocumentationRunProofs`, `AgentAnswerProofs`, `DiscordProofs` | | theorems about the module of that name (`AgentAnswerProofs` also about `AnswerAlgorithms`) |
| `SourceSyncProofs` | | theorems about `SourceSync` and `WebsiteCrawl` |
| `FileStoreProofs` | | theorems about `KnowledgePurge`, `SnapshotStore`, `WikiArtifacts` and `GitMirror` |
| `ComponentProofs` | | theorems about `CommandEvents`, `OperatorAuth`, `Providers`, `Capsule`, `ProviderStream` and `DocumentationAgent` |
| `MC*` | | the constants of each run |

`JobQueue` is composed upwards in two ways. `WorkerRunner` extends it: every
step of a worker is a step of the queue. The domain modules use jobs through the
abstract `JobLifecycle`: `ImplementsLifecycle` shows that the queue implements
it, `UsesLifecycle` that documentation jobs move only as it allows. Both are proved
as well as checked.

Components that share no state are checked side by side in one run: in
`MCComponents` and `MCProgress` a variable `part` names the component a behaviour
is about, `In(part)` keeps all others unchanged, and fairness is stated for the
component of the behaviour only. The runs extend the modules they check, so that run
and theorem are about the same definition. The same
device lets `MCWorkerRunner` check the queue alone, in the two instances of `MCJobQueue`,
and under worker processes; where there are none, a result that is reported counts as
written.

### JobQueue

A stored timestamp is the number of ticks until the database clock reaches it,
so that time is unbounded and the state finite; 0 is "passed" and -1 is NULL.
An operation with a permit is two steps: it locks the row, checks
(`lockPermit`) and writes versions only it sees (`tx[j]`), and later commits or
rolls back; time passes and others run in between. `Claim` holds the admission
lock from start to end and skips locked rows, so it is one step: it reaps the
rows it meets that cannot be leased (`MustReap`), and leases the first that can.
Any permit ever issued may be presented at any time (`Issued`). `job_events`,
progress and payloads are left out, as is the wording of failures.

### WorkerRunner

`at` is the main goroutine: idle, claimed (before GetCommand), executing (in
the select), draining (waiting for the heartbeat goroutine), accepting, calling
(a queue operation is open), adopting. `handler` keeps a goroutine per permit,
because a handler the main goroutine gave up on is told to stop but not awaited.
The answer of a claim may be lost after its commit. A crash loses everything
local and rolls back the transactions of the process.

### DocumentationRun

One knowledge base, since runs of different ones share no rows. A run row holds
what it captured (version and text of the knowledge base, active sources with
configuration and revision, model routes, the prior wiki). Each store operation
is one step and each handler a sequence of them (`stage`). The content of plans
and pages is abstracted to the decision it leads to. `Interrupt` models
`interruptTx` with its rollback when no successor can be captured, `FollowUp`
the follow-up after content drift, `Publish` the commit whose answer may be
lost. The changes others make meanwhile are actions of `Environment`.

### KnowledgePurge

One knowledge base, its directories, purge jobs and workers. The handler's two
transactions and the removal of each directory between them are separate steps;
a worker that lost its lease may keep removing until it notices (`Abandon`).
`Restore` cancels the job and, in the same transaction, runs its callback.

### SnapshotStore

One revision. `intent`, `dir` and `marker` are what a process sees; `durable` is
what is known to survive a loss of power. A step is one change of the disk with
the flush that follows it at once; a file that was not flushed may after a loss be
as it was, as it became or, for the marker, empty or torn. `removal` and
`disturbed` are not in the code: they say when the files are being removed, and
which operations a removal overlapped, so that the properties can except exactly
these. Two remarks on what the run shows the code to do. A kill between creating
and writing the marker leaves an empty marker: a later store of the same content
succeeds, one of another content is refused. And a killed publisher followed by a
loss of power can leave the intent "complete" without a marker, which bars the
revision id; hence `LeftoversYield` speaks of executions without such a loss.
Revision ids are not reused, so neither does harm beyond one synchronization.

### SourceSync

Synchronization `i`, its job and its candidate revision share a number. The
transaction of `complete` that makes a revision current is two steps
(`CompleteSync`, `Commit`), since retention reads without the locks it holds;
every other transaction is one. `writing` is the holder of the source's row.
`checked` is not in the code: the configuration the stored health is about. A
worker whose lease is gone keeps its handler (`Abandon` may come late), as does a
retention worker (`LoseKeeper`). Files are those `SnapshotStore` promises: whole,
immutable, refused for another content. No documentation run or evidence refers to
the revisions, which is what makes them candidates for retention.

### DocumentationAgent

`agent` is the handler: planning, writing a page, done or failed. In a session the
model calls any tool on any path; `tools` counts calls and bytes as
`sourceToolSession` does, `shown` and `given` are histories of what came out.
Submissions are any members of small sets, refused with a correction until
`ValidationAttempts` are used up; a page that the handler finds invalid is written once
more, and any other error of the validation ends it. A path carries what manifest and
`llms.txt` say of it, since coverage is decided from them, of each web site by itself.

### WikiArtifacts

A page is three files, created in order with exclusive creation, never changed. Every
attempt generates other text; a writer may be killed between any two files, or lose
its lease and go on (`holder` is the lease, `writer` the handler). Locks are those of
the code: shared on the run, exclusive on a page, on the wiki version and, for
`DiscardRun`, on the run. What the run shows besides its properties: an attempt killed
after the first file makes every later generation of that page with another text fail
as immutable, until the attempts of the job are used up; and a late `SavePage` after
`DiscardRun` writes files that nothing removes again.

### Capsule and ProviderStream

`pool` and `offer` are `SlotPool` and the channels of its waiters: a grant puts a slot
into a channel whose reader may already have been cancelled. `session` is the goroutine
of a session, `attempt` its `OpenAIAttempt`, `capsule` the supervisor behind a slot,
`wire` the two ends of the connection. The child sends any message at any time and may
outlive its connection; the supervisor cleans up before it accepts the next.
`ProviderStream` is the loop of `ParseOpenAISSE`, one step per event; its property
reads the accepted stream again, independently of the parser's variables.

### GitMirror and WebsiteCrawl

`GitMirror` has processes that execute attempts of revisions on one mirror under a
file lock, killed at any step with their git command, while the branch moves. Patterns
are sequences of segments; the property compares what was stored with the existence
of a laying of the path over the pattern, a definition unlike the code's recursion.
A `git init` killed midway leaves a partial mirror that every later synchronization
refuses, which is what the code does.

`WebsiteCrawl` draws batches from the frontier, fetches them concurrently (the order of
arrival is free) and merges them in the batch's order. Sites are enumerated with
redirects, canonical names and links that form circles, robots groups and sitemaps.
A capture is conditional on a previous revision (`known`): a retry on the same one, the
next synchronization on the pages just published or, if that job failed, on the older
ones, and on none once retention has removed its files. Met while modelling: a page
that was not modified (304) is kept under the URL that answered and not under its
canonical name, so that `CaptureIsSound` speaks of unchanged sites only if no
canonical name is redirected (`NamesAreServed`; what happens otherwise is the run
`website_resync`); a page whose stored file exceeds the limit only with its header
fails every later capture that gets a 304; and a robots group that names this agent
without rules falls back to `*`.

### Providers

Edits of endpoint, key and profile against captures that execute outside transactions;
`CompleteDiscovery` and `CompleteProbe` decide under locks whether what was found still
applies. The origin of each setting is kept, as only findings may be replaced by
findings; a probe examines the capabilities whose checks were selected and leaves the
others. After a change of the runtime only an edit by an operator revives a profile.

### AgentAnswer and AnswerAlgorithms

`exec` is the program counter and the local variables of an execution: authenticate,
capture, search, model turns with tools and retries, draft, record, authenticate again,
deliver. A turn may ask for several tools, which run without a check between them, and
a single pass reads what its first search found: pages, claims or the sources of claims.
`held` are reservations with their remaining time, `keeper` the retention job:
selection, staging, files, row, each a step. Histories (`tokenKept`, `inScope`,
`public`) record what was true when the code decided. The algorithms are operators
over lengths in bytes: a text is how long it is, a message also its role, and what a
caller can carry is said of each boundary. Each is a loop of the code as one (`Loop`: the
state after each iteration), with what it promises beside it (`BudgetSound`,
`MergeSound`, `TruncationSound`). `PromptIsSound` tries them on all inputs of a sample
(up to three messages, two pieces of evidence, three wikis and `MaxSample` boundaries) in
each state in which an execution has built its prompt.

### Discord and DiscordPresentation

`conn`, `binding`, `directory` and `chat` are rows, `guild` is what Discord says,
`gateway` the runs of the supervisors (each process may have one that was abandoned
after five seconds beside its present one), `ask` one question through admission,
answer, a check before every message, and the stored context. Met while modelling: a
`Close` that falls between storing the session and `session.Open` leaves a session
open that nobody closes (`leaked`), and a lost database session frees the advisory
lock while its gateway is open (`lost`); `OneGateway` excepts exactly these. A
validation that fails sets the connection's state without a new version, which
suppresses deliveries under way. `ask.late` counts, for what is stored and for what the
guild says, the messages sent since a step of the question last met that authority; it
is put back by the authority holding, not by a check having passed. A worker's job ends
at its first attempt when Discord or the credential refused it ("rejected") and is tried
again otherwise, also after a stale capture, which the runner takes for an unexpected
error.

`DiscordPresentation` is the loop of `SplitMessage` over texts of fence marks,
newlines, spaces and other characters.

### CommandEvents and OperatorAuth

In `CommandEvents` a command is a transaction of several steps: lock of the key, replay
or operation, sequence number under its lock, record, commit or rollback. Streams read
committed events after a cursor, the oldest first (a batch is the set of the oldest
ones), are reset when their cursor was pruned, and check
their session on a timer in spite of a backlog. What was flushed need not have arrived:
`views` are the states in which the client may be when the connection ends, one per
message, and it reconnects from any of them. A client without a cursor, because it has
received nothing yet, begins again at the tail, and the stream promises it nothing of
the time before: `NoEventSkipped` counts from where a client began.

In `OperatorAuth` a request holds connections, the row of the token and password slots
in the order of the code (Bootstrap: connection, row, slot; Login: slot, connection).
Waiting ends when the client goes away; that is part of the fairness.

## Runs

| Run | Question | Bounds |
|---|---|---|
| `queue_and_worker` | Queue: do rows, attempts and callbacks stay consistent (`IndInv`, the inductive invariant of the proofs), are transactions fenced, do limits hold when transactions end before their lease, and is `JobLifecycle` implemented? Worker: is a permit in one process's hands, a success really accepted, every job settled, and does the process return to polling? | "lifecycle": 2 workers, 2 jobs of which one may be tried twice and one is delayed, leases of 2 ticks, late commits; "admission": 3 profiles on 2 endpoints, 2 model jobs of 4 commands, 1 model call; "two": 2 processes with one `WORKER_ID`, 1 job, 1 crash; "one": 1 process, 1 job, 2 crashes; a job type without handler |
| `queue_late_heartbeat` | Does the endpoint limit hold when a transaction may outlive its lease? Violated, see below. | admission with late commits |
| `run_content` | Do publications form a chain, are outcomes kept, is drift followed up once? | 2 runs, 1 page, 2 attempts, 2 changes of which one is of content, or 1 of any kind |
| `run_jobs` | At most one active run, never one without a job, whole wikis, jobs as `JobLifecycle` allows, and do all runs end? | 2 attempts; a run of 1 page with 1 change or failure and the run after it, or only one run with 1 or 2 pages and 2 failures |
| `components` | Snapshots: does a marker stand beside whole files, is what is published immutable, what is discarded gone, and do leftovers yield? Artifacts: are recorded pages stored and published wikis whole? Mirror: is a snapshot one selected commit with the wanted files? Providers: do captures end with jobs and findings describe what was examined, and does an operator's word stand? Stream: has what is accepted one reading? Agent: does a finished wiki cover its web site, and stay sessions in their budget? | 2 processes each; snapshots 2 contents, 3 operations, 2 failures, 1 loss of power; artifacts 1 page, 2 texts, 1 kill, 4 leases; mirror 4 commits, 2 revisions, 3 attempts, 1 push, 1 kill; providers 2 captures, 2 edits, 1 loss, 3 together; streams of 5 events of 13 kinds; 5 trees, one of two web sites, 2 calls, 2 submissions |
| `sync_captures` | Do captures end with their jobs, is an active source validated, does health speak of the current configuration, do completions move forward and readable revisions keep their files? | 2 workers, 2 retention workers, 3 captures, a remote that changes and changes back, 2 attempts; scenarios of `CaptureScenarios`, workers symmetric |
| `sync_retention` | Is the current revision never a candidate of retention? Violated, see below. | 1 worker, 1 retention worker, nothing fails |
| `answers` | Are needed wikis kept, is what is delivered granted and in scope, do reservations end, does the prompt fit? | 1 request, 2 knowledge bases with 2 wikis, 1 change, 1 fault, 2 tool calls (both find something new, the first in the first knowledge base, the second in the other), reservations of 2 ticks |
| `discord` | Is at most one message sent after the operator, and one after the guild, has withdrawn what it rests on, one gateway open, context what was delivered, an operator's change kept, an enabled connection served? | 2 replicas with faults and no questions, or 1 with 2 commands, questions or changes; 2 bindings, 2 messages |
| `discord_split` | Does splitting return? Violated, see below. | code blocks with a line, one or two newlines and another line |
| `website_resync` | Does an unchanged site keep its version when it is synchronized again? Violated, see below. | one site of 2 documents, 2 captures |
| `progress` | Purge: are files of a usable knowledge base safe, is a begun purge irreversible? Crawler: do captures agree and obey robots.txt? Capsules: has a slot one owner and is what is accepted what was submitted? Events: is a command applied once and no event skipped? Authentication: is there one operator and are slots kept? And does each end what it begins? | 2 workers, 2 attempts, 4 jobs, 3 commands, 2 failures; sites of 4 documents or 2, batches of 2, 2 captures; 2 sessions on 1 slot; 2 requests, 2 keys, 3 events, 1 stream; 3 requests, 2 replicas with different tokens, 2 connections, 1 slot |

Why the bounds are enough: two actors are needed for every race listed in the
hazards and a third adds only permutations; two attempts give a first, a retry
and a last one; two runs or captures give one and its successor; leases of two
ticks tell "about to expire" from "expired"; two sessions on one slot are a holder
and a waiter; two connections and one password slot are the least with which
Bootstrap and Login can wait for each other. Action constraints named `Focus` leave
out combinations of stimuli (commands, faults, kills) and which of two free workers
takes a job, never the only way to take a step that fairness is about. `CHECK_DEADLOCK FALSE` is used only where the bounded numbers
of runs, changes and commands may be used up.

Fairness. `WorkerRunner` assumes that goroutines are scheduled, that transactions
end, that the loop in `Run` polls again and that the clock advances; handlers
return after finitely many writes (strong fairness, as each write disables the
return while it is open); that the answer to a claim arrives is not assumed. Its
liveness properties are conditional on transactions not failing for ever.
`DocumentationRun` and `KnowledgePurge` assume workers that lease jobs and handlers
that take their next step. `WebsiteCrawl` assumes that requests end, which their
timeouts enforce; `Capsule` that sessions go on or reach their deadline and
supervisors clean up; `CommandEvents` that a stream's loop runs and its timer fires;
`OperatorAuth` that requests go on or their clients leave, and that a replica that
waits in the connection pool is served in the end (strong fairness; the pool serves
waiters in order); `AgentAnswer` that an execution goes on, the clock advances and
retention is scheduled again; `Discord` that supervisors reconcile and runs take
their steps. Nothing makes failures, commands or changes happen. `SnapshotStore`,
`WikiArtifacts`, `GitMirror`, `Providers`, `DocumentationAgent` and `SourceSync` are
checked for safety only; that jobs settle is `WorkIsSettled`.

## Where the code and its documents disagree

* `queue_late_heartbeat`: `Heartbeat` checks its lease, and may commit when it has
  expired; `Claim` and `tryModelCall` have meanwhile counted the lease as expired
  and given its place away. The endpoint then runs more tasks than its limit,
  although the architecture document describes the limit as shared across
  processes. With `LateCommit = FALSE` (no transaction outlives its lease) the
  limits hold: `AdmissionWithinLimits` in
  `queue_and_worker`.
* `sync_retention`: `stageSourceSnapshots` reads `sources` without locking it, and
  `complete` chooses an old revision without locking it; the foreign key between
  them is checked at the commit only. An intent committed in between names a
  revision that is current a moment later; its files are removed and it is marked
  purged, although "Current wikis and source revisions are never retention
  candidates" (`docs/operations/metrics-and-retention.md`). It takes a remote that
  returns to a content older than the retention period.
* `discord_split`: a blank line early in a code block whose rest has no boundary
  within the limit is where `SplitMessage` cuts again and again: it removes what it
  put in front, and does not return. The test of long code blocks
  (`internal/discord/presentation_test.go`) expects it to return chunks.
* `website_resync`: a site serves `/docs` from `/docs/`, which names `/docs` as its
  canonical URL. The first capture keeps the page as `/docs`; the second asks for
  `/docs` with the validators kept under that name, is led to `/docs/`, gets a 304 and
  keeps the old text as `/docs/`. The version of the source changes although the site
  has not, and again with the third capture. The test of incremental crawls
  (`internal/sources/website_test.go:283`) expects the version of a capture that
  follows an equal one to be the same.
* Noted while modelling, without a run: the state machine in the architecture
  document has no move from PREPARING or PLANNING to INTERRUPTED, nor from PLANNING
  or FINALIZING to FAILED; the code makes all of these. A terminal callback with a
  persistent error rolls back every claim that meets its job. Follow-ups for skipped
  pages are not bounded in number.

## Proofs

The theorems are of the form `Spec => []P` or `Spec => [][A]_vars` and hold for any
number of workers, jobs, attempts, requests, wikis, and so on; three are about the
operators of `AnswerAlgorithms`, for any argument. Each module of proofs
names an inductive invariant, has one lemma per action (or family of actions), and
ends with the theorems. Before it was proved, TLC checked each invariant on the
instance of the run, or found the counterexample that showed what was missing.

**JobQueueProofs.** `TypeCorrect`; `QueueInvariant` (`IndInv`, which contains
`RowConstraints`, `AttemptLedger` and `NotifiedOnce`); `Fencing`
(`FencedTransaction`); `TakeOver` (a job changes hands only after its lease);
`Implementation` (`ImplementsLifecycle`: every step of the queue is a step of
`JobLifecycle` or a stutter); `Admission` (`AdmissionWithinLimits`). Assumptions:
`BoundsAssumption` (lengths are positive, calls are finitely many), `NullsAssumption`,
`CommandsAssumption`, `EndpointsAssumption`. The table properties are not inductive:
they speak of committed rows, and the next committed row is what some open
transaction wrote a while ago. `IndInv` adds `TransactionSound`: an open transaction
still agrees with the committed row it started from (same generation and attempts;
held, if it checked a permit), and what it wrote is a legal successor with the outcome
and the callback that go with it. It is kept because nothing else writes a locked row.
`Admission` has the hypothesis `LateCommit = FALSE`: without it the statement is
false, as the run `queue_late_heartbeat` shows. Its invariant adds that a transaction
which will leave its job held is open only while the lease lives (`Prompt`), and a
limit for every k (`Sharing`), which survives the end of the job with the largest one;
what counts against a limit grows only in `Claim` and in admitting a call, which look.

**WorkerRunnerProofs** extends the former: `RunnerTypes`, `OneHolder`
(`OnePermitHolder`), `SuccessAccepted` (`SuccessWasAccepted`) and `RunnerFencing`
(`FencedTransaction` in the composed system). `RunnerInv` joins the queue's invariant
with what the goroutines know: permits in use were issued to their holder's worker ID
and no two processes have the same one, a transaction of the main goroutine is the one
its process waits for, what a handler returned as accepted was accepted, and a
transaction about to report success rests on that.

**DocumentationRunProofs**: `DocDriven` (`RunIsDriven`), `FollowUps` (`OneFollowUp`),
`History` (`RunHistory`) and `RunsUseQueue` (`UsesLifecycle`). `DocInv` says for every
run that its status fits its jobs (`Fits`: what a status needs is a live job, what
comes later has none yet; the pages are open, decided or complete as the status says; a
handler that publishes found none skipped), that one run is active, and that a run with the published version captured
that wiki. Every action is shown to be `Good`: it keeps the types and the part of the
run it moves, and is a step of the history.

**AgentAnswerProofs**: `WikisRetained` (`WikisAreRetained`), `Granted`
(`DeliveredIsGranted`), `InScope` (`AnswerIsInScope`) and `AnswersTyped`. Under
`AnswerAssumption`, for any number of requests at once where the run has one.
`AnswerInv` adds to retention that stored wikis are not newer than the published one,
so that a wiki that is no longer published can never be again; that what a deletion has
in its hands is a staged row without files; and for each execution that the rows its
open transaction locks are as it read them (`LocksHold`), that its version is not newer
than the agent's, and if it is the same, so is the configuration (`CaptureFits`), that
its citations are of wikis it captured (`Cited`), and that the run it is about to
deliver is the recorded one (`Recorded`). `DeliveredIsGranted` then follows because a
revoked token stays revoked, and `AnswerIsInScope` because `AssertSecurityFresh`
compares the version.

Of the algorithms, `BudgetFits`, `MergeFair` and `TruncationLongest` are proved for
inputs of any size, and `PromptSound` (`PromptIsSound`) for any sample of them. That a
loop has a state after each iteration, and keeps what its steps keep, is shown once
(`LoopIs`, `LoopInduction`). For the budget, what is used never exceeds the capacity nor
falls, so that what did not fit does not fit at the end (`SpendingIs`); the items are
considered in another order than they are summed in, so a sum is shown to grow by as much
as one of its numbers (`TotalChanges`) and every item to be considered once
(`ConsideredOnce`). For the merge, `MergedUpto` holds after every group of every round:
what is merged is in order, what is left out comes after it and the limit is reached, and
each round that found a hit added one. For the search, `Searches` says that low fits,
what follows high does not, and the distance falls with every iteration. The prover has no
functions of two arguments, which is why an iteration of `Loop` is a function of its own.

**DiscordProofs**: `DiscordSound` (`DiscordInv`), `FewLateMessages` (`LateMessages`),
`GatewayIsOne` (`OneGateway`), `RememberedIsDelivered` (`ContextIsDelivered`) and
`OutdatedJobYields` (`OperatorChangeStands`). Beside the types, `DiscordInv` says that a
run past its start holds the advisory lock, also when it was given up, unless the lock
was `lost` (`LockHeld`); that the stored and the live authority of an answer were met
since its last message when the next is about to be sent, and that a question without
messages left was delivered (`AskHeld`); and that the stored context consists of delivered turns
(`TalkHeld`). `StoredCheckIsSound` and `LiveCheckIsSound` are what the bound of late
messages rests on: what `assertDeliveryDatabaseState` and the comparisons with the
refreshed guild accept implies what they are there for (`StoredAuthority`,
`LiveAuthority`), which is stated without them.

**SourceSyncProofs**: `SyncSound` (`SyncInv`), `CapturesEndWithJobs`
(`CapturesAreSound`), `ReadableHasFiles` (`RevisionHasSnapshot`), `CompletionsInOrder`
(`ObservedInOrder`) and `CapturesAgree` (`CaptureIsSound` of the crawler). `SyncInv`
relates each capture to its job and snapshot (`CaptureOK`), each handler to its
capture (`HandlerOK`), the source's current revision to a success with files
(`Adopted`, `Written`), its lifecycle and health to its configuration (`Validated`), and
retention to what is staged (`Retired`). `CapturesAgree` is about two executions of
one program in one state space. `CrawlReplays` says that what a capture holds, without
what only timing decides (its `View`: frontier, batch, pages and sizes, but not which
answers have arrived), is reached by a sequence of views in which the site and the mode
determine each from the one before (`Moves`), and that a result in hand is the one the
site has for that item, whichever way and whenever it arrived (`Outcome`); two captures
that publish both publish the view at which the sequence ends. The sequence depends on
the previous revision only through pages that were not modified; `Honest` says that
every previous revision has what the site would be read as, if no canonical name is
redirected, and `ReadAgain` that the sequence is then the one of a capture that knows
nothing. `CrawlObeys` carries the part about robots.

**FileStoreProofs**: `PurgeSafe` (`PurgeIsSafe`) and `PurgeFinal` (`PurgeIsFinal`);
`SnapshotStages` (`SnapInv`), `SnapshotSound` (`SnapshotIsSound`) and `SnapshotKept`
(`SnapshotHistory`); `ArtifactsWhole` (`ArtifactsAreWhole`); `SnapshotFaithful`
(`SnapshotIsFaithful`). `PurgeInv` adds what a
handler that has lost its lease may still do: it removes only under an intent that
outlives it (`Removal`), and of the enqueued jobs only the last may be active
(`Backlog`). `SnapInv` says for every stage of a publisher, reader or remover what is on
the disk (`HolderOK`, `ReaderOK`) and what of it would survive a loss of power now
(`Flushed`): a flush between two steps is what makes the second one's premise durable.
`ArtifactsInv` says for every stage of a writer which files are there with its text
(`StageOK`), which nobody else may change as long as it holds its lock or the files
exist. `GitInv` says what a process knows that holds the mirror's lock: the commit it
read at the remote, or finds in the mirror it has just fetched into, is one the branch
had since the first attempt of its revision. That the stored files are the wanted ones
rests on `MatchesCovers`, a theorem about all patterns and paths: the states in which
`filterPattern.matches` is after k segments are those before which the first k segments
can be laid (`ReachesAll`), and the last matching line of an ignore file decides
(`LastDecides`).

**ComponentProofs**: `EventsSound` (`EventsAreSound`), `AuthSound` (`AuthIsSound`),
`ProvidersSound` (`ProvidersAreSound`), `OperatorValues` (`OperatorValueStands`),
`CapsulesSound` (`CapsuleIsSound`), `WikiCovers` (`WikiCoversWebsite`) and `StreamRead`
(`AcceptedIsUnambiguous`). `EventsInv` adds what the locks of key and sequence protect:
who holds the number of an event not yet committed, no reader's cursor has passed it
(`SequenceHeld`), a batch a reader has in hand is without gaps, and a client is never
ahead of its reader (`CursorsFollow`).
`CapInv` says that a slot is leased exactly while one session has it, in its hands or in
its channel (`PoolOK`), that what a host runs or accepts was asked for (`AttemptOK`), and
that a capsule that accepts a connection runs nothing (`CapsuleOK`). `DocAgentInv` joins what was checked when the plan was accepted (`Planned`) with what was
checked of each page against that plan (`PagesParsed`), and bounds what was shown by
what was counted (`Counted`). `StreamInv` says that the parser's variables are a
summary of the events read so far.

The assumptions on constants (`PurgeAssumption`, `SnapshotAssumption`,
`ArtifactsAssumption`, `GitAssumption`, `EventsAssumption`, `AuthAssumption`, `ProvidersAssumption`,
`CapsuleAssumption`, `AgentAssumption`, `StreamAssumption`, `CrawlAssumption`: bounds are
numbers, sets are finite, nulls are no values, what a site or a provider sends has the
shape a transport yields) are definitions there: hypotheses of the theorems that need
them, and evaluated by TLC as part of `ProgressAssumption` and `ComponentsAssumption`.
`SyncAssumption`, `DiscordAssumption`, `AnswerAssumption` and `DocumentationAssumption` are
assumptions of their modules.

Where a proof needs induction (the first event of a batch, the number of a new run, the
last observation, two sequences of views that agree up to k, the states after k
segments of a path, the iterations of a loop), it takes the least
element of a set of numbers, or the least counterexample: the library's principle with a
set in place of a predicate.

Only model-checked:

* everything about liveness (`WF`, `SF`, `ENABLED`), which is out of the prover's reach:
  `WorkIsSettled`, `RunsEnd`, `ReservationsEnd` and the other leads-to properties;
* the termination of `SplitMessage` (`DiscordPresentation`), which is false.

## Not modelled, and the plan

Not modelled: network policy, cryptography, the wording of prompts and the shape of
payloads (I/O and conversion without a state of their own); parsing of HTML, robots
and URLs, which enters as what it yields; HTTP translation except for answers and
event streams; the operations overview (read-only); start-up of the worker runtime;
generated queries and migrations; the frontend. The code of the agent in the capsule
is not modelled: the host must be right whatever it does, and `Capsule` lets it send
anything. Of retention, failed drafts and logs are deleted the way wikis and events
are, and left out.

Planned, in this order:

1. Two connections in `Discord` that share an application.
