------------------------------ MODULE SourceSync ------------------------------
(***************************************************************************)
(* One source and its revisions (internal/sources), with the retention of  *)
(* their snapshots (internal/retention).  A validation or synchronization  *)
(* captures the configuration of the source, a durable job executes it,    *)
(* and its completion decides whether what it found still applies.         *)
(*                                                                         *)
(* Synchronization i has candidate revision i, and job i executes it; jobs *)
(* are used as module JobLifecycle specifies them, and snapshots as module *)
(* SnapshotStore does.  The knowledge base is active and allows the source.*)
(* A command with a stale expected version is refused and changes nothing, *)
(* so every command here expects the current one.                          *)
(***************************************************************************)
EXTENDS Integers, Sequences

CONSTANTS
    Workers,
    Keepers,      \* workers that execute the retention job
    Upstream,     \* the contents the remote shows, one after the other
    Attempts,     \* max_attempts of a job (3 in the code)
    MaxSyncs,     \* bound: validations and synchronizations ever scheduled
    Scenarios     \* kinds of source, each with bounds on the commands of operators
                  \* and rotations of the secret, and on lost leases, failing
                  \* handlers and cancellations

Ids == 1..MaxSyncs
Nobody == "nobody"

ASSUME SyncAssumption ==
    /\ Attempts \in Nat \ {0} /\ MaxSyncs \in Nat \ {0}
    /\ Scenarios \subseteq [kind : {"REPOSITORY", "WEBSITE"}, commands : Nat, failures : Nat]
    /\ Len(Upstream) \in Nat \ {0}
    /\ Nobody \notin Workers

VARIABLES
    source,   \* the row of sources; current 0 is no revision
    secret,   \* version of the credential the source refers to
    remote,   \* how far the remote has come in Upstream
    sync,     \* rows of source_syncs, oldest first
    job,      \* their jobs
    handler,  \* what each worker executes
    writing,  \* the worker whose completion holds the row of the source
    revision, \* rows of source_revisions: the candidate of each sync
    snapshot, \* files of each candidate, as they were shown then; 0 for none
    intents,  \* revisions with a SOURCE_SNAPSHOT deletion intent
    keeper,   \* the worker with the permit of the retention job
    retiring, \* the intent each keeper works on
    checked,  \* the configuration the health of the source is about
    commands, failures  \* how many of them may still come

rows == <<source, sync, job>>
files == <<snapshot, retiring>>
bounds == <<commands, failures>>
vars == <<source, secret, remote, sync, job, handler, writing, revision, snapshot,
          intents, keeper, retiring, checked, commands, failures>>

Active == {"queued", "running", "cancelling"}
Settled == {"succeeded", "failed", "cancelled"}
Closed == {"SUCCEEDED", "FAILED", "SUPERSEDED"}
Scheduled == {i \in Ids : job[i].phase # "none"}
FreeId == IF Scheduled = {} THEN 1 ELSE 1 + CHOOSE i \in Scheduled : \A k \in Scheduled : k <= i

NoSync == [kind |-> "none", status |-> "none", version |-> 0, configuration |-> 0,
           secret |-> 0, result |-> 0, seen |-> 0]
NoJob == [phase |-> "none", budget |-> 0, holder |-> Nobody]
Idle == [at |-> "idle", sync |-> 0, budget |-> 0, seen |-> 0, chosen |-> 0]
NoRevision == [state |-> "none", seen |-> 0]
Resting == [at |-> "idle", revision |-> 0]

NewSync(kind, s) ==
    [kind |-> kind, status |-> "PENDING", version |-> s.version,
     configuration |-> s.configuration, secret |-> secret, result |-> 0, seen |-> 0]
(* Mutant: one attempt more than max_attempts. *)
NewJob_OneMore == [phase |-> "queued", budget |-> Attempts + 1, holder |-> Nobody]

NewJob == [phase |-> "queued", budget |-> Attempts, holder |-> Nobody]

(* createRepositoryOnce and createWebsiteOnce: a draft whose validation is scheduled. *)
Created(kind) ==
    [kind |-> kind, lifecycle |-> "DRAFT", health |-> "UNKNOWN", version |-> 1, configuration |-> 1,
     validated |-> 0, current |-> 0]

(* A source is found as it was created, or with one synchronization behind it. *)
Init ==
    /\ secret = 1 /\ remote = 1
    /\ \E scenario \in Scenarios :
       /\ commands = scenario.commands /\ failures = scenario.failures
       /\ \/ /\ source = Created(scenario.kind)
             /\ sync = [i \in Ids |-> IF i = 1 THEN NewSync("VALIDATION", source) ELSE NoSync]
             /\ job = [i \in Ids |-> IF i = 1 THEN NewJob ELSE NoJob]
             /\ revision = [i \in Ids |-> NoRevision]
             /\ snapshot = [i \in Ids |-> 0]
             /\ checked = 0
          \/ /\ source = [Created(scenario.kind) EXCEPT
                           !.lifecycle = "ACTIVE", !.health = "HEALTHY", !.version = 3,
                           !.validated = 1, !.current = 1]
             /\ sync = [i \in Ids |->
                   IF i = 1 THEN [kind |-> "SYNC", status |-> "SUCCEEDED", version |-> 2,
                                  configuration |-> 1, secret |-> 1, result |-> 1, seen |-> 1]
                   ELSE NoSync]
             /\ job = [i \in Ids |-> IF i = 1 THEN [NewJob EXCEPT !.phase = "succeeded"] ELSE NoJob]
             /\ revision = [i \in Ids |->
                   IF i = 1 THEN [state |-> "live", seen |-> 1] ELSE NoRevision]
             /\ snapshot = [i \in Ids |-> IF i = 1 THEN 1 ELSE 0]
             /\ checked = 1
    /\ handler = [w \in Workers |-> Idle]
    /\ writing = Nobody
    /\ intents = {}
    /\ keeper \in Keepers
    /\ retiring = [k \in Keepers |-> Resting]

-----------------------------------------------------------------------------
(***************************************************************************)
(* Commands of operators and the poll, which lock the row of the source;   *)
(* a secret is rotated without it.                                         *)
(***************************************************************************)
Command ==
    /\ writing = Nobody
    /\ commands > 0 /\ commands' = commands - 1
    /\ UNCHANGED <<remote, handler, writing, revision, intents, keeper, files, failures>>

(* scheduleOnce: an active job with the same operation key is adopted. *)
Schedule(kind) ==
    LET same == {i \in Ids : /\ job[i].phase \in Active
                             /\ sync[i].kind = kind
                             /\ sync[i].configuration = source.configuration
                             /\ sync[i].secret = secret}
    IN  IF same # {} THEN UNCHANGED <<sync, job>>
        ELSE /\ FreeId \in Ids
             /\ sync' = [sync EXCEPT ![FreeId] = NewSync(kind, source)]
             /\ job' = [job EXCEPT ![FreeId] = NewJob]

(* Mutant: an active source stays active with its new configuration. *)
Update_StaysActive(executionChanged) ==
    /\ Command
    /\ source.lifecycle # "REMOVED"
    /\ source' = IF executionChanged
                 THEN [source EXCEPT !.version = @ + 1, !.configuration = @ + 1,
                                     !.health = "UNKNOWN"]
                 ELSE [source EXCEPT !.version = @ + 1]
    /\ UNCHANGED <<secret, sync, job, checked>>

(* updateRepositoryOnce and updateWebsiteOnce; renaming a source changes its version only. *)
Update(executionChanged) ==
    /\ Command
    /\ source.lifecycle # "REMOVED"
    /\ source' = IF executionChanged
                 THEN [source EXCEPT !.version = @ + 1, !.configuration = @ + 1,
                                     !.health = "UNKNOWN",
                                     !.lifecycle = IF @ = "ACTIVE" THEN "DRAFT" ELSE @]
                 ELSE [source EXCEPT !.version = @ + 1]
    /\ UNCHANGED <<secret, sync, job, checked>>

Transition(from, to) ==
    \/ from \in {"DRAFT", "ACTIVE"} /\ to \in {"DISABLED", "REMOVED"}
    \/ from = "DISABLED" /\ to \in {"ACTIVE", "REMOVED"}

ChangeLifecycle(target) ==
    /\ Command
    /\ Transition(source.lifecycle, target)
    /\ target = "ACTIVE" => /\ source.health = "HEALTHY"
                            /\ source.validated = source.configuration
    /\ source' = [source EXCEPT !.lifecycle = target, !.version = @ + 1]
    /\ UNCHANGED <<secret, sync, job, checked>>

RequestOperation(kind) ==
    /\ Command
    /\ source.lifecycle # "REMOVED"
    /\ kind = "SYNC" => source.lifecycle = "ACTIVE"
    /\ Schedule(kind)
    /\ UNCHANGED <<source, secret, checked>>

RotateSecret ==
    /\ commands > 0 /\ commands' = commands - 1
    /\ secret' = secret + 1
    /\ UNCHANGED <<rows, remote, handler, writing, revision, files, intents, keeper, checked,
                   failures>>

(* scheduleDueOne, with the interval elapsed. *)
ScheduleDue ==
    /\ writing = Nobody
    /\ source.lifecycle = "ACTIVE"
    /\ ~\E i \in Ids : /\ sync[i].kind = "SYNC"
                       /\ sync[i].status \in {"PENDING", "RUNNING"} \/ job[i].phase \in Active
    /\ Schedule("SYNC")
    /\ UNCHANGED <<source, secret, remote, handler, writing, revision, files, intents,
                   keeper, checked, bounds>>

RemoteChanges ==
    /\ remote < Len(Upstream)
    /\ remote' = remote + 1
    /\ UNCHANGED <<rows, secret, handler, writing, revision, files, intents, keeper,
                   checked, bounds>>

-----------------------------------------------------------------------------
(***************************************************************************)
(* Jobs, and the callback when one is settled without its handler.         *)
(***************************************************************************)
(* Mutant: a cancelled job leaves its capture open. *)
TerminalCallback_FailedOnly(i, phase) ==
    /\ job' = [job EXCEPT ![i].phase = phase, ![i].holder = Nobody]
    /\ IF sync[i].status \in Closed \/ phase = "cancelled" THEN UNCHANGED <<source, sync, checked>>
       ELSE /\ phase = "failed" => writing = Nobody
            /\ sync' = [sync EXCEPT ![i].status = "FAILED", ![i].result = 0]
            /\ IF source.version = sync[i].version
               THEN /\ source' = [source EXCEPT !.health = "UNHEALTHY", !.version = @ + 1]
                    /\ checked' = sync[i].configuration
               ELSE UNCHANGED <<source, checked>>

(* Mutant: the version of the source is not compared with the captured one. *)
TerminalCallback_AnyVersion(i, phase) ==
    /\ job' = [job EXCEPT ![i].phase = phase, ![i].holder = Nobody]
    /\ IF sync[i].status \in Closed THEN UNCHANGED <<source, sync, checked>>
       ELSE /\ phase = "failed" => writing = Nobody
            /\ sync' = [sync EXCEPT ![i].status = "FAILED", ![i].result = 0]
            /\ IF phase = "failed"
               THEN /\ source' = [source EXCEPT !.health = "UNHEALTHY", !.version = @ + 1]
                    /\ checked' = sync[i].configuration
               ELSE UNCHANGED <<source, checked>>

TerminalCallback(i, phase) ==
    /\ job' = [job EXCEPT ![i].phase = phase, ![i].holder = Nobody]
    /\ IF sync[i].status \in Closed THEN UNCHANGED <<source, sync, checked>>
       ELSE /\ phase = "failed" => writing = Nobody
            /\ sync' = [sync EXCEPT ![i].status = "FAILED", ![i].result = 0]
            /\ IF phase = "failed" /\ source.version = sync[i].version
               THEN /\ source' = [source EXCEPT !.health = "UNHEALTHY", !.version = @ + 1]
                    /\ checked' = sync[i].configuration
               ELSE UNCHANGED <<source, checked>>

Lease(w, i) ==
    /\ handler[w].at = "idle"
    /\ job[i].phase = "queued" /\ job[i].budget > 0
    /\ job' = [job EXCEPT ![i] = [phase |-> "running", budget |-> @.budget - 1, holder |-> w]]
    /\ handler' = [handler EXCEPT ![w] = [Idle EXCEPT !.at = "begin", !.sync = i,
                                                      !.budget = job[i].budget - 1]]
    /\ UNCHANGED <<source, secret, remote, sync, writing, revision, files, intents, keeper,
                   checked, bounds>>

(* AssertPermit with assertCapturePermit: the lease is this attempt's and not cancelled. *)
Permitted(w) ==
    LET h == handler[w]
    IN  /\ job[h.sync].phase = "running"
        /\ job[h.sync].holder = w /\ job[h.sync].budget = h.budget

(* A completion that is not committed yet holds the row of its job. *)
JobUnlocked(i) == writing # Nobody => handler[writing].sync # i

(* A lease expires while its handler goes on: the job is queued again or settled. *)
Expire(i) ==
    /\ JobUnlocked(i)
    /\ failures > 0 /\ failures' = failures - 1
    /\ job[i].phase \in {"running", "cancelling"}
    /\ IF job[i].phase = "running" /\ job[i].budget > 0
       THEN /\ job' = [job EXCEPT ![i].phase = "queued", ![i].holder = Nobody]
            /\ UNCHANGED <<source, sync, checked>>
       ELSE TerminalCallback(i, IF job[i].phase = "running" THEN "failed" ELSE "cancelled")
    /\ UNCHANGED <<secret, remote, handler, writing, revision, files, intents, keeper, commands>>

RequestCancel(i) ==
    /\ JobUnlocked(i)
    /\ failures > 0 /\ failures' = failures - 1
    /\ \/ job[i].phase = "queued" /\ TerminalCallback(i, "cancelled")
       \/ /\ job[i].phase = "running"
          /\ job' = [job EXCEPT ![i].phase = "cancelling"]
          /\ UNCHANGED <<source, sync, checked>>
    /\ UNCHANGED <<secret, remote, handler, writing, revision, files, intents, keeper, commands>>

-----------------------------------------------------------------------------
(***************************************************************************)
(* The handlers.  A worker without a valid permit goes on with what needs  *)
(* none: it reads the remote and writes or discards files.                 *)
(***************************************************************************)
Goto(w, at) == handler' = [handler EXCEPT ![w].at = at]

(* Begin opens a pending or failed capture, and finds others as they are. *)
Begin(w) ==
    LET i == handler[w].sync
    IN  /\ handler[w].at = "begin" /\ Permitted(w)
        /\ IF sync[i].status \in {"PENDING", "FAILED"}
           THEN sync' = [sync EXCEPT ![i].status = "RUNNING", ![i].result = 0]
           ELSE UNCHANGED sync
        /\ Goto(w, IF sync'[i].status = "RUNNING" THEN "execute" ELSE "cleanup")
        /\ UNCHANGED <<source, secret, remote, job, writing, revision, files, intents,
                       keeper, checked, bounds>>

(* Validate, and the part of Sync that asks the remote; a repository first looks
   for the snapshot an earlier attempt stored. *)
Execute(w) ==
    LET i == handler[w].sync
    IN  /\ handler[w].at = "execute"
        /\ handler' = [handler EXCEPT
              ![w].seen = remote,
              ![w].at = IF sync[i].kind = "VALIDATION" THEN "complete" ELSE "store"]
        /\ UNCHANGED <<rows, secret, remote, writing, revision, files, intents, keeper,
                       checked, bounds>>

Replay(w) ==
    LET i == handler[w].sync
    IN  /\ handler[w].at = "execute" /\ sync[i].kind = "SYNC"
        /\ source.kind = "REPOSITORY" /\ snapshot[i] # 0
        /\ handler' = [handler EXCEPT ![w].seen = snapshot[i], ![w].at = "complete"]
        /\ UNCHANGED <<rows, secret, remote, writing, revision, files, intents, keeper,
                       checked, bounds>>

(* StoreSnapshot: the same content is found again, another one is refused. *)
StoreSnapshot(w) ==
    LET i == handler[w].sync
        refused == snapshot[i] # 0 /\ Upstream[snapshot[i]] # Upstream[handler[w].seen]
    IN  /\ handler[w].at = "store"
        /\ IF refused
           THEN /\ Goto(w, IF source.kind = "WEBSITE" THEN "reportRetry" ELSE "reportFail")
                /\ UNCHANGED snapshot
           ELSE /\ Goto(w, "complete")
                /\ snapshot' = [snapshot EXCEPT ![i] = IF @ = 0 THEN handler[w].seen ELSE @]
        /\ UNCHANGED <<rows, secret, remote, writing, revision, intents, keeper, retiring,
                       checked, bounds>>

(* The remote cannot be read, or not as configured; a process may also stop short. *)
Fail(w) ==
    /\ failures > 0 /\ failures' = failures - 1
    /\ \/ handler[w].at = "execute" /\ Goto(w, "reportRetry")
       \/ handler[w].at = "execute" /\ Goto(w, "reportFail")
       \/ handler[w].at \in {"begin", "complete", "cleanup"} /\ Goto(w, "retry")
    /\ UNCHANGED <<rows, secret, remote, writing, revision, files, intents, keeper, checked, commands>>

(* Mutant: a rotated secret does not make a capture stale. *)
CaptureStale_AnySecret(i) ==
    \/ source.configuration # sync[i].configuration
    \/ source.lifecycle = "REMOVED"
    \/ sync[i].kind = "SYNC" /\ source.lifecycle # "ACTIVE"

(* captureStale: what was captured is compared with the source as it is now. *)
CaptureStale(i) ==
    \/ source.configuration # sync[i].configuration
    \/ secret # sync[i].secret
    \/ source.lifecycle = "REMOVED"
    \/ sync[i].kind = "SYNC" /\ source.lifecycle # "ACTIVE"

(* What the transaction of complete requires before it looks at the outcome. *)
Completing(w) ==
    /\ Permitted(w) /\ writing = Nobody
    /\ sync[handler[w].sync].status = "RUNNING"

Supersede(w) ==
    /\ handler[w].at \in {"complete", "reportRetry", "reportFail"}
    /\ Completing(w) /\ CaptureStale(handler[w].sync)
    /\ sync' = [sync EXCEPT ![handler[w].sync].status = "SUPERSEDED"]
    /\ Goto(w, "ok")
    /\ UNCHANGED <<source, secret, remote, job, writing, revision, files, intents, keeper,
                   checked, bounds>>

CompleteFailed(w) ==
    LET i == handler[w].sync
    IN  /\ handler[w].at \in {"reportRetry", "reportFail"}
        /\ Completing(w) /\ ~CaptureStale(i)
        /\ sync' = [sync EXCEPT ![i].status = "FAILED"]
        /\ source' = [source EXCEPT !.health = "UNHEALTHY", !.version = @ + 1]
        /\ checked' = sync[i].configuration
        /\ Goto(w, IF handler[w].at = "reportRetry" THEN "retry" ELSE "fail")
        /\ UNCHANGED <<secret, remote, job, writing, revision, files, intents, keeper, bounds>>

CompleteValidation(w) ==
    LET i == handler[w].sync
    IN  /\ handler[w].at = "complete" /\ sync[i].kind = "VALIDATION"
        /\ Completing(w) /\ ~CaptureStale(i)
        /\ sync' = [sync EXCEPT ![i].status = "SUCCEEDED"]
        /\ source' = [source EXCEPT !.lifecycle = IF @ = "DRAFT" THEN "ACTIVE" ELSE @,
                                    !.health = "HEALTHY", !.version = @ + 1,
                                    !.validated = source.configuration]
        /\ checked' = sync[i].configuration
        /\ Goto(w, "ok")
        /\ UNCHANGED <<secret, remote, job, writing, revision, files, intents, keeper, bounds>>

(* insertOrReuseRevision: a revision with this content that is not purged is in the
   way of a new one, and is used again unless it is to be deleted. *)
CompleteSync(w) ==
    LET i == handler[w].sync
        same == {r \in Ids : /\ revision[r].state = "live"
                             /\ Upstream[revision[r].seen] = Upstream[handler[w].seen]}
    IN  /\ handler[w].at = "complete" /\ sync[i].kind = "SYNC"
        /\ Completing(w) /\ ~CaptureStale(i)
        /\ \/ /\ same = {}
              /\ handler' = [handler EXCEPT ![w].at = "commit", ![w].chosen = i]
              /\ writing' = w
           \/ \E r \in same \ intents :
              /\ handler' = [handler EXCEPT ![w].at = "commit", ![w].chosen = r]
              /\ writing' = w
           \/ /\ same # {} /\ same \subseteq intents
              /\ Goto(w, "retry") /\ UNCHANGED writing
        /\ UNCHANGED <<rows, secret, remote, revision, files, intents, keeper, checked, bounds>>

(* The transaction of CompleteSync ends; others have run since it began. *)
Commit(w) ==
    LET i == handler[w].sync
        r == handler[w].chosen
    IN  /\ handler[w].at = "commit"
        /\ sync' = [sync EXCEPT ![i].status = "SUCCEEDED", ![i].result = r,
                                ![i].seen = handler[w].seen]
        /\ revision' = IF r = i THEN [revision EXCEPT ![i] = [state |-> "live", seen |-> handler[w].seen]]
                       ELSE revision
        /\ source' = [source EXCEPT !.current = r, !.health = "HEALTHY", !.version = @ + 1]
        /\ checked' = sync[i].configuration
        /\ writing' = Nobody
        /\ Goto(w, "cleanup")
        /\ UNCHANGED <<secret, remote, job, files, intents, keeper, bounds>>

Rollback(w) ==
    /\ handler[w].at = "commit"
    /\ failures > 0 /\ failures' = failures - 1
    /\ writing' = Nobody
    /\ Goto(w, "retry")
    /\ UNCHANGED <<rows, secret, remote, revision, files, intents, keeper, checked, commands>>

(* Mutant: the candidate is discarded although it became the revision. *)
Cleanup_Always(w) ==
    LET i == handler[w].sync
        done == sync[i].kind = "SYNC" /\ sync[i].status = "SUCCEEDED"
    IN  /\ handler[w].at = "cleanup"
        /\ snapshot' = IF done THEN [snapshot EXCEPT ![i] = 0] ELSE snapshot
        /\ Goto(w, "ok")
        /\ UNCHANGED <<rows, secret, remote, writing, revision, intents, keeper, retiring,
                       checked, bounds>>

(* DiscardReusedCandidate, outside any transaction. *)
Cleanup(w) ==
    LET i == handler[w].sync
        reused == sync[i].kind = "SYNC" /\ sync[i].status = "SUCCEEDED" /\ sync[i].result # i
    IN  /\ handler[w].at = "cleanup"
        /\ snapshot' = IF reused THEN [snapshot EXCEPT ![i] = 0] ELSE snapshot
        /\ Goto(w, "ok")
        /\ UNCHANGED <<rows, secret, remote, writing, revision, intents, keeper, retiring,
                       checked, bounds>>

(* acceptHandlerResult, and adoptCancellation when the result is not accepted. *)
Accept(w) ==
    LET i == handler[w].sync
        held == job[i].holder = w /\ job[i].budget = handler[w].budget
    IN  /\ handler[w].at # "idle" /\ held /\ JobUnlocked(i)
        /\ \/ /\ handler[w].at = "ok" /\ job[i].phase \in {"running", "cancelling"}
              /\ job' = [job EXCEPT ![i].phase = "succeeded", ![i].holder = Nobody]
              /\ UNCHANGED <<source, sync, checked>>
           \/ /\ handler[w].at = "retry" /\ job[i].phase = "running" /\ job[i].budget > 0
              /\ job' = [job EXCEPT ![i].phase = "queued", ![i].holder = Nobody]
              /\ UNCHANGED <<source, sync, checked>>
           \/ /\ handler[w].at = "retry" /\ job[i].phase = "running" /\ job[i].budget = 0
              /\ TerminalCallback(i, "failed")
           \/ /\ handler[w].at = "fail" /\ job[i].phase = "running"
              /\ TerminalCallback(i, "failed")
           \/ handler[w].at # "ok" /\ job[i].phase = "cancelling" /\ TerminalCallback(i, "cancelled")
        /\ handler' = [handler EXCEPT ![w] = Idle]
        /\ UNCHANGED <<secret, remote, writing, revision, files, intents, keeper, bounds>>

(* A handler learns that its permit is gone, sooner or later. *)
Abandon(w) ==
    LET i == handler[w].sync
    IN  /\ handler[w].at # "idle"
        /\ ~(job[i].holder = w /\ job[i].budget = handler[w].budget)
        /\ handler' = [handler EXCEPT ![w] = Idle]
        /\ UNCHANGED <<rows, secret, remote, writing, revision, files, intents, keeper,
                       checked, bounds>>

-----------------------------------------------------------------------------
(***************************************************************************)
(* Retention of snapshots.  No run or evidence refers to the revisions.    *)
(***************************************************************************)
(* stageSourceSnapshots: the row of the source is read, not locked. *)
Stage(r) ==
    /\ retiring[keeper].at = "idle"
    /\ revision[r].state = "live" /\ r # source.current /\ r \notin intents
    /\ intents' = intents \cup {r}
    /\ UNCHANGED <<rows, secret, remote, handler, writing, revision, files, keeper, checked, bounds>>

(* applyDeletionIntents checks the permit, removes the files, and then finalizes. *)
Pick(k, r) ==
    /\ k = keeper /\ retiring[k].at = "idle" /\ r \in intents
    /\ retiring' = [retiring EXCEPT ![k] = [at |-> "discard", revision |-> r]]
    /\ UNCHANGED <<rows, secret, remote, handler, writing, revision, snapshot, intents,
                   keeper, checked, bounds>>

DiscardIntent(k) ==
    /\ retiring[k].at = "discard"
    /\ snapshot' = [snapshot EXCEPT ![retiring[k].revision] = 0]
    /\ retiring' = [retiring EXCEPT ![k].at = "finalize"]
    /\ UNCHANGED <<rows, secret, remote, handler, writing, revision, intents, keeper,
                   checked, bounds>>

FinalizeIntent(k) ==
    LET r == retiring[k].revision
    IN  /\ retiring[k].at = "finalize"
        /\ IF k = keeper /\ r \in intents
           THEN /\ revision' = [revision EXCEPT ![r].state = "purged"]
                /\ intents' = intents \ {r}
           ELSE UNCHANGED <<revision, intents>>
        /\ retiring' = [retiring EXCEPT ![k] = Resting]
        /\ UNCHANGED <<rows, secret, remote, handler, writing, snapshot, keeper, checked, bounds>>

(* The lease of the retention job goes to another worker, or its process dies. *)
LoseKeeper ==
    /\ failures > 0 /\ failures' = failures - 1
    /\ \/ keeper' \in Keepers \ {keeper} /\ UNCHANGED retiring
       \/ retiring' = [retiring EXCEPT ![keeper] = Resting] /\ UNCHANGED keeper
    /\ UNCHANGED <<rows, secret, remote, handler, writing, revision, snapshot, intents,
                   checked, commands>>

-----------------------------------------------------------------------------
Operators ==
    \/ \E changed \in BOOLEAN : Update(changed)
    \/ \E target \in {"ACTIVE", "DISABLED", "REMOVED"} : ChangeLifecycle(target)
    \/ \E kind \in {"VALIDATION", "SYNC"} : RequestOperation(kind)
    \/ RotateSecret

WorkerStep(w) ==
    \/ Begin(w) \/ Execute(w) \/ Replay(w) \/ StoreSnapshot(w) \/ Supersede(w)
    \/ CompleteFailed(w) \/ CompleteValidation(w) \/ CompleteSync(w) \/ Commit(w)
    \/ Cleanup(w) \/ Accept(w) \/ Abandon(w)

Retention ==
    \/ \E r \in Ids : Stage(r)
    \/ \E k \in Keepers, r \in Ids : Pick(k, r)
    \/ \E k \in Keepers : DiscardIntent(k) \/ FinalizeIntent(k)
    \/ LoseKeeper

Next ==
    \/ Operators \/ ScheduleDue \/ RemoteChanges \/ Retention
    \/ \E w \in Workers : WorkerStep(w) \/ Fail(w) \/ Rollback(w)
    \/ \E w \in Workers, i \in Ids : Lease(w, i)
    \/ \E i \in Ids : Expire(i) \/ RequestCancel(i)

Spec == Init /\ [][Next]_vars

-----------------------------------------------------------------------------
(***************************************************************************)
(* Properties.                                                             *)
(***************************************************************************)
SourceRow ==
    [kind : {"REPOSITORY", "WEBSITE"}, lifecycle : {"DRAFT", "ACTIVE", "DISABLED", "REMOVED"},
     health : {"UNKNOWN", "HEALTHY", "UNHEALTHY"}, version : Nat \ {0},
     configuration : Nat \ {0}, validated : Nat, current : {0} \cup Ids]
SyncRow ==
    [kind : {"none", "VALIDATION", "SYNC"}, status : {"none", "PENDING", "RUNNING"} \cup Closed,
     version : Nat, configuration : Nat, secret : Nat, result : {0} \cup Ids, seen : 0..Len(Upstream)]
JobRow ==
    [phase : {"none"} \cup Active \cup Settled, budget : 0..Attempts, holder : Workers \cup {Nobody}]
HandlerRow ==
    [at : {"idle", "begin", "execute", "store", "complete", "reportRetry", "reportFail", "commit",
           "cleanup", "ok", "retry", "fail"},
     sync : {0} \cup Ids, budget : 0..Attempts, seen : 0..Len(Upstream), chosen : {0} \cup Ids]
RevisionRow == [state : {"none", "live", "purged"}, seen : 0..Len(Upstream)]
IntentRow == [at : {"idle", "discard", "finalize"}, revision : {0} \cup Ids]

(* Types of the rows, the handlers and the work of retention. *)
SyncTypeOK ==
    /\ source \in SourceRow
    /\ secret \in Nat \ {0} /\ remote \in 1..Len(Upstream)
    /\ sync \in [Ids -> SyncRow]
    /\ job \in [Ids -> JobRow]
    /\ handler \in [Workers -> HandlerRow]
    /\ writing \in Workers \cup {Nobody}
    /\ revision \in [Ids -> RevisionRow]
    /\ snapshot \in [Ids -> 0..Len(Upstream)]
    /\ intents \subseteq Ids /\ keeper \in Keepers
    /\ retiring \in [Keepers -> IntentRow]

(* A capture is open exactly as long as a job may still close it: complete, Begin
   and TerminalCallback leave no open capture behind a settled job, and a job that
   succeeded has a capture that succeeded or was superseded. *)
CaptureFollowsJob ==
    \A i \in Ids :
        /\ sync[i].status \in {"PENDING", "RUNNING"} => job[i].phase \in Active
        /\ job[i].phase = "succeeded" => sync[i].status \in {"SUCCEEDED", "SUPERSEDED"}

(* A source is active only with a configuration that a validation found good,
   through every order of updates, activations and late validations; the history
   of an active source begins after its first validation. *)
ActiveIsValidated ==
    source.lifecycle = "ACTIVE" =>
        /\ source.validated = source.configuration
        /\ \/ \E i \in Ids : /\ sync[i].kind = "VALIDATION" /\ sync[i].status = "SUCCEEDED"
                             /\ sync[i].configuration = source.configuration
           \/ source.configuration = 1 /\ sync[1].kind = "SYNC"

(* What complete and TerminalCallback write as health is about the configuration
   the source has now, not one that was replaced while the capture ran. *)
HealthIsCurrent ==
    source.health # "UNKNOWN" => checked = source.configuration

(* Rows of a source agree with each other: a capture is open exactly while its
   job lives, an active source was validated in its present configuration, and
   its health is about that configuration (Begin, complete, TerminalCallback,
   Update). *)
CapturesAreSound ==
    SyncTypeOK /\ CaptureFollowsJob /\ ActiveIsValidated /\ HealthIsCurrent

(* A revision that can be read has its files: neither the cleanup of a reused
   candidate nor a retention worker without permit removes them. *)
RevisionHasSnapshot ==
    \A r \in Ids :
        revision[r].state = "live" /\ r \notin intents
        => snapshot[r] # 0 /\ Upstream[snapshot[r]] = Upstream[revision[r].seen]

(* Completions move the source forward: none of them makes current what the remote
   showed before something an earlier completion saw. *)
ObservedInOrder ==
    [][\A i \in Ids :
         sync'[i].status = "SUCCEEDED" /\ sync[i].status # "SUCCEEDED" /\ sync[i].kind = "SYNC"
         => \A k \in Ids : sync[k].status = "SUCCEEDED" => sync[k].seen <= sync'[i].seen]_vars

(* "Current wikis and source revisions are never retention candidates"
   (docs/operations/metrics-and-retention.md): no deletion intent names the current
   revision. *)
CurrentIsNoCandidate ==
    source.current \notin intents
=============================================================================
