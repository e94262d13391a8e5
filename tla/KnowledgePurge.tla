---------------------------- MODULE KnowledgePurge ----------------------------
(***************************************************************************)
(* Deletion of one knowledge base (internal/knowledgebases).  An operator  *)
(* requests it, may restore the knowledge base during a period of grace,   *)
(* and after it a durable job purges it: one transaction commits the       *)
(* deletion intent, then the directories are removed outside any           *)
(* transaction, then a second transaction marks the row DELETED.           *)
(*                                                                         *)
(* Jobs are used as module JobLifecycle specifies them.  Here a handler    *)
(* whose lease was lost still matters: until its context is cancelled it   *)
(* goes on removing directories.                                           *)
(***************************************************************************)
EXTENDS Integers, FiniteSets

CONSTANTS
    Workers,
    Sources,      \* sources of the knowledge base, each with a directory
    KnowledgeBase,\* the directory of the knowledge base itself
    Attempts,     \* max_attempts of a purge job (3 in the code)
    Grace,        \* the period in which a deletion can be undone, in ticks
    MaxJobs,      \* bound: purge jobs ever enqueued
    MaxCommands,  \* bound: commands of operators
    MaxFailures   \* bound: lost leases and failing handlers

PurgeAssumption ==
    /\ Attempts \in Nat \ {0} /\ Grace \in Nat \ {0}
    /\ MaxJobs \in Nat /\ MaxCommands \in Nat /\ MaxFailures \in Nat
    /\ KnowledgeBase \notin Sources

JobIds == 1..MaxJobs
Directories == {KnowledgeBase} \cup Sources

VARIABLES
    kb,       \* the row of knowledge_bases, grace being the time to purge_after
    seen,     \* the version an operator's commands expect
    intent,   \* a row of kind KNOWLEDGE_BASE in artifact_deletion_intents
    files,    \* directories that still exist
    job,      \* the purge jobs, all under one operation key, oldest first
    handler,  \* the purge each worker executes
    commands, failures

vars == <<kb, seen, intent, files, job, handler, commands, failures>>

Active == {"queued", "running", "cancelling"}
NoJob == [phase |-> "none", budget |-> 0, wait |-> 0, live |-> FALSE]
Idle == [at |-> "idle", job |-> 0, budget |-> 0, left |-> {}]

Init ==
    /\ kb = [lifecycle |-> "ACTIVE", archived |-> FALSE, grace |-> 0, version |-> 1]
    /\ seen = 1
    /\ intent = FALSE
    /\ files = Directories
    /\ job = [j \in JobIds |-> NoJob]
    /\ handler = [w \in Workers |-> Idle]
    /\ commands = 0 /\ failures = 0

-----------------------------------------------------------------------------
(***************************************************************************)
(* The queue, as the knowledge base service sees it.                       *)
(***************************************************************************)
Enqueued == {j \in JobIds : job[j].phase # "none"}
Latest == CHOOSE j \in Enqueued : \A i \in Enqueued : i <= j
FreeJob == Cardinality(Enqueued) + 1

\* Mutant: one attempt too many.
WithPurgeJob_OneMore(jobs, wait) ==
    IF \E j \in JobIds : jobs[j].phase \in Active THEN jobs
    ELSE [jobs EXCEPT ![FreeJob] = [phase |-> "queued", budget |-> Attempts + 1,
                                    wait |-> wait, live |-> FALSE]]

\* EnqueueTxAt: an active job under the operation key is adopted.
WithPurgeJob(jobs, wait) ==
    IF \E j \in JobIds : jobs[j].phase \in Active THEN jobs
    ELSE [jobs EXCEPT ![FreeJob] = [phase |-> "queued", budget |-> Attempts,
                                    wait |-> wait, live |-> FALSE]]

Transition(from, to) ==
    \/ from \in {"ACTIVE", "ARCHIVED"} /\ to \in {"ACTIVE", "ARCHIVED", "PENDING_DELETE"}
    \/ from = "PENDING_DELETE" /\ to \in {"ACTIVE", "ARCHIVED", "DELETED"}

RestoreLifecycle(archived) == IF archived THEN "ARCHIVED" ELSE "ACTIVE"

Restored == [kb EXCEPT !.lifecycle = RestoreLifecycle(kb.archived), !.grace = 0,
                       !.version = @ + 1]

\* Mutant: the deletion intent is not looked at; the row is restored.
TerminalCallback_Restore(j, settled) ==
    IF j # Latest \/ kb.lifecycle # "PENDING_DELETE"
    THEN kb' = kb /\ job' = settled
    ELSE kb' = Restored /\ job' = settled

\* Mutant: no recovery job once the intent was committed.
TerminalCallback_Stuck(j, settled) ==
    IF j # Latest \/ kb.lifecycle # "PENDING_DELETE" \/ intent
    THEN kb' = kb /\ job' = settled
    ELSE kb' = Restored /\ job' = settled

\* TerminalCallback of job j with the jobs after it was settled: recover what
\* can be recovered, or keep on purging.
TerminalCallback(j, settled) ==
    IF j # Latest \/ kb.lifecycle # "PENDING_DELETE"
    THEN kb' = kb /\ job' = settled
    ELSE IF intent
    THEN FreeJob \in JobIds /\ kb' = kb /\ job' = WithPurgeJob(settled, 1)
    ELSE kb' = Restored /\ job' = settled

SettleBadly(j, outcome) ==
    TerminalCallback(j, [job EXCEPT ![j].phase = outcome, ![j].live = FALSE])

-----------------------------------------------------------------------------
(***************************************************************************)
(* Commands of operators; each expects the version the operator has seen.  *)
(***************************************************************************)
Read ==
    /\ seen # kb.version
    /\ seen' = kb.version
    /\ UNCHANGED <<kb, intent, files, job, handler, commands, failures>>

Command ==
    /\ commands < MaxCommands /\ commands' = commands + 1
    /\ UNCHANGED <<seen, intent, files, handler, failures>>

Update(target) ==
    /\ Command
    /\ kb.version = seen
    /\ kb.lifecycle \in {"ACTIVE", "ARCHIVED"} /\ Transition(kb.lifecycle, target)
    /\ kb' = [kb EXCEPT !.lifecycle = target, !.archived = (target = "ARCHIVED"),
                        !.version = @ + 1]
    /\ UNCHANGED job

RequestDelete ==
    /\ Command
    /\ kb.version = seen
    /\ Transition(kb.lifecycle, "PENDING_DELETE")
    /\ FreeJob \in JobIds
    /\ kb' = [kb EXCEPT !.lifecycle = "PENDING_DELETE", !.grace = Grace,
                        !.version = @ + 1]
    /\ job' = WithPurgeJob(job, Grace)

\* A job nobody holds is cancelled at once: RequestCancelTx.
CancelledAtOnce(j) ==
    \/ job[j].phase = "queued"
    \/ job[j].phase \in {"running", "cancelling"} /\ ~job[j].live

\* Cancelling the job runs its callback, which restores the row already;
\* Restore writes the same row again.
Restore ==
    /\ Command
    /\ kb.version = seen
    /\ kb.lifecycle = "PENDING_DELETE"
    /\ ~intent
    /\ job[Latest].phase \in {"failed", "cancelled"} \/ CancelledAtOnce(Latest)
    /\ job' = IF CancelledAtOnce(Latest)
              THEN [job EXCEPT ![Latest].phase = "cancelled", ![Latest].live = FALSE]
              ELSE job
    /\ kb.grace > 0
    /\ Transition("PENDING_DELETE", RestoreLifecycle(kb.archived))
    /\ kb' = Restored

\* The cancellation of the job itself, from the list of jobs.
RequestCancel(j) ==
    /\ Command
    /\ \/ CancelledAtOnce(j) /\ SettleBadly(j, "cancelled")
       \/ /\ job[j].phase = "running" /\ job[j].live
          /\ job' = [job EXCEPT ![j].phase = "cancelling"]
          /\ UNCHANGED kb

-----------------------------------------------------------------------------
(***************************************************************************)
(* The worker.                                                             *)
(***************************************************************************)
\* Mutant: an expired lease is not taken over.
Lease_QueuedOnly(w, j) ==
    /\ handler[w].at = "idle"
    /\ job[j].phase = "queued" /\ job[j].wait = 0 /\ job[j].budget > 0
    /\ job' = [job EXCEPT ![j] = [phase |-> "running", budget |-> @.budget - 1,
                                  wait |-> 0, live |-> TRUE]]
    /\ handler' = [handler EXCEPT ![w] = [at |-> "start", job |-> j,
                                          budget |-> job[j].budget - 1, left |-> {}]]
    /\ UNCHANGED <<kb, seen, intent, files, commands, failures>>

Lease(w, j) ==
    /\ handler[w].at = "idle"
    /\ \/ job[j].phase = "queued" /\ job[j].wait = 0
       \/ job[j].phase = "running" /\ ~job[j].live
    /\ job[j].budget > 0
    /\ job' = [job EXCEPT ![j] = [phase |-> "running", budget |-> @.budget - 1,
                                  wait |-> 0, live |-> TRUE]]
    /\ handler' = [handler EXCEPT ![w] = [at |-> "start", job |-> j,
                                          budget |-> job[j].budget - 1, left |-> {}]]
    /\ UNCHANGED <<kb, seen, intent, files, commands, failures>>

\* lockPermit: the lease is the handler's own and has not expired.
Current(w, phases) ==
    LET h == handler[w]
    IN  /\ h.at # "idle"
        /\ job[h.job].phase \in phases /\ job[h.job].live
        /\ job[h.job].budget = h.budget

Goto(w, at) == handler' = [handler EXCEPT ![w].at = at]

\* Mutant: only the directory of the knowledge base is purged.
Purge_SourcesKept(w) ==
    LET due == kb.lifecycle = "PENDING_DELETE" /\ kb.grace = 0
    IN  /\ handler[w].at = "start" /\ Current(w, {"running"})
        /\ intent' = (intent \/ due)
        /\ handler' = [handler EXCEPT
            ![w].at = IF kb.lifecycle = "DELETED" THEN "ok"
                      ELSE IF due THEN "removing" ELSE "retry",
            ![w].left = IF due THEN {KnowledgeBase} ELSE {}]
        /\ UNCHANGED <<kb, seen, files, job, commands, failures>>

\* Purge, first transaction.
Purge(w) ==
    LET due == kb.lifecycle = "PENDING_DELETE" /\ kb.grace = 0
    IN  /\ handler[w].at = "start" /\ Current(w, {"running"})
        /\ intent' = (intent \/ due)
        /\ handler' = [handler EXCEPT
            ![w].at = IF kb.lifecycle = "DELETED" THEN "ok"
                      ELSE IF due THEN "removing" ELSE "retry",
            ![w].left = IF due THEN Directories ELSE {}]
        /\ UNCHANGED <<kb, seen, files, job, commands, failures>>

\* KnowledgeBasePurger.Purge: no transaction, no permit; the directory of the
\* knowledge base goes first.
PurgeDirectory(w, d) ==
    /\ handler[w].at = "removing" /\ d \in handler[w].left
    /\ KnowledgeBase \in handler[w].left => d = KnowledgeBase
    /\ files' = files \ {d}
    /\ handler' = [handler EXCEPT ![w].left = @ \ {d}]
    /\ UNCHANGED <<kb, seen, intent, job, commands, failures>>

\* Mutant: the intent is removed in a transaction before the row is marked.
FinalizePurge_IntentFirst(w) ==
    LET purge == kb.lifecycle = "PENDING_DELETE" /\ ~intent
    IN  /\ handler[w].at = "removing" /\ handler[w].left = {}
        /\ Current(w, {"running"})
        /\ kb' = IF purge THEN [kb EXCEPT !.lifecycle = "DELETED", !.version = @ + 1]
                 ELSE kb
        /\ intent' = FALSE
        /\ Goto(w, IF purge \/ kb.lifecycle = "DELETED" THEN "ok" ELSE "removing")
        /\ UNCHANGED <<seen, files, job, commands, failures>>

\* finalizePurge, second transaction.
FinalizePurge(w) ==
    LET purge == kb.lifecycle = "PENDING_DELETE" /\ intent
    IN  /\ handler[w].at = "removing" /\ handler[w].left = {}
        /\ Current(w, {"running"})
        /\ kb' = IF purge THEN [kb EXCEPT !.lifecycle = "DELETED", !.version = @ + 1]
                 ELSE kb
        /\ intent' = (intent /\ ~purge)
        /\ Goto(w, IF purge \/ kb.lifecycle = "DELETED" THEN "ok" ELSE "retry")
        /\ UNCHANGED <<seen, files, job, commands, failures>>

\* A file system or database error, also one that hides a commit.
HandlerError(w) ==
    /\ failures < MaxFailures /\ failures' = failures + 1
    /\ handler[w].at \in {"start", "removing", "ok"}
    /\ Goto(w, "retry")
    /\ UNCHANGED <<kb, seen, intent, files, job, commands>>

\* acceptHandlerResult
Accept(w) ==
    LET j == handler[w].job
    IN  /\ \/ /\ handler[w].at = "ok" /\ Current(w, {"running", "cancelling"})
              /\ job' = [job EXCEPT ![j].phase = "succeeded", ![j].live = FALSE]
              /\ UNCHANGED kb
           \/ /\ handler[w].at = "retry" /\ Current(w, {"running"})
              /\ IF job[j].budget > 0
                 THEN /\ job' = [job EXCEPT ![j].phase = "queued", ![j].live = FALSE,
                                            ![j].wait = 1]
                      /\ UNCHANGED kb
                 ELSE SettleBadly(j, "failed")
        /\ handler' = [handler EXCEPT ![w] = Idle]
        /\ UNCHANGED <<seen, intent, files, commands, failures>>

\* The worker learns that its permit is gone, or dies.
Abandon(w) ==
    /\ handler[w].at # "idle" /\ ~Current(w, {"running", "cancelling"})
    /\ handler' = [handler EXCEPT ![w] = Idle]
    /\ UNCHANGED <<kb, seen, intent, files, job, commands, failures>>

\* The worker died or is too slow for its heartbeats.
LoseLease(j) ==
    /\ failures < MaxFailures /\ failures' = failures + 1
    /\ job[j].phase \in {"running", "cancelling"} /\ job[j].live
    /\ job' = [job EXCEPT ![j].live = FALSE]
    /\ UNCHANGED <<kb, seen, intent, files, handler, commands>>

\* Claim reaps what expired: the last attempt, or a job being cancelled; a
\* live worker acknowledges the cancellation itself.
Reap(j) ==
    /\ \/ /\ job[j].phase = "running" /\ ~job[j].live /\ job[j].budget = 0
          /\ SettleBadly(j, "failed")
       \/ job[j].phase = "cancelling" /\ SettleBadly(j, "cancelled")
    /\ UNCHANGED <<seen, intent, files, handler, commands, failures>>

Tick ==
    /\ kb.grace > 0 \/ \E j \in JobIds : job[j].wait > 0
    /\ kb' = [kb EXCEPT !.grace = IF @ > 0 THEN @ - 1 ELSE 0]
    /\ job' = [j \in JobIds |-> [job[j] EXCEPT !.wait = IF @ > 0 THEN @ - 1 ELSE 0]]
    /\ UNCHANGED <<seen, intent, files, handler, commands, failures>>

-----------------------------------------------------------------------------
Operators ==
    \/ Read \/ RequestDelete \/ Restore
    \/ \E target \in {"ACTIVE", "ARCHIVED"} : Update(target)
    \/ \E j \in JobIds : RequestCancel(j)

WorkerStep(w) ==
    \/ Purge(w) \/ FinalizePurge(w) \/ Accept(w) \/ Abandon(w)
    \/ \E d \in Directories : PurgeDirectory(w, d)

Next ==
    \/ Operators
    \/ \E w \in Workers : WorkerStep(w) \/ HandlerError(w)
    \/ \E w \in Workers, j \in JobIds : Lease(w, j)
    \/ \E j \in JobIds : LoseLease(j) \/ Reap(j)
    \/ Tick

Spec == Init /\ [][Next]_vars

\* Time passes, workers poll and their handlers return; operators and
\* failures come as they like.
Fairness ==
    /\ WF_vars(Tick)
    /\ \A w \in Workers : WF_vars(WorkerStep(w))
    /\ \A j \in JobIds : WF_vars(Reap(j)) /\ WF_vars(\E w \in Workers : Lease(w, j))

FairSpec == Spec /\ Fairness

-----------------------------------------------------------------------------
(***************************************************************************)
(* Properties                                                              *)
(***************************************************************************)
\* The rows have the types of their columns.
PurgeTypeOK ==
    /\ kb \in [lifecycle : {"ACTIVE", "ARCHIVED", "PENDING_DELETE", "DELETED"},
               archived : BOOLEAN, grace : 0..Grace, version : Nat \ {0}]
    /\ seen \in Nat \ {0}
    /\ intent \in BOOLEAN
    /\ files \subseteq Directories
    /\ job \in [JobIds -> [phase : Active \cup {"none", "succeeded", "failed", "cancelled"},
                           budget : 0..Attempts, wait : Nat, live : BOOLEAN]]
    /\ handler \in [Workers -> [at : {"idle", "start", "removing", "ok", "retry"},
                                job : JobIds \cup {0}, budget : 0..Attempts,
                                left : SUBSET Directories]]
    /\ commands \in 0..MaxCommands /\ failures \in 0..MaxFailures

\* A knowledge base that can be used has all its directories, and no handler,
\* not even one whose lease was lost long ago, is removing any of them:
\* Restore, a cancelled purge and a failed purge never bring back a knowledge
\* base whose files are going.
FilesSafe ==
    kb.lifecycle \in {"ACTIVE", "ARCHIVED"} =>
        /\ files = Directories /\ ~intent
        /\ \A w \in Workers : handler[w].at # "removing"

\* A deletion is never forgotten and never left over: the newest purge job is
\* active as long as the knowledge base is pending deletion, no job is active
\* once it was restored, and no older job ever is.
PendingHasPurge ==
    /\ kb.lifecycle = "PENDING_DELETE" => Enqueued # {} /\ job[Latest].phase \in Active
    /\ kb.lifecycle \in {"ACTIVE", "ARCHIVED"} =>
        \A j \in JobIds : job[j].phase \notin Active
    /\ \A j \in JobIds : job[j].phase \in Active => j = Latest

\* DELETED means that nothing is left: no directory and no intent.
DeletedIsClean == kb.lifecycle = "DELETED" => files = {} /\ ~intent

\* All of it: a knowledge base that can be used has its files, a pending
\* deletion has its purge job, and a deleted one left nothing (Delete, Restore,
\* PurgeHandler, TerminalCallback).
PurgeIsSafe == PurgeTypeOK /\ FilesSafe /\ PendingHasPurge /\ DeletedIsClean

\* A committed intent is irreversible: it stays until the row is DELETED,
\* whoever cancels, fails, crashes or restores; and DELETED is final.
PurgeIsFinal ==
    [][/\ intent => (intent' /\ kb'.lifecycle = "PENDING_DELETE") \/ kb'.lifecycle = "DELETED"
       /\ kb.lifecycle = "DELETED" => kb'.lifecycle = "DELETED"]_vars

\* A purge that has begun is completed, however many attempts and recovery
\* jobs it takes; and a requested deletion does not stay pending for good.
PurgeCompletes ==
    /\ intent ~> kb.lifecycle = "DELETED"
    /\ kb.lifecycle = "PENDING_DELETE" ~> kb.lifecycle # "PENDING_DELETE"
=============================================================================
