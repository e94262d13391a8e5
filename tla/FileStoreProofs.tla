-------------------------- MODULE FileStoreProofs ---------------------------
(***************************************************************************)
(* Proofs about what the processes of the bot keep in files, for any number *)
(* of processes, files, contents and failures:                             *)
(*                                                                         *)
(*  - a knowledge base that can be used has its files, a pending deletion  *)
(*    has its purge job, a deleted one left nothing, and a committed       *)
(*    deletion intent is never taken back (KnowledgePurge);                *)
(*  - a snapshot's marker stands beside whole files, whatever was killed or *)
(*    lost, and a removal that is done is not undone (SnapshotStore);      *)
(*  - the files of a completed page are what its row records, and a published *)
(*    wiki is the whole bundle of its pages (WikiArtifacts);               *)
(*  - the snapshot of a revision is one commit's, with the files that the  *)
(*    patterns want, whatever else uses the mirror (GitMirror).            *)
(***************************************************************************)
EXTENDS KnowledgePurge, SnapshotStore, WikiArtifacts, GitMirror, FiniteSetTheorems, SequenceTheorems,
        WellFoundedInduction, TLAPS

-----------------------------------------------------------------------------
(***************************************************************************)
(* The purge of a knowledge base.                                          *)
(***************************************************************************)
Lifecycles == {"ACTIVE", "ARCHIVED", "PENDING_DELETE", "DELETED"}
Phases == Active \cup {"none", "succeeded", "failed", "cancelled"}
KbRow == [lifecycle : Lifecycles, archived : BOOLEAN, grace : 0..Grace, version : Nat \ {0}]
JobRow == [phase : Phases, budget : 0..Attempts, wait : Nat, live : BOOLEAN]
HandlerRow == [at : {"idle", "start", "removing", "ok", "retry"}, job : JobIds \cup {0},
               budget : 0..Attempts, left : SUBSET Directories]

(***************************************************************************)
(* The inductive invariant.  PurgeIsSafe is not inductive: that a handler  *)
(* removes only what is going follows from the intent, which its own first *)
(* transaction committed and which outlives its lease; that the row is     *)
(* DELETED only when nothing is left follows from what the handler has     *)
(* still to remove; and that the newest job is the only active one rests   *)
(* on the order in which jobs are numbered.                                *)
(***************************************************************************)
\* Whoever removes directories does so under an intent, and what exists is
\* among what he still has to remove.
Removal ==
    /\ intent => kb.lifecycle = "PENDING_DELETE"
    /\ files # Directories => intent \/ kb.lifecycle = "DELETED"
    /\ kb.lifecycle = "DELETED" => files = {}
    /\ \A w \in Workers :
         /\ handler[w].at = "removing" => (intent \/ kb.lifecycle = "DELETED") /\ files \subseteq handler[w].left
         /\ handler[w].at = "ok" => kb.lifecycle = "DELETED"
         /\ handler[w].at # "idle" => handler[w].job \in JobIds

\* n jobs were enqueued, and only the last of them may be active: it is while
\* the deletion is pending, and is not when there is nothing to delete.
Backlog(n) ==
    /\ \A j \in JobIds : job[j].phase # "none" <=> j <= n
    /\ \A j \in JobIds : job[j].phase \in Active => j = n
    /\ kb.lifecycle = "PENDING_DELETE" => n > 0 /\ job[n].phase \in Active
    /\ kb.lifecycle \in {"ACTIVE", "ARCHIVED"} => \A j \in JobIds : job[j].phase \notin Active

PurgeInv == PurgeTypeOK /\ Removal /\ \E n \in 0..MaxJobs : Backlog(n)

\* The types of the rows make up the type invariant.
LEMMA RowTypes ==
    PurgeTypeOK <=> /\ kb \in KbRow /\ job \in [JobIds -> JobRow] /\ handler \in [Workers -> HandlerRow]
                    /\ seen \in Nat \ {0} /\ intent \in BOOLEAN /\ files \subseteq Directories
                    /\ commands \in 0..MaxCommands /\ failures \in 0..MaxFailures
  BY DEF PurgeTypeOK, KbRow, JobRow, HandlerRow, Lifecycles, Phases

-----------------------------------------------------------------------------
\* The newest job is the one with the highest number, and the next one is
\* numbered after it.
LEMMA NewestJob ==
    ASSUME PurgeAssumption, NEW n \in 0..MaxJobs, Backlog(n)
    PROVE  /\ Enqueued = 1..n /\ FreeJob = n + 1
           /\ n > 0 => Latest = n
  <1>0. n \in Nat /\ MaxJobs \in Nat
    BY DEF PurgeAssumption
  <1>1. Enqueued = 1..n
    BY <1>0 DEF Enqueued, Backlog, JobIds
  <1>2. Cardinality(1..n) = n
    BY <1>0, FS_Interval
  <1>3. ASSUME n > 0 PROVE (CHOOSE j \in 1..n : \A i \in 1..n : i <= j) = n
    <2>1. n \in 1..n /\ \A i \in 1..n : i <= n
      BY <1>0, <1>3
    <2>2. \A j \in 1..n : (\A i \in 1..n : i <= j) => j = n
      BY <1>0, <2>1
    <2> QED
      BY <2>1, <2>2
  <1> QED
    BY <1>1, <1>2, <1>3 DEF FreeJob, Latest

\* What the inductive invariant says of the properties.
LEMMA InvIsSafe ==
    ASSUME PurgeAssumption, PurgeInv
    PROVE  PurgeIsSafe
  <1>1. PICK n \in 0..MaxJobs : Backlog(n)
    BY DEF PurgeInv
  <1>2. MaxJobs \in Nat /\ Enqueued = 1..n /\ (n > 0 => Latest = n)
    BY <1>1, NewestJob DEF PurgeAssumption
  <1>3. PendingHasPurge
    <2>1. n > 0 => Enqueued # {}
      BY <1>2
    <2>2. \A j \in JobIds : job[j].phase \in Active => n > 0
      BY <1>1, <1>2 DEF Backlog, JobIds
    <2> QED
      BY <1>1, <1>2, <2>1, <2>2 DEF Backlog, PendingHasPurge
  <1>4. FilesSafe /\ DeletedIsClean
    BY DEF PurgeInv, Removal, FilesSafe, DeletedIsClean
  <1> QED
    BY <1>3, <1>4 DEF PurgeInv, PurgeIsSafe

LEMMA PurgeStart ==
    ASSUME PurgeAssumption, Init
    PROVE  PurgeInv
  <1>a. NoJob \in JobRow
    BY DEF PurgeAssumption, NoJob, JobRow, Phases
  <1>b. Idle \in HandlerRow
    BY DEF PurgeAssumption, Idle, HandlerRow
  <1>c. kb \in KbRow
    BY DEF PurgeAssumption, Init, KbRow, Lifecycles
  <1>1. PurgeTypeOK
    <2>1. job \in [JobIds -> JobRow] /\ handler \in [Workers -> HandlerRow]
      BY <1>a, <1>b DEF Init
    <2>2. seen \in Nat \ {0} /\ commands \in 0..MaxCommands /\ failures \in 0..MaxFailures
      BY DEF Init, PurgeAssumption
    <2>3. intent \in BOOLEAN /\ files \subseteq Directories
      BY Zenon DEF Init
    <2> QED
      BY <1>c, <2>1, <2>2, <2>3, RowTypes, Zenon
  <1>2. Removal
    BY DEF Init, Removal, Idle
  <1>3. 0 \in 0..MaxJobs /\ Backlog(0)
    BY DEF PurgeAssumption, Init, Backlog, NoJob, JobIds, Active
  <1> QED
    BY <1>1, <1>2, <1>3 DEF PurgeInv

-----------------------------------------------------------------------------
\* A step that leaves the phases of the jobs and the lifecycle alone.
LEMMA BacklogStays ==
    ASSUME PurgeInv, kb'.lifecycle = kb.lifecycle, \A j \in JobIds : job'[j].phase = job[j].phase
    PROVE  \E n \in 0..MaxJobs : Backlog(n)'
  <1>1. PICK n \in 0..MaxJobs : Backlog(n)
    BY DEF PurgeInv
  <1>2. kb.lifecycle = "PENDING_DELETE" => n \in JobIds
    BY <1>1 DEF Backlog, JobIds
  <1> QED
    BY <1>1, <1>2 DEF Backlog

\* A step of an active job that leaves it active and the lifecycle alone.
LEMMA JobGoesOn ==
    ASSUME PurgeInv, UNCHANGED kb, NEW i \in JobIds, job[i].phase \in Active, job'[i].phase \in Active,
           \A j \in JobIds \ {i} : job'[j] = job[j]
    PROVE  \E n \in 0..MaxJobs : Backlog(n)'
  <1>1. PICK n \in 0..MaxJobs : Backlog(n)
    BY DEF PurgeInv
  <1>2. i = n
    BY <1>1 DEF Backlog
  <1>3. "none" \notin Active
    BY DEF Active
  <1>4. \A j \in JobIds : job'[j].phase # "none" <=> job[j].phase # "none"
    BY <1>3
  <1> QED
    BY <1>1, <1>2, <1>4 DEF Backlog

\* The active job ends and the deletion is not pending, or no longer.
LEMMA JobEnds ==
    ASSUME PurgeInv, NEW i \in JobIds, job[i].phase \in Active, job'[i].phase \notin Active \cup {"none"},
           \A j \in JobIds \ {i} : job'[j] = job[j], kb'.lifecycle # "PENDING_DELETE"
    PROVE  \E n \in 0..MaxJobs : Backlog(n)'
  <1>1. PICK n \in 0..MaxJobs : Backlog(n)
    BY DEF PurgeInv
  <1>2. i = n
    BY <1>1 DEF Backlog
  <1>3. "none" \notin Active
    BY DEF Active
  <1>4. \A j \in JobIds : job'[j].phase # "none" <=> job[j].phase # "none"
    BY <1>3
  <1>5. \A j \in JobIds : job'[j].phase \notin Active
    BY <1>1, <1>2 DEF Backlog
  <1> QED
    BY <1>1, <1>4, <1>5 DEF Backlog

\* A new job is enqueued while no other is active, and the deletion is pending.
LEMMA JobBegins ==
    ASSUME PurgeAssumption, NEW n \in 0..MaxJobs, Backlog(n), n + 1 \in JobIds, NEW jobs,
           \A j \in JobIds : jobs[j].phase # "none" <=> job[j].phase # "none",
           \A j \in JobIds : jobs[j].phase \notin Active,
           jobs \in [JobIds -> JobRow], NEW wait \in Nat,
           job' = WithPurgeJob(jobs, wait), kb'.lifecycle = "PENDING_DELETE"
    PROVE  job' \in [JobIds -> JobRow] /\ \E m \in 0..MaxJobs : Backlog(m)'
  <1> DEFINE new == [phase |-> "queued", budget |-> Attempts, wait |-> wait, live |-> FALSE]
  <1>1. FreeJob = n + 1
    BY NewestJob
  <1>2. job' = [jobs EXCEPT ![n + 1] = new]
    BY <1>1 DEF WithPurgeJob
  <1>3. new \in JobRow /\ new.phase = "queued" /\ "queued" \in Active /\ "none" \notin Active
    BY DEF JobRow, Phases, Active, PurgeAssumption
  <1> HIDE DEF new
  <1>4. job' \in [JobIds -> JobRow]
    BY <1>2, <1>3
  <1>5. job'[n + 1].phase \in Active /\ \A j \in JobIds \ {n + 1} : job'[j] = jobs[j]
    BY <1>2, <1>3
  <1>6. \A j \in JobIds : job'[j].phase # "none" <=> j <= n + 1
    <2> TAKE j \in JobIds
    <2>1. CASE j = n + 1
      BY <1>3, <1>5, <2>1
    <2>2. CASE j # n + 1
      <3>1. job'[j].phase # "none" <=> j <= n
        BY <1>5, <2>2 DEF Backlog
      <3>2. j \in Int /\ n \in Int
        BY DEF JobIds
      <3> QED
        BY <2>2, <3>1, <3>2
    <2> QED
      BY <2>1, <2>2
  <1>7. Backlog(n + 1)' /\ n + 1 \in 0..MaxJobs
    BY <1>3, <1>5, <1>6 DEF Backlog, JobIds, PurgeAssumption
  <1> QED
    BY <1>4, <1>7
\* The active job j ends badly: the row is restored, or a recovery job takes
\* over when the intent was committed.
LEMMA Settled ==
    ASSUME PurgeAssumption, PurgeInv, NEW j \in JobIds, job[j].phase \in Active,
           NEW outcome \in {"failed", "cancelled"}, SettleBadly(j, outcome)
    PROVE  /\ job' \in [JobIds -> JobRow] /\ \E n \in 0..MaxJobs : Backlog(n)'
           /\ kb' = kb \/ (kb.lifecycle = "PENDING_DELETE" /\ ~intent /\ kb' = Restored)
  <1> DEFINE settled == [job EXCEPT ![j].phase = outcome, ![j].live = FALSE]
  <1>1. PICK n \in 0..MaxJobs : Backlog(n)
    BY DEF PurgeInv
  <1>2. job \in [JobIds -> JobRow] /\ kb \in KbRow
    BY RowTypes DEF PurgeInv
  <1>3. /\ settled \in [JobIds -> JobRow] /\ settled[j].phase = outcome
        /\ \A i \in JobIds \ {j} : settled[i] = job[i]
    BY <1>2 DEF JobRow, Phases
  <1>4. j = n /\ n > 0 /\ n \in Nat /\ Latest = j
    BY <1>1, NewestJob DEF Backlog, JobIds, PurgeAssumption
  <1>5. outcome \notin Active \cup {"none"} /\ "none" \notin Active
    BY DEF Active
  <1>6. TerminalCallback(j, settled)
    BY DEF SettleBadly
  <1> HIDE DEF settled
  <1>7. /\ \A i \in JobIds : settled[i].phase # "none" <=> job[i].phase # "none"
        /\ \A i \in JobIds : settled[i].phase \notin Active
    BY <1>1, <1>3, <1>4, <1>5 DEF Backlog
  <1>8. CASE kb.lifecycle # "PENDING_DELETE"
    <2>1. kb' = kb /\ job' = settled
      BY <1>6, <1>8 DEF TerminalCallback
    <2> QED
      BY <1>3, <1>5, <1>8, <2>1, JobEnds
  <1>9. CASE kb.lifecycle = "PENDING_DELETE" /\ intent
    <2>1. FreeJob \in JobIds /\ kb' = kb /\ job' = WithPurgeJob(settled, 1)
      BY <1>4, <1>6, <1>9 DEF TerminalCallback
    <2>2. n + 1 \in JobIds
      BY <1>1, <2>1, NewestJob
    <2> QED
      BY <1>1, <1>3, <1>7, <1>9, <2>1, <2>2, JobBegins
  <1>10. CASE kb.lifecycle = "PENDING_DELETE" /\ ~intent
    <2>1. kb' = Restored /\ job' = settled
      BY <1>4, <1>6, <1>10 DEF TerminalCallback
    <2>2. kb'.lifecycle # "PENDING_DELETE"
      BY <1>2, <2>1 DEF Restored, RestoreLifecycle, KbRow
    <2> QED
      BY <1>3, <1>5, <1>10, <2>1, <2>2, JobEnds
  <1> QED
    BY <1>8, <1>9, <1>10

\* The row after it was restored.
LEMMA RestoredRow ==
    ASSUME PurgeAssumption, kb \in KbRow
    PROVE  Restored \in KbRow /\ Restored.lifecycle \in {"ACTIVE", "ARCHIVED"}
  <1>1. RestoreLifecycle(kb.archived) \in {"ACTIVE", "ARCHIVED"}
    BY DEF RestoreLifecycle
  <1>2. kb.version + 1 \in Nat \ {0} /\ 0 \in 0..Grace
    BY DEF PurgeAssumption, KbRow
  <1> DEFINE l == RestoreLifecycle(kb.archived)
  <1> HIDE DEF l
  <1>3. Restored = [kb EXCEPT !.lifecycle = l, !.grace = 0, !.version = @ + 1]
    BY DEF Restored, l
  <1> QED
    BY <1>1, <1>2, <1>3 DEF KbRow, Lifecycles, l

\* Removal only looks at handlers, files, the intent and the lifecycle.
LEMMA RemovalStays ==
    ASSUME Removal, kb'.lifecycle = kb.lifecycle, UNCHANGED <<intent, files, handler>>
    PROVE  Removal'
  BY DEF Removal

\* A row is brought back only when no intent was committed.
LEMMA RemovalRestored ==
    ASSUME Removal, kb.lifecycle \in {"ACTIVE", "ARCHIVED", "PENDING_DELETE"}, ~intent,
           UNCHANGED <<intent, files, handler>>, kb'.lifecycle # "DELETED"
    PROVE  Removal'
  <1>1. ~intent' /\ files' = Directories
    BY DEF Removal
  <1>2. \A w \in Workers : /\ handler'[w].at # "removing" /\ handler'[w].at # "ok"
                          /\ handler'[w].at # "idle" => handler'[w].job \in JobIds
    BY DEF Removal
  <1> QED
    BY <1>1, <1>2 DEF Removal

\* Every step keeps the inductive invariant.
LEMMA PurgeStep ==
    ASSUME PurgeAssumption, PurgeInv, [Next]_vars
    PROVE  PurgeInv'
  <1> DEFINE Backlogged == \E n \in 0..MaxJobs : Backlog(n)
  <1>1. /\ kb \in KbRow /\ job \in [JobIds -> JobRow] /\ handler \in [Workers -> HandlerRow]
        /\ seen \in Nat \ {0} /\ intent \in BOOLEAN /\ files \subseteq Directories
        /\ commands \in 0..MaxCommands /\ failures \in 0..MaxFailures /\ Removal
    BY RowTypes DEF PurgeInv
  <1>2. Attempts \in Nat \ {0} /\ Grace \in Nat \ {0} /\ MaxJobs \in Nat /\ MaxCommands \in Nat
        /\ MaxFailures \in Nat
    BY DEF PurgeAssumption
  <1>3. UNCHANGED <<kb, job>> => Backlogged'
    <2> HAVE UNCHANGED <<kb, job>>
    <2> QED
      BY BacklogStays
  <1>4. ASSUME kb' \in KbRow, job' \in [JobIds -> JobRow], handler' \in [Workers -> HandlerRow],
               seen' \in Nat \ {0}, intent' \in BOOLEAN, files' \subseteq Directories,
               commands' \in 0..MaxCommands, failures' \in 0..MaxFailures, Removal', Backlogged'
        PROVE  PurgeInv'
    BY <1>4 DEF PurgeInv, PurgeTypeOK, KbRow, JobRow, HandlerRow, Lifecycles, Phases
  <1> HIDE DEF Backlogged
  <1>a. kb.version + 1 \in Nat \ {0}
    BY <1>1 DEF KbRow
  <1>5. Command => /\ commands' \in 0..MaxCommands /\ UNCHANGED <<seen, intent, files, handler, failures>>
    BY <1>1, <1>2 DEF Command
  <1>6. CASE UNCHANGED vars
    BY <1>1, <1>3, <1>4, <1>6, RemovalStays DEF vars
  <1>7. CASE Read
    BY <1>1, <1>3, <1>4, <1>7, RemovalStays DEF Read, KbRow
  <1>8. ASSUME NEW target \in {"ACTIVE", "ARCHIVED"}, Update(target)
        PROVE  PurgeInv'
    <2> DEFINE archived == (target = "ARCHIVED")
    <2>a. archived \in BOOLEAN /\ target \in Lifecycles
      BY DEF Lifecycles
    <2>b. kb' = [kb EXCEPT !.lifecycle = target, !.archived = archived, !.version = kb.version + 1]
      BY <1>8 DEF Update
    <2> HIDE DEF archived
    <2>1. kb' \in KbRow /\ kb'.lifecycle = target /\ UNCHANGED job
      BY <1>1, <1>8, <1>a, <2>a, <2>b DEF Update, KbRow
    <2>2. PICK n \in 0..MaxJobs : Backlog(n)
      BY DEF PurgeInv
    <2>3. Backlog(n)' /\ kb.lifecycle \in {"ACTIVE", "ARCHIVED"}
      BY <1>8, <2>1, <2>2 DEF Update, Backlog
    <2>4. Removal'
      BY <1>1, <1>5, <1>8, <2>1, <2>3, RemovalRestored DEF Update, Removal
    <2> QED
      BY <1>1, <1>4, <1>5, <1>8, <2>1, <2>3, <2>4 DEF Update, Backlogged
  <1>9. CASE RequestDelete
    <2>a. kb' = [kb EXCEPT !.lifecycle = "PENDING_DELETE", !.grace = Grace, !.version = kb.version + 1]
      BY <1>9 DEF RequestDelete
    <2>b. Grace \in 0..Grace
      BY <1>2
    <2>1. kb' \in KbRow /\ kb'.lifecycle = "PENDING_DELETE"
      BY <1>1, <1>a, <2>a, <2>b DEF KbRow, Lifecycles
    <2>2. kb.lifecycle \in {"ACTIVE", "ARCHIVED"}
      BY <1>9 DEF RequestDelete, Transition
    <2>3. PICK n \in 0..MaxJobs : Backlog(n)
      BY DEF PurgeInv
    <2>4. n + 1 \in JobIds /\ job' = WithPurgeJob(job, Grace)
      BY <1>9, <2>3, NewestJob DEF RequestDelete
    <2>5. \A j \in JobIds : job[j].phase \notin Active
      BY <2>2, <2>3 DEF Backlog
    <2>6. job' \in [JobIds -> JobRow] /\ Backlogged'
      BY <1>1, <1>2, <2>1, <2>3, <2>4, <2>5, JobBegins DEF Backlogged
    <2>7. Removal'
      BY <1>1, <1>5, <1>9, <2>1, <2>2, RemovalRestored DEF RequestDelete, Removal
    <2> QED
      BY <1>1, <1>4, <1>5, <1>9, <2>1, <2>6, <2>7 DEF RequestDelete
  <1>10. CASE Restore
    <2>1. kb' = Restored /\ kb.lifecycle = "PENDING_DELETE" /\ ~intent
      BY <1>10 DEF Restore
    <2>2. kb' \in KbRow /\ kb'.lifecycle \in {"ACTIVE", "ARCHIVED"}
      BY <1>1, <2>1, RestoredRow
    <2>3. PICK n \in 0..MaxJobs : Backlog(n)
      BY DEF PurgeInv
    <2>4. n \in JobIds /\ job[n].phase \in Active /\ Latest = n
      BY <1>2, <2>1, <2>3, NewestJob DEF Backlog, JobIds
    <2>5. job' = [job EXCEPT ![n].phase = "cancelled", ![n].live = FALSE]
      BY <1>10, <2>4 DEF Restore, Active
    <2>6. /\ job' \in [JobIds -> JobRow] /\ job'[n].phase = "cancelled"
          /\ \A i \in JobIds \ {n} : job'[i] = job[i]
      BY <1>1, <2>4, <2>5 DEF JobRow, Phases
    <2>7. Backlogged'
      BY <2>2, <2>4, <2>6, JobEnds DEF Active, Backlogged
    <2>8. Removal'
      BY <1>1, <1>5, <1>10, <2>1, <2>2, RemovalRestored DEF Restore
    <2> QED
      BY <1>1, <1>4, <1>5, <1>10, <2>2, <2>6, <2>7, <2>8 DEF Restore
  <1>11. ASSUME NEW j \in JobIds, job[j].phase \in Active, NEW outcome \in {"failed", "cancelled"},
                SettleBadly(j, outcome), UNCHANGED <<intent, files>>
         PROVE  /\ kb' \in KbRow /\ job' \in [JobIds -> JobRow] /\ Backlogged'
                /\ UNCHANGED handler => Removal'
    <2>1. /\ job' \in [JobIds -> JobRow] /\ Backlogged'
          /\ kb' = kb \/ (kb.lifecycle = "PENDING_DELETE" /\ ~intent /\ kb' = Restored)
      BY <1>11, Settled DEF Backlogged
    <2>2. CASE kb' = kb
      BY <1>1, <1>11, <2>1, <2>2, RemovalStays
    <2>3. CASE kb.lifecycle = "PENDING_DELETE" /\ ~intent /\ kb' = Restored
      <3>1. kb' \in KbRow /\ kb'.lifecycle \in {"ACTIVE", "ARCHIVED"}
        BY <1>1, <2>3, RestoredRow
      <3>2. UNCHANGED handler => Removal'
        BY <1>1, <1>11, <2>3, <3>1, RemovalRestored
      <3> QED
        BY <2>1, <3>1, <3>2
    <2> QED
      BY <2>1, <2>2, <2>3
  <1>12. ASSUME NEW j \in JobIds, RequestCancel(j)
         PROVE  PurgeInv'
    <2>1. CASE CancelledAtOnce(j) /\ SettleBadly(j, "cancelled")
      <3>1. job[j].phase \in Active
        BY <2>1 DEF CancelledAtOnce, Active
      <3>2. UNCHANGED <<seen, intent, files, handler, failures>> /\ commands' \in 0..MaxCommands
        BY <1>5, <1>12 DEF RequestCancel
      <3> QED
        BY <1>1, <1>4, <1>11, <2>1, <3>1, <3>2
    <2>2. CASE /\ job[j].phase = "running" /\ job[j].live
               /\ job' = [job EXCEPT ![j].phase = "cancelling"]
               /\ UNCHANGED kb
      <3>1. /\ job' \in [JobIds -> JobRow] /\ job'[j].phase = "cancelling"
            /\ \A i \in JobIds \ {j} : job'[i] = job[i]
        BY <1>1, <2>2 DEF JobRow, Phases, Active
      <3>2. Backlogged'
        BY <2>2, <3>1, JobGoesOn DEF Active, Backlogged
      <3> QED
        BY <1>1, <1>4, <1>5, <1>12, <2>2, <3>1, <3>2, RemovalStays DEF RequestCancel
    <2> QED
      BY <1>12, <2>1, <2>2 DEF RequestCancel
  <1>13. ASSUME NEW w \in Workers, NEW j \in JobIds, Lease(w, j)
         PROVE  PurgeInv'
    <2> DEFINE row == [phase |-> "running", budget |-> job[j].budget - 1, wait |-> 0, live |-> TRUE]
               h == [at |-> "start", job |-> j, budget |-> job[j].budget - 1, left |-> {}]
    <2>1. job[j].phase \in Active /\ job[j].budget - 1 \in 0..Attempts
      BY <1>1, <1>2, <1>13 DEF Lease, Active, JobRow
    <2>2. row \in JobRow /\ h \in HandlerRow /\ row.phase = "running" /\ h.at = "start" /\ h.job = j
      BY <2>1 DEF JobRow, HandlerRow, Phases, Active
    <2>3. job' = [job EXCEPT ![j] = row] /\ handler' = [handler EXCEPT ![w] = h]
      BY <1>13 DEF Lease
    <2> HIDE DEF row, h
    <2>4. /\ job' \in [JobIds -> JobRow] /\ job'[j].phase = "running"
          /\ \A i \in JobIds \ {j} : job'[i] = job[i]
      BY <1>1, <2>2, <2>3
    <2>5. Backlogged'
      BY <1>13, <2>1, <2>4, JobGoesOn DEF Lease, Active, Backlogged
    <2>a. UNCHANGED <<kb, seen, intent, files, commands, failures>>
      BY <1>13 DEF Lease
    <2>6. handler' \in [Workers -> HandlerRow] /\ UNCHANGED <<kb, seen, intent, files, commands, failures>>
      BY <1>1, <2>2, <2>3, <2>a
    <2>7. Removal'
      BY <1>1, <2>2, <2>3, <2>6 DEF Removal
    <2> QED
      BY <1>1, <1>4, <2>4, <2>5, <2>6, <2>7
  <1>14. ASSUME NEW w \in Workers, Purge(w)
         PROVE  PurgeInv'
    <2> DEFINE due == kb.lifecycle = "PENDING_DELETE" /\ kb.grace = 0
               at == IF kb.lifecycle = "DELETED" THEN "ok" ELSE IF due THEN "removing" ELSE "retry"
               left == IF due THEN Directories ELSE {}
    <2>1. /\ handler' = [handler EXCEPT ![w].at = at, ![w].left = left]
          /\ intent' = (intent \/ due) /\ handler[w].at = "start"
          /\ UNCHANGED <<kb, seen, files, job, commands, failures>>
      BY <1>14 DEF Purge
    <2>2. /\ at \in {"ok", "removing", "retry"} /\ left \subseteq Directories
          /\ at = "ok" => kb.lifecycle = "DELETED"
          /\ at = "removing" => due /\ left = Directories
      OBVIOUS
    <2>3. due => kb.lifecycle = "PENDING_DELETE"
      OBVIOUS
    <2>4. due \in BOOLEAN
      OBVIOUS
    <2> HIDE DEF due, at, left
    <2>5. /\ handler' \in [Workers -> HandlerRow] /\ handler'[w].at = at /\ handler'[w].left = left
          /\ handler'[w].job = handler[w].job /\ \A v \in Workers \ {w} : handler'[v] = handler[v]
      BY <1>1, <2>1, <2>2 DEF HandlerRow
    <2>6. intent' \in BOOLEAN
      BY <1>1, <2>1, <2>4
    <2>7. Removal'
      BY <1>1, <2>1, <2>2, <2>3, <2>5 DEF Removal
    <2> QED
      BY <1>1, <1>3, <1>4, <2>1, <2>5, <2>6, <2>7
  <1>15. ASSUME NEW w \in Workers, NEW d \in Directories, PurgeDirectory(w, d)
         PROVE  PurgeInv'
    <2>1. /\ handler' = [handler EXCEPT ![w].left = @ \ {d}] /\ files' = files \ {d}
          /\ handler[w].at = "removing" /\ UNCHANGED <<kb, seen, intent, job, commands, failures>>
      BY <1>15 DEF PurgeDirectory
    <2>2. /\ handler' \in [Workers -> HandlerRow] /\ handler'[w].left = handler[w].left \ {d}
          /\ \A v \in Workers : handler'[v].at = handler[v].at /\ handler'[v].job = handler[v].job
          /\ \A v \in Workers \ {w} : handler'[v] = handler[v]
      BY <1>1, <2>1 DEF HandlerRow
    <2>3. Removal'
      BY <1>1, <2>1, <2>2 DEF Removal
    <2> QED
      BY <1>1, <1>3, <1>4, <2>1, <2>2, <2>3
  <1>16. ASSUME NEW w \in Workers, NEW at \in {"ok", "retry"}, Goto(w, at)
         PROVE  /\ handler' \in [Workers -> HandlerRow] /\ handler'[w].at = at
                /\ handler'[w].job = handler[w].job /\ \A v \in Workers \ {w} : handler'[v] = handler[v]
    BY <1>1, <1>16 DEF Goto, HandlerRow
  <1>17. ASSUME NEW w \in Workers, FinalizePurge(w)
         PROVE  PurgeInv'
    <2> DEFINE purge == kb.lifecycle = "PENDING_DELETE" /\ intent
               at == IF purge \/ kb.lifecycle = "DELETED" THEN "ok" ELSE "retry"
    <2>1. /\ kb' = IF purge THEN [kb EXCEPT !.lifecycle = "DELETED", !.version = @ + 1] ELSE kb
          /\ intent' = (intent /\ ~purge) /\ Goto(w, at)
          /\ handler[w].at = "removing" /\ handler[w].left = {}
          /\ UNCHANGED <<seen, files, job, commands, failures>>
      BY <1>17 DEF FinalizePurge
    <2>2. at \in {"ok", "retry"}
      OBVIOUS
    <2>3. at = "ok" => purge \/ kb.lifecycle = "DELETED"
      OBVIOUS
    <2>a. (intent /\ ~purge) \in BOOLEAN
      OBVIOUS
    <2> HIDE DEF at
    <2>4. /\ handler' \in [Workers -> HandlerRow] /\ handler'[w].at = at
          /\ handler'[w].job = handler[w].job /\ \A v \in Workers \ {w} : handler'[v] = handler[v]
      BY <1>16, <2>1, <2>2
    <2>5. files = {}
      BY <1>1, <2>1 DEF Removal
    <2>6. kb' \in KbRow /\ kb'.lifecycle = IF purge THEN "DELETED" ELSE kb.lifecycle
      BY <1>1, <1>a, <2>1 DEF KbRow, Lifecycles
    <2>7. Removal'
      BY <1>1, <2>1, <2>2, <2>3, <2>4, <2>5, <2>6 DEF Removal
    <2>8. Backlogged'
      <3>1. PICK n \in 0..MaxJobs : Backlog(n)
        BY DEF PurgeInv
      <3> QED
        BY <2>1, <2>6, <3>1 DEF Backlog, Backlogged
    <2> QED
      BY <1>1, <1>4, <2>1, <2>4, <2>a, <2>6, <2>7, <2>8
  <1>18. ASSUME NEW w \in Workers, HandlerError(w)
         PROVE  PurgeInv'
    <2>1. Goto(w, "retry") /\ UNCHANGED <<kb, seen, intent, files, job, commands>> /\ failures' \in 0..MaxFailures
          /\ handler[w].at # "idle"
      BY <1>1, <1>2, <1>18 DEF HandlerError
    <2>2. /\ handler' \in [Workers -> HandlerRow] /\ handler'[w].at = "retry"
          /\ handler'[w].job = handler[w].job /\ \A v \in Workers \ {w} : handler'[v] = handler[v]
      BY <1>16, <2>1
    <2>3. Removal'
      BY <1>1, <2>1, <2>2 DEF Removal
    <2> QED
      BY <1>1, <1>3, <1>4, <2>1, <2>2, <2>3
  <1>19. Idle \in HandlerRow /\ Idle.at = "idle"
    BY <1>2 DEF Idle, HandlerRow
  <1>20. ASSUME NEW w \in Workers, handler' = [handler EXCEPT ![w] = Idle], UNCHANGED <<intent, files>>
         PROVE  /\ handler' \in [Workers -> HandlerRow]
                /\ kb'.lifecycle = kb.lifecycle => Removal'
                /\ (~intent /\ kb.lifecycle = "PENDING_DELETE" /\ kb'.lifecycle \in {"ACTIVE", "ARCHIVED"}) => Removal'
    <2>1. /\ handler' \in [Workers -> HandlerRow] /\ handler'[w].at = "idle"
          /\ \A v \in Workers \ {w} : handler'[v] = handler[v]
      BY <1>1, <1>19, <1>20
    <2> QED
      BY <1>1, <1>20, <2>1 DEF Removal
  <1>21. ASSUME NEW w \in Workers, Accept(w)
         PROVE  PurgeInv'
    <2> DEFINE j == handler[w].job
    <2>0. /\ handler' = [handler EXCEPT ![w] = Idle] /\ UNCHANGED <<seen, intent, files, commands, failures>>
      BY <1>21 DEF Accept
    <2>1. handler[w].at # "idle" /\ job[j].phase \in Active /\ j \in JobIds
      BY <1>1, <1>21 DEF Accept, Current, Active, Removal
    <2>2. CASE /\ handler[w].at = "ok"
               /\ job' = [job EXCEPT ![j].phase = "succeeded", ![j].live = FALSE]
               /\ UNCHANGED kb
      <3>1. kb.lifecycle = "DELETED"
        BY <1>1, <2>2 DEF Removal
      <3> HIDE DEF j
      <3>2. /\ job' \in [JobIds -> JobRow] /\ job'[j].phase = "succeeded"
            /\ \A i \in JobIds \ {j} : job'[i] = job[i]
        BY <1>1, <2>1, <2>2 DEF JobRow, Phases, Active
      <3>3. Backlogged'
        BY <2>1, <2>2, <3>1, <3>2, JobEnds DEF Active, Backlogged
      <3> QED
        BY <1>1, <1>4, <1>20, <2>0, <2>2, <3>2, <3>3
    <2>3. CASE /\ job' = [job EXCEPT ![j].phase = "queued", ![j].live = FALSE, ![j].wait = 1]
               /\ UNCHANGED kb
      <3> HIDE DEF j
      <3>2. /\ job' \in [JobIds -> JobRow] /\ job'[j].phase = "queued"
            /\ \A i \in JobIds \ {j} : job'[i] = job[i]
        BY <1>1, <2>1, <2>3, ZenonT(60) DEF JobRow, Phases, Active
      <3>3. Backlogged'
        BY <2>1, <2>3, <3>2, JobGoesOn DEF Active, Backlogged
      <3> QED
        BY <1>1, <1>4, <1>20, <2>0, <2>3, <3>2, <3>3
    <2>4. CASE SettleBadly(j, "failed")
      <3> HIDE DEF j
      <3>1. kb' \in KbRow /\ job' \in [JobIds -> JobRow] /\ Backlogged'
        BY <1>11, <2>0, <2>1, <2>4
      <3>2. kb' = kb \/ (kb.lifecycle = "PENDING_DELETE" /\ ~intent /\ kb' = Restored)
        BY <2>1, <2>4, Settled
      <3>3. Removal' /\ handler' \in [Workers -> HandlerRow]
        BY <1>1, <1>20, <2>0, <3>2, RestoredRow
      <3> QED
        BY <1>1, <1>4, <2>0, <3>1, <3>3
    <2> QED
      BY <1>21, <2>2, <2>3, <2>4 DEF Accept
  <1>22. ASSUME NEW w \in Workers, Abandon(w)
         PROVE  PurgeInv'
    BY <1>1, <1>3, <1>4, <1>20, <1>22 DEF Abandon
  <1>23. ASSUME NEW j \in JobIds, LoseLease(j)
         PROVE  PurgeInv'
    <2>1. job' = [job EXCEPT ![j].live = FALSE] /\ UNCHANGED <<kb, seen, intent, files, handler, commands>>
          /\ failures' \in 0..MaxFailures
      BY <1>1, <1>2, <1>23 DEF LoseLease
    <2>2. job' \in [JobIds -> JobRow] /\ \A i \in JobIds : job'[i].phase = job[i].phase
      BY <1>1, <2>1 DEF JobRow
    <2>3. Backlogged'
      BY <2>1, <2>2, BacklogStays DEF Backlogged
    <2> QED
      BY <1>1, <1>4, <2>1, <2>2, <2>3, RemovalStays
  <1>24. ASSUME NEW j \in JobIds, Reap(j)
         PROVE  PurgeInv'
    <2>1. job[j].phase \in Active /\ (SettleBadly(j, "failed") \/ SettleBadly(j, "cancelled"))
          /\ UNCHANGED <<seen, intent, files, handler, commands, failures>>
      BY <1>24 DEF Reap, Active
    <2> QED
      BY <1>1, <1>4, <1>11, <2>1
  <1>25. CASE Tick
    <2> DEFINE row(j) == [job[j] EXCEPT !.wait = IF @ > 0 THEN @ - 1 ELSE 0]
    <2>1. \A j \in JobIds : row(j) \in JobRow /\ row(j).phase = job[j].phase
      BY <1>1 DEF JobRow
    <2>2. job' = [j \in JobIds |-> row(j)]
      BY <1>25 DEF Tick
    <2> HIDE DEF row
    <2>3. job' \in [JobIds -> JobRow] /\ \A j \in JobIds : job'[j].phase = job[j].phase
      BY <2>1, <2>2
    <2>4. kb' \in KbRow /\ kb'.lifecycle = kb.lifecycle
      BY <1>1, <1>2, <1>25 DEF Tick, KbRow
    <2>5. Backlogged'
      BY <2>3, <2>4, BacklogStays DEF Backlogged
    <2> QED
      BY <1>1, <1>4, <1>25, <2>3, <2>4, <2>5, RemovalStays DEF Tick
  <1> QED
    BY <1>6, <1>7, <1>8, <1>9, <1>10, <1>12, <1>13, <1>14, <1>15, <1>17, <1>18, <1>21, <1>22, <1>23, <1>24, <1>25
       DEF Next, Operators, WorkerStep

-----------------------------------------------------------------------------
\* For any number of workers, sources and attempts, whatever is cancelled,
\* fails or loses its lease: a knowledge base that can be used has all its
\* directories and nobody is removing them, a pending deletion has an active
\* purge job, and a deleted knowledge base left neither directory nor intent
\* (Delete, Restore, PurgeHandler, TerminalCallback).
THEOREM PurgeSafe ==
    ASSUME PurgeAssumption
    PROVE  Spec => []PurgeIsSafe
  <1>1. Init => PurgeInv
    BY PurgeStart
  <1>2. PurgeInv /\ [Next]_vars => PurgeInv'
    BY PurgeStep
  <1>3. PurgeInv => PurgeIsSafe
    BY InvIsSafe
  <1> QED
    BY <1>1, <1>2, <1>3, PTL DEF Spec

\* A committed deletion intent stays until the row is DELETED, and DELETED is
\* final, whoever cancels, fails, crashes or restores (PurgeHandler,
\* TerminalCallback, Restore).
THEOREM PurgeFinal ==
    ASSUME PurgeAssumption
    PROVE  Spec => PurgeIsFinal
  <1> DEFINE Kept == /\ intent => (intent' /\ kb'.lifecycle = "PENDING_DELETE") \/ kb'.lifecycle = "DELETED"
                     /\ kb.lifecycle = "DELETED" => kb'.lifecycle = "DELETED"
  <1>1. ASSUME PurgeInv, [Next]_vars PROVE Kept
    <2>1. kb \in KbRow /\ intent \in BOOLEAN /\ (intent => kb.lifecycle = "PENDING_DELETE")
      BY <1>1, RowTypes DEF PurgeInv, Removal
    <2>2. UNCHANGED intent /\ kb'.lifecycle = kb.lifecycle => Kept
      BY <2>1
    <2>3. UNCHANGED <<intent, kb>> => Kept
      BY <2>2
    <2> HIDE DEF Kept
    <2>4. ASSUME NEW j \in JobIds, job[j].phase \in Active, NEW outcome \in {"failed", "cancelled"},
                 SettleBadly(j, outcome), UNCHANGED intent
          PROVE  Kept
      <3>1. kb' = kb \/ (kb.lifecycle = "PENDING_DELETE" /\ ~intent)
        BY <1>1, <2>4, Settled
      <3> QED
        BY <2>2, <2>4, <3>1 DEF Kept
    <2>5. CASE UNCHANGED vars
      BY <2>3, <2>5 DEF vars
    <2>6. CASE Read
      BY <2>3, <2>6 DEF Read
    <2>7. CASE RequestDelete
      BY <2>1, <2>7 DEF RequestDelete, Transition, Kept
    <2>8. CASE Restore
      BY <2>1, <2>8 DEF Restore, Kept
    <2>9. ASSUME NEW target \in {"ACTIVE", "ARCHIVED"}, Update(target) PROVE Kept
      BY <2>1, <2>9 DEF Update, Kept
    <2>10. ASSUME NEW j \in JobIds, RequestCancel(j) PROVE Kept
      <3>1. UNCHANGED intent
        BY <2>10 DEF RequestCancel, Command
      <3>2. CASE UNCHANGED kb
        BY <2>3, <3>1, <3>2
      <3>3. CASE CancelledAtOnce(j) /\ SettleBadly(j, "cancelled")
        BY <2>4, <3>1, <3>3 DEF CancelledAtOnce, Active
      <3> QED
        BY <2>10, <3>2, <3>3 DEF RequestCancel
    <2>11. ASSUME NEW w \in Workers, NEW j \in JobIds, Lease(w, j) PROVE Kept
      BY <2>3, <2>11 DEF Lease
    <2>12. ASSUME NEW w \in Workers, Purge(w) PROVE Kept
      <3>1. UNCHANGED kb /\ (intent => intent')
        BY <2>12 DEF Purge
      <3> QED
        BY <2>1, <3>1 DEF Kept
    <2>13. ASSUME NEW w \in Workers, NEW d \in Directories, PurgeDirectory(w, d) PROVE Kept
      BY <2>3, <2>13 DEF PurgeDirectory
    <2>14. ASSUME NEW w \in Workers, FinalizePurge(w) PROVE Kept
      <3>1. CASE kb.lifecycle = "PENDING_DELETE" /\ intent
        <4>1. kb' = [kb EXCEPT !.lifecycle = "DELETED", !.version = @ + 1]
          BY <2>14, <3>1 DEF FinalizePurge
        <4>2. kb'.lifecycle = "DELETED"
          BY <2>1, <4>1 DEF KbRow
        <4> QED
          BY <4>2 DEF Kept
      <3>2. CASE ~(kb.lifecycle = "PENDING_DELETE" /\ intent)
        <4>1. kb' = kb /\ ~intent
          BY <2>1, <2>14, <3>2 DEF FinalizePurge
        <4> QED
          BY <4>1 DEF Kept
      <3> QED
        BY <3>1, <3>2
    <2>15. ASSUME NEW w \in Workers, HandlerError(w) \/ Abandon(w) PROVE Kept
      BY <2>3, <2>15 DEF HandlerError, Abandon
    <2>16. ASSUME NEW w \in Workers, Accept(w) PROVE Kept
      <3> DEFINE j == handler[w].job
      <3>1. j \in JobIds /\ job[j].phase \in Active /\ UNCHANGED intent
        BY <1>1, <2>16 DEF Accept, Current, Active, PurgeInv, Removal
      <3>2. UNCHANGED kb \/ SettleBadly(j, "failed")
        BY <2>16 DEF Accept
      <3> HIDE DEF j
      <3> QED
        BY <2>3, <2>4, <3>1, <3>2
    <2>17. ASSUME NEW j \in JobIds, LoseLease(j) PROVE Kept
      BY <2>3, <2>17 DEF LoseLease
    <2>18. ASSUME NEW j \in JobIds, Reap(j) PROVE Kept
      <3>1. /\ job[j].phase \in Active /\ UNCHANGED intent
            /\ SettleBadly(j, "failed") \/ SettleBadly(j, "cancelled")
        BY <2>18 DEF Reap, Active
      <3> QED
        BY <2>4, <3>1
    <2>19. CASE Tick
      <3>1. UNCHANGED intent /\ kb' = [kb EXCEPT !.grace = IF @ > 0 THEN @ - 1 ELSE 0]
        BY <2>19 DEF Tick
      <3> QED
        BY <2>1, <2>2, <3>1 DEF KbRow
    <2> QED
      BY <1>1, <2>5, <2>6, <2>7, <2>8, <2>9, <2>10, <2>11, <2>12, <2>13, <2>14, <2>15, <2>16, <2>17, <2>18, <2>19
         DEF Next, Operators, WorkerStep
  <1>2. Init => PurgeInv
    BY PurgeStart
  <1>3. PurgeInv /\ [Next]_vars => PurgeInv'
    BY PurgeStep
  <1>4. PurgeInv /\ [Next]_vars => [Kept]_vars
    BY <1>1
  <1> QED
    BY <1>2, <1>3, <1>4, PTL DEF Spec, PurgeIsFinal

-----------------------------------------------------------------------------
(***************************************************************************)
(* Snapshots: a marker stands beside whole files, whatever was killed or   *)
(* lost, and what was discarded does not come back.                        *)
(***************************************************************************)
Markers == {"absent", "empty", "torn"} \cup Contents
DirRow == {d \in [exists : BOOLEAN, files : SUBSET (Files \X Contents)] : d.exists \/ d = Missing}
OpRow == [at : States, content : Contents \cup {NoContent}, want : Intents]
DurableRow == [intent : Intents, dir : DirRow, marker : Markers]

\* The files, the operations and the counters have their types.
DiskOK ==
    /\ intentFile \in Intents /\ dir \in DirRow /\ marker \in Markers /\ durable \in DurableRow
    /\ op \in [Processes -> OpRow]
    /\ removal \in {"none", "begun", "done"} /\ disturbed \in SUBSET Processes
    /\ ops \in 0..MaxOps /\ fileFailures \in 0..MaxFileFailures /\ powerLosses \in 0..MaxPowerLosses

(***************************************************************************)
(* The inductive invariant.  A marker that was flushed is the one on the   *)
(* disk, and one that names a content has that content beside it, flushed  *)
(* before it was made; what is done away with is durably so; an operation  *)
(* knows of every removal that overlaps it; and without losses of power a  *)
(* directory without marker is one its intent tells to remove.             *)
(***************************************************************************)
OneAtATime == lock = {p \in Processes : op[p].at \in Locked} /\ \A p, q \in lock : p = q

Flushed ==
    removal # "begun" =>
      /\ durable.marker \in Contents => marker = durable.marker
      /\ marker \in Contents => dir = Holding(Whole(marker)) /\ durable.dir = dir

Gone ==
    removal = "done" => dir = Missing /\ marker = "absent" /\ durable.dir = Missing /\ durable.marker = "absent"

Warned == removal = "begun" => disturbed = Processes

Leftover ==
    removal # "begun" /\ powerLosses = 0 =>
      /\ marker = "absent" => intentFile \in {"empty", "publishing"}
      /\ marker = "absent" /\ dir.exists => intentFile = "publishing"
      /\ marker # "absent" => dir.exists

\* What is on the disk at each stage of the operation that holds the lock.
Sealed == {"sealed", "marking", "writing", "closing"}
HolderOK(p) ==
    LET at == op[p].at
        c == op[p].content
    IN
      /\ at \in {"checking", "setting", "clearing"} \cup Publishing => c \in Contents
      /\ removal = "done" /\ at \in Locked => at \in {"checking", "setting", "making"}
      /\ at = "setting" =>
           IF op[p].want = "publishing" THEN marker = "absent" /\ ~dir.exists
           ELSE removal # "begun" /\ powerLosses = 0 => marker # "absent"
      /\ at \in {"clearing", "making", "moving", "sealed"} => marker = "absent" /\ intentFile = "publishing"
      /\ at \in {"moving", "sealed", "marking", "writing"} => durable.marker = "absent"
      /\ at \in {"moving"} \cup Sealed => removal = "none"
      /\ at = "moving" => dir.exists /\ dir.files \subseteq Whole(c)
      /\ at \in Sealed => dir = Holding(Whole(c)) /\ durable.dir = dir
      /\ at = "marking" => marker = "empty"
      /\ at = "writing" => marker = c
      /\ at = "closing" => marker = c /\ durable.marker = c
      /\ at \in Undoing \cup Discarding => removal = "begun"
      /\ at = "truncating" => dir = Missing /\ marker = "absent"

\* What an operation found without the lock is still there, unless a removal
\* has begun since.
ReaderOK(p) ==
    p \notin disturbed =>
      /\ op[p].at = "loading" => dir = Holding(Whole(op[p].content)) /\ marker # "absent"
      /\ op[p].at = "matching" /\ powerLosses = 0 => marker # "absent" /\ dir.exists

SnapInv ==
    /\ DiskOK /\ OneAtATime /\ Flushed /\ Gone /\ Warned /\ Leftover
    /\ \A p \in Processes : HolderOK(p) /\ ReaderOK(p)

-----------------------------------------------------------------------------
(* Directories and rows. *)

LEMMA DirFacts ==
    /\ Missing \in DirRow /\ Missing.exists = FALSE /\ Missing.files = {}
    /\ \A S \in SUBSET (Files \X Contents) : Holding(S) \in DirRow
    /\ \A S : Holding(S).exists = TRUE /\ Holding(S).files = S
    /\ \A d \in DirRow : /\ d.exists \in BOOLEAN /\ d.files \in SUBSET (Files \X Contents)
                         /\ d.exists => d = Holding(d.files)
                         /\ ~d.exists => d = Missing
  BY DEF Missing, DirRow, Holding

LEMMA DirParts ==
    ASSUME NEW d \in DirRow
    PROVE  d.exists \in BOOLEAN /\ d.files \in SUBSET (Files \X Contents)
           /\ (d.exists => d = Holding(d.files)) /\ (~d.exists => d = Missing)
  BY DEF DirRow, Missing, Holding

LEMMA WholeType == ASSUME NEW c \in Contents PROVE Whole(c) \in SUBSET (Files \X Contents)
  BY DEF Whole, Files

LEMMA NoSuchContent ==
    ASSUME SnapshotAssumption
    PROVE  "absent" \notin Contents /\ "empty" \notin Contents /\ "torn" \notin Contents
  BY DEF SnapshotAssumption

LEMMA FsyncFacts ==
    ASSUME SnapshotAssumption, durable \in DurableRow, NEW d \in DirRow, NEW m \in Markers
    PROVE  LET e == FsyncDirectory(d, m) IN
           /\ e \in DurableRow
           /\ ~d.exists => e.dir = Missing
           /\ m = "absent" => e.marker = "absent"
  <1> DEFINE x == IF d.exists THEN IF durable.dir.exists THEN durable.dir ELSE Holding({}) ELSE Missing
             y == IF m = "absent" THEN m ELSE IF durable.marker = "absent" THEN "empty" ELSE durable.marker
  <1>1. FsyncDirectory(d, m) = [durable EXCEPT !.dir = x, !.marker = y]
    BY DEF FsyncDirectory
  <1>2. x \in DirRow /\ y \in Markers /\ (~d.exists => x = Missing) /\ (m = "absent" => y = "absent")
    BY DirFacts DEF DurableRow, Markers
  <1> HIDE DEF x, y
  <1> QED
    BY <1>1, <1>2 DEF DurableRow

LEMMA DurableWith ==
    ASSUME NEW e \in DurableRow
    PROVE  /\ \A i \in Intents : [e EXCEPT !.intent = i] \in DurableRow
                                 /\ [e EXCEPT !.intent = i].dir = e.dir /\ [e EXCEPT !.intent = i].marker = e.marker
           /\ \A d \in DirRow : [e EXCEPT !.dir = d] \in DurableRow
                                /\ [e EXCEPT !.dir = d].dir = d /\ [e EXCEPT !.dir = d].marker = e.marker
           /\ \A m \in Markers : [e EXCEPT !.marker = m] \in DurableRow
                                 /\ [e EXCEPT !.marker = m].dir = e.dir /\ [e EXCEPT !.marker = m].marker = m
  BY DEF DurableRow

LEMMA GoesRow ==
    ASSUME op \in [Processes -> OpRow], NEW p \in Processes, NEW s \in States, Goes(p, s)
    PROVE  /\ op' \in [Processes -> OpRow] /\ \A q \in Processes \ {p} : op'[q] = op[q]
           /\ op'[p].at = s /\ op'[p].content = op[p].content /\ op'[p].want = op[p].want
  <1> DEFINE row == [op[p] EXCEPT !.at = s]
  <1>1. row \in OpRow /\ row.at = s /\ row.content = op[p].content /\ row.want = op[p].want
    <2>1. op[p] \in OpRow
      OBVIOUS
    <2> QED
      BY <2>1 DEF OpRow
  <1>2. op' = [op EXCEPT ![p] = row]
    BY DEF Goes
  <1> HIDE DEF row
  <1> QED
    BY <1>1, <1>2

LEMMA SnapshotInitInv == ASSUME SnapshotAssumption, SnapshotInit PROVE SnapInv
  <1>1. "empty" \in Intents /\ "idle" \in States /\ "idle" \notin Locked
    BY DEF Intents, States, Ended, Locked, Publishing, Undoing, Discarding
  <1>2. DiskOK
    <2>1. [intent |-> "empty", dir |-> Missing, marker |-> "absent"] \in DurableRow
      BY <1>1, DirFacts DEF DurableRow, Markers
    <2>2. [at |-> "idle", content |-> NoContent, want |-> "empty"] \in OpRow
      BY <1>1 DEF OpRow
    <2> QED
      BY <1>1, <2>1, <2>2, DirFacts DEF DiskOK, SnapshotInit, SnapshotAssumption, Markers
  <1>3. OneAtATime /\ Flushed /\ Gone /\ Warned /\ Leftover
    BY <1>1, NoSuchContent, DirFacts DEF OneAtATime, Flushed, Gone, Warned, Leftover, SnapshotInit
  <1>4. ASSUME NEW p \in Processes PROVE HolderOK(p) /\ ReaderOK(p)
    <2>1. op[p].at = "idle" /\ removal = "none"
      BY DEF SnapshotInit
    <2> QED
      BY <1>1, <2>1 DEF HolderOK, ReaderOK, Publishing, Sealed, Undoing, Discarding
  <1> QED
    BY <1>2, <1>3, <1>4 DEF SnapInv

-----------------------------------------------------------------------------
(* The operation of one process moves: with the lock it may change the disk, *)
(* without it the disk stays as it is.                                       *)

\* A process outside the lock only reads.
LEMMA OutsideOK == ASSUME NEW p \in Processes, op[p].at \notin Locked PROVE HolderOK(p)
  BY DEF HolderOK, Locked, Publishing, Sealed, Undoing, Discarding

LEMMA OneStays ==
    ASSUME SnapInv, NEW p \in Processes, \A q \in Processes \ {p} : op'[q] = op[q],
           \/ op'[p].at \in Locked /\ lock' = lock /\ p \in lock
           \/ op'[p].at \notin Locked /\ lock' = lock \ {p}
           \/ op'[p].at \in Locked /\ lock = {} /\ lock' = {p}
    PROVE  OneAtATime'
  BY DEF SnapInv, OneAtATime

LEMMA HolderStep ==
    ASSUME SnapInv, DiskOK', NEW p \in Processes, op[p].at \in Locked, \A q \in Processes \ {p} : op'[q] = op[q],
           \/ op'[p].at \in Locked /\ lock' = lock
           \/ op'[p].at \notin Locked /\ lock' = lock \ {p},
           Flushed', Gone', Warned', Leftover', HolderOK(p)', ReaderOK(p)',
           powerLosses' = powerLosses, disturbed \subseteq disturbed',
           \/ removal = "begun" \/ disturbed' = Processes \/ marker = "absent"
           \/ (marker # "absent" => marker' # "absent") /\ UNCHANGED dir
    PROVE  SnapInv'
  <1>1. p \in lock
    BY DEF SnapInv, OneAtATime
  <1>2. OneAtATime'
    BY <1>1, OneStays
  <1>3. ASSUME NEW q \in Processes \ {p} PROVE HolderOK(q)' /\ ReaderOK(q)'
    <2>1. op'[q].at \notin Locked
      BY <1>1 DEF SnapInv, OneAtATime
    <2>2. HolderOK(q)'
      BY <2>1, OutsideOK DEF HolderOK, Locked, Publishing, Sealed, Undoing, Discarding
    <2>3. ReaderOK(q)'
      <3>1. SUFFICES ASSUME q \notin disturbed' PROVE ReaderOK(q)'
        BY DEF ReaderOK
      <3>2. q \notin disturbed /\ removal # "begun" /\ disturbed' # Processes /\ ReaderOK(q) /\ op'[q] = op[q]
        BY <3>1 DEF SnapInv, Warned
      <3> QED
        BY <3>1, <3>2 DEF ReaderOK
    <2> QED
      BY <2>2, <2>3
  <1> QED
    BY <1>2, <1>3 DEF SnapInv

LEMMA QuietStep ==
    ASSUME SnapInv, DiskOK', NEW p \in Processes, \A q \in Processes \ {p} : op'[q] = op[q],
           \/ op'[p].at \in Locked /\ lock' = lock /\ p \in lock
           \/ op'[p].at \notin Locked /\ lock' = lock \ {p}
           \/ op'[p].at \in Locked /\ lock = {} /\ lock' = {p},
           UNCHANGED <<intentFile, dir, marker, durable, powerLosses>>, 
           removal' = removal \/ (lock = {} /\ removal' = "begun"),
           Warned', HolderOK(p)', ReaderOK(p)', \A q \in Processes \ {p} : q \notin disturbed' => q \notin disturbed
    PROVE  SnapInv'
  <1>1. OneAtATime'
    BY OneStays
  <1>2. Flushed' /\ Gone' /\ Leftover'
    BY DEF SnapInv, Flushed, Gone, Leftover
  <1>3. ASSUME NEW q \in Processes \ {p} PROVE HolderOK(q)' /\ ReaderOK(q)'
    <2>1. ReaderOK(q)'
      BY DEF SnapInv, ReaderOK
    <2>2. CASE removal' = removal
      <3>1. HolderOK(q) /\ op'[q] = op[q]
        BY DEF SnapInv
      <3>2. HolderOK(q)'
        BY <2>2, <3>1 DEF HolderOK
      <3> QED
        BY <2>1, <3>2
    <2>3. CASE lock = {}
      <3>1. op'[q].at \notin Locked
        BY <2>3 DEF SnapInv, OneAtATime
      <3>2. HolderOK(q)'
        BY <3>1 DEF HolderOK, Locked, Publishing, Sealed, Undoing, Discarding
      <3> QED
        BY <2>1, <3>2
    <2> QED
      BY <2>2, <2>3
  <1> QED
    BY <1>1, <1>2, <1>3 DEF SnapInv

-----------------------------------------------------------------------------
(* Steps without a change of the disk. *)

\* A stage that is over, or that has not begun.
LEMMA IdleOK ==
    ASSUME NEW p \in Processes, op[p].at \in Ended \cup {"waiting"}
    PROVE  HolderOK(p) /\ ReaderOK(p) /\ op[p].at \notin Locked
  BY DEF HolderOK, ReaderOK, Ended, Locked, Publishing, Sealed, Undoing, Discarding

LEMMA NotHeld == ASSUME SnapInv, NEW p \in Processes, op[p].at \notin Locked PROVE p \notin lock /\ lock \ {p} = lock
  BY DEF SnapInv, OneAtATime

LEMMA CountUp == ASSUME NEW n \in Nat, NEW k \in 0..n, k < n PROVE k + 1 \in 0..n
  OBVIOUS

LEMMA BeginKeeps ==
    ASSUME SnapshotAssumption, SnapInv, NEW p \in Processes, NEW s \in {"ok", "failed", "waiting"},
           NEW c \in Contents \cup {NoContent}, Begin(p, s, c)
    PROVE  SnapInv'
  <1> DEFINE row == [at |-> s, content |-> c, want |-> "empty"]
  <1>1. op' = [op EXCEPT ![p] = row] /\ row.at = s
    BY DEF Begin
  <1>2. row \in OpRow
    BY DEF OpRow, States, Ended, Intents
  <1> HIDE DEF row
  <1>3. /\ op' \in [Processes -> OpRow] /\ \A q \in Processes \ {p} : op'[q] = op[q]
        /\ op'[p].at \in Ended \cup {"waiting"} /\ op[p].at \in Ended
    BY <1>1, <1>2 DEF SnapInv, DiskOK, Begin, Ended
  <1>4. ops' \in 0..MaxOps
    BY CountUp DEF SnapInv, DiskOK, Begin, SnapshotAssumption
  <1>5. UNCHANGED <<intentFile, dir, marker, durable, lock, removal, fileFailures, powerLosses>>
    BY DEF Begin, disk
  <1>6. /\ disturbed' \in SUBSET Processes /\ \A q \in Processes \ {p} : q \notin disturbed' => q \notin disturbed
        /\ Warned'
    <2>1. CASE removal = "begun"
      BY <1>5, <2>1 DEF SnapInv, DiskOK, Begin, Warned
    <2>2. CASE removal # "begun"
      BY <1>5, <2>2 DEF SnapInv, DiskOK, Begin, Warned
    <2> QED
      BY <2>1, <2>2
  <1>7. DiskOK'
    BY <1>3, <1>4, <1>5, <1>6 DEF SnapInv, DiskOK
  <1>8. HolderOK(p)' /\ ReaderOK(p)' /\ op'[p].at \notin Locked
    BY <1>3 DEF HolderOK, ReaderOK, Ended, Locked, Publishing, Sealed, Undoing, Discarding
  <1>9. lock' = lock \ {p}
    BY <1>3, <1>5, IdleOK, NotHeld
  <1> QED
    BY <1>3, <1>5, <1>6, <1>7, <1>8, <1>9, QuietStep

LEMMA StartKeeps ==
    ASSUME SnapshotAssumption, SnapInv, NEW p \in Processes, Replay(p) \/ StartStore(p) \/ StartDiscard(p)
    PROVE  SnapInv'
  BY BeginKeeps DEF Replay, Loadable, StartStore, StartDiscard

LEMMA AcquireKeeps == ASSUME SnapInv, NEW p \in Processes, Acquire(p) PROVE SnapInv'
  <1>1. /\ op[p].at = "waiting" /\ lock = {} /\ lock' = {p}
        /\ UNCHANGED <<intentFile, dir, marker, durable, ops, fileFailures, powerLosses>>
    BY DEF Acquire, At, disk
  <1>t. op \in [Processes -> OpRow] /\ "discarding" \in States /\ "checking" \in States
    BY DEF SnapInv, DiskOK, States, Locked, Discarding
  <1>2. CASE op[p].content = NoContent
    <2>1. Goes(p, "discarding") /\ removal' = "begun" /\ disturbed' = Processes
      BY <1>2 DEF Acquire
    <2>2. op' \in [Processes -> OpRow] /\ op'[p].at = "discarding" /\ \A q \in Processes \ {p} : op'[q] = op[q]
      BY <1>t, <2>1, GoesRow
    <2>3. DiskOK' /\ Warned'
      BY <1>1, <2>1, <2>2 DEF SnapInv, DiskOK, Warned
    <2>4. HolderOK(p)' /\ ReaderOK(p)' /\ op'[p].at \in Locked
      BY <2>1, <2>2 DEF HolderOK, ReaderOK, Locked, Publishing, Sealed, Undoing, Discarding
    <2> QED
      BY <1>1, <2>1, <2>2, <2>3, <2>4, QuietStep
  <1>3. CASE op[p].content # NoContent
    <2>1. Goes(p, "checking") /\ UNCHANGED <<removal, disturbed>>
      BY <1>3 DEF Acquire
    <2>2. /\ op' \in [Processes -> OpRow] /\ op'[p].at = "checking" /\ op'[p].content = op[p].content
          /\ \A q \in Processes \ {p} : op'[q] = op[q]
      BY <1>t, <2>1, GoesRow
    <2>3. DiskOK' /\ Warned'
      BY <1>1, <2>1, <2>2 DEF SnapInv, DiskOK, Warned
    <2>4. op[p].content \in Contents
      BY <1>3, <1>t DEF OpRow
    <2>5. HolderOK(p)' /\ ReaderOK(p)' /\ op'[p].at \in Locked
      BY <2>1, <2>2, <2>4 DEF HolderOK, ReaderOK, Locked, Publishing, Sealed, Undoing, Discarding
    <2> QED
      BY <1>1, <2>1, <2>2, <2>3, <2>5, QuietStep
  <1> QED
    BY <1>2, <1>3

LEMMA MatchKeeps == ASSUME SnapInv, NEW p \in Processes, Match(p) PROVE SnapInv'
  <1> DEFINE s == IF dir.exists /\ marker # "absent" /\ dir.files = Whole(op[p].content) THEN "loading" ELSE "refused"
  <1>1. /\ op[p].at = "matching" /\ Goes(p, s)
        /\ UNCHANGED <<intentFile, dir, marker, durable, lock, removal, disturbed, ops, fileFailures, powerLosses>>
    BY DEF Match, At, disk
  <1>2. s \in {"loading", "refused"} /\ (s = "loading" => dir.exists /\ marker # "absent" /\ dir.files = Whole(op[p].content))
    OBVIOUS
  <1> HIDE DEF s
  <1>3. /\ op' \in [Processes -> OpRow] /\ op'[p].at = s /\ op'[p].content = op[p].content
        /\ \A q \in Processes \ {p} : op'[q] = op[q]
    <2>1. s \in States /\ op \in [Processes -> OpRow]
      BY <1>2 DEF States, Ended, SnapInv, DiskOK
    <2> QED
      BY <1>1, <2>1, GoesRow
  <1>4. DiskOK' /\ Warned'
    BY <1>1, <1>3 DEF SnapInv, DiskOK, Warned
  <1>5. HolderOK(p)' /\ op'[p].at \notin Locked /\ op[p].at \notin Locked
    BY <1>1, <1>2, <1>3 DEF HolderOK, Locked, Publishing, Sealed, Undoing, Discarding
  <1>6. ReaderOK(p)'
    <2>1. s = "loading" => dir = Holding(Whole(op[p].content))
      <3>1. dir \in DirRow
        BY DEF SnapInv, DiskOK
      <3>2. dir.exists => dir = Holding(dir.files)
        BY <3>1, DirParts
      <3> QED
        BY <1>2, <3>2
    <2> QED
      BY <1>1, <1>2, <1>3, <2>1 DEF ReaderOK
  <1>7. lock' = lock \ {p}
    BY <1>1, <1>5, NotHeld
  <1> QED
    BY <1>1, <1>3, <1>4, <1>5, <1>6, <1>7, QuietStep

LEMMA LoadKeeps == ASSUME SnapInv, NEW p \in Processes, LoadMatched(p) PROVE SnapInv'
  <1> DEFINE s == IF dir.exists /\ marker = "torn" THEN "failed" ELSE "ok"
             c == IF Loadable THEN marker ELSE op[p].content
             row == [op[p] EXCEPT !.at = s, !.content = c]
  <1>1. /\ op[p].at = "loading" /\ op' = [op EXCEPT ![p] = row]
        /\ UNCHANGED <<intentFile, dir, marker, durable, lock, removal, disturbed, ops, fileFailures, powerLosses>>
    BY DEF LoadMatched, At, disk, SnapInv, DiskOK
  <1>2. row \in OpRow /\ row.at \in {"ok", "failed"}
    <2>1. op[p] \in OpRow /\ s \in {"ok", "failed"} /\ s \in States
      BY DEF SnapInv, DiskOK, States, Ended
    <2>2. c \in Contents \cup {NoContent}
      BY <2>1 DEF OpRow, Loadable
    <2> HIDE DEF s, c
    <2> QED
      BY <2>1, <2>2 DEF OpRow
  <1> HIDE DEF row
  <1>3. op' \in [Processes -> OpRow] /\ op'[p].at \in {"ok", "failed"} /\ \A q \in Processes \ {p} : op'[q] = op[q]
    BY <1>1, <1>2 DEF SnapInv, DiskOK
  <1>4. DiskOK' /\ Warned'
    BY <1>1, <1>3 DEF SnapInv, DiskOK, Warned
  <1>5. HolderOK(p)' /\ ReaderOK(p)' /\ op'[p].at \notin Locked /\ op[p].at \notin Locked
    BY <1>1, <1>3 DEF HolderOK, ReaderOK, Locked, Publishing, Sealed, Undoing, Discarding
  <1>6. lock' = lock \ {p}
    BY <1>1, <1>5, NotHeld
  <1> QED
    BY <1>1, <1>3, <1>4, <1>5, <1>6, QuietStep

LEMMA KillKeeps == ASSUME SnapshotAssumption, SnapInv, NEW p \in Processes, Kill(p) PROVE SnapInv'
  <1>1. /\ Goes(p, "idle") /\ lock' = lock \ {p}
        /\ UNCHANGED <<intentFile, dir, marker, durable, removal, disturbed, ops, powerLosses>>
    BY DEF Kill, Leaves, disk
  <1>2. op' \in [Processes -> OpRow] /\ op'[p].at = "idle" /\ \A q \in Processes \ {p} : op'[q] = op[q]
    BY <1>1, GoesRow DEF SnapInv, DiskOK, States, Ended
  <1>3. fileFailures' \in 0..MaxFileFailures
    BY CountUp DEF SnapInv, DiskOK, Kill, SnapshotAssumption
  <1>4. DiskOK' /\ Warned'
    BY <1>1, <1>2, <1>3 DEF SnapInv, DiskOK, Warned
  <1>5. HolderOK(p)' /\ ReaderOK(p)' /\ op'[p].at \notin Locked
    BY <1>2 DEF HolderOK, ReaderOK, Locked, Publishing, Sealed, Undoing, Discarding
  <1> QED
    BY <1>1, <1>2, <1>4, <1>5, QuietStep

LEMMA FailKeeps == ASSUME SnapshotAssumption, SnapInv, NEW p \in Processes, Fail(p) PROVE SnapInv'
  <1>1. /\ fileFailures' \in 0..MaxFileFailures
        /\ UNCHANGED <<dir, marker, durable, ops, powerLosses>>
    BY CountUp DEF SnapInv, DiskOK, Fail, SnapshotAssumption
  <1>t. /\ op \in [Processes -> OpRow] /\ "failed" \in States /\ "matching" \in States /\ "refused" \in States
        /\ "undoing" \in States /\ "undoing" \in Locked
        /\ "failed" \notin Locked /\ "matching" \notin Locked /\ "refused" \notin Locked
    BY DEF SnapInv, DiskOK, States, Ended, Locked, Publishing, Undoing, Discarding
  <1>2. ASSUME op[p].at \in {"waiting", "checking", "setting", "clearing", "making", "loading"} \cup Discarding,
               Leaves(p, "failed"),
               intentFile' \in {intentFile} \cup (IF At(p, "truncating") THEN {"empty"} ELSE {}),
               UNCHANGED <<removal, disturbed>>
        PROVE  SnapInv'
    <2>1. /\ op' \in [Processes -> OpRow] /\ op'[p].at = "failed" /\ \A q \in Processes \ {p} : op'[q] = op[q]
          /\ lock' = lock \ {p}
      BY <1>2, <1>t, GoesRow DEF Leaves
    <2>2. DiskOK' /\ Warned'
      BY <1>1, <1>2, <2>1 DEF SnapInv, DiskOK, Warned, Intents
    <2>3. HolderOK(p)' /\ ReaderOK(p)' /\ op'[p].at \notin Locked
      BY <2>1 DEF HolderOK, ReaderOK, Locked, Publishing, Sealed, Undoing, Discarding
    <2>4. CASE op[p].at = "truncating"
      <3>1. removal = "begun" /\ op[p].at \in Locked
        BY <2>4 DEF SnapInv, HolderOK, Discarding, Locked
      <3>2. Flushed' /\ Gone' /\ Leftover'
        BY <1>2, <3>1 DEF Flushed, Gone, Leftover
      <3> QED
        BY <1>1, <1>2, <2>1, <2>2, <2>3, <3>1, <3>2, HolderStep
    <2>5. CASE op[p].at # "truncating"
      <3>1. UNCHANGED intentFile
        BY <1>2, <2>5 DEF At
      <3> QED
        BY <1>1, <1>2, <2>1, <2>2, <2>3, <3>1, QuietStep
    <2> QED
      BY <2>4, <2>5
  <1>3. ASSUME Leaves(p, "matching"), disturbed' = disturbed \cup {p}, UNCHANGED <<intentFile, removal>>
        PROVE  SnapInv'
    <2>1. /\ op' \in [Processes -> OpRow] /\ op'[p].at = "matching" /\ \A q \in Processes \ {p} : op'[q] = op[q]
          /\ lock' = lock \ {p}
      BY <1>3, <1>t, GoesRow DEF Leaves
    <2>2. DiskOK' /\ Warned'
      BY <1>1, <1>3, <2>1 DEF SnapInv, DiskOK, Warned
    <2>3. HolderOK(p)' /\ ReaderOK(p)' /\ op'[p].at \notin Locked
      BY <1>3, <2>1 DEF HolderOK, ReaderOK, Locked, Publishing, Sealed, Undoing, Discarding
    <2> QED
      BY <1>1, <1>3, <2>1, <2>2, <2>3, QuietStep
  <1>4. ASSUME At(p, "matching"), Goes(p, "refused"), disturbed' = disturbed \cup {p}, UNCHANGED <<intentFile, lock, removal>>
        PROVE  SnapInv'
    <2>1. op' \in [Processes -> OpRow] /\ op'[p].at = "refused" /\ \A q \in Processes \ {p} : op'[q] = op[q]
      BY <1>4, <1>t, GoesRow
    <2>2. DiskOK' /\ Warned'
      BY <1>1, <1>4, <2>1 DEF SnapInv, DiskOK, Warned
    <2>3. HolderOK(p)' /\ ReaderOK(p)' /\ op'[p].at \notin Locked
      BY <1>4, <2>1 DEF HolderOK, ReaderOK, Locked, Publishing, Sealed, Undoing, Discarding
    <2>4. lock' = lock \ {p}
      BY <1>4, <1>t, NotHeld DEF At
    <2> QED
      BY <1>1, <1>4, <2>1, <2>2, <2>3, <2>4, QuietStep
  <1>5. ASSUME op[p].at \in Publishing \ {"making"}, Goes(p, "undoing"), removal' = "begun", disturbed' = Processes,
               UNCHANGED <<intentFile, lock>>
        PROVE  SnapInv'
    <2>1. op' \in [Processes -> OpRow] /\ op'[p].at = "undoing" /\ \A q \in Processes \ {p} : op'[q] = op[q]
      BY <1>5, <1>t, GoesRow
    <2>2. DiskOK' /\ Warned' /\ Flushed' /\ Gone' /\ Leftover'
      BY <1>1, <1>5, <2>1 DEF SnapInv, DiskOK, Warned, Flushed, Gone, Leftover
    <2>3. HolderOK(p)' /\ ReaderOK(p)' /\ op[p].at \in Locked
      BY <1>5, <2>1 DEF HolderOK, ReaderOK, Locked, Publishing, Sealed, Undoing, Discarding
    <2>4. disturbed \subseteq disturbed'
      BY <1>5 DEF SnapInv, DiskOK
    <2> QED
      BY <1>1, <1>t, <1>5, <2>1, <2>2, <2>3, <2>4, HolderStep
  <1> QED
    BY <1>2, <1>3, <1>4, <1>5 DEF Fail

-----------------------------------------------------------------------------
(* Steps of the operation that holds the lock. *)

LEMMA CheckKeeps == ASSUME SnapshotAssumption, SnapInv, NEW p \in Processes, Check(p) PROVE SnapInv'
  <1>1. /\ op[p].at = "checking" /\ op[p].at \in Locked
        /\ UNCHANGED <<dir, marker, durable, removal, disturbed, ops, fileFailures, powerLosses>>
    BY DEF Check, At, Locked
  <1>2. /\ op \in [Processes -> OpRow] /\ "matching" \in States /\ "clearing" \in States /\ "making" \in States
        /\ "setting" \in States /\ "setting" \in Locked /\ "clearing" \in Locked /\ "making" \in Locked
        /\ "matching" \notin Locked /\ op[p].content \in Contents
    BY <1>1 DEF SnapInv, DiskOK, HolderOK, States, Ended, Locked, Publishing, Undoing, Discarding
  <1>3. ASSUME NEW want \in Intents, Truncates(p, want),
               IF want = "publishing" THEN marker = "absent" /\ ~dir.exists
               ELSE removal # "begun" /\ powerLosses = 0 => marker # "absent"
        PROVE  SnapInv'
    <2> DEFINE row == [op[p] EXCEPT !.at = "setting", !.want = want]
    <2>1. op' = [op EXCEPT ![p] = row] /\ intentFile' = "empty" /\ lock' = lock
      BY <1>2, <1>3 DEF Truncates
    <2>2. row \in OpRow /\ row.at = "setting" /\ row.want = want /\ row.content = op[p].content
      <3>1. op[p] \in OpRow
        BY <1>2
      <3> QED
        BY <1>2, <3>1 DEF OpRow
    <2> HIDE DEF row
    <2>3. /\ op' \in [Processes -> OpRow] /\ op'[p] = row /\ \A q \in Processes \ {p} : op'[q] = op[q]
      BY <1>2, <2>1, <2>2
    <2>4. DiskOK' /\ Warned' /\ Flushed' /\ Gone'
      BY <1>1, <2>1, <2>3 DEF SnapInv, DiskOK, Warned, Flushed, Gone, Intents
    <2>5. Leftover'
      BY <1>1, <1>3, <2>1 DEF SnapInv, Leftover
    <2>6. HolderOK(p)' /\ ReaderOK(p)'
      BY <1>1, <1>2, <1>3, <2>2, <2>3 DEF HolderOK, ReaderOK, Locked, Publishing, Sealed, Undoing, Discarding
    <2> QED
      BY <1>1, <1>2, <2>1, <2>2, <2>3, <2>4, <2>5, <2>6, HolderStep
  <1>4. CASE marker # "absent" /\ Truncates(p, "complete")
    BY <1>3, <1>4 DEF Intents
  <1>5. CASE marker = "absent" /\ intentFile = "empty" /\ Truncates(p, IF dir.exists THEN "blocked" ELSE "publishing")
    <2>1. dir.exists => ~(removal # "begun" /\ powerLosses = 0)
      BY <1>5 DEF SnapInv, Leftover
    <2>2. CASE dir.exists
      BY <1>3, <1>5, <2>1, <2>2 DEF Intents
    <2>3. CASE ~dir.exists
      BY <1>3, <1>5, <2>3 DEF Intents
    <2> QED
      BY <2>2, <2>3
  <1>6. CASE marker = "absent" /\ intentFile \in {"blocked", "complete"} /\ Leaves(p, "matching") /\ UNCHANGED intentFile
    <2>1. /\ op' \in [Processes -> OpRow] /\ op'[p].at = "matching" /\ \A q \in Processes \ {p} : op'[q] = op[q]
          /\ lock' = lock \ {p}
      BY <1>2, <1>6, GoesRow DEF Leaves
    <2>2. DiskOK' /\ Warned'
      BY <1>1, <1>6, <2>1 DEF SnapInv, DiskOK, Warned
    <2>3. HolderOK(p)'
      BY <2>1 DEF HolderOK, Locked, Publishing, Sealed, Undoing, Discarding
    <2>4. ReaderOK(p)'
      BY <1>1, <1>6, <2>1 DEF SnapInv, Leftover, Warned, ReaderOK
    <2> QED
      BY <1>1, <1>2, <1>6, <2>1, <2>2, <2>3, <2>4, QuietStep
  <1>7. CASE /\ marker = "absent" /\ intentFile = "publishing"
             /\ Goes(p, IF dir.exists THEN "clearing" ELSE "making")
             /\ UNCHANGED <<intentFile, lock>>
    <2> DEFINE s == IF dir.exists THEN "clearing" ELSE "making"
    <2>1. s \in {"clearing", "making"} /\ (removal = "done" => s = "making")
      BY DirFacts DEF SnapInv, Gone
    <2>2. Goes(p, s)
      BY <1>7
    <2> HIDE DEF s
    <2>3. /\ op' \in [Processes -> OpRow] /\ op'[p].at = s /\ op'[p].content = op[p].content
          /\ \A q \in Processes \ {p} : op'[q] = op[q]
      BY <1>2, <2>1, <2>2, GoesRow
    <2>4. DiskOK' /\ Warned'
      BY <1>1, <1>7, <2>3 DEF SnapInv, DiskOK, Warned
    <2>5. HolderOK(p)' /\ ReaderOK(p)' /\ op'[p].at \in Locked
      BY <1>1, <1>2, <1>7, <2>1, <2>3 DEF HolderOK, ReaderOK, Locked, Publishing, Sealed, Undoing, Discarding
    <2>6. p \in lock
      BY <1>1 DEF SnapInv, OneAtATime
    <2> QED
      BY <1>1, <1>7, <2>3, <2>4, <2>5, <2>6, QuietStep
  <1> QED
    BY <1>4, <1>5, <1>6, <1>7 DEF Check

LEMMA SetIntentKeeps == ASSUME SnapInv, NEW p \in Processes, SetIntent(p) PROVE SnapInv'
  <1>1. /\ op[p].at = "setting" /\ op[p].at \in Locked /\ intentFile' = op[p].want
        /\ durable' = [durable EXCEPT !.intent = op[p].want]
        /\ UNCHANGED <<dir, marker, removal, disturbed, ops, fileFailures, powerLosses>>
    BY DEF SetIntent, At, Locked
  <1>2. /\ op \in [Processes -> OpRow] /\ "matching" \in States /\ "making" \in States /\ "making" \in Locked
        /\ "matching" \notin Locked /\ op[p].content \in Contents /\ op[p] \in OpRow
        /\ IF op[p].want = "publishing" THEN marker = "absent" /\ ~dir.exists
           ELSE removal # "begun" /\ powerLosses = 0 => marker # "absent"
    BY <1>1 DEF SnapInv, DiskOK, HolderOK, States, Ended, Locked, Publishing, Undoing, Discarding
  <1>3. op[p].want \in Intents
    BY <1>2 DEF OpRow
  <1>4. durable' \in DurableRow /\ durable'.dir = durable.dir /\ durable'.marker = durable.marker
    BY <1>1, <1>3, DurableWith DEF SnapInv, DiskOK
  <1>5. Flushed' /\ Gone' /\ Warned'
    BY <1>1, <1>4 DEF SnapInv, Flushed, Gone, Warned
  <1>6. Leftover'
    BY <1>1, <1>2 DEF SnapInv, Leftover
  <1>7. CASE op[p].want = "publishing"
    <2>1. Goes(p, "making") /\ lock' = lock
      BY <1>7 DEF SetIntent
    <2>2. /\ op' \in [Processes -> OpRow] /\ op'[p].at = "making" /\ op'[p].content = op[p].content
          /\ \A q \in Processes \ {p} : op'[q] = op[q]
      BY <1>2, <2>1, GoesRow
    <2>3. DiskOK'
      BY <1>1, <1>3, <1>4, <2>2 DEF SnapInv, DiskOK
    <2>4. HolderOK(p)' /\ ReaderOK(p)'
      BY <1>1, <1>2, <1>7, <2>2 DEF HolderOK, ReaderOK, Locked, Publishing, Sealed, Undoing, Discarding
    <2> QED
      BY <1>1, <1>2, <1>5, <1>6, <2>1, <2>2, <2>3, <2>4, HolderStep
  <1>8. CASE op[p].want # "publishing"
    <2>1. Goes(p, "matching") /\ lock' = lock \ {p}
      BY <1>8 DEF SetIntent, Leaves
    <2>2. /\ op' \in [Processes -> OpRow] /\ op'[p].at = "matching" /\ \A q \in Processes \ {p} : op'[q] = op[q]
      BY <1>2, <2>1, GoesRow
    <2>3. DiskOK'
      BY <1>1, <1>3, <1>4, <2>2 DEF SnapInv, DiskOK
    <2>4. HolderOK(p)'
      BY <2>2 DEF HolderOK, Locked, Publishing, Sealed, Undoing, Discarding
    <2>5. ReaderOK(p)'
      BY <1>1, <1>2, <1>8, <2>2 DEF SnapInv, Leftover, Warned, ReaderOK
    <2> QED
      BY <1>1, <1>2, <1>5, <1>6, <2>1, <2>2, <2>3, <2>4, <2>5, HolderStep
  <1> QED
    BY <1>7, <1>8

\* Removing a file or the directory yields a directory.
LEMMA RemovalRow ==
    ASSUME dir \in DirRow, RemovesFile \/ RemovesDirectory
    PROVE  dir' \in DirRow /\ (RemovesDirectory => dir' = Missing)
  <1>1. CASE RemovesFile
    <2>1. PICK x \in dir.files : dir' = Holding(dir.files \ {x})
      BY <1>1 DEF RemovesFile
    <2>2. dir.files \ {x} \in SUBSET (Files \X Contents)
      BY DirParts
    <2> QED
      BY <2>1, <2>2, DirFacts DEF RemovesDirectory
  <1>2. CASE RemovesDirectory
    BY <1>2, DirFacts DEF RemovesDirectory
  <1> QED
    BY <1>1, <1>2

LEMMA ClearKeeps == ASSUME SnapshotAssumption, SnapInv, NEW p \in Processes, Clear(p) PROVE SnapInv'
  <1>1. /\ op[p].at = "clearing" /\ op[p].at \in Locked
        /\ UNCHANGED <<intentFile, marker, lock, removal, disturbed, ops, fileFailures, powerLosses>>
    BY DEF Clear, At, Locked
  <1>2. /\ op \in [Processes -> OpRow] /\ "making" \in States /\ "making" \in Locked /\ op[p].content \in Contents
        /\ marker = "absent" /\ intentFile = "publishing" /\ removal # "done" /\ dir \in DirRow /\ durable \in DurableRow
    BY <1>1 DEF SnapInv, DiskOK, HolderOK, States, Locked, Publishing
  <1>3. dir' \in DirRow
    BY <1>2, RemovalRow DEF Clear
  <1>4. Gone' /\ Warned' /\ Leftover'
    BY <1>1, <1>2 DEF SnapInv, Gone, Warned, Leftover
  <1>5. CASE RemovesFile /\ UNCHANGED <<op, durable>>
    <2>1. DiskOK'
      BY <1>1, <1>2, <1>3, <1>5 DEF SnapInv, DiskOK
    <2>2. Flushed'
      BY <1>1, <1>2, <1>5, NoSuchContent DEF SnapInv, Flushed
    <2>3. HolderOK(p)' /\ ReaderOK(p)' 
      BY <1>1, <1>2, <1>5 DEF HolderOK, ReaderOK, Locked, Publishing, Sealed, Undoing, Discarding
    <2> QED
      BY <1>1, <1>2, <1>4, <1>5, <2>1, <2>2, <2>3, HolderStep
  <1>6. CASE RemovesDirectory /\ Goes(p, "making") /\ durable' = FsyncDirectory(Missing, marker)
    <2>1. durable' \in DurableRow /\ durable'.marker = "absent"
      BY <1>2, <1>6, FsyncFacts, DirFacts DEF Markers
    <2>2. /\ op' \in [Processes -> OpRow] /\ op'[p].at = "making" /\ op'[p].content = op[p].content
          /\ \A q \in Processes \ {p} : op'[q] = op[q]
      BY <1>2, <1>6, GoesRow
    <2>3. DiskOK'
      BY <1>1, <1>3, <2>1, <2>2 DEF SnapInv, DiskOK
    <2>4. Flushed'
      BY <1>1, <1>2, <2>1, NoSuchContent DEF Flushed
    <2>5. HolderOK(p)' /\ ReaderOK(p)'
      BY <1>1, <1>2, <2>2 DEF HolderOK, ReaderOK, Locked, Publishing, Sealed, Undoing, Discarding
    <2> QED
      BY <1>1, <1>2, <1>4, <2>2, <2>3, <2>4, <2>5, HolderStep
  <1> QED
    BY <1>5, <1>6 DEF Clear

LEMMA MakeKeeps == ASSUME SnapshotAssumption, SnapInv, NEW p \in Processes, MakeDirectory(p) PROVE SnapInv'
  <1>1. /\ op[p].at = "making" /\ op[p].at \in Locked /\ dir' = Holding({}) /\ removal' = "none" /\ Goes(p, "moving")
        /\ durable' = FsyncDirectory(Holding({}), marker)
        /\ UNCHANGED <<intentFile, marker, lock, disturbed, ops, fileFailures, powerLosses>>
    BY DEF MakeDirectory, At, Locked, Publishing
  <1>2. /\ op \in [Processes -> OpRow] /\ "moving" \in States /\ "moving" \in Locked /\ op[p].content \in Contents
        /\ marker = "absent" /\ intentFile = "publishing" /\ durable \in DurableRow
    BY <1>1 DEF SnapInv, DiskOK, HolderOK, States, Locked, Publishing
  <1>3. dir' \in DirRow /\ dir'.exists /\ dir'.files = {} /\ durable' \in DurableRow /\ durable'.marker = "absent"
    <2>1. Holding({}) \in DirRow /\ Holding({}).exists /\ Holding({}).files = {}
      BY DirFacts
    <2> QED
      BY <1>1, <1>2, <2>1, FsyncFacts DEF Markers
  <1>4. /\ op' \in [Processes -> OpRow] /\ op'[p].at = "moving" /\ op'[p].content = op[p].content
        /\ \A q \in Processes \ {p} : op'[q] = op[q]
    BY <1>1, <1>2, GoesRow
  <1>5. DiskOK' 
    BY <1>1, <1>3, <1>4 DEF SnapInv, DiskOK
  <1>6. Flushed' /\ Gone' /\ Warned' /\ Leftover'
    BY <1>1, <1>2, <1>3, NoSuchContent DEF Flushed, Gone, Warned, Leftover
  <1>7. HolderOK(p)' /\ ReaderOK(p)'
    BY <1>1, <1>2, <1>3, <1>4 DEF HolderOK, ReaderOK, Locked, Publishing, Sealed, Undoing, Discarding
  <1> QED
    BY <1>1, <1>2, <1>4, <1>5, <1>6, <1>7, HolderStep

LEMMA MoveKeeps == ASSUME SnapshotAssumption, SnapInv, NEW p \in Processes, MoveFile(p) PROVE SnapInv'
  <1>1. /\ op[p].at = "moving" /\ op[p].at \in Locked
        /\ UNCHANGED <<intentFile, marker, durable, op, lock, removal, disturbed, ops, fileFailures, powerLosses>>
    BY DEF MoveFile, At, Locked, Publishing
  <1>2. /\ op[p].content \in Contents /\ marker = "absent" /\ intentFile = "publishing" /\ durable.marker = "absent"
        /\ removal = "none" /\ dir.files \subseteq Whole(op[p].content) /\ dir \in DirRow
    BY <1>1 DEF SnapInv, DiskOK, HolderOK, Publishing
  <1>3. PICK x \in Whole(op[p].content) : dir' = Holding(dir.files \cup {x})
    BY DEF MoveFile
  <1>4. dir.files \cup {x} \subseteq Whole(op[p].content) /\ Whole(op[p].content) \in SUBSET (Files \X Contents)
    BY <1>2, WholeType
  <1>5. dir' \in DirRow /\ dir'.exists /\ dir'.files \subseteq Whole(op[p].content)
    BY <1>3, <1>4, DirFacts
  <1>6. DiskOK'
    BY <1>1, <1>5 DEF SnapInv, DiskOK
  <1>7. Flushed' /\ Gone' /\ Warned' /\ Leftover'
    BY <1>1, <1>2, NoSuchContent DEF Flushed, Gone, Warned, Leftover
  <1>8. HolderOK(p)' /\ ReaderOK(p)'
    BY <1>1, <1>2, <1>5 DEF HolderOK, ReaderOK, Locked, Publishing, Sealed, Undoing, Discarding
  <1> QED
    BY <1>1, <1>2, <1>6, <1>7, <1>8, HolderStep

LEMMA SealKeeps == ASSUME SnapshotAssumption, SnapInv, NEW p \in Processes, Seal(p) PROVE SnapInv'
  <1>1. /\ op[p].at = "moving" /\ op[p].at \in Locked /\ Whole(op[p].content) \subseteq dir.files
        /\ durable' = [durable EXCEPT !.dir = dir] /\ Goes(p, "sealed")
        /\ UNCHANGED <<intentFile, dir, marker, lock, removal, disturbed, ops, fileFailures, powerLosses>>
    BY DEF Seal, At, disk, Locked, Publishing
  <1>2. /\ op \in [Processes -> OpRow] /\ "sealed" \in States /\ "sealed" \in Locked /\ op[p].content \in Contents
        /\ marker = "absent" /\ intentFile = "publishing" /\ durable.marker = "absent" /\ durable \in DurableRow
        /\ removal = "none" /\ dir.exists /\ dir.files \subseteq Whole(op[p].content) /\ dir \in DirRow
    BY <1>1 DEF SnapInv, DiskOK, HolderOK, States, Locked, Publishing
  <1>3. dir = Holding(Whole(op[p].content))
    <2>1. dir = Holding(dir.files)
      BY <1>2, DirParts
    <2>2. dir.files = Whole(op[p].content)
      BY <1>1, <1>2
    <2> QED
      BY <2>1, <2>2
  <1>4. durable' \in DurableRow /\ durable'.dir = dir /\ durable'.marker = "absent"
    BY <1>1, <1>2, DurableWith
  <1>5. /\ op' \in [Processes -> OpRow] /\ op'[p].at = "sealed" /\ op'[p].content = op[p].content
        /\ \A q \in Processes \ {p} : op'[q] = op[q]
    BY <1>1, <1>2, GoesRow
  <1>6. DiskOK'
    BY <1>1, <1>4, <1>5 DEF SnapInv, DiskOK
  <1>7. Flushed' /\ Gone' /\ Warned' /\ Leftover'
    BY <1>1, <1>2, <1>4, NoSuchContent DEF Flushed, Gone, Warned, Leftover
  <1>8. HolderOK(p)' /\ ReaderOK(p)'
    BY <1>1, <1>2, <1>3, <1>4, <1>5 DEF HolderOK, ReaderOK, Locked, Publishing, Sealed, Undoing, Discarding
  <1> QED
    BY <1>1, <1>2, <1>5, <1>6, <1>7, <1>8, HolderStep

LEMMA CreateKeeps == ASSUME SnapshotAssumption, SnapInv, NEW p \in Processes, CreateMarker(p) PROVE SnapInv'
  <1>1. /\ op[p].at = "sealed" /\ op[p].at \in Locked /\ marker' = "empty" /\ Goes(p, "marking")
        /\ UNCHANGED <<intentFile, dir, durable, lock, removal, disturbed, ops, fileFailures, powerLosses>>
    BY DEF CreateMarker, At, Locked, Publishing
  <1>2. /\ op \in [Processes -> OpRow] /\ "marking" \in States /\ "marking" \in Locked /\ op[p].content \in Contents
        /\ marker = "absent" /\ durable.marker = "absent" /\ removal = "none"
        /\ dir = Holding(Whole(op[p].content)) /\ durable.dir = dir
    BY <1>1 DEF SnapInv, DiskOK, HolderOK, States, Locked, Publishing, Sealed
  <1>3. /\ op' \in [Processes -> OpRow] /\ op'[p].at = "marking" /\ op'[p].content = op[p].content
        /\ \A q \in Processes \ {p} : op'[q] = op[q]
    BY <1>1, <1>2, GoesRow
  <1>4. DiskOK'
    BY <1>1, <1>3 DEF SnapInv, DiskOK, Markers
  <1>5. Flushed' /\ Gone' /\ Warned' /\ Leftover'
    <2>1. dir.exists
      BY <1>2, DirFacts
    <2> QED
      BY <1>1, <1>2, <2>1, NoSuchContent DEF Flushed, Gone, Warned, Leftover
  <1>6. HolderOK(p)' /\ ReaderOK(p)'
    BY <1>1, <1>2, <1>3 DEF HolderOK, ReaderOK, Locked, Publishing, Sealed, Undoing, Discarding
  <1> QED
    BY <1>1, <1>2, <1>3, <1>4, <1>5, <1>6, HolderStep

LEMMA WriteKeeps == ASSUME SnapshotAssumption, SnapInv, NEW p \in Processes, WriteMarker(p) PROVE SnapInv'
  <1>1. /\ op[p].at = "marking" /\ op[p].at \in Locked /\ marker' = op[p].content /\ Goes(p, "writing")
        /\ UNCHANGED <<intentFile, dir, durable, lock, removal, disturbed, ops, fileFailures, powerLosses>>
    BY DEF WriteMarker, At, Locked, Publishing
  <1>2. /\ op \in [Processes -> OpRow] /\ "writing" \in States /\ "writing" \in Locked /\ op[p].content \in Contents
        /\ durable.marker = "absent" /\ removal = "none"
        /\ dir = Holding(Whole(op[p].content)) /\ durable.dir = dir
    BY <1>1 DEF SnapInv, DiskOK, HolderOK, States, Locked, Publishing, Sealed
  <1>3. /\ op' \in [Processes -> OpRow] /\ op'[p].at = "writing" /\ op'[p].content = op[p].content
        /\ \A q \in Processes \ {p} : op'[q] = op[q]
    BY <1>1, <1>2, GoesRow
  <1>4. DiskOK'
    BY <1>1, <1>2, <1>3 DEF SnapInv, DiskOK, Markers
  <1>5. marker' # "absent" /\ dir.exists
    BY <1>1, <1>2, NoSuchContent, DirFacts
  <1>6. Flushed' /\ Gone' /\ Warned' /\ Leftover'
    BY <1>1, <1>2, <1>5, NoSuchContent DEF Flushed, Gone, Warned, Leftover
  <1>7. HolderOK(p)' /\ ReaderOK(p)'
    BY <1>1, <1>2, <1>3 DEF HolderOK, ReaderOK, Locked, Publishing, Sealed, Undoing, Discarding
  <1> QED
    BY <1>1, <1>2, <1>3, <1>4, <1>5, <1>6, <1>7, HolderStep

LEMMA SyncKeeps == ASSUME SnapshotAssumption, SnapInv, NEW p \in Processes, SyncMarker(p) PROVE SnapInv'
  <1>1. /\ op[p].at = "writing" /\ op[p].at \in Locked /\ intentFile' = "empty" /\ Goes(p, "closing")
        /\ durable' = [durable EXCEPT !.marker = marker]
        /\ UNCHANGED <<dir, marker, lock, removal, disturbed, ops, fileFailures, powerLosses>>
    BY DEF SyncMarker, At, Locked, Publishing
  <1>2. /\ op \in [Processes -> OpRow] /\ "closing" \in States /\ "closing" \in Locked /\ op[p].content \in Contents
        /\ marker = op[p].content /\ removal = "none" /\ durable \in DurableRow /\ marker \in Markers
        /\ dir = Holding(Whole(op[p].content)) /\ durable.dir = dir
    BY <1>1 DEF SnapInv, DiskOK, HolderOK, States, Locked, Publishing, Sealed
  <1>3. durable' \in DurableRow /\ durable'.dir = durable.dir /\ durable'.marker = marker
    BY <1>1, <1>2, DurableWith
  <1>4. /\ op' \in [Processes -> OpRow] /\ op'[p].at = "closing" /\ op'[p].content = op[p].content
        /\ \A q \in Processes \ {p} : op'[q] = op[q]
    BY <1>1, <1>2, GoesRow
  <1>5. DiskOK'
    BY <1>1, <1>3, <1>4 DEF SnapInv, DiskOK, Intents
  <1>6. marker # "absent" /\ dir.exists
    BY <1>2, NoSuchContent, DirFacts
  <1>7. Flushed' /\ Gone' /\ Warned' /\ Leftover'
    BY <1>1, <1>2, <1>3, <1>6 DEF Flushed, Gone, Warned, Leftover
  <1>8. HolderOK(p)' /\ ReaderOK(p)'
    BY <1>1, <1>2, <1>3, <1>4 DEF HolderOK, ReaderOK, Locked, Publishing, Sealed, Undoing, Discarding
  <1> QED
    BY <1>1, <1>2, <1>4, <1>5, <1>7, <1>8, HolderStep

LEMMA CompleteKeeps == ASSUME SnapshotAssumption, SnapInv, NEW p \in Processes, Complete(p) PROVE SnapInv'
  <1>1. /\ op[p].at = "closing" /\ op[p].at \in Locked /\ intentFile' = "complete" /\ Goes(p, "ok") /\ lock' = lock \ {p}
        /\ durable' = [durable EXCEPT !.intent = "complete"]
        /\ UNCHANGED <<dir, marker, removal, disturbed, ops, fileFailures, powerLosses>>
    BY DEF Complete, Leaves, At, Locked, Publishing
  <1>2. /\ op \in [Processes -> OpRow] /\ "ok" \in States /\ "ok" \notin Locked /\ op[p].content \in Contents
        /\ marker = op[p].content /\ removal = "none" /\ durable \in DurableRow /\ "complete" \in Intents
        /\ dir = Holding(Whole(op[p].content))
    BY <1>1 DEF SnapInv, DiskOK, HolderOK, States, Ended, Locked, Publishing, Sealed, Undoing, Discarding, Intents
  <1>3. durable' \in DurableRow /\ durable'.dir = durable.dir /\ durable'.marker = durable.marker
    BY <1>1, <1>2, DurableWith
  <1>4. op' \in [Processes -> OpRow] /\ op'[p].at = "ok" /\ \A q \in Processes \ {p} : op'[q] = op[q]
    BY <1>1, <1>2, GoesRow
  <1>5. DiskOK'
    BY <1>1, <1>2, <1>3, <1>4 DEF SnapInv, DiskOK
  <1>6. marker # "absent" /\ dir.exists
    BY <1>2, NoSuchContent, DirFacts
  <1>7. Flushed' /\ Gone' /\ Warned' /\ Leftover'
    BY <1>1, <1>2, <1>3, <1>6 DEF SnapInv, Flushed, Gone, Warned, Leftover
  <1>8. HolderOK(p)' /\ ReaderOK(p)'
    BY <1>4 DEF HolderOK, ReaderOK, Locked, Publishing, Sealed, Undoing, Discarding
  <1> QED
    BY <1>1, <1>2, <1>4, <1>5, <1>7, <1>8, HolderStep

-----------------------------------------------------------------------------
(* Removals: the cleanup of a failed publication, and a discard. *)

\* While a removal is under way only its own stage matters.
LEMMA RemovingStep ==
    ASSUME SnapInv, DiskOK', NEW p \in Processes, op[p].at \in Locked, \A q \in Processes \ {p} : op'[q] = op[q],
           \/ op'[p].at \in Undoing \cup Discarding /\ lock' = lock
           \/ op'[p].at \in Ended /\ lock' = lock \ {p},
           op'[p].at = "truncating" => dir' = Missing /\ marker' = "absent",
           removal = "begun", UNCHANGED <<removal, disturbed, powerLosses>>
    PROVE  SnapInv'
  <1>1. Flushed' /\ Gone' /\ Leftover' /\ Warned'
    BY DEF SnapInv, Flushed, Gone, Leftover, Warned
  <1>2. HolderOK(p)' /\ ReaderOK(p)'
    BY DEF HolderOK, ReaderOK, Ended, Locked, Publishing, Sealed, Undoing, Discarding
  <1>3. \/ op'[p].at \in Locked /\ lock' = lock
        \/ op'[p].at \notin Locked /\ lock' = lock \ {p}
    BY DEF Ended, Locked, Publishing, Undoing, Discarding
  <1> QED
    BY <1>1, <1>2, <1>3, HolderStep

LEMMA UndoMarkerKeeps == ASSUME SnapshotAssumption, SnapInv, NEW p \in Processes, UndoMarker(p) PROVE SnapInv'
  <1>1. /\ op[p].at = "undoing" /\ op[p].at \in Locked /\ Goes(p, "emptying") /\ "emptying" \in Undoing
        /\ UNCHANGED <<intentFile, dir, durable, lock, removal, disturbed, ops, powerLosses>>
    BY DEF UndoMarker, At, Locked, Undoing
  <1>2. op \in [Processes -> OpRow] /\ "emptying" \in States /\ removal = "begun"
    BY <1>1 DEF SnapInv, DiskOK, HolderOK, States, Locked, Undoing
  <1>3. op' \in [Processes -> OpRow] /\ op'[p].at = "emptying" /\ \A q \in Processes \ {p} : op'[q] = op[q]
    BY <1>1, <1>2, GoesRow
  <1>4. marker' \in Markers /\ fileFailures' \in 0..MaxFileFailures
    BY CountUp DEF SnapInv, DiskOK, UndoMarker, SnapshotAssumption, Markers
  <1>5. DiskOK'
    BY <1>1, <1>3, <1>4 DEF SnapInv, DiskOK
  <1> QED
    BY <1>1, <1>2, <1>3, <1>5, RemovingStep

LEMMA UndoDirectoryKeeps == ASSUME SnapshotAssumption, SnapInv, NEW p \in Processes, UndoDirectory(p) PROVE SnapInv'
  <1>1. /\ op[p].at = "emptying" /\ op[p].at \in Locked /\ "emptying" \in Undoing /\ "failed" \in Ended
        /\ UNCHANGED <<intentFile, marker, removal, disturbed, ops, fileFailures, powerLosses>>
    BY DEF UndoDirectory, At, Locked, Undoing, Ended
  <1>2. /\ op \in [Processes -> OpRow] /\ "failed" \in States /\ removal = "begun"
        /\ dir \in DirRow /\ durable \in DurableRow /\ marker \in Markers
    BY <1>1 DEF SnapInv, DiskOK, HolderOK, States, Locked, Undoing, Ended
  <1>3. dir' \in DirRow
    BY <1>2, RemovalRow DEF UndoDirectory
  <1>4. CASE UNCHANGED <<op, lock, durable>>
    <2>1. DiskOK'
      BY <1>1, <1>3, <1>4 DEF SnapInv, DiskOK
    <2> QED
      BY <1>1, <1>2, <1>4, <2>1, RemovingStep
  <1>5. CASE Leaves(p, "failed") /\ durable' = FsyncDirectory(Missing, marker)
    <2>1. durable' \in DurableRow
      BY <1>2, <1>5, FsyncFacts, DirFacts
    <2>2. /\ op' \in [Processes -> OpRow] /\ op'[p].at = "failed" /\ \A q \in Processes \ {p} : op'[q] = op[q]
          /\ lock' = lock \ {p}
      BY <1>2, <1>5, GoesRow DEF Leaves
    <2>3. DiskOK'
      BY <1>1, <1>3, <2>1, <2>2 DEF SnapInv, DiskOK
    <2> QED
      BY <1>1, <1>2, <2>2, <2>3, RemovingStep
  <1> QED
    BY <1>4, <1>5 DEF UndoDirectory

LEMMA DiscardDirectoryKeeps == ASSUME SnapInv, NEW p \in Processes, DiscardDirectory(p) PROVE SnapInv'
  <1>1. /\ op[p].at = "discarding" /\ op[p].at \in Locked /\ "discarding" \in Discarding
        /\ UNCHANGED <<intentFile, marker, durable, op, lock, removal, disturbed, ops, fileFailures, powerLosses>>
    BY DEF DiscardDirectory, At, Locked, Discarding
  <1>2. removal = "begun" /\ dir \in DirRow
    BY <1>1 DEF SnapInv, DiskOK, HolderOK
  <1>3. dir' \in DirRow
    BY <1>2, RemovalRow DEF DiscardDirectory
  <1>4. DiskOK'
    BY <1>1, <1>3 DEF SnapInv, DiskOK
  <1> QED
    BY <1>1, <1>2, <1>4, RemovingStep

LEMMA DiscardMarkerKeeps == ASSUME SnapInv, NEW p \in Processes, DiscardMarker(p) PROVE SnapInv'
  <1>1. /\ op[p].at = "discarding" /\ op[p].at \in Locked /\ "discarding" \in Discarding /\ "truncating" \in Discarding
        /\ ~dir.exists /\ marker' = "absent" /\ Goes(p, "truncating")
        /\ UNCHANGED <<intentFile, dir, durable, lock, removal, disturbed, ops, fileFailures, powerLosses>>
    BY DEF DiscardMarker, At, Locked, Discarding
  <1>2. removal = "begun" /\ dir \in DirRow /\ op \in [Processes -> OpRow] /\ "truncating" \in States
    BY <1>1 DEF SnapInv, DiskOK, HolderOK, States, Locked, Discarding
  <1>3. dir' = Missing
    BY <1>1, <1>2, DirParts
  <1>4. op' \in [Processes -> OpRow] /\ op'[p].at = "truncating" /\ \A q \in Processes \ {p} : op'[q] = op[q]
    BY <1>1, <1>2, GoesRow
  <1>5. DiskOK'
    BY <1>1, <1>4 DEF SnapInv, DiskOK, Markers
  <1> QED
    BY <1>1, <1>2, <1>3, <1>4, <1>5, RemovingStep

LEMMA DiscardIntentKeeps == ASSUME SnapshotAssumption, SnapInv, NEW p \in Processes, DiscardIntent(p) PROVE SnapInv'
  <1>1. /\ op[p].at = "truncating" /\ op[p].at \in Locked /\ intentFile' = "empty" /\ removal' = "done"
        /\ durable' = [FsyncDirectory(dir, marker) EXCEPT !.intent = "empty"]
        /\ Goes(p, "discarded") /\ lock' = lock \ {p}
        /\ UNCHANGED <<dir, marker, disturbed, ops, fileFailures, powerLosses>>
    BY DEF DiscardIntent, Leaves, At, Locked, Discarding
  <1>2. /\ op \in [Processes -> OpRow] /\ "discarded" \in States /\ "discarded" \notin Locked /\ "empty" \in Intents
        /\ removal = "begun" /\ dir = Missing /\ marker = "absent" /\ durable \in DurableRow
    BY <1>1 DEF SnapInv, DiskOK, HolderOK, States, Ended, Locked, Publishing, Undoing, Discarding, Intents
  <1>3. durable' \in DurableRow /\ durable'.dir = Missing /\ durable'.marker = "absent"
    <2> DEFINE e == FsyncDirectory(dir, marker)
    <2>1. e \in DurableRow /\ e.dir = Missing /\ e.marker = "absent"
      BY <1>2, FsyncFacts, DirFacts DEF Markers
    <2> HIDE DEF e
    <2> QED
      BY <1>1, <1>2, <2>1, DurableWith DEF e
  <1>4. op' \in [Processes -> OpRow] /\ op'[p].at = "discarded" /\ \A q \in Processes \ {p} : op'[q] = op[q]
    BY <1>1, <1>2, GoesRow
  <1>5. DiskOK'
    BY <1>1, <1>2, <1>3, <1>4 DEF SnapInv, DiskOK
  <1>6. Flushed' /\ Gone' /\ Warned' /\ Leftover'
    BY <1>1, <1>2, <1>3, NoSuchContent, DirFacts DEF Flushed, Gone, Warned, Leftover
  <1>7. HolderOK(p)' /\ ReaderOK(p)'
    BY <1>4 DEF HolderOK, ReaderOK, Locked, Publishing, Sealed, Undoing, Discarding
  <1> QED
    BY <1>1, <1>2, <1>4, <1>5, <1>6, <1>7, HolderStep

-----------------------------------------------------------------------------
(* A loss of power. *)

\* What survives of two directories is a directory; of twice the same, that one.
LEMMA SurvivingFacts ==
    ASSUME NEW v \in DirRow, NEW d \in DirRow, NEW x \in Surviving(v, d)
    PROVE  x \in DirRow /\ (v = d => x = v)
  <1>1. CASE x = Missing /\ (~v.exists \/ ~d.exists)
    BY <1>1, DirFacts, DirParts
  <1>2. ASSUME NEW t \in SUBSET (v.files \cup d.files), x = Holding(t), v.exists \/ d.exists, v.files \cap d.files \subseteq t
        PROVE  x \in DirRow /\ (v = d => x = v)
    <2>1. t \in SUBSET (Files \X Contents)
      BY DirParts
    <2>2. x \in DirRow
      BY <1>2, <2>1, DirFacts
    <2>3. ASSUME v = d PROVE x = v
      <3>1. v = Holding(v.files)
        BY <1>2, <2>3, DirParts
      <3>2. t = v.files
        BY <1>2, <2>3
      <3> QED
        BY <1>2, <3>1, <3>2
    <2> QED
      BY <2>2, <2>3
  <1> QED
    BY <1>1, <1>2 DEF Surviving

LEMMA PowerKeeps == ASSUME SnapshotAssumption, SnapInv, LosePower PROVE SnapInv'
  <1>1. /\ powerLosses' = powerLosses + 1 /\ powerLosses' \in 0..MaxPowerLosses /\ powerLosses' # 0
        /\ UNCHANGED <<removal, disturbed, ops, fileFailures>> /\ lock' = {}
        /\ durable' = [intent |-> intentFile', dir |-> dir', marker |-> marker']
    BY CountUp DEF SnapInv, DiskOK, LosePower, SnapshotAssumption
  <1>2. dir \in DirRow /\ durable.dir \in DirRow /\ marker \in Markers /\ durable.marker \in Markers
        /\ durable.intent \in Intents /\ intentFile \in Intents
    BY DEF SnapInv, DiskOK, DurableRow
  <1>3. dir' \in DirRow /\ (dir = durable.dir => dir' = dir)
    BY <1>2, SurvivingFacts DEF LosePower
  <1>4. marker' \in Markers /\ intentFile' \in Intents
    BY <1>2 DEF LosePower, SurvivingMarker, Markers
  <1>5. durable' \in DurableRow /\ durable'.dir = dir' /\ durable'.marker = marker'
    BY <1>1, <1>3, <1>4 DEF DurableRow
  <1>6. op' \in [Processes -> OpRow] /\ \A p \in Processes : op'[p].at = "idle"
    <2>1. ASSUME NEW p \in Processes PROVE [op[p] EXCEPT !.at = "idle"] \in OpRow /\ [op[p] EXCEPT !.at = "idle"].at = "idle"
      <3>1. op[p] \in OpRow /\ "idle" \in States
        BY DEF SnapInv, DiskOK, States, Ended
      <3> QED
        BY <3>1 DEF OpRow
    <2>2. op' = [p \in Processes |-> [op[p] EXCEPT !.at = "idle"]]
      BY DEF LosePower
    <2> QED
      BY <2>1, <2>2
  <1>7. DiskOK'
    BY <1>1, <1>3, <1>4, <1>5, <1>6 DEF SnapInv, DiskOK
  <1>8. Flushed'
    <2>1. SUFFICES ASSUME removal # "begun", marker' \in Contents
                   PROVE  dir' = Holding(Whole(marker')) /\ durable'.dir = dir'
      BY <1>1, <1>5 DEF Flushed
    <2>2. /\ durable.marker \in Contents => marker = durable.marker
          /\ marker \in Contents => dir = Holding(Whole(marker)) /\ durable.dir = dir
      BY <2>1 DEF SnapInv, Flushed
    <2>3. marker' = marker
      BY <2>1, <2>2, NoSuchContent DEF LosePower, SurvivingMarker
    <2> QED
      BY <1>3, <1>5, <2>1, <2>2, <2>3
  <1>9. Gone' /\ Warned' /\ Leftover'
    <2>1. removal = "done" => dir' = Missing /\ marker' = "absent"
      BY <1>3 DEF SnapInv, Gone, LosePower, SurvivingMarker
    <2> QED
      BY <1>1, <1>5, <2>1 DEF SnapInv, Gone, Warned, Leftover
  <1>10. ASSUME NEW p \in Processes PROVE HolderOK(p)' /\ ReaderOK(p)' /\ op'[p].at \notin Locked
    BY <1>6 DEF HolderOK, ReaderOK, Locked, Publishing, Sealed, Undoing, Discarding
  <1>11. OneAtATime'
    BY <1>1, <1>10 DEF OneAtATime
  <1> QED
    BY <1>7, <1>8, <1>9, <1>10, <1>11 DEF SnapInv

LEMMA SnapshotStutter == ASSUME SnapInv, UNCHANGED snapshotVars PROVE SnapInv'
  <1> USE DEF snapshotVars
  <1>1. DiskOK' /\ OneAtATime' /\ Flushed' /\ Gone' /\ Warned' /\ Leftover'
    BY DEF SnapInv, DiskOK, OneAtATime, Flushed, Gone, Warned, Leftover
  <1>2. ASSUME NEW p \in Processes PROVE HolderOK(p)' /\ ReaderOK(p)'
    <2>1. HolderOK(p) /\ ReaderOK(p)
      BY DEF SnapInv
    <2> QED
      BY <2>1 DEF HolderOK, ReaderOK
  <1> QED
    BY <1>1, <1>2 DEF SnapInv

LEMMA SnapshotNextInv == ASSUME SnapshotAssumption, SnapInv, [SnapshotNext]_snapshotVars PROVE SnapInv'
  <1>1. ASSUME NEW p \in Processes, SnapshotStep(p) PROVE SnapInv'
    BY <1>1, AcquireKeeps, CheckKeeps, SetIntentKeeps, ClearKeeps, MakeKeeps, MoveKeeps, SealKeeps, CreateKeeps,
       WriteKeeps, SyncKeeps, CompleteKeeps, MatchKeeps, LoadKeeps, UndoMarkerKeeps, UndoDirectoryKeeps,
       DiscardDirectoryKeeps, DiscardMarkerKeeps, DiscardIntentKeeps DEF SnapshotStep
  <1> QED
    BY <1>1, StartKeeps, FailKeeps, KillKeeps, PowerKeeps, SnapshotStutter DEF SnapshotNext

-----------------------------------------------------------------------------
(* What a single step may do, under the invariant. *)

LEMMA GoesTo ==
    ASSUME SnapInv, NEW p \in Processes, NEW q \in Processes, NEW s, Goes(q, s)
    PROVE  op'[p] = op[p] \/ (p = q /\ op'[p].at = s /\ op'[p].content = op[p].content)
  <1>1. op \in [Processes -> OpRow] /\ op[q] \in OpRow
    BY DEF SnapInv, DiskOK
  <1>2. op' = [op EXCEPT ![q] = [op[q] EXCEPT !.at = s]]
    BY DEF Goes
  <1>3. [op[q] EXCEPT !.at = s].at = s /\ [op[q] EXCEPT !.at = s].content = op[q].content
    BY <1>1 DEF OpRow
  <1> QED
    BY <1>1, <1>2, <1>3

\* Only five steps end an operation with a snapshot or with a refusal.
LEMMA Outcomes ==
    ASSUME SnapInv, NEW p \in Processes, NEW q \in Processes,
           \/ StartStore(q) \/ StartDiscard(q) \/ Kill(q) \/ Acquire(q) \/ Check(q) \/ SetIntent(q) \/ Clear(q)
           \/ MakeDirectory(q) \/ MoveFile(q) \/ Seal(q) \/ CreateMarker(q) \/ WriteMarker(q) \/ SyncMarker(q)
           \/ UndoMarker(q) \/ UndoDirectory(q) \/ DiscardDirectory(q) \/ DiscardMarker(q) \/ DiscardIntent(q)
    PROVE  op'[p] = op[p] \/ op'[p].at \notin {"ok", "refused"}
  <1>t. op \in [Processes -> OpRow]
    BY DEF SnapInv, DiskOK
  <1>1. CASE StartStore(q) \/ StartDiscard(q)
    <2>1. PICK c : op' = [op EXCEPT ![q] = [at |-> "waiting", content |-> c, want |-> "empty"]]
      BY <1>1 DEF StartStore, StartDiscard, Begin
    <2> QED
      BY <1>t, <2>1
  <1>2. CASE Check(q)
    <2>1. ASSUME NEW w, Truncates(q, w) PROVE op'[p] = op[p] \/ op'[p].at \notin {"ok", "refused"}
      <3>1. op[q] \in OpRow /\ op' = [op EXCEPT ![q] = [op[q] EXCEPT !.at = "setting", !.want = w]]
        BY <1>t, <2>1 DEF Truncates
      <3>2. [op[q] EXCEPT !.at = "setting", !.want = w].at = "setting"
        BY <3>1 DEF OpRow
      <3> QED
        BY <1>t, <3>1, <3>2
    <2> QED
      BY <1>2, <2>1, GoesTo DEF Check, Leaves
  <1>3. CASE UNCHANGED op
    BY <1>3
  <1>4. CASE \E s : Goes(q, s) /\ s \notin {"ok", "refused"}
    BY <1>4, GoesTo
  <1>5. Kill(q) \/ Acquire(q) \/ SetIntent(q) \/ Clear(q) => UNCHANGED op \/ \E s : Goes(q, s) /\ s \notin {"ok", "refused"}
    BY DEF Kill, Acquire, SetIntent, Clear, Leaves
  <1>6. MakeDirectory(q) \/ MoveFile(q) \/ Seal(q) \/ CreateMarker(q) \/ WriteMarker(q) \/ SyncMarker(q)
        => UNCHANGED op \/ \E s : Goes(q, s) /\ s \notin {"ok", "refused"}
    BY DEF MakeDirectory, MoveFile, Seal, CreateMarker, WriteMarker, SyncMarker
  <1>7. UndoMarker(q) \/ UndoDirectory(q) \/ DiscardDirectory(q) \/ DiscardMarker(q) \/ DiscardIntent(q)
        => UNCHANGED op \/ \E s : Goes(q, s) /\ s \notin {"ok", "refused"}
    BY DEF UndoMarker, UndoDirectory, DiscardDirectory, DiscardMarker, DiscardIntent, Leaves
  <1> QED
    BY <1>1, <1>2, <1>3, <1>4, <1>5, <1>6, <1>7

LEMMA FailOutcomes ==
    ASSUME SnapInv, NEW p \in Processes, NEW q \in Processes, Fail(q)
    PROVE  op'[p] = op[p] \/ op'[p].at \notin {"ok", "refused"} \/ (op'[p].at = "refused" /\ p \in disturbed')
  <1>1. CASE \E s : Goes(q, s) /\ s \notin {"ok", "refused"}
    BY <1>1, GoesTo
  <1>2. CASE Goes(q, "refused") /\ disturbed' = disturbed \cup {q}
    BY <1>2, GoesTo
  <1> QED
    BY <1>1, <1>2 DEF Fail, Leaves

LEMMA PowerOutcome == ASSUME LosePower, NEW p \in Processes, op \in [Processes -> OpRow] PROVE op'[p].at = "idle"
  <1>1. op' = [q \in Processes |-> [op[q] EXCEPT !.at = "idle"]] /\ op[p] \in OpRow
    BY DEF LosePower
  <1>2. [op[p] EXCEPT !.at = "idle"].at = "idle"
    BY <1>1 DEF OpRow
  <1> QED
    BY <1>1, <1>2

LEMMA ImmutableStep ==
    ASSUME SnapshotAssumption, SnapInv, [SnapshotNext]_snapshotVars
    PROVE  durable.marker \in Contents /\ removal = "none" /\ removal' = "none" => UNCHANGED <<dir, marker>>
  <1>1. SUFFICES ASSUME durable.marker \in Contents, removal = "none", removal' = "none" PROVE UNCHANGED <<dir, marker>>
    OBVIOUS
  <1>2. marker = durable.marker /\ marker \in Contents /\ marker # "absent" /\ durable.marker # "absent" /\ durable.dir = dir
    BY <1>1, NoSuchContent DEF SnapInv, Flushed
  <1>3. ASSUME NEW p \in Processes, SnapshotStep(p) PROVE UNCHANGED <<dir, marker>>
    <2>1. op[p].at \notin {"clearing", "making", "moving", "sealed", "marking"} \cup Undoing \cup Discarding
      BY <1>1, <1>2 DEF SnapInv, HolderOK
    <2>2. ~(Clear(p) \/ MakeDirectory(p) \/ MoveFile(p) \/ Seal(p) \/ CreateMarker(p) \/ WriteMarker(p))
      BY <2>1 DEF Clear, MakeDirectory, MoveFile, Seal, CreateMarker, WriteMarker, At
    <2>3. ~(UndoMarker(p) \/ UndoDirectory(p) \/ DiscardDirectory(p) \/ DiscardMarker(p) \/ DiscardIntent(p))
      BY <2>1 DEF UndoMarker, UndoDirectory, DiscardDirectory, DiscardMarker, DiscardIntent, At, Undoing, Discarding
    <2>4. Acquire(p) \/ Check(p) \/ SetIntent(p) \/ SyncMarker(p) \/ Complete(p) \/ Match(p) \/ LoadMatched(p)
      BY <1>3, <2>2, <2>3 DEF SnapshotStep
    <2> QED
      BY <2>4 DEF Acquire, Check, SetIntent, SyncMarker, Complete, Match, LoadMatched, disk
  <1>4. ASSUME NEW p \in Processes, Replay(p) \/ StartStore(p) \/ StartDiscard(p) \/ Fail(p) \/ Kill(p)
        PROVE  UNCHANGED <<dir, marker>>
    BY <1>4 DEF Replay, StartStore, StartDiscard, Begin, Fail, Kill, disk
  <1>5. ASSUME LosePower PROVE UNCHANGED <<dir, marker>>
    <2>1. dir \in DirRow /\ durable.dir \in DirRow
      BY DEF SnapInv, DiskOK, DurableRow
    <2>2. dir' = dir
      BY <1>2, <1>5, <2>1, SurvivingFacts DEF LosePower
    <2>3. marker' = marker
      BY <1>2, <1>5 DEF LosePower, SurvivingMarker
    <2> QED
      BY <2>2, <2>3
  <1> QED
    BY <1>3, <1>4, <1>5 DEF SnapshotNext, snapshotVars

LEMMA AcceptedStep ==
    ASSUME SnapshotAssumption, SnapInv, [SnapshotNext]_snapshotVars, NEW p \in Processes,
           op'[p].at = "ok", op'[p] # op[p], p \notin disturbed'
    PROVE  dir' = Holding(Whole(op'[p].content)) /\ marker' # "absent"
  <1>t. op \in [Processes -> OpRow]
    BY DEF SnapInv, DiskOK
  <1>1. ASSUME NEW q \in Processes, Replay(q) PROVE dir' = Holding(Whole(op'[p].content)) /\ marker' # "absent"
    <2>1. CASE Loadable /\ Begin(q, "ok", marker)
      <3>1. p = q /\ op'[p].content = marker
        BY <1>t, <2>1 DEF Begin
      <3>2. removal # "begun" /\ UNCHANGED <<dir, marker>> /\ marker \in Contents
        BY <2>1, <3>1 DEF Begin, disk, Loadable
      <3> QED
        BY <3>1, <3>2, NoSuchContent DEF SnapInv, Flushed
    <2>2. CASE Begin(q, "failed", NoContent)
      <3>1. op' = [op EXCEPT ![q] = [at |-> "failed", content |-> NoContent, want |-> "empty"]]
        BY <2>2 DEF Begin
      <3> QED
        BY <1>t, <3>1
    <2> QED
      BY <1>1, <2>1, <2>2 DEF Replay
  <1>2. ASSUME NEW q \in Processes, Complete(q) PROVE dir' = Holding(Whole(op'[p].content)) /\ marker' # "absent"
    <2>1. p = q /\ op'[p].content = op[p].content /\ op[p].at = "closing" /\ UNCHANGED <<dir, marker>>
      BY <1>2, GoesTo DEF Complete, Leaves, At
    <2>2. op[p].content \in Contents /\ marker = op[p].content /\ dir = Holding(Whole(op[p].content))
      BY <2>1 DEF SnapInv, HolderOK, Publishing, Sealed
    <2> QED
      BY <2>1, <2>2, NoSuchContent
  <1>3. ASSUME NEW q \in Processes, LoadMatched(q) PROVE dir' = Holding(Whole(op'[p].content)) /\ marker' # "absent"
    <2> DEFINE c == IF Loadable THEN marker ELSE op[q].content
               s == IF dir.exists /\ marker = "torn" THEN "failed" ELSE "ok"
    <2>1. op' = [op EXCEPT ![q] = [op[q] EXCEPT !.at = s, !.content = c]] /\ op[q].at = "loading"
      BY <1>3, <1>t DEF LoadMatched, At
    <2>2. UNCHANGED <<dir, marker, removal, disturbed>>
      BY <1>3 DEF LoadMatched, disk
    <2>3. p = q /\ op'[p].content = c
      <3>1. op[q] \in OpRow
        BY <1>t
      <3>2. [op[q] EXCEPT !.at = s, !.content = c].content = c
        BY <3>1 DEF OpRow
      <3> HIDE DEF s, c
      <3> QED
        BY <1>t, <2>1, <3>2
    <2>4. p \notin disturbed /\ removal # "begun"
      BY <2>2 DEF SnapInv, Warned
    <2>5. dir = Holding(Whole(op[p].content)) /\ marker # "absent"
      BY <2>1, <2>3, <2>4 DEF SnapInv, ReaderOK
    <2>6. marker \in Contents => dir = Holding(Whole(marker))
      BY <2>4 DEF SnapInv, Flushed
    <2> QED
      BY <2>2, <2>3, <2>5, <2>6 DEF Loadable
  <1>4. ASSUME NEW q \in Processes PROVE ~Match(q)
    <2>1. SUFFICES ASSUME Match(q) PROVE FALSE
      OBVIOUS
    <2> QED
      BY <2>1, GoesTo DEF Match
  <1>5. ASSUME NEW q \in Processes PROVE ~Fail(q)
    BY FailOutcomes
  <1>6. ~LosePower /\ ~UNCHANGED snapshotVars
    BY <1>t, PowerOutcome DEF snapshotVars
  <1>7. ASSUME NEW q \in Processes
        PROVE  ~(\/ StartStore(q) \/ StartDiscard(q) \/ Kill(q) \/ Acquire(q) \/ Check(q) \/ SetIntent(q) \/ Clear(q)
                 \/ MakeDirectory(q) \/ MoveFile(q) \/ Seal(q) \/ CreateMarker(q) \/ WriteMarker(q) \/ SyncMarker(q)
                 \/ UndoMarker(q) \/ UndoDirectory(q) \/ DiscardDirectory(q) \/ DiscardMarker(q) \/ DiscardIntent(q))
    BY Outcomes
  <1> QED
    BY <1>1, <1>2, <1>3, <1>4, <1>5, <1>6, <1>7 DEF SnapshotNext, SnapshotStep

LEMMA RefusedStep ==
    ASSUME SnapshotAssumption, SnapInv, [SnapshotNext]_snapshotVars, NEW p \in Processes,
           op'[p].at = "refused", op[p].at # "refused", p \notin disturbed', powerLosses = 0
    PROVE  marker # "absent" /\ dir.exists /\ dir.files # Whole(op[p].content)
  <1>t. op \in [Processes -> OpRow]
    BY DEF SnapInv, DiskOK
  <1>1. ASSUME NEW q \in Processes, Match(q) PROVE marker # "absent" /\ dir.exists /\ dir.files # Whole(op[p].content)
    <2> DEFINE s == IF dir.exists /\ marker # "absent" /\ dir.files = Whole(op[q].content) THEN "loading" ELSE "refused"
    <2>1. Goes(q, s) /\ op[q].at = "matching" /\ UNCHANGED disturbed
      BY <1>1 DEF Match, At
    <2>2. p = q /\ s = "refused"
      BY <2>1, GoesTo
    <2>3. marker # "absent" /\ dir.exists
      BY <2>1, <2>2 DEF SnapInv, ReaderOK
    <2> QED
      BY <2>2, <2>3
  <1>2. ASSUME NEW q \in Processes PROVE ~Replay(q)
    <2>1. SUFFICES ASSUME NEW c, NEW s \in {"ok", "failed"}, Begin(q, s, c) PROVE FALSE
      BY DEF Replay
    <2>2. op' = [op EXCEPT ![q] = [at |-> s, content |-> c, want |-> "empty"]]
      BY <2>1 DEF Begin
    <2> QED
      BY <1>t, <2>2
  <1>3. ASSUME NEW q \in Processes PROVE ~Complete(q)
    <2>1. SUFFICES ASSUME Complete(q) PROVE FALSE
      OBVIOUS
    <2> QED
      BY <2>1, GoesTo DEF Complete, Leaves
  <1>4. ASSUME NEW q \in Processes PROVE ~LoadMatched(q)
    <2>1. SUFFICES ASSUME LoadMatched(q) PROVE FALSE
      OBVIOUS
    <2> DEFINE c == IF Loadable THEN marker ELSE op[q].content
               s == IF dir.exists /\ marker = "torn" THEN "failed" ELSE "ok"
    <2>2. op' = [op EXCEPT ![q] = [op[q] EXCEPT !.at = s, !.content = c]] /\ s # "refused"
      BY <1>t, <2>1 DEF LoadMatched
    <2>3. op[q] \in OpRow
      BY <1>t
    <2> HIDE DEF s, c
    <2>4. [op[q] EXCEPT !.at = s, !.content = c].at = s
      BY <2>3 DEF OpRow
    <2> QED
      BY <1>t, <2>2, <2>4
  <1>5. ASSUME NEW q \in Processes PROVE ~Fail(q)
    BY FailOutcomes
  <1>6. ~LosePower /\ ~UNCHANGED snapshotVars
    BY <1>t, PowerOutcome DEF snapshotVars
  <1>7. ASSUME NEW q \in Processes
        PROVE  ~(\/ StartStore(q) \/ StartDiscard(q) \/ Kill(q) \/ Acquire(q) \/ Check(q) \/ SetIntent(q) \/ Clear(q)
                 \/ MakeDirectory(q) \/ MoveFile(q) \/ Seal(q) \/ CreateMarker(q) \/ WriteMarker(q) \/ SyncMarker(q)
                 \/ UndoMarker(q) \/ UndoDirectory(q) \/ DiscardDirectory(q) \/ DiscardMarker(q) \/ DiscardIntent(q))
    BY Outcomes
  <1> QED
    BY <1>1, <1>2, <1>3, <1>4, <1>5, <1>6, <1>7 DEF SnapshotNext, SnapshotStep

-----------------------------------------------------------------------------
(* The stages of publishSnapshot, DiscardSnapshot and the cleanup keep their
   promises on the disk at every step, kill, failure and loss of power. *)
THEOREM SnapshotStages == ASSUME SnapshotAssumption PROVE SnapshotSpec => []SnapInv
  <1>1. SnapshotInit => SnapInv
    BY SnapshotInitInv
  <1>2. SnapInv /\ [SnapshotNext]_snapshotVars => SnapInv'
    BY SnapshotNextInv
  <1> QED
    BY <1>1, <1>2, PTL DEF SnapshotSpec

(* A marker with a fingerprint stands beside exactly the files of one publisher,
   and what DiscardSnapshot removed does not come back, whatever was killed, failed
   or lost (publishSnapshot, DiscardSnapshot, setIntentState). *)
THEOREM SnapshotSound == ASSUME SnapshotAssumption PROVE SnapshotSpec => []SnapshotIsSound
  <1>1. SnapInv => SnapshotIsSound
    <2>1. SUFFICES ASSUME SnapInv PROVE SnapshotIsSound
      OBVIOUS
    <2>2. Cardinality(lock) <= 1
      <3>1. CASE lock = {}
        BY <3>1, FS_EmptySet
      <3>2. CASE lock # {}
        <4>1. PICK p : lock = {p}
          <5>1. PICK p : p \in lock
            BY <3>2
          <5>2. \A q \in lock : q = p
            BY <2>1, <5>1 DEF SnapInv, OneAtATime
          <5> QED
            BY <5>1, <5>2
        <4>2. Cardinality({p}) = 1
          BY FS_Singleton
        <4> QED
          BY <4>1, <4>2
      <3> QED
        BY <3>1, <3>2
    <2>3. SnapshotTypeOK
      <3>1. /\ DirRow \subseteq [exists : BOOLEAN, files : SUBSET (Files \X Contents)]
            /\ DurableRow \subseteq [intent : Intents, dir : [exists : BOOLEAN, files : SUBSET (Files \X Contents)],
                                     marker : {"absent", "empty", "torn"} \cup Contents]
        BY DEF DirRow, DurableRow, Markers
      <3> QED
        BY <2>1, <2>2, <3>1 DEF SnapInv, DiskOK, OneAtATime, Markers, OpRow, SnapshotTypeOK
    <2>4. MarkerMeansWhole /\ DiscardedIsGone
      BY <2>1 DEF SnapInv, Flushed, Gone, MarkerMeansWhole, DiscardedIsGone
    <2> QED
      BY <2>3, <2>4 DEF SnapshotIsSound
  <1> QED
    BY <1>1, SnapshotStages, PTL

(* A flushed snapshot changes only by a removal, an operation that ends well
   returns exactly what is on the disk, and what a killed publisher left behind
   does not make a later publication refuse (StoreSnapshot, LoadSnapshot). *)
THEOREM SnapshotKept == ASSUME SnapshotAssumption PROVE SnapshotSpec => SnapshotHistory
  <1>1. SnapInv /\ [SnapshotNext]_snapshotVars
        => [durable.marker \in Contents /\ removal = "none" /\ removal' = "none" => UNCHANGED <<dir, marker>>]_snapshotVars
    BY ImmutableStep
  <1>2. SnapInv /\ [SnapshotNext]_snapshotVars
        => [\A p \in Processes :
              op'[p].at = "ok" /\ op'[p] # op[p] /\ p \notin disturbed'
              => dir' = Holding(Whole(op'[p].content)) /\ marker' # "absent"]_snapshotVars
    BY AcceptedStep
  <1>3. SnapInv /\ [SnapshotNext]_snapshotVars
        => [\A p \in Processes :
              op'[p].at = "refused" /\ op[p].at # "refused" /\ p \notin disturbed' /\ powerLosses = 0
              => marker # "absent" /\ dir.exists /\ dir.files # Whole(op[p].content)]_snapshotVars
    BY RefusedStep
  <1>4. SnapshotSpec => PublishedIsImmutable
    BY <1>1, SnapshotStages, PTL DEF SnapshotSpec, PublishedIsImmutable
  <1>5. SnapshotSpec => AcceptedIsStored
    BY <1>2, SnapshotStages, PTL DEF SnapshotSpec, AcceptedIsStored
  <1>6. SnapshotSpec => LeftoversYield
    BY <1>3, SnapshotStages, PTL DEF SnapshotSpec, LeftoversYield
  <1> QED
    BY <1>4, <1>5, <1>6 DEF SnapshotHistory

-----------------------------------------------------------------------------
(***************************************************************************)
(* The files of a documentation run.                                     *)
(***************************************************************************)
WriterStages == {"idle", "loading", "generating", "saving", "creating", "completing", "publishing", "bundling",
                 "recording", "failing"}
WriterRow == [at : WriterStages, job : Jobs \cup {"none"}, slug : Slugs \cup {"none"}, content : Texts \cup {NoText},
              read : Seq(Texts \cup {NoText}), wrote : Nat, pages : [Slugs -> Texts \cup {NoText}]]

\* Rows, handlers and locks have their types, and retention has a lock only
\* when the run is over.
StoreOK ==
    /\ pageFile \in [Slugs -> [PageParts -> Texts \cup {NoText}]]
    /\ pageRow \in [Slugs -> Texts \cup {NoText}]
    /\ runRow \in {"open", "published", "retired", "failed"}
    /\ writer \in [Writers -> WriterRow]
    /\ pageLock \in [Slugs -> Writers \cup {NoOne}]
    /\ wikiLock \in Writers \cup {NoOne, Retention}
    /\ staging = [w \in Writers |-> staging[w]]
    /\ Retention \in runLock => runRow = "failed"
    /\ wikiLock = Retention => runRow = "retired"

\* The three files of a page are there and have one content.
StoredPage(s, c) == c # NoText /\ \A p \in PageParts : pageFile[s][p] = c

RowsStored == runRow # "failed" => \A s \in Slugs : pageRow[s] # NoText => StoredPage(s, pageRow[s])

(***************************************************************************)
(* What a handler knows of the files, with or without a lease.  What it    *)
(* read is still there while the run has not failed; the page it writes is *)
(* its own; and what it has put into the staging directory are the first   *)
(* files of its bundle, for it has the lock of the version.                *)
(***************************************************************************)
StageOK(w) ==
    LET x == writer[w] IN
    /\ x.at # "idle" => x.slug \in Slugs
    /\ x.at \in {"loading", "publishing"} => x.wrote = 0
    /\ x.at = "loading" => Len(x.read) < 3
    /\ x.at = "loading" /\ runRow # "failed" =>
         \A i \in PageParts : i <= Len(x.read) /\ x.read[i] # NoText => pageFile[x.slug][i] = x.read[i]
    /\ x.at \in {"saving", "creating"} => x.content # NoText
    /\ x.at = "creating" => pageLock[x.slug] = w /\ \A p \in PageParts : pageFile[x.slug][p] \in {NoText, x.content}
    /\ x.at = "completing" /\ runRow # "failed" => StoredPage(x.slug, x.content)
    /\ x.at = "bundling" =>
         /\ wikiLock = w /\ x.wrote <= Len(BundleFiles(x.pages))
         /\ staging[w] = {BundleFiles(x.pages)[i] : i \in 1..x.wrote}
    /\ x.at = "recording" /\ runRow \in {"open", "published"} => SameBundle(bundle, x.pages)

ArtifactsInv == StoreOK /\ RowsStored /\ PublishedWikiIsWhole /\ \A w \in Writers : StageOK(w)

-----------------------------------------------------------------------------
\* A bundle has finitely many files, and one at least.
LEMMA BundleFacts ==
    ASSUME ArtifactsAssumption, NEW pages
    PROVE  LET all == BundleFiles(pages) IN
           Len(all) \in Nat /\ Len(all) >= 1 /\ ToSet(all) = {all[i] : i \in 1..Len(all)}
  <1> DEFINE order == SetToSeq(Slugs)
             entries == [i \in 1..Len(order) |-> <<order[i], pages[order[i]]>>]
             last == <<"manifest", pages>>
             T == {entries[i] : i \in 1..Len(order)} \cup {last}
  <1>1. \E n \in Nat : order \in [1..n -> Slugs]
    <2>1. Cardinality(Slugs) \in Nat /\ ExistsBijection(1..Cardinality(Slugs), Slugs)
      BY FS_CardinalityType DEF ArtifactsAssumption
    <2>2. PICK b \in [1..Cardinality(Slugs) -> Slugs] : \A i, j \in 1..Cardinality(Slugs) : b[i] = b[j] => i = j
      BY <2>1 DEF ExistsBijection, Bijection, Injection, IsInjective
    <2>3. \E f \in [1..Cardinality(Slugs) -> Slugs] : IsInjective(f)
      BY <2>2 DEF IsInjective
    <2>4. order \in [1..Cardinality(Slugs) -> Slugs]
      BY <2>3 DEF SetToSeq
    <2> QED
      BY <2>1, <2>4
  <1>2. Len(order) \in Nat
    BY <1>1
  <1> HIDE DEF order
  <1>3. entries \in Seq(T) /\ last \in T
    BY <1>2
  <1>4. BundleFiles(pages) = Append(entries, last)
    BY DEF BundleFiles, order
  <1> HIDE DEF entries, last, T
  <1>5. BundleFiles(pages) \in Seq(T) /\ Len(BundleFiles(pages)) = Len(entries) + 1 /\ Len(entries) \in Nat
    BY <1>3, <1>4
  <1> QED
    BY <1>5 DEF ToSet

LEMMA BundleNotEmpty == ASSUME ArtifactsAssumption, NEW b, NEW pages, SameBundle(b, pages) PROVE b # {}
  <1>1. Len(BundleFiles(pages)) \in Nat /\ Len(BundleFiles(pages)) >= 1
        /\ b = {BundleFiles(pages)[i] : i \in 1..Len(BundleFiles(pages))}
    BY BundleFacts DEF SameBundle
  <1>2. 1 \in 1..Len(BundleFiles(pages))
    BY <1>1
  <1>3. BundleFiles(pages)[1] \in b
    BY <1>1, <1>2, Zenon
  <1> QED
    BY <1>3

\* Files that are there stay while the run has not failed.
FilesKept ==
    runRow' # "failed" =>
      /\ runRow # "failed"
      /\ \A s \in Slugs, p \in PageParts : pageFile[s][p] # NoText => pageFile'[s][p] = pageFile[s][p]

\* A published directory stays while the wiki may be needed.
BundleKept ==
    runRow' \in {"open", "published"} =>
      /\ runRow \in {"open", "published"}
      /\ bundle # {} => bundle' = bundle

\* A step of somebody else.
Elsewhere(v) ==
    /\ writer'[v] = writer[v]
    /\ \A s \in Slugs : pageLock[s] = v =>
         /\ pageLock'[s] = v
         /\ \A p \in PageParts : pageFile'[s][p] \in {pageFile[s][p], NoText}
    /\ wikiLock = v => wikiLock' = v /\ staging'[v] = staging[v]

LEMMA StageKept ==
    ASSUME ArtifactsAssumption, StoreOK, NEW v \in Writers, StageOK(v), FilesKept, BundleKept, Elsewhere(v)
    PROVE  StageOK(v)'
  <1> DEFINE x == writer[v]
  <1>1. writer'[v] = x /\ x \in WriterRow
    BY DEF Elsewhere, StoreOK
  <1>2. x.slug \in Slugs => \A p \in PageParts : runRow' # "failed" /\ pageFile[x.slug][p] # NoText
                              => pageFile'[x.slug][p] = pageFile[x.slug][p]
    BY DEF FilesKept
  <1>3. runRow' # "failed" => runRow # "failed"
    BY DEF FilesKept
  <1>4. x.at = "creating" =>
          pageLock'[x.slug] = v /\ \A p \in PageParts : pageFile'[x.slug][p] \in {NoText, x.content}
    BY DEF Elsewhere, StageOK
  <1>5. x.at = "completing" /\ runRow' # "failed" => StoredPage(x.slug, x.content)'
    BY <1>1, <1>2, <1>3 DEF StageOK, StoredPage
  <1>6. x.at = "recording" /\ runRow' \in {"open", "published"} => SameBundle(bundle', x.pages)
    <2> SUFFICES ASSUME x.at = "recording", runRow' \in {"open", "published"} PROVE SameBundle(bundle', x.pages)
      OBVIOUS
    <2>1. SameBundle(bundle, x.pages) /\ (bundle # {} => bundle' = bundle)
      BY DEF StageOK, BundleKept
    <2>2. bundle # {}
      BY <2>1, BundleNotEmpty
    <2> QED
      BY <2>1, <2>2
  <1>7. x.at = "loading" /\ runRow' # "failed" =>
          \A i \in PageParts : i <= Len(x.read) /\ x.read[i] # NoText => pageFile'[x.slug][i] = x.read[i]
    BY <1>2, <1>3 DEF StageOK
  <1>8. x.at = "bundling" => wikiLock' = v /\ staging'[v] = staging[v]
    BY DEF StageOK, Elsewhere
  <1> QED
    BY <1>1, <1>4, <1>5, <1>6, <1>7, <1>8 DEF StageOK

LEMMA RowsKept == ASSUME RowsStored, FilesKept, pageRow' = pageRow PROVE RowsStored'
  BY DEF RowsStored, FilesKept, StoredPage

LEMMA WikiKept ==
    ASSUME ArtifactsAssumption, PublishedWikiIsWhole, BundleKept, pageRow' = pageRow, runRow' = "published" => runRow = "published"
    PROVE  PublishedWikiIsWhole'
  <1> SUFFICES ASSUME runRow' = "published" PROVE SameBundle(bundle', pageRow)
    BY DEF PublishedWikiIsWhole
  <1>1. SameBundle(bundle, pageRow) /\ (bundle # {} => bundle' = bundle)
    BY DEF PublishedWikiIsWhole, BundleKept
  <1>3. bundle # {}
    BY <1>1, BundleNotEmpty
  <1> QED
    BY <1>1, <1>3

LEMMA ArtifactsInitInv == ASSUME ArtifactsAssumption, ArtifactsInit PROVE ArtifactsInv
  <1>1. Nobody \in WriterRow /\ Nobody.at = "idle"
    BY DEF Nobody, WriterRow, WriterStages
  <1>2. StoreOK
    BY <1>1 DEF ArtifactsInit, StoreOK, NoFiles, NoOne, Retention
  <1>3. \A w \in Writers : StageOK(w)
    BY <1>1 DEF ArtifactsInit, StageOK
  <1>4. RowsStored /\ PublishedWikiIsWhole
    BY DEF ArtifactsInit, RowsStored, PublishedWikiIsWhole
  <1> QED
    BY <1>2, <1>3, <1>4 DEF ArtifactsInv

LEMMA ArtifactsStep ==
    ASSUME ArtifactsAssumption, ArtifactsInv, StoreOK', FilesKept, BundleKept, pageRow' = pageRow,
           runRow' = "published" => runRow = "published", \A v \in Writers : Elsewhere(v) \/ StageOK(v)'
    PROVE  ArtifactsInv'
  <1>1. \A v \in Writers : StageOK(v)'
    BY StageKept DEF ArtifactsInv
  <1>2. RowsStored' /\ PublishedWikiIsWhole'
    BY RowsKept, WikiKept DEF ArtifactsInv
  <1> QED
    BY <1>1, <1>2 DEF ArtifactsInv

\* A handler without a row, and one that moves on.
LEMMA RowOfNobody == Nobody \in WriterRow /\ Nobody.at = "idle" /\ Nobody.wrote = 0 /\ Nobody.read = <<>>
  BY DEF Nobody, WriterRow, WriterStages

LEMMA RowMoved ==
    ASSUME StoreOK, NEW w \in Writers, NEW at \in WriterStages, WriterTo(w, at)
    PROVE  /\ writer' = [writer EXCEPT ![w] = [writer[w] EXCEPT !.at = at]]
           /\ writer' \in [Writers -> WriterRow] /\ writer[w] \in WriterRow
           /\ writer'[w] = [writer[w] EXCEPT !.at = at] /\ writer'[w] \in WriterRow
           /\ writer'[w].at = at /\ writer'[w].slug = writer[w].slug /\ writer'[w].content = writer[w].content
           /\ writer'[w].pages = writer[w].pages /\ writer'[w].wrote = writer[w].wrote
           /\ \A v \in Writers : v # w => writer'[v] = writer[v]
  <1>1. writer \in [Writers -> WriterRow] /\ writer[w] \in WriterRow
    BY DEF StoreOK
  <1>2. [writer[w] EXCEPT !.at = at] \in WriterRow
    BY <1>1 DEF WriterRow
  <1>3. writer' = [writer EXCEPT ![w] = [writer[w] EXCEPT !.at = at]]
    BY <1>1 DEF WriterTo
  <1> QED
    BY <1>1, <1>2, <1>3 DEF WriterRow

\* A step of one handler that leaves files and locks alone, and of the rows
\* at most fails the run.
LEMMA HandlerMoves ==
    ASSUME ArtifactsAssumption, ArtifactsInv, FilesUnchanged, pageRow' = pageRow,
           runRow' = runRow \/ (runRow' = "failed" /\ runRow = "open"),
           NEW w \in Writers, NEW x \in WriterRow, writer' = [writer EXCEPT ![w] = x], StageOK(w)'
    PROVE  ArtifactsInv'
  <1>1. /\ UNCHANGED <<pageFile, pageLock, runLock, wikiLock, staging, bundle>>
        /\ writer' \in [Writers -> WriterRow] /\ \A v \in Writers : v # w => writer'[v] = writer[v]
    BY DEF FilesUnchanged, ArtifactsInv, StoreOK
  <1>2. StoreOK'
    BY <1>1 DEF ArtifactsInv, StoreOK
  <1>3. FilesKept /\ BundleKept
    BY <1>1 DEF FilesKept, BundleKept
  <1>4. \A v \in Writers : v # w => Elsewhere(v)
    BY <1>1 DEF Elsewhere
  <1> QED
    BY <1>2, <1>3, <1>4, ArtifactsStep

LEMMA HandlerGone ==
    ASSUME ArtifactsAssumption, ArtifactsInv, FilesUnchanged, pageRow' = pageRow,
           runRow' = runRow \/ (runRow' = "failed" /\ runRow = "open"),
           NEW w \in Writers, HandlerEnds(w)
    PROVE  ArtifactsInv'
  <1>1. writer' = [writer EXCEPT ![w] = Nobody] /\ writer'[w] = Nobody
    BY DEF HandlerEnds, ArtifactsInv, StoreOK
  <1>2. StageOK(w)'
    BY <1>1, RowOfNobody DEF StageOK
  <1> QED
    BY <1>1, <1>2, RowOfNobody, HandlerMoves

LEMMA StartHandlerInv ==
    ASSUME ArtifactsAssumption, ArtifactsInv, NEW w \in Writers, NEW j \in Jobs, StartHandler(w, j)
    PROVE  ArtifactsInv'
  <1> DEFINE s == IF j = Finalization THEN CHOOSE t \in Slugs : TRUE ELSE j
             x == [Nobody EXCEPT !.at = "loading", !.job = j, !.slug = s]
  <1>1. s \in Slugs
    BY DEF Jobs, ArtifactsAssumption
  <1> HIDE DEF s
  <1>2. /\ x \in WriterRow /\ x.at = "loading" /\ x.slug \in Slugs /\ x.wrote = 0 /\ x.read = <<>>
    BY <1>1, RowOfNobody DEF WriterRow, WriterStages
  <1>3. writer' = [writer EXCEPT ![w] = x] /\ pageRow' = pageRow /\ runRow' = runRow /\ FilesUnchanged
    BY DEF StartHandler, s
  <1> HIDE DEF x
  <1>4. writer'[w] = x
    BY <1>3 DEF ArtifactsInv, StoreOK
  <1>5. StageOK(w)'
    BY <1>2, <1>4 DEF StageOK, PageParts
  <1> QED
    BY <1>2, <1>3, <1>5, HandlerMoves, Zenon

LEMMA GenerateContentInv ==
    ASSUME ArtifactsAssumption, ArtifactsInv, NEW w \in Writers, NEW c \in Texts, GenerateContent(w, c)
    PROVE  ArtifactsInv'
  <1> DEFINE x == [writer[w] EXCEPT !.at = "saving", !.content = c]
  <1>1. writer \in [Writers -> WriterRow] /\ writer[w] \in WriterRow /\ StageOK(w) /\ writer[w].at = "generating"
    BY DEF ArtifactsInv, StoreOK, GenerateContent, WriterAt
  <1>2. x \in WriterRow /\ x.at = "saving" /\ x.slug = writer[w].slug /\ x.content # NoText
    BY <1>1 DEF WriterRow, WriterStages, ArtifactsAssumption
  <1>3. writer' = [writer EXCEPT ![w] = x] /\ pageRow' = pageRow /\ runRow' = runRow /\ FilesUnchanged
    BY <1>1 DEF GenerateContent
  <1> HIDE DEF x
  <1>4. writer'[w] = x
    BY <1>1, <1>3
  <1>5. StageOK(w)'
    BY <1>1, <1>2, <1>4 DEF StageOK
  <1> QED
    BY <1>2, <1>3, <1>5, HandlerMoves, Zenon

LEMMA HandlerFailsInv ==
    ASSUME ArtifactsAssumption, ArtifactsInv, NEW w \in Writers, SkipContent(w) \/ FailPublication(w) \/ RefuseBundle(w)
    PROVE  ArtifactsInv'
  <1>1. CASE SkipContent(w) \/ FailPublication(w)
    <2>1. /\ FilesUnchanged /\ pageRow' = pageRow /\ HandlerEnds(w)
          /\ runRow' = IF Permitted(w) /\ runRow = "open" THEN "failed" ELSE runRow
      BY <1>1 DEF SkipContent, FailPublication
    <2>2. runRow' = runRow \/ (runRow' = "failed" /\ runRow = "open")
      BY <2>1
    <2> QED
      BY <2>1, <2>2, HandlerGone, Zenon
  <1>2. CASE RefuseBundle(w)
    <2>1. WriterTo(w, "failing") /\ FilesUnchanged /\ pageRow' = pageRow /\ runRow' = runRow /\ StageOK(w) /\ StoreOK
          /\ writer[w].at = "publishing"
      BY <1>2 DEF RefuseBundle, ArtifactsInv, WriterAt
    <2>2. /\ writer' = [writer EXCEPT ![w] = [writer[w] EXCEPT !.at = "failing"]]
          /\ writer'[w] \in WriterRow /\ writer'[w] = [writer[w] EXCEPT !.at = "failing"]
          /\ writer'[w].at = "failing" /\ writer'[w].slug = writer[w].slug
      BY <2>1, RowMoved DEF WriterStages
    <2>3. StageOK(w)'
      BY <2>1, <2>2 DEF StageOK
    <2> QED
      BY <2>1, <2>2, <2>3, HandlerMoves, Zenon
  <1> QED
    BY <1>1, <1>2

\* What LoadPage has read so far is in the files, while the run has not failed.
LEMMA LoadPartInv ==
    ASSUME ArtifactsAssumption, ArtifactsInv, NEW w \in Writers, LoadPart(w)
    PROVE  ArtifactsInv'
  <1> DEFINE x == writer[w]
             n == Len(x.read) + 1
             parts == Append(x.read, pageFile[x.slug][n])
             y == IF Len(parts) < 3 THEN [x EXCEPT !.read = parts]
                  ELSE IF x.job = Finalization THEN AfterGather(w, parts) ELSE AfterLoad(w, parts)
             Text == Texts \cup {NoText}
  <1>1. /\ x \in WriterRow /\ StageOK(w) /\ x.at = "loading" /\ x.slug \in Slugs /\ x.wrote = 0
        /\ x.read \in Seq(Text) /\ Len(x.read) < 3 /\ writer \in [Writers -> WriterRow]
    BY DEF ArtifactsInv, StoreOK, LoadPart, WriterAt, StageOK, WriterRow
  <1>2. n \in PageParts /\ pageFile[x.slug][n] \in Text
    <2>1. n \in PageParts
      BY <1>1 DEF PageParts
    <2>2. pageFile \in [Slugs -> [PageParts -> Text]]
      BY DEF ArtifactsInv, StoreOK
    <2> QED
      BY <1>1, <2>1, <2>2
  <1>3. /\ parts \in Seq(Text) /\ Len(parts) = n /\ parts[n] = pageFile[x.slug][n]
        /\ \A i \in 1..Len(x.read) : parts[i] = x.read[i]
    BY <1>1, <1>2
  <1>4. runRow # "failed" => \A i \in PageParts : i <= Len(parts) /\ parts[i] # NoText => pageFile[x.slug][i] = parts[i]
    <2> SUFFICES ASSUME runRow # "failed", NEW i \in PageParts, i <= Len(parts), parts[i] # NoText
                 PROVE  pageFile[x.slug][i] = parts[i]
      OBVIOUS
    <2>1. i \in Nat /\ i >= 1
      BY DEF PageParts
    <2>2. CASE i = n
      BY <1>3, <2>2
    <2>3. CASE i # n
      <3>1. i <= Len(x.read) /\ i \in 1..Len(x.read)
        BY <1>1, <1>3, <2>1, <2>3
      <3>2. parts[i] = x.read[i]
        BY <1>3, <3>1
      <3> QED
        BY <1>1, <3>1, <3>2 DEF StageOK
    <2> QED
      BY <2>2, <2>3
  <1>5. writer' = [writer EXCEPT ![w] = y] /\ pageRow' = pageRow /\ runRow' = runRow /\ FilesUnchanged
    BY <1>1 DEF LoadPart
  <1>6. pageFile' = pageFile
    BY <1>5 DEF FilesUnchanged
  <1> HIDE DEF parts
  <1>7. CASE Len(parts) < 3
    <2>1. y = [x EXCEPT !.read = parts]
      BY <1>7
    <2> HIDE DEF y
    <2>2. y \in WriterRow /\ y.at = "loading" /\ y.slug = x.slug /\ y.wrote = 0 /\ y.read = parts
      BY <1>1, <1>3, <2>1 DEF WriterRow
    <2>3. writer'[w] = y
      BY <1>1, <1>5
    <2>4. StageOK(w)'
      BY <1>1, <1>4, <1>5, <1>6, <1>7, <2>2, <2>3 DEF StageOK
    <2> QED
      BY <1>5, <2>2, <2>4, HandlerMoves, Zenon
  <1>8. CASE ~(Len(parts) < 3) /\ x.job = Finalization
    <2> DEFINE pages == [x.pages EXCEPT ![x.slug] = parts[1]]
               left == {s \in Slugs : pages[s] = NoText}
               next == IF left = {} THEN x.slug ELSE CHOOSE s \in left : TRUE
               at == IF left = {} THEN "publishing" ELSE "loading"
    <2>1. y = IF ~WholePage(parts) THEN [x EXCEPT !.at = "failing"]
              ELSE [x EXCEPT !.pages = pages, !.read = <<>>, !.at = at, !.slug = next]
      BY <1>8 DEF AfterGather
    <2>2. pages \in [Slugs -> Text]
      BY <1>1, <1>3, <1>8 DEF WriterRow
    <2>3. next \in Slugs /\ at \in {"publishing", "loading"}
      BY <1>1
    <2> HIDE DEF pages, next, at, y
    <2>4. y \in WriterRow /\ y.at \in {"failing", "publishing", "loading"} /\ y.slug \in Slugs /\ y.wrote = 0
          /\ (y.at # "failing" => y.read = <<>>)
      <3>1. CASE ~WholePage(parts)
        BY <1>1, <2>1, <3>1 DEF WriterRow, WriterStages
      <3>2. CASE WholePage(parts)
        <4>1. y = [x EXCEPT !.pages = pages, !.read = <<>>, !.at = at, !.slug = next] /\ <<>> \in Seq(Text)
          BY <2>1, <3>2
        <4> QED
          BY <1>1, <2>2, <2>3, <4>1 DEF WriterRow, WriterStages
      <3> QED
        BY <3>1, <3>2
    <2>5. writer'[w] = y
      BY <1>1, <1>5
    <2>6. StageOK(w)'
      BY <2>4, <2>5 DEF StageOK, PageParts
    <2> QED
      BY <1>5, <2>4, <2>6, HandlerMoves, Zenon
  <1>9. CASE ~(Len(parts) < 3) /\ x.job # Finalization
    <2>1. y = IF WholePage(parts) THEN [x EXCEPT !.at = "completing", !.content = parts[1], !.read = <<>>]
              ELSE [x EXCEPT !.at = "generating", !.read = <<>>]
      BY <1>9 DEF AfterLoad
    <2>2. Len(parts) = 3 /\ parts[1] \in Text
      BY <1>1, <1>3, <1>9
    <2> HIDE DEF y
    <2>3. /\ y \in WriterRow /\ y.at \in {"completing", "generating"} /\ y.slug = x.slug
          /\ y.at = "completing" => WholePage(parts) /\ y.content = parts[1]
      <3>1. <<>> \in Seq(Text)
        OBVIOUS
      <3>2. CASE WholePage(parts)
        <4>1. y = [x EXCEPT !.at = "completing", !.content = parts[1], !.read = <<>>]
          BY <2>1, <3>2
        <4> QED
          BY <1>1, <2>2, <3>1, <3>2, <4>1 DEF WriterRow, WriterStages
      <3>3. CASE ~WholePage(parts)
        <4>1. y = [x EXCEPT !.at = "generating", !.read = <<>>]
          BY <2>1, <3>3
        <4> QED
          BY <1>1, <3>1, <4>1 DEF WriterRow, WriterStages
      <3> QED
        BY <3>2, <3>3
    <2>4. writer'[w] = y
      BY <1>1, <1>5
    <2>5. y.at = "completing" /\ runRow # "failed" => StoredPage(y.slug, y.content)
      BY <1>4, <2>2, <2>3 DEF StoredPage, WholePage, PageParts
    <2>6. StageOK(w)'
      BY <1>1, <1>5, <1>6, <2>3, <2>4, <2>5 DEF StageOK, StoredPage
    <2> QED
      BY <1>5, <2>3, <2>6, HandlerMoves, Zenon
  <1> QED
    BY <1>7, <1>8, <1>9

LEMMA BeginSaveInv ==
    ASSUME ArtifactsAssumption, ArtifactsInv, NEW w \in Writers, BeginSave(w)
    PROVE  ArtifactsInv'
  <1> DEFINE s == writer[w].slug
  <1>1. /\ writer[w].at = "saving" /\ s \in Slugs /\ pageLock[s] = NoOne /\ writer[w].content # NoText
        /\ UNCHANGED <<pageFile, pageRow, runRow, wikiLock, staging, bundle>> /\ StoreOK /\ NoOne \notin Writers
    BY DEF BeginSave, WriterAt, ArtifactsInv, StageOK, ArtifactsAssumption
  <1>2. FilesKept /\ BundleKept
    BY <1>1 DEF FilesKept, BundleKept
  <1>3. CASE Conflicts(s, writer[w].content)
    <2>1. writer' = [writer EXCEPT ![w] = Nobody] /\ UNCHANGED <<pageLock, runLock>>
      BY <1>3 DEF BeginSave, HandlerEnds
    <2>2. /\ writer' \in [Writers -> WriterRow] /\ writer'[w] = Nobody
          /\ \A v \in Writers : v # w => writer'[v] = writer[v]
      BY <1>1, <2>1, RowOfNobody DEF StoreOK
    <2>3. StoreOK'
      BY <1>1, <2>1, <2>2 DEF StoreOK
    <2>4. StageOK(w)' /\ \A v \in Writers : v # w => Elsewhere(v)
      BY <1>1, <2>1, <2>2, RowOfNobody DEF StageOK, Elsewhere
    <2> QED
      BY <1>1, <1>2, <2>3, <2>4, ArtifactsStep
  <1>4. CASE ~Conflicts(s, writer[w].content)
    <2>1. WriterTo(w, "creating") /\ pageLock' = [pageLock EXCEPT ![s] = w] /\ runLock' = runLock \cup {w}
      BY <1>4 DEF BeginSave
    <2>2. /\ writer' \in [Writers -> WriterRow] /\ writer'[w].at = "creating" /\ writer'[w].slug = s
          /\ writer'[w].content = writer[w].content /\ \A v \in Writers : v # w => writer'[v] = writer[v]
      BY <1>1, <2>1, RowMoved DEF WriterStages
    <2>3. /\ pageLock' \in [Slugs -> Writers \cup {NoOne}] /\ pageLock'[s] = w
          /\ \A t \in Slugs : t # s => pageLock'[t] = pageLock[t]
      BY <1>1, <2>1 DEF StoreOK
    <2>4. Retention \in runLock' => Retention \in runLock
      BY <2>1 DEF ArtifactsAssumption
    <2>5. StoreOK'
      BY <1>1, <2>2, <2>3, <2>4 DEF StoreOK
    <2>6. StageOK(w)'
      BY <1>1, <1>4, <2>2, <2>3 DEF StageOK, Conflicts
    <2>7. \A v \in Writers : v # w => Elsewhere(v)
      BY <1>1, <2>2, <2>3 DEF Elsewhere
    <2> QED
      BY <1>1, <1>2, <2>5, <2>6, <2>7, ArtifactsStep
  <1> QED
    BY <1>3, <1>4

\* The file that appears was missing, and the page is the writer's alone.
LEMMA CreateFileInv ==
    ASSUME ArtifactsAssumption, ArtifactsInv, NEW w \in Writers, CreateFile(w)
    PROVE  ArtifactsInv'
  <1> DEFINE s == writer[w].slug
             c == writer[w].content
             absent == {p \in PageParts : pageFile[s][p] = NoText}
             q == CHOOSE p \in absent : \A r \in absent : p <= r
  <1>1. /\ writer[w].at = "creating" /\ s \in Slugs /\ pageLock[s] = w /\ c # NoText /\ c \in Texts \cup {NoText}
        /\ \A p \in PageParts : pageFile[s][p] \in {NoText, c}
        /\ UNCHANGED <<pageRow, runRow, writer, pageLock, runLock, wikiLock, staging, bundle>> /\ StoreOK
        /\ absent # {} /\ pageFile' = [pageFile EXCEPT ![s][q] = c]
    BY DEF CreateFile, WriterAt, ArtifactsInv, StageOK, StoreOK, WriterRow
  <1>2. q \in absent
    <2>1. \E p \in absent : \A r \in absent : p <= r
      BY <1>1 DEF PageParts
    <2> QED
      BY <2>1
  <1>3. q \in PageParts /\ pageFile[s][q] = NoText
    BY <1>2
  <1> HIDE DEF q, absent
  <1>4. /\ pageFile \in [Slugs -> [PageParts -> Texts \cup {NoText}]]
        /\ pageFile' \in [Slugs -> [PageParts -> Texts \cup {NoText}]]
        /\ pageFile'[s][q] = c /\ \A t \in Slugs, p \in PageParts : t # s \/ p # q => pageFile'[t][p] = pageFile[t][p]
    BY <1>1, <1>3 DEF StoreOK
  <1>5. StoreOK'
    BY <1>1, <1>4 DEF StoreOK
  <1>6. FilesKept /\ BundleKept
    BY <1>1, <1>3, <1>4 DEF FilesKept, BundleKept
  <1>7. StageOK(w)'
    BY <1>1, <1>4 DEF StageOK
  <1>8. \A v \in Writers : v # w => Elsewhere(v)
    BY <1>1, <1>4 DEF Elsewhere
  <1> QED
    BY <1>1, <1>5, <1>6, <1>7, <1>8, ArtifactsStep

LEMMA EndSaveInv ==
    ASSUME ArtifactsAssumption, ArtifactsInv, NEW w \in Writers, EndSave(w)
    PROVE  ArtifactsInv'
  <1> DEFINE s == writer[w].slug
  <1>1. /\ writer[w].at = "creating" /\ s \in Slugs /\ pageLock[s] = w /\ writer[w].content # NoText
        /\ \A p \in PageParts : pageFile[s][p] = writer[w].content
        /\ UNCHANGED <<pageFile, pageRow, runRow, wikiLock, staging, bundle>> /\ StoreOK
        /\ WriterTo(w, "completing") /\ pageLock' = [pageLock EXCEPT ![s] = NoOne] /\ runLock' = runLock \ {w}
    BY DEF EndSave, WriterAt, ArtifactsInv, StageOK
  <1>2. /\ writer' \in [Writers -> WriterRow] /\ writer'[w].at = "completing" /\ writer'[w].slug = s
        /\ writer'[w].content = writer[w].content /\ \A v \in Writers : v # w => writer'[v] = writer[v]
    BY <1>1, RowMoved DEF WriterStages
  <1>3. /\ pageLock' \in [Slugs -> Writers \cup {NoOne}]
        /\ \A t \in Slugs : t # s => pageLock'[t] = pageLock[t]
    BY <1>1 DEF StoreOK
  <1>4. StoreOK'
    BY <1>1, <1>2, <1>3 DEF StoreOK
  <1>5. FilesKept /\ BundleKept
    BY <1>1 DEF FilesKept, BundleKept
  <1>6. StageOK(w)'
    BY <1>1, <1>2 DEF StageOK, StoredPage
  <1>7. \A v \in Writers : v # w => Elsewhere(v)
    BY <1>1, <1>2, <1>3 DEF Elsewhere
  <1> QED
    BY <1>1, <1>4, <1>5, <1>6, <1>7, ArtifactsStep

\* What is recorded is what the files hold: the run is open.
LEMMA RecordPageInv ==
    ASSUME ArtifactsAssumption, ArtifactsInv, NEW w \in Writers, RecordPage(w)
    PROVE  ArtifactsInv'
  <1> DEFINE s == writer[w].slug
             c == writer[w].content
             now == Permitted(w) /\ runRow = "open" /\ pageRow[s] = NoText
  <1>1. /\ writer[w].at = "completing" /\ s \in Slugs /\ c \in Texts \cup {NoText} /\ StoreOK /\ runRow' = runRow
        /\ pageRow' = (IF now THEN [pageRow EXCEPT ![s] = c] ELSE pageRow)
        /\ UNCHANGED <<pageFile, pageLock, runLock, wikiLock, staging, bundle>>
    BY DEF RecordPage, WriterAt, ArtifactsInv, StageOK, StoreOK, WriterRow, FilesUnchanged
  <1>2. now => StoredPage(s, c)
    BY <1>1 DEF ArtifactsInv, StageOK
  <1>3. /\ writer' \in [Writers -> WriterRow] /\ writer'[w] = Nobody
        /\ \A v \in Writers : v # w => writer'[v] = writer[v]
    BY <1>1, RowOfNobody DEF RecordPage, HandlerEnds, StoreOK
  <1>4. pageRow' \in [Slugs -> Texts \cup {NoText}] /\ (runRow = "published" => pageRow' = pageRow)
        /\ \A t \in Slugs : pageRow'[t] # NoText => pageRow'[t] = pageRow[t] \/ (t = s /\ pageRow'[t] = c /\ now)
    BY <1>1 DEF StoreOK
  <1> HIDE DEF now
  <1>5. StoreOK'
    BY <1>1, <1>3, <1>4 DEF StoreOK
  <1>6. FilesKept /\ BundleKept
    BY <1>1 DEF FilesKept, BundleKept
  <1>7. \A v \in Writers : StageOK(v)'
    <2>1. StageOK(w)'
      BY <1>3, RowOfNobody DEF StageOK
    <2>2. ASSUME NEW v \in Writers, v # w PROVE StageOK(v)'
      <3>1. Elsewhere(v)
        BY <1>1, <1>3, <2>2 DEF Elsewhere
      <3> QED
        BY <1>6, <3>1, StageKept DEF ArtifactsInv
    <2> QED
      BY <2>1, <2>2
  <1>8. RowsStored'
    BY <1>1, <1>2, <1>4 DEF ArtifactsInv, RowsStored, StoredPage
  <1>9. PublishedWikiIsWhole'
    BY <1>1, <1>4 DEF ArtifactsInv, PublishedWikiIsWhole
  <1> QED
    BY <1>5, <1>7, <1>8, <1>9 DEF ArtifactsInv

LEMMA BeginPublishInv ==
    ASSUME ArtifactsAssumption, ArtifactsInv, NEW w \in Writers, BeginPublish(w)
    PROVE  ArtifactsInv'
  <1>1. /\ writer[w].at = "publishing" /\ wikiLock = NoOne /\ wikiLock' = w /\ WriterTo(w, "bundling")
        /\ staging' = [v \in Writers |-> {}] /\ StoreOK /\ writer[w].wrote = 0 /\ writer[w].slug \in Slugs
        /\ UNCHANGED <<pageFile, pageRow, runRow, pageLock, runLock, bundle>>
        /\ NoOne \notin Writers /\ Retention \notin Writers
    BY DEF BeginPublish, WriterAt, VersionLockFree, CleanStaging, ArtifactsInv, StageOK, ArtifactsAssumption
  <1>2. /\ writer' \in [Writers -> WriterRow] /\ writer'[w].at = "bundling" /\ writer'[w].slug = writer[w].slug
        /\ writer'[w].wrote = 0 /\ \A v \in Writers : v # w => writer'[v] = writer[v]
    BY <1>1, RowMoved DEF WriterStages
  <1>3. StoreOK'
    <2>1. staging' = [v \in Writers |-> staging'[v]]
      BY <1>1
    <2> QED
      BY <1>1, <1>2, <2>1 DEF StoreOK
  <1>4. FilesKept /\ BundleKept
    BY <1>1 DEF FilesKept, BundleKept
  <1>5. StageOK(w)'
    <2>1. staging'[w] = {} /\ {BundleFiles(writer'[w].pages)[i] : i \in 1..0} = {}
      BY <1>1
    <2>2. 0 <= Len(BundleFiles(writer'[w].pages))
      BY BundleFacts
    <2> QED
      BY <1>1, <1>2, <2>1, <2>2 DEF StageOK
  <1>6. \A v \in Writers : v # w => Elsewhere(v)
    BY <1>1, <1>2 DEF Elsewhere, StoreOK
  <1> QED
    BY <1>1, <1>3, <1>4, <1>5, <1>6, ArtifactsStep

LEMMA WriteBundleInv ==
    ASSUME ArtifactsAssumption, ArtifactsInv, NEW w \in Writers, WriteBundle(w)
    PROVE  ArtifactsInv'
  <1> DEFINE x == writer[w]
             all == BundleFiles(x.pages)
             y == [x EXCEPT !.wrote = @ + 1]
  <1>1. /\ x.at = "bundling" /\ x \in WriterRow /\ x.wrote \in Nat /\ x.wrote < Len(all) /\ wikiLock = w /\ StoreOK
        /\ staging[w] = {all[i] : i \in 1..x.wrote} /\ x.slug \in Slugs
        /\ writer' = [writer EXCEPT ![w] = y] /\ staging' = [staging EXCEPT ![w] = @ \cup {all[x.wrote + 1]}]
        /\ UNCHANGED <<pageFile, pageRow, runRow, pageLock, runLock, wikiLock, bundle>>
    BY DEF WriteBundle, WriterAt, ArtifactsInv, StageOK, StoreOK, WriterRow
  <1>2. y \in WriterRow /\ y.at = "bundling" /\ y.slug = x.slug /\ y.wrote = x.wrote + 1 /\ y.pages = x.pages
    BY SMTT(30), <1>1 DEF WriterRow
  <1> HIDE DEF y
  <1>3. /\ writer' \in [Writers -> WriterRow] /\ writer'[w] = y /\ \A v \in Writers : v # w => writer'[v] = writer[v]
    BY <1>1, <1>2 DEF StoreOK
  <1>4. /\ staging' = [v \in Writers |-> staging'[v]] /\ staging'[w] = staging[w] \cup {all[x.wrote + 1]}
        /\ \A v \in Writers : v # w => staging'[v] = staging[v]
    <2> DEFINE more == staging[w] \cup {all[x.wrote + 1]}
    <2>1. staging = [v \in Writers |-> staging[v]] /\ staging' = [staging EXCEPT ![w] = more]
      BY <1>1 DEF StoreOK
    <2> HIDE DEF more
    <2>2. staging' = [v \in Writers |-> IF v = w THEN more ELSE staging[v]]
      BY <2>1
    <2> QED
      BY <2>2 DEF more
  <1>5. StoreOK'
    BY <1>1, <1>3, <1>4 DEF StoreOK
  <1>6. FilesKept /\ BundleKept
    BY <1>1 DEF FilesKept, BundleKept
  <1>7. StageOK(w)'
    <2> HIDE DEF all
    <2>1. 1..(x.wrote + 1) = (1..x.wrote) \cup {x.wrote + 1}
      BY <1>1
    <2>2. {all[i] : i \in 1..(x.wrote + 1)} = {all[i] : i \in 1..x.wrote} \cup {all[x.wrote + 1]}
      BY <2>1, Zenon
    <2>3. staging'[w] = {all[i] : i \in 1..(x.wrote + 1)}
      BY <1>1, <1>4, <2>2
    <2>4. Len(all) \in Nat
      BY BundleFacts DEF all
    <2>5. x.wrote + 1 <= Len(all)
      BY <1>1, <2>4
    <2> QED
      BY <1>1, <1>2, <1>3, <2>3, <2>5 DEF StageOK, all
  <1>8. \A v \in Writers : v # w => Elsewhere(v)
    BY <1>1, <1>3, <1>4 DEF Elsewhere
  <1> QED
    BY <1>1, <1>5, <1>6, <1>7, <1>8, ArtifactsStep

\* The published directory is the bundle of whoever goes on to record it.
LEMMA RenameBundleInv ==
    ASSUME ArtifactsAssumption, ArtifactsInv, NEW w \in Writers, RenameBundle(w)
    PROVE  ArtifactsInv'
  <1> DEFINE x == writer[w]
             at == IF bundle = {} \/ SameBundle(bundle, x.pages) THEN "recording" ELSE "failing"
  <1>1. /\ x.at = "bundling" /\ x.wrote = Len(BundleFiles(x.pages)) /\ wikiLock = w /\ StoreOK /\ x.slug \in Slugs
        /\ staging[w] = {BundleFiles(x.pages)[i] : i \in 1..x.wrote}
        /\ staging' = [staging EXCEPT ![w] = {}] /\ wikiLock' = NoOne
        /\ UNCHANGED <<pageFile, pageRow, runRow, pageLock, runLock>>
    BY DEF RenameBundle, WriterAt, ArtifactsInv, StageOK
  <1>2. WriterTo(w, at) /\ bundle' = (IF bundle = {} THEN staging[w] ELSE bundle)
    BY DEF RenameBundle
  <1>3. SameBundle(staging[w], x.pages)
    BY <1>1, BundleFacts DEF SameBundle
  <1>4. at = "recording" => SameBundle(bundle', x.pages)
    BY <1>2, <1>3
  <1>5. at \in {"recording", "failing"}
    OBVIOUS
  <1> HIDE DEF at
  <1>6. /\ writer' \in [Writers -> WriterRow] /\ writer'[w].at = at /\ writer'[w].slug = x.slug
        /\ writer'[w].pages = x.pages /\ \A v \in Writers : v # w => writer'[v] = writer[v]
    BY <1>1, <1>2, <1>5, RowMoved DEF WriterStages
  <1>7. staging' = [v \in Writers |-> staging'[v]] /\ \A v \in Writers : v # w => staging'[v] = staging[v]
    <2>1. staging' = [v \in Writers |-> IF v = w THEN {} ELSE staging[v]]
      BY <1>1 DEF StoreOK
    <2> QED
      BY <2>1
  <1>8. StoreOK'
    BY <1>1, <1>6, <1>7 DEF StoreOK, NoOne, Retention
  <1>9. FilesKept /\ BundleKept
    BY <1>1, <1>2 DEF FilesKept, BundleKept
  <1>10. StageOK(w)'
    BY <1>1, <1>4, <1>5, <1>6 DEF StageOK
  <1>11. \A v \in Writers : v # w => Elsewhere(v)
    BY <1>1, <1>6, <1>7 DEF Elsewhere
  <1> QED
    BY <1>1, <1>8, <1>9, <1>10, <1>11, ArtifactsStep

LEMMA RecordWikiInv ==
    ASSUME ArtifactsAssumption, ArtifactsInv, NEW w \in Writers, RecordWiki(w)
    PROVE  ArtifactsInv'
  <1>1. /\ writer[w].at = "recording" /\ StoreOK /\ StageOK(w) /\ writer[w].slug \in Slugs /\ pageRow' = pageRow
        /\ FilesUnchanged /\ UNCHANGED <<pageFile, pageLock, runLock, wikiLock, staging, bundle>>
    BY DEF RecordWiki, WriterAt, ArtifactsInv, FilesUnchanged, StageOK
  <1>2. CASE Permitted(w) /\ runRow = "open" /\ writer[w].pages = pageRow
    <2>1. runRow' = "published" /\ HandlerEnds(w) /\ runRow = "open"
      BY <1>2 DEF RecordWiki
    <2>2. /\ writer' \in [Writers -> WriterRow] /\ writer'[w] = Nobody
          /\ \A v \in Writers : v # w => writer'[v] = writer[v]
      BY <1>1, <2>1, RowOfNobody DEF HandlerEnds, StoreOK
    <2>3. StoreOK'
      BY <1>1, <2>1, <2>2 DEF StoreOK
    <2>4. FilesKept /\ BundleKept
      BY <1>1, <2>1 DEF FilesKept, BundleKept
    <2>5. \A v \in Writers : StageOK(v)'
      <3>1. StageOK(w)'
        BY <2>2, RowOfNobody DEF StageOK
      <3>2. ASSUME NEW v \in Writers, v # w PROVE StageOK(v)'
        <4>1. Elsewhere(v)
          BY <1>1, <2>2, <3>2 DEF Elsewhere
        <4> QED
          BY <2>4, <4>1, StageKept DEF ArtifactsInv
      <3> QED
        BY <3>1, <3>2
    <2>6. RowsStored'
      BY <1>1, <2>4, RowsKept DEF ArtifactsInv
    <2>7. PublishedWikiIsWhole'
      BY <1>1, <1>2 DEF PublishedWikiIsWhole, StageOK
    <2> QED
      BY <2>3, <2>5, <2>6, <2>7 DEF ArtifactsInv
  <1>3. CASE ~(Permitted(w) /\ runRow = "open" /\ writer[w].pages = pageRow)
    <2>1. runRow' = runRow /\ WriterTo(w, "failing")
      BY <1>3 DEF RecordWiki
    <2>2. /\ writer' = [writer EXCEPT ![w] = [writer[w] EXCEPT !.at = "failing"]]
          /\ writer'[w] \in WriterRow /\ writer'[w] = [writer[w] EXCEPT !.at = "failing"]
          /\ writer'[w].at = "failing" /\ writer'[w].slug = writer[w].slug
      BY <1>1, <2>1, RowMoved DEF WriterStages
    <2>3. StageOK(w)'
      BY <1>1, <2>2 DEF StageOK
    <2> QED
      BY <1>1, <2>1, <2>2, <2>3, HandlerMoves, Zenon
  <1> QED
    BY <1>2, <1>3

\* A killed process frees only its own locks.
LEMMA KillWriterInv ==
    ASSUME ArtifactsAssumption, ArtifactsInv, NEW w \in Writers, KillWriter(w)
    PROVE  ArtifactsInv'
  <1>1. /\ StoreOK /\ UNCHANGED <<pageFile, pageRow, runRow, staging, bundle>> /\ HandlerEnds(w)
        /\ pageLock' = [s \in Slugs |-> IF pageLock[s] = w THEN NoOne ELSE pageLock[s]]
        /\ runLock' = runLock \ {w} /\ wikiLock' = (IF wikiLock = w THEN NoOne ELSE wikiLock)
    BY DEF KillWriter, ArtifactsInv
  <1>2. /\ writer' \in [Writers -> WriterRow] /\ writer'[w] = Nobody
        /\ \A v \in Writers : v # w => writer'[v] = writer[v]
    BY <1>1, RowOfNobody DEF HandlerEnds, StoreOK
  <1>3. pageLock' \in [Slugs -> Writers \cup {NoOne}] /\ wikiLock' \in Writers \cup {NoOne, Retention}
        /\ (wikiLock' = Retention => wikiLock = Retention)
    BY <1>1 DEF StoreOK, NoOne, Retention
  <1>4. StoreOK'
    BY <1>1, <1>2, <1>3 DEF StoreOK
  <1>5. FilesKept /\ BundleKept
    BY <1>1 DEF FilesKept, BundleKept
  <1>6. StageOK(w)'
    BY <1>2, RowOfNobody DEF StageOK
  <1>7. \A v \in Writers : v # w => Elsewhere(v)
    BY <1>1, <1>2 DEF Elsewhere
  <1> QED
    BY <1>1, <1>4, <1>5, <1>6, <1>7, ArtifactsStep

\* Retention of pages comes after the failure of the run, that of a wiki after
\* its retirement.
LEMMA DiscardRunInv ==
    ASSUME ArtifactsAssumption, ArtifactsInv,
           RetireWiki \/ BeginDiscardRun \/ EndDiscardRun \/ \E s \in Slugs, p \in PageParts : RemovePageFile(s, p)
    PROVE  ArtifactsInv'
  <1>1. StoreOK /\ UNCHANGED <<pageRow, writer, pageLock, wikiLock, staging, bundle>>
    BY DEF ArtifactsInv, RetireWiki, FilesUnchanged, BeginDiscardRun, EndDiscardRun, RemovePageFile
  <1>2. CASE RetireWiki
    <2>1. runRow = "published" /\ runRow' = "retired" /\ UNCHANGED <<pageFile, runLock>>
      BY <1>2 DEF RetireWiki, FilesUnchanged
    <2>2. StoreOK' /\ FilesKept /\ BundleKept
      BY <1>1, <2>1 DEF StoreOK, FilesKept, BundleKept
    <2>3. \A v \in Writers : Elsewhere(v)
      BY <1>1, <2>1 DEF Elsewhere
    <2> QED
      BY <1>1, <2>1, <2>2, <2>3, ArtifactsStep
  <1>3. CASE BeginDiscardRun \/ EndDiscardRun
    <2>1. runRow' = runRow /\ pageFile' = pageFile /\ (Retention \in runLock' => runRow = "failed")
      BY <1>3 DEF BeginDiscardRun, EndDiscardRun
    <2>2. StoreOK' /\ FilesKept /\ BundleKept
      BY <1>1, <2>1 DEF StoreOK, FilesKept, BundleKept
    <2>3. \A v \in Writers : Elsewhere(v)
      BY <1>1, <2>1 DEF Elsewhere
    <2> QED
      BY <1>1, <2>1, <2>2, <2>3, ArtifactsStep
  <1>4. ASSUME NEW s \in Slugs, NEW p \in PageParts, RemovePageFile(s, p) PROVE ArtifactsInv'
    <2>1. runRow = "failed" /\ runRow' = runRow /\ runLock' = runLock /\ pageFile' = [pageFile EXCEPT ![s][p] = NoText]
      BY <1>1, <1>4 DEF RemovePageFile, StoreOK
    <2>2. /\ pageFile' \in [Slugs -> [PageParts -> Texts \cup {NoText}]]
          /\ \A t \in Slugs, q \in PageParts : pageFile'[t][q] \in {pageFile[t][q], NoText}
      BY <1>1, <2>1 DEF StoreOK
    <2>3. StoreOK' /\ FilesKept /\ BundleKept
      BY <1>1, <2>1, <2>2 DEF StoreOK, FilesKept, BundleKept
    <2>4. \A v \in Writers : Elsewhere(v)
      BY <1>1, <2>2 DEF Elsewhere
    <2> QED
      BY <1>1, <2>1, <2>3, <2>4, ArtifactsStep
  <1> QED
    BY <1>2, <1>3, <1>4

LEMMA DiscardWikiInv ==
    ASSUME ArtifactsAssumption, ArtifactsInv, BeginDiscardWiki \/ RemoveBundleFile
    PROVE  ArtifactsInv'
  <1>1. /\ StoreOK /\ UNCHANGED <<pageFile, pageRow, runRow, writer, pageLock, runLock>>
        /\ NoOne \notin Writers /\ Retention \notin Writers
    BY DEF ArtifactsInv, BeginDiscardWiki, RemoveBundleFile, ArtifactsAssumption
  <1>2. runRow = "retired" /\ wikiLock \in {NoOne, Retention} /\ wikiLock' \in {NoOne, Retention}
    BY <1>1 DEF BeginDiscardWiki, RemoveBundleFile, VersionLockFree, StoreOK
  <1>3. staging' = [v \in Writers |-> staging'[v]]
    BY <1>1 DEF BeginDiscardWiki, RemoveBundleFile, CleanStaging, StoreOK
  <1>4. StoreOK' /\ FilesKept /\ BundleKept
    BY <1>1, <1>2, <1>3 DEF StoreOK, FilesKept, BundleKept
  <1>5. \A v \in Writers : Elsewhere(v)
    BY <1>1, <1>2 DEF Elsewhere
  <1> QED
    BY <1>1, <1>2, <1>4, <1>5, ArtifactsStep

LEMMA ArtifactsNextInv ==
    ASSUME ArtifactsAssumption, ArtifactsInv, [ArtifactsNext]_artifactVars
    PROVE  ArtifactsInv'
  <1>1. CASE UNCHANGED artifactVars
    BY <1>1 DEF artifactVars, ArtifactsInv, StoreOK, RowsStored, PublishedWikiIsWhole, StageOK, StoredPage
  <1>2. ASSUME NEW w \in Writers, WriterStep(w) PROVE ArtifactsInv'
    BY <1>2, LoadPartInv, BeginSaveInv, CreateFileInv, EndSaveInv, RecordPageInv, BeginPublishInv, WriteBundleInv,
       RenameBundleInv, RecordWikiInv, HandlerFailsInv, GenerateContentInv DEF WriterStep
  <1>3. ASSUME NEW w \in Writers, SkipContent(w) \/ RefuseBundle(w) \/ KillWriter(w) PROVE ArtifactsInv'
    BY <1>3, HandlerFailsInv, KillWriterInv
  <1>4. ASSUME NEW w \in Writers, NEW j \in Jobs, StartHandler(w, j) PROVE ArtifactsInv'
    BY <1>4, StartHandlerInv
  <1>5. CASE RetireWiki \/ BeginDiscardRun \/ EndDiscardRun \/ \E s \in Slugs, p \in PageParts : RemovePageFile(s, p)
    BY <1>5, DiscardRunInv
  <1>6. CASE BeginDiscardWiki \/ RemoveBundleFile
    BY <1>6, DiscardWikiInv
  <1> QED
    BY <1>1, <1>2, <1>3, <1>4, <1>5, <1>6 DEF ArtifactsNext

\* What the database records of a page is in its files, and a published wiki
\* is the whole bundle of its pages, for any number of pages, attempts, killed
\* processes and handlers without a lease (SavePage, LoadPage, CompletePage,
\* WikiStore.Publish, DiscardRun, Discard).
THEOREM ArtifactsWhole == ASSUME ArtifactsAssumption PROVE ArtifactsSpec => []ArtifactsAreWhole
  <1>1. ArtifactsInit => ArtifactsInv
    BY ArtifactsInitInv
  <1>2. ArtifactsInv /\ [ArtifactsNext]_artifactVars => ArtifactsInv'
    BY ArtifactsNextInv
  <1>3. ArtifactsInv => ArtifactsAreWhole
    BY DEF ArtifactsInv, RowsStored, StoredPage, ArtifactsAreWhole, RecordedPageIsStored
  <1> QED
    BY <1>1, <1>2, <1>3, PTL DEF ArtifactsSpec

-----------------------------------------------------------------------------
(* The mirror of a repository and the snapshots that are taken of it. *)

\* A nonempty set of naturals has a least element.
LEMMA LeastNatural ==
    ASSUME NEW T \in SUBSET Nat, T # {}
    PROVE  \E x \in T : \A y \in T : x <= y
  <1> DEFINE R == {ss \in Nat \X Nat : ss[1] < ss[2]}
  <1>1. IsWellFoundedOn(R, Nat)
    BY NatLessThanWellFounded, Zenon DEF OpToRel
  <1>2. \A x, y \in Nat : y < x => <<y, x>> \in R
    OBVIOUS
  <1> HIDE DEF R
  <1>3. PICK x \in T : \A y \in T : ~(<<y, x>> \in R)
    BY <1>1, WFMin, Zenon
  <1>4. \A y \in T : ~(y < x)
    BY <1>2, <1>3
  <1> QED
    BY <1>4

-----------------------------------------------------------------------------
(***************************************************************************)
(* The matching of patterns.  Matches runs an automaton over the segments  *)
(* of a path, Covers asks for a way to lay them over the pattern.  That    *)
(* they agree is shown for every prefix of the path: a state is reached    *)
(* exactly when the prefix can be laid over what comes before it.          *)
(***************************************************************************)
\* A segment of a path or a pattern.
Segment == STRING \cup {"**"}

\* The automaton's states after each number of segments, as a function of those
\* before.
StatesAfter(pattern, path, g, k) ==
    IF k = 0 THEN Closure(pattern, {1}) ELSE Follow(pattern, g[k - 1], path[k])

\* The recursive function exists, as its values are defined one after another.
LEMMA AfterExists ==
    ASSUME NEW pattern, NEW path, NEW n \in Nat
    PROVE  \E g : g = [k \in 0..n |-> StatesAfter(pattern, path, g, k)]
  <1> DEFINE Is(m, g) == g = [k \in 0..m |-> StatesAfter(pattern, path, g, k)]
             T == {m \in Nat : ~ \E g : Is(m, g)}
  <1>1. SUFFICES ASSUME T # {} PROVE FALSE
    OBVIOUS
  <1>2. PICK x \in T : \A y \in T : x <= y
    <2>1. T \in SUBSET Nat
      OBVIOUS
    <2> HIDE DEF T
    <2> QED
      BY <1>1, <2>1, LeastNatural
  <1>3. x # 0
    <2> DEFINE g == [k \in 0..0 |-> Closure(pattern, {1})]
    <2>1. Is(0, g)
      BY DEF StatesAfter
    <2> QED
      BY <2>1
  <1>4. PICK g : Is(x - 1, g)
    BY <1>2, <1>3
  <1> DEFINE h == [k \in 0..x |-> IF k < x THEN g[k] ELSE Follow(pattern, g[x - 1], path[x])]
  <1>5. ASSUME NEW k \in 0..x PROVE h[k] = StatesAfter(pattern, path, h, k)
    <2>1. k \in Nat /\ x \in Nat
      OBVIOUS
    <2>2. CASE k = x
      BY <1>3, <2>1, <2>2 DEF StatesAfter
    <2>3. CASE k < x
      <3>1. g[k] = StatesAfter(pattern, path, g, k)
        BY <1>4, <2>1, <2>3
      <3>2. k # 0 => h[k - 1] = g[k - 1]
        BY <2>1, <2>3
      <3>3. h[k] = g[k]
        BY <2>3
      <3> HIDE DEF h
      <3> QED
        BY <3>1, <3>2, <3>3 DEF StatesAfter
    <2> QED
      BY <2>1, <2>2, <2>3
  <1>6. Is(x, h)
    <2>1. h = [k \in 0..x |-> h[k]]
      OBVIOUS
    <2> HIDE DEF h
    <2> QED
      BY <1>5, <2>1, Zenon
  <1> QED
    BY <1>6

\* The recursive function is what its definition says.
LEMMA AfterIs ==
    ASSUME NEW pattern, NEW path, Len(path) \in Nat, NEW k \in 0..Len(path)
    PROVE  After(pattern, path)[k] = StatesAfter(pattern, path, After(pattern, path), k)
  <1> DEFINE Is(g) == g = [i \in 0..Len(path) |-> StatesAfter(pattern, path, g, i)]
  <1>1. After(pattern, path) = CHOOSE g : Is(g)
    BY Zenon DEF After, StatesAfter
  <1>2. \E g : Is(g)
    BY AfterExists, Zenon
  <1> HIDE DEF Is
  <1>3. Is(CHOOSE g : Is(g))
    BY <1>2, Zenon
  <1>4. Is(After(pattern, path))
    BY <1>1, <1>3, Zenon
  <1>5. After(pattern, path) = [i \in 0..Len(path) |-> StatesAfter(pattern, path, After(pattern, path), i)]
    BY <1>4, Zenon DEF Is
  <1> HIDE DEF Is
  <1> DEFINE F(i) == StatesAfter(pattern, path, After(pattern, path), i)
  <1> HIDE DEF F
  <1>6. After(pattern, path) = [i \in 0..Len(path) |-> F(i)]
    BY <1>5, Zenon DEF F
  <1> QED
    BY <1>6 DEF F

-----------------------------------------------------------------------------
\* The first k segments are laid over the pattern before position j, and all of
\* the pattern before j but ** is used.
Laid(pattern, path, k, j, lay) ==
    /\ lay \in [1..k -> 1..Len(pattern)]
    /\ \A i, m \in 1..k : i < m => lay[i] < lay[m] \/ (lay[i] = lay[m] /\ pattern[lay[i]] = "**")
    /\ \A i \in 1..k : pattern[lay[i]] = "**" \/ SegmentMatches(pattern[lay[i]], path[i])
    /\ \A i \in 1..k : lay[i] < j \/ (lay[i] = j /\ pattern[j] = "**")
    /\ \A m \in 1..Len(pattern) : m < j => pattern[m] = "**" \/ \E i \in 1..k : lay[i] = m

Reaches(pattern, path, k) ==
    \A j \in 1..Len(pattern) + 1 : j \in After(pattern, path)[k] <=> \E lay : Laid(pattern, path, k, j, lay)

\* Before the first segment, the states are what leading ** may leave out.
LEMMA ReachesNone ==
    ASSUME NEW pattern \in Seq(Segment), NEW path \in Seq(Segment)
    PROVE  Reaches(pattern, path, 0)
  <1>1. After(pattern, path)[0] = Closure(pattern, {1})
    <2>1. Len(path) \in Nat /\ 0 \in 0..Len(path)
      OBVIOUS
    <2> QED
      BY <2>1, AfterIs DEF StatesAfter
  <1>2. ASSUME NEW j \in 1..Len(pattern) + 1
        PROVE  j \in After(pattern, path)[0] <=> \E lay : Laid(pattern, path, 0, j, lay)
    <2>0. Len(pattern) \in Nat
      OBVIOUS
    <2>1. j \in Closure(pattern, {1}) <=> \A k \in 1..j - 1 : pattern[k] = "**"
      BY <2>0 DEF Closure
    <2>2. ASSUME \A k \in 1..j - 1 : pattern[k] = "**" PROVE \E lay : Laid(pattern, path, 0, j, lay)
      <3> DEFINE lay == [i \in 1..0 |-> 1]
      <3>1. lay \in [1..0 -> 1..Len(pattern)] /\ \A i \in 1..0 : FALSE
        OBVIOUS
      <3> HIDE DEF lay
      <3>2. \A m \in 1..Len(pattern) : m < j => pattern[m] = "**"
        BY <2>0, <2>2
      <3>3. Laid(pattern, path, 0, j, lay)
        BY <3>1, <3>2 DEF Laid
      <3> QED
        BY <3>3
    <2>3. ASSUME NEW lay, Laid(pattern, path, 0, j, lay) PROVE \A k \in 1..j - 1 : pattern[k] = "**"
      BY <2>0, <2>3 DEF Laid
    <2> QED
      BY <1>1, <2>1, <2>2, <2>3
  <1> QED
    BY <1>2 DEF Reaches

\* A state is followed over a segment, and the pattern up to the next one left
\* out.
LEMMA LaidFurther ==
    ASSUME NEW pattern \in Seq(Segment), NEW path \in Seq(Segment), NEW k \in 0..Len(path) - 1,
           NEW i \in 1..Len(pattern), NEW j \in 1..Len(pattern) + 1, NEW lay, Laid(pattern, path, k, i, lay),
           \/ pattern[i] = "**" /\ i <= j
           \/ pattern[i] # "**" /\ i < j /\ SegmentMatches(pattern[i], path[k + 1]),
           \A m \in i + 1..j - 1 : pattern[m] = "**"
    PROVE  \E more : Laid(pattern, path, k + 1, j, more)
  <1> DEFINE more == [t \in 1..k + 1 |-> IF t = k + 1 THEN i ELSE lay[t]]
  <1>0. Len(pattern) \in Nat /\ Len(path) \in Nat /\ k \in Nat /\ i \in Nat /\ j \in Nat
    OBVIOUS
  <1>1. lay \in [1..k -> 1..Len(pattern)]
    BY DEF Laid
  <1>2. more \in [1..k + 1 -> 1..Len(pattern)]
    BY <1>0, <1>1
  <1>3. more[k + 1] = i /\ \A t \in 1..k : more[t] = lay[t] /\ lay[t] \in 1..Len(pattern)
    BY <1>0, <1>1
  <1> HIDE DEF more
  <1>4. \A t \in 1..k : more[t] < i \/ (more[t] = i /\ pattern[i] = "**")
    BY <1>3 DEF Laid
  <1>5. \A t, m \in 1..k + 1 :
          t < m => more[t] < more[m] \/ (more[t] = more[m] /\ pattern[more[t]] = "**")
    <2> SUFFICES ASSUME NEW t \in 1..k + 1, NEW m \in 1..k + 1, t < m
                 PROVE  more[t] < more[m] \/ (more[t] = more[m] /\ pattern[more[t]] = "**")
      OBVIOUS
    <2>1. t \in 1..k
      BY <1>0
    <2>2. CASE m = k + 1
      BY <1>3, <1>4, <2>1, <2>2
    <2>3. CASE m \in 1..k
      BY <1>3, <2>1, <2>3 DEF Laid
    <2> QED
      BY <1>0, <2>2, <2>3
  <1>6. \A t \in 1..k + 1 : pattern[more[t]] = "**" \/ SegmentMatches(pattern[more[t]], path[t])
    <2> SUFFICES ASSUME NEW t \in 1..k + 1
                 PROVE  pattern[more[t]] = "**" \/ SegmentMatches(pattern[more[t]], path[t])
      OBVIOUS
    <2>1. CASE t = k + 1
      BY <1>3, <2>1
    <2>2. CASE t \in 1..k
      BY <1>3, <2>2 DEF Laid
    <2> QED
      BY <1>0, <2>1, <2>2
  <1>7. \A t \in 1..k + 1 : more[t] < j \/ (more[t] = j /\ pattern[j] = "**")
    <2> SUFFICES ASSUME NEW t \in 1..k + 1
                 PROVE  more[t] < j \/ (more[t] = j /\ pattern[j] = "**")
      OBVIOUS
    <2>1. more[t] < i \/ more[t] = i
      BY <1>0, <1>3, <1>4
    <2>2. more[t] \in Nat
      BY <1>0, <1>2
    <2> QED
      BY <1>0, <2>1, <2>2
  <1>8. \A m \in 1..Len(pattern) : m < j => pattern[m] = "**" \/ \E t \in 1..k + 1 : more[t] = m
    <2> SUFFICES ASSUME NEW m \in 1..Len(pattern), m < j, pattern[m] # "**"
                 PROVE  \E t \in 1..k + 1 : more[t] = m
      OBVIOUS
    <2>1. CASE m < i
      <3>1. PICK t \in 1..k : lay[t] = m
        BY <2>1 DEF Laid
      <3> QED
        BY <1>0, <1>3, <3>1
    <2>2. CASE m = i
      BY <1>0, <1>3, <2>2
    <2>3. CASE m > i
      BY <1>0, <2>3
    <2> QED
      BY <1>0, <2>1, <2>2, <2>3
  <1>9. Laid(pattern, path, k + 1, j, more)
    BY <1>2, <1>5, <1>6, <1>7, <1>8 DEF Laid
  <1> QED
    BY <1>9

\* The last segment of a prefix is laid somewhere, the others before it.
LEMMA LaidBefore ==
    ASSUME NEW pattern \in Seq(Segment), NEW path \in Seq(Segment), NEW k \in 0..Len(path) - 1,
           NEW j \in 1..Len(pattern) + 1, NEW lay, Laid(pattern, path, k + 1, j, lay)
    PROVE  \E i \in 1..Len(pattern) :
             /\ \E less : Laid(pattern, path, k, i, less)
             /\ \/ pattern[i] = "**" /\ i <= j
                \/ pattern[i] # "**" /\ i < j /\ SegmentMatches(pattern[i], path[k + 1])
             /\ \A m \in i + 1..j - 1 : pattern[m] = "**"
  <1> DEFINE i == lay[k + 1]
             less == [t \in 1..k |-> lay[t]]
  <1>0. Len(pattern) \in Nat /\ Len(path) \in Nat /\ k \in Nat /\ j \in Nat /\ k + 1 \in 1..k + 1
    OBVIOUS
  <1>1. lay \in [1..k + 1 -> 1..Len(pattern)]
    BY DEF Laid
  <1>2. i \in 1..Len(pattern) /\ i \in Nat
    BY <1>0, <1>1
  <1>3. less \in [1..k -> 1..Len(pattern)]
    BY <1>0, <1>1
  <1>4. \A t \in 1..k : less[t] = lay[t] /\ t \in 1..k + 1 /\ t < k + 1 /\ lay[t] \in 1..Len(pattern)
    BY <1>0, <1>1
  <1> HIDE DEF less
  <1>5. \A t \in 1..k : lay[t] < i \/ (lay[t] = i /\ pattern[i] = "**")
    BY <1>0, <1>4 DEF Laid
  <1>6. \A m \in 1..Len(pattern) : m < i => pattern[m] = "**" \/ \E t \in 1..k : less[t] = m
    <2> SUFFICES ASSUME NEW m \in 1..Len(pattern), m < i, pattern[m] # "**" PROVE \E t \in 1..k : less[t] = m
      OBVIOUS
    <2>1. m < j
      <3>1. i < j \/ i = j
        BY <1>0 DEF Laid
      <3> QED
        BY <1>0, <1>2, <3>1
    <2>2. PICK t \in 1..k + 1 : lay[t] = m
      BY <2>1 DEF Laid
    <2>3. t # k + 1
      BY <1>2, <2>2
    <2>4. t \in 1..k
      BY <1>0, <2>3
    <2> QED
      BY <1>4, <2>2, <2>4
  <1>7. Laid(pattern, path, k, i, less)
    <2>1. \A t, m \in 1..k : t < m => less[t] < less[m] \/ (less[t] = less[m] /\ pattern[less[t]] = "**")
      BY <1>4 DEF Laid
    <2>2. \A t \in 1..k : pattern[less[t]] = "**" \/ SegmentMatches(pattern[less[t]], path[t])
      BY <1>4 DEF Laid
    <2> QED
      BY <1>3, <1>4, <1>5, <1>6, <2>1, <2>2 DEF Laid
  <1>8. \/ pattern[i] = "**" /\ i <= j
        \/ pattern[i] # "**" /\ i < j /\ SegmentMatches(pattern[i], path[k + 1])
    BY <1>0, <1>2 DEF Laid
  <1>9. \A m \in i + 1..j - 1 : pattern[m] = "**"
    <2> SUFFICES ASSUME NEW m \in i + 1..j - 1, pattern[m] # "**" PROVE FALSE
      OBVIOUS
    <2>1. m \in 1..Len(pattern) /\ m < j /\ i < m
      BY <1>0, <1>2
    <2>2. PICK t \in 1..k + 1 : lay[t] = m
      BY <2>1 DEF Laid
    <2>3. CASE t = k + 1
      BY <1>2, <2>1, <2>2, <2>3
    <2>4. CASE t \in 1..k
      BY <1>2, <1>5, <2>1, <2>2, <2>4
    <2> QED
      BY <1>0, <2>3, <2>4
  <1> QED
    BY <1>2, <1>7, <1>8, <1>9

\* What one segment does to the states.
LEMMA FollowIs ==
    ASSUME NEW pattern \in Seq(Segment), NEW states, states \subseteq 1..Len(pattern) + 1, NEW value,
           NEW j \in 1..Len(pattern) + 1
    PROVE  j \in Follow(pattern, states, value) <=>
             \E i \in states : /\ i <= Len(pattern)
                               /\ \/ pattern[i] = "**" /\ i <= j
                                  \/ pattern[i] # "**" /\ i < j /\ SegmentMatches(pattern[i], value)
                               /\ \A m \in i + 1..j - 1 : pattern[m] = "**"
  <1> DEFINE A == {i \in states : i <= Len(pattern) /\ pattern[i] = "**"}
             B == {i + 1 : i \in {k \in states : k <= Len(pattern) /\ pattern[k] # "**"
                                                  /\ SegmentMatches(pattern[k], value)}}
  <1>0. Len(pattern) \in Nat /\ j \in Nat
    OBVIOUS
  <1>1. j \in Follow(pattern, states, value) <=>
          \E i \in A \cup B : i <= j /\ \A k \in i..j - 1 : pattern[k] = "**"
    BY DEF Follow, Closure
  <1>2. ASSUME NEW i \in A, i <= j, \A k \in i..j - 1 : pattern[k] = "**"
        PROVE  i \in states /\ i <= Len(pattern) /\ pattern[i] = "**" /\ \A m \in i + 1..j - 1 : pattern[m] = "**"
    BY <1>0, <1>2
  <1>3. ASSUME NEW x \in B, x <= j, \A k \in x..j - 1 : pattern[k] = "**"
        PROVE  \E i \in states : /\ i <= Len(pattern) /\ pattern[i] # "**" /\ i < j
                                 /\ SegmentMatches(pattern[i], value)
                                 /\ \A m \in i + 1..j - 1 : pattern[m] = "**"
    <2>1. PICK i \in states : x = i + 1 /\ i <= Len(pattern) /\ pattern[i] # "**" /\ SegmentMatches(pattern[i], value)
      OBVIOUS
    <2> QED
      BY <1>0, <1>3, <2>1
  <1>4. ASSUME NEW i \in states, i <= Len(pattern), pattern[i] = "**", i <= j,
               \A m \in i + 1..j - 1 : pattern[m] = "**"
        PROVE  i \in A /\ \A k \in i..j - 1 : pattern[k] = "**"
    BY <1>0, <1>4
  <1>5. ASSUME NEW i \in states, i <= Len(pattern), pattern[i] # "**", i < j, SegmentMatches(pattern[i], value),
               \A m \in i + 1..j - 1 : pattern[m] = "**"
        PROVE  i + 1 \in B /\ i + 1 <= j /\ \A k \in i + 1..j - 1 : pattern[k] = "**"
    BY <1>0, <1>5
  <1> HIDE DEF A, B
  <1>6. ASSUME j \in Follow(pattern, states, value)
        PROVE  \E i \in states : /\ i <= Len(pattern)
                                 /\ \/ pattern[i] = "**" /\ i <= j
                                    \/ pattern[i] # "**" /\ i < j /\ SegmentMatches(pattern[i], value)
                                 /\ \A m \in i + 1..j - 1 : pattern[m] = "**"
    <2>1. PICK i \in A \cup B : i <= j /\ \A k \in i..j - 1 : pattern[k] = "**"
      BY <1>1, <1>6
    <2>2. CASE i \in A
      BY <1>2, <2>1, <2>2
    <2>3. CASE i \in B
      BY <1>3, <2>1, <2>3
    <2> QED
      BY <2>2, <2>3
  <1> QED
    BY <1>1, <1>4, <1>5, <1>6

\* If the states are right for a prefix, they are for the next one.
LEMMA ReachesNext ==
    ASSUME NEW pattern \in Seq(Segment), NEW path \in Seq(Segment), NEW k \in 0..Len(path) - 1,
           Reaches(pattern, path, k), After(pattern, path)[k] \subseteq 1..Len(pattern) + 1
    PROVE  Reaches(pattern, path, k + 1) /\ After(pattern, path)[k + 1] \subseteq 1..Len(pattern) + 1
  <1> DEFINE states == After(pattern, path)[k]
  <1>0. Len(path) \in Nat /\ Len(pattern) \in Nat /\ k \in Nat /\ k + 1 \in 0..Len(path) /\ k + 1 - 1 = k /\ k + 1 # 0
    OBVIOUS
  <1>1. After(pattern, path)[k + 1] = Follow(pattern, states, path[k + 1])
    BY <1>0, AfterIs DEF StatesAfter
  <1>2. ASSUME NEW j \in 1..Len(pattern) + 1
        PROVE  j \in After(pattern, path)[k + 1] <=> \E lay : Laid(pattern, path, k + 1, j, lay)
    <2>0. j \in Follow(pattern, states, path[k + 1]) <=>
            \E i \in states : /\ i <= Len(pattern)
                              /\ \/ pattern[i] = "**" /\ i <= j
                                 \/ pattern[i] # "**" /\ i < j /\ SegmentMatches(pattern[i], path[k + 1])
                              /\ \A m \in i + 1..j - 1 : pattern[m] = "**"
      BY FollowIs
    <2>1. ASSUME j \in After(pattern, path)[k + 1] PROVE \E lay : Laid(pattern, path, k + 1, j, lay)
      <3>1. PICK i \in states : /\ i <= Len(pattern)
                                /\ \/ pattern[i] = "**" /\ i <= j
                                   \/ pattern[i] # "**" /\ i < j /\ SegmentMatches(pattern[i], path[k + 1])
                                /\ \A m \in i + 1..j - 1 : pattern[m] = "**"
        BY <1>1, <2>0, <2>1
      <3>2. i \in 1..Len(pattern) /\ i \in 1..Len(pattern) + 1
        BY <1>0, <3>1
      <3>3. PICK lay : Laid(pattern, path, k, i, lay)
        BY <3>1, <3>2 DEF Reaches
      <3> QED
        BY <3>1, <3>2, <3>3, LaidFurther
    <2>2. ASSUME NEW lay, Laid(pattern, path, k + 1, j, lay) PROVE j \in After(pattern, path)[k + 1]
      <3>1. PICK i \in 1..Len(pattern) :
              /\ \E less : Laid(pattern, path, k, i, less)
              /\ \/ pattern[i] = "**" /\ i <= j
                 \/ pattern[i] # "**" /\ i < j /\ SegmentMatches(pattern[i], path[k + 1])
              /\ \A m \in i + 1..j - 1 : pattern[m] = "**"
        BY <2>2, LaidBefore
      <3>2. i \in 1..Len(pattern) + 1 /\ i <= Len(pattern)
        BY <1>0
      <3>3. i \in states
        BY <3>1, <3>2 DEF Reaches
      <3> QED
        BY <1>1, <2>0, <3>1, <3>2, <3>3
    <2> QED
      BY <2>1, <2>2
  <1>3. After(pattern, path)[k + 1] \subseteq 1..Len(pattern) + 1
    BY <1>1 DEF Follow, Closure
  <1> QED
    BY <1>2, <1>3 DEF Reaches

\* The states are right for every prefix: there is no first one for which not.
LEMMA ReachesAll ==
    ASSUME NEW pattern \in Seq(Segment), NEW path \in Seq(Segment), NEW n \in 0..Len(path)
    PROVE  Reaches(pattern, path, n)
  <1> DEFINE P(k) == Reaches(pattern, path, k) /\ After(pattern, path)[k] \subseteq 1..Len(pattern) + 1
             T == {k \in 0..Len(path) : ~ P(k)}
  <1>0. Len(path) \in Nat
    OBVIOUS
  <1>1. SUFFICES ASSUME T # {} PROVE FALSE
    OBVIOUS
  <1>2. PICK x \in T : \A y \in T : x <= y
    <2>1. T \in SUBSET Nat
      BY <1>0
    <2> HIDE DEF T
    <2> QED
      BY <1>1, <2>1, LeastNatural
  <1>3. P(0)
    <2>1. 0 \in 0..Len(path)
      BY <1>0
    <2>2. After(pattern, path)[0] = Closure(pattern, {1})
      BY <1>0, <2>1, AfterIs DEF StatesAfter
    <2> QED
      BY <2>2, ReachesNone DEF Closure
  <1>4. x # 0 /\ x \in 0..Len(path)
    BY <1>3
  <1>5. x - 1 \in 0..Len(path) - 1 /\ x - 1 \in 0..Len(path) /\ x - 1 + 1 = x /\ ~ (x <= x - 1)
    BY <1>0, <1>4
  <1>6. P(x - 1)
    BY <1>2, <1>5
  <1>7. P(x - 1 + 1)
    BY <1>5, <1>6, ReachesNext
  <1> QED
    BY <1>2, <1>5, <1>7

\* The automaton accepts what the pattern covers.
LEMMA MatchesCovers ==
    ASSUME NEW pattern \in Seq(Segment), NEW path \in Seq(Segment)
    PROVE  Matches(pattern, path) <=> Covers(pattern, path)
  <1> DEFINE n == Len(path)
             j == Len(pattern) + 1
  <1>0. n \in Nat /\ Len(pattern) \in Nat /\ n \in 0..n /\ j \in 1..j /\ DOMAIN path = 1..n
        /\ DOMAIN pattern = 1..Len(pattern)
    OBVIOUS
  <1>1. Matches(pattern, path) <=> \E lay : Laid(pattern, path, n, j, lay)
    BY <1>0, ReachesAll DEF Reaches, Matches
  <1>2. ASSUME NEW lay, Laid(pattern, path, n, j, lay) PROVE Covers(pattern, path)
    <2>1. lay \in [DOMAIN path -> DOMAIN pattern]
      BY <1>0, <1>2 DEF Laid
    <2>2. \A k \in DOMAIN pattern : pattern[k] = "**" \/ \E i \in DOMAIN path : lay[i] = k
      <3>1. \A m \in 1..Len(pattern) : m < j
        BY <1>0
      <3>2. \A m \in 1..Len(pattern) : m < j => pattern[m] = "**" \/ \E i \in 1..n : lay[i] = m
        BY <1>2 DEF Laid
      <3> QED
        BY <1>0, <3>1, <3>2
    <2>3. \A i, m \in DOMAIN path : i < m => lay[i] < lay[m] \/ (lay[i] = lay[m] /\ pattern[lay[i]] = "**")
      BY <1>0, <1>2 DEF Laid
    <2>4. \A i \in DOMAIN path : pattern[lay[i]] = "**" \/ SegmentMatches(pattern[lay[i]], path[i])
      BY <1>0, <1>2 DEF Laid
    <2> QED
      BY <2>1, <2>2, <2>3, <2>4 DEF Covers
  <1>3. ASSUME Covers(pattern, path) PROVE \E lay : Laid(pattern, path, n, j, lay)
    <2>1. PICK lay \in [DOMAIN path -> DOMAIN pattern] :
             /\ \A i, m \in DOMAIN path : i < m => lay[i] < lay[m] \/ (lay[i] = lay[m] /\ pattern[lay[i]] = "**")
             /\ \A i \in DOMAIN path : pattern[lay[i]] = "**" \/ SegmentMatches(pattern[lay[i]], path[i])
             /\ \A k \in DOMAIN pattern : pattern[k] = "**" \/ \E i \in DOMAIN path : lay[i] = k
      BY <1>3, Zenon DEF Covers
    <2>2. lay \in [1..n -> 1..Len(pattern)]
      BY <1>0
    <2>3. \A i \in 1..n : lay[i] < j
      BY <1>0, <2>2
    <2>4. \A i, m \in 1..n : i < m => lay[i] < lay[m] \/ (lay[i] = lay[m] /\ pattern[lay[i]] = "**")
      BY <1>0, <2>1
    <2>5. \A i \in 1..n : pattern[lay[i]] = "**" \/ SegmentMatches(pattern[lay[i]], path[i])
      BY <1>0, <2>1
    <2>6. \A m \in 1..Len(pattern) : m < j => pattern[m] = "**" \/ \E i \in 1..n : lay[i] = m
      BY <1>0, <2>1
    <2>7. Laid(pattern, path, n, j, lay)
      BY <2>2, <2>3, <2>4, <2>5, <2>6 DEF Laid
    <2> QED
      BY <2>7
  <1> QED
    BY <1>1, <1>2, <1>3

\* What a raw pattern is turned into has segments again.
LEMMA PatternsAreSequences ==
    ASSUME NEW raw \in PatternRow
    PROVE  FilterPattern(raw) \in Seq(Segment)
  <1>1. raw.segments \in Seq(Segment)
    <2>1. raw.segments \in Seq(STRING)
      BY DEF PatternRow
    <2> QED
      BY <2>1 DEF Segment
  <1>2. "**" \in Segment
    BY DEF Segment
  <1>3. <<"**">> \in Seq(Segment)
    BY <1>2
  <1>4. <<>> \in Seq(Segment)
    OBVIOUS
  <1> DEFINE before == IF Len(raw.segments) = 1 THEN <<"**">> ELSE <<>>
             after == IF raw.directory THEN <<"**">> ELSE <<>>
  <1>5. before \in Seq(Segment) /\ after \in Seq(Segment)
    BY <1>3, <1>4
  <1>6. FilterPattern(raw) = (before \o raw.segments) \o after
    BY DEF FilterPattern
  <1> HIDE DEF before, after
  <1> QED
    BY <1>1, <1>5, <1>6

\* A nonempty set of positions has a last one.
LEMMA LastPosition ==
    ASSUME NEW n \in Nat, NEW S \in SUBSET (1..n), S # {}
    PROVE  Max(S) \in S /\ \A i \in S : i <= Max(S)
  <1> DEFINE T == {n - i : i \in S}
  <1>1. T \in SUBSET Nat /\ T # {}
    <2>1. \A i \in S : n - i \in Nat
      OBVIOUS
    <2>2. PICK i \in S : TRUE
      OBVIOUS
    <2> QED
      BY <2>1, <2>2
  <1>2. PICK x \in T : \A y \in T : x <= y
    BY <1>1, LeastNatural
  <1>3. PICK m \in S : x = n - m
    BY <1>2
  <1>4. ASSUME NEW i \in S PROVE m >= i
    <2>1. n - i \in T /\ i \in Nat /\ m \in Nat
      OBVIOUS
    <2>2. n - m <= n - i
      BY <1>2, <1>3, <2>1
    <2> QED
      BY <2>1, <2>2
  <1>5. Max(S) \in S /\ \A y \in S : Max(S) >= y
    BY <1>3, <1>4, Zenon DEF Max
  <1> QED
    BY <1>5

\* The last pattern of an ignore file that matches decides: no pattern that
\* ignores the path is the last to match it.
LEMMA LastDecides ==
    ASSUME NEW patterns \in Seq(PatternRow), NEW path \in Seq(Segment)
    PROVE  ~ Ignored(patterns, path) <=>
             \A i \in DOMAIN patterns :
               Covers(FilterPattern(patterns[i]), path) /\ ~ patterns[i].negated
               => \E j \in i + 1..Len(patterns) : Covers(FilterPattern(patterns[j]), path) /\ patterns[j].negated
  <1> DEFINE hits == {i \in DOMAIN patterns : Matches(FilterPattern(patterns[i]), path)}
  <1>0. Len(patterns) \in Nat /\ DOMAIN patterns = 1..Len(patterns)
        /\ \A i \in DOMAIN patterns : patterns[i] \in PatternRow
    OBVIOUS
  <1>1. \A i \in DOMAIN patterns : i \in hits <=> Covers(FilterPattern(patterns[i]), path)
    BY <1>0, PatternsAreSequences, MatchesCovers
  <1>2. hits \in SUBSET (1..Len(patterns))
    BY <1>0
  <1>3. Ignored(patterns, path) <=> hits # {} /\ ~ patterns[Max(hits)].negated
    BY DEF Ignored
  <1> HIDE DEF hits
  <1>4. CASE hits = {}
    BY <1>1, <1>3, <1>4
  <1>5. CASE hits # {}
    <2> DEFINE m == Max(hits)
    <2>1. m \in hits /\ \A i \in hits : i <= m
      BY <1>0, <1>2, <1>5, LastPosition
    <2> HIDE DEF m
    <2>2. m \in DOMAIN patterns /\ m \in Nat
      BY <1>0, <1>2, <2>1
    <2>3. ASSUME patterns[m].negated, NEW i \in DOMAIN patterns, i \in hits, ~ patterns[i].negated
          PROVE  m \in i + 1..Len(patterns)
      <3>1. i # m /\ i <= m /\ i \in Nat
        BY <1>0, <2>1, <2>3
      <3> QED
        BY <1>0, <2>2, <3>1
    <2>4. ASSUME NEW j \in m + 1..Len(patterns) PROVE j \notin hits
      BY <1>0, <2>1, <2>2
    <2>5. CASE patterns[m].negated
      BY <1>0, <1>1, <1>3, <2>1, <2>2, <2>3, <2>5 DEF m
    <2>6. CASE ~ patterns[m].negated
      <3>1. \A j \in m + 1..Len(patterns) : j \in DOMAIN patterns
        BY <1>0, <2>2
      <3> QED
        BY <1>1, <1>3, <1>5, <2>1, <2>2, <2>4, <2>6, <3>1 DEF m
    <2> QED
      BY <2>5, <2>6
  <1> QED
    BY <1>4, <1>5

\* What is selected of a commit is what the patterns of source and commit want.
LEMMA SelectedWanted ==
    ASSUME GitAssumption, filter \in Filters, NEW c \in Commits
    PROVE  Selected(c) = {e \in TreeOf[c].entries : Wanted(c, e.path)}
  <1> SUFFICES ASSUME NEW e \in TreeOf[c].entries
               PROVE  (Selects(c, e.path) /\ e.path # <<".openwikiignore">>) <=> Wanted(c, e.path)
    BY DEF Selected
  <1>1. e.path \in Seq(Segment) /\ TreeOf[c].ignore \in Seq(PatternRow)
        /\ filter.include \subseteq PatternRow /\ filter.exclude \subseteq PatternRow
    <2>1. e.path \in Seq(STRING)
      BY DEF GitAssumption
    <2>2. e.path \in Seq(Segment)
      BY <2>1 DEF Segment
    <2> QED
      BY <2>2 DEF GitAssumption
  <1>2. \A raw \in PatternRow : Matches(FilterPattern(raw), e.path) <=> Covers(FilterPattern(raw), e.path)
    BY <1>1, PatternsAreSequences, MatchesCovers
  <1>3. MatchesAny(filter.include, e.path) <=> \E raw \in filter.include : Covers(FilterPattern(raw), e.path)
    BY <1>1, <1>2 DEF MatchesAny
  <1>4. ~ MatchesAny(filter.exclude, e.path) <=> \A raw \in filter.exclude : ~ Covers(FilterPattern(raw), e.path)
    BY <1>1, <1>2 DEF MatchesAny
  <1>5. ~ Ignored(TreeOf[c].ignore, e.path) <=>
          \A i \in DOMAIN TreeOf[c].ignore :
            Covers(FilterPattern(TreeOf[c].ignore[i]), e.path) /\ ~ TreeOf[c].ignore[i].negated
            => \E j \in i + 1..Len(TreeOf[c].ignore) :
                 Covers(FilterPattern(TreeOf[c].ignore[j]), e.path) /\ TreeOf[c].ignore[j].negated
    BY <1>1, LastDecides
  <1> QED
    BY <1>3, <1>4, <1>5, Zenon DEF Selects, Wanted

-----------------------------------------------------------------------------
(***************************************************************************)
(* The inductive invariant.  Whoever has the lock knows what is in the     *)
(* mirror; a commit it read at the remote was the branch's since the first *)
(* attempt of its revision; and what it is about to store are the files of *)
(* that commit.                                                            *)
(***************************************************************************)
Tips == Commits \cup {NoCommit}
EntriesOf == UNION {TreeOf[c].entries : c \in Commits}
GitterRow ==
    [at : {"away", "lock", "initialize", "creating", "transport", "fetch", "fetching", "resolve", "tree", "store"},
     revision : 0..MaxRevisions, commit : Tips, files : SUBSET EntriesOf, seen : Tips]
MirrorRow == [state : {"absent", "partial", "ready"}, tip : Tips, objects : SUBSET Commits]
SnapshotRow == [commit : Tips, files : SUBSET EntriesOf]

GitTyped ==
    /\ filter \in Filters /\ remote \in Tips /\ revision \in 0..MaxRevisions
    /\ mirror \in MirrorRow /\ mirrorLock \in Gitters \cup {Unlocked}
    /\ gitter \in [Gitters -> GitterRow] /\ snapshot \in [Revisions -> SnapshotRow]
    /\ tips \in [Revisions -> SUBSET Tips] /\ reported \in [Revisions -> SUBSET Tips]

\* The commit is the selected one, or one the branch had in time.
Selectable(c, v) == IF reference.kind = "BRANCH" THEN c \in tips[v] ELSE c = reference.commit

AllFiles(c) == \A e \in TreeOf[c].entries : e.kind = "file"

\* The branch is among the commits a revision saw since it was first attempted.
TipsFollow == \A v \in Revisions : tips[v] # {} => remote \in tips[v]

\* What a process knows at each stage.
GitterOK(p) ==
    LET x == gitter[p] IN
    /\ x.at # "away" => x.revision \in Revisions /\ tips[x.revision] # {}
    /\ x.at \notin {"away", "lock"} => mirrorLock = p
    /\ x.at = "fetching" => x.seen \in tips[x.revision]
    /\ x.at = "resolve" => mirror.tip \in tips[x.revision]
    /\ x.at \in {"tree", "store"} => x.commit \in Commits /\ Selectable(x.commit, x.revision)
    /\ x.at = "store" => x.files = Selected(x.commit) /\ AllFiles(x.commit)

\* What is stored, and reported, of a revision.
StoredOK(v) ==
    /\ reported[v] \subseteq {snapshot[v].commit}
    /\ snapshot[v] = NoSnapshot => reported[v] = {}
    /\ snapshot[v] # NoSnapshot =>
         /\ snapshot[v].commit \in Commits /\ Selectable(snapshot[v].commit, v)
         /\ snapshot[v].files = Selected(snapshot[v].commit) /\ AllFiles(snapshot[v].commit)

GitInv == GitTyped /\ TipsFollow /\ (\A p \in Gitters : GitterOK(p)) /\ (\A v \in Revisions : StoredOK(v))

\* The values rows start from, and the types of commits and revisions.
LEMMA GitRows ==
    ASSUME GitAssumption
    PROVE  /\ Away \in GitterRow /\ NoSnapshot \in SnapshotRow /\ NoCommit \in Tips
           /\ \A c \in Commits : c \in Tips /\ c # NoCommit /\ Selected(c) \subseteq EntriesOf
           /\ Revisions = 1..MaxRevisions /\ Revisions \subseteq 0..MaxRevisions /\ MaxRevisions \in Nat
  BY DEF GitAssumption, Away, GitterRow, NoSnapshot, SnapshotRow, Tips, EntriesOf, Selected, Revisions

\* A source that was never captured.
LEMMA GitInitInv == ASSUME GitAssumption, GitInit PROVE GitInv
  <1>1. GitTyped
    BY GitRows DEF GitInit, GitTyped, MirrorRow, Revisions, Tips
  <1>2. TipsFollow
    BY DEF GitInit, TipsFollow
  <1>3. \A p \in Gitters : GitterOK(p)
    BY DEF GitInit, GitterOK, Away
  <1>4. \A v \in Revisions : StoredOK(v)
    BY DEF GitInit, StoredOK
  <1> QED
    BY <1>1, <1>2, <1>3, <1>4 DEF GitInv

\* What a step of one process must show: its own stage, and what it does to the
\* others' lock, mirror and tips.
LEMMA GitterMoves ==
    ASSUME GitAssumption, GitInv, NEW p \in Gitters, NEW row \in GitterRow,
           gitter' = [gitter EXCEPT ![p] = row],
           UNCHANGED <<reference, filter>>,
           mirror' \in MirrorRow, mirror' # mirror => mirrorLock = p,
           \/ mirrorLock' = mirrorLock
           \/ mirrorLock = Unlocked /\ mirrorLock' = p
           \/ mirrorLock = p /\ mirrorLock' = Unlocked,
           \A v \in Revisions : tips[v] \subseteq tips'[v],
           GitterOK(p)'
    PROVE  /\ gitter' \in [Gitters -> GitterRow] /\ mirrorLock' \in Gitters \cup {Unlocked}
           /\ \A q \in Gitters : GitterOK(q)'
  <1>1. gitter \in [Gitters -> GitterRow] /\ mirrorLock \in Gitters \cup {Unlocked} /\ \A q \in Gitters : GitterOK(q)
    BY DEF GitInv, GitTyped
  <1>2. gitter' \in [Gitters -> GitterRow] /\ mirrorLock' \in Gitters \cup {Unlocked}
    BY <1>1
  <1>3. ASSUME NEW q \in Gitters, q # p PROVE GitterOK(q)'
    <2>1. gitter'[q] = gitter[q] /\ gitter[q] \in GitterRow /\ q # Unlocked
      BY <1>1, <1>3 DEF GitAssumption
    <2>2. gitter[q].at \notin {"away", "lock"} => mirrorLock' = q /\ mirror' = mirror
      BY <1>1, <1>3, <2>1 DEF GitterOK
    <2>3. gitter[q].at # "away" =>
            gitter[q].revision \in Revisions /\ tips'[gitter[q].revision] # {}
            /\ tips[gitter[q].revision] \subseteq tips'[gitter[q].revision]
      BY <1>1 DEF GitterOK
    <2>4. gitter[q].at \in {"tree", "store"} => Selectable(gitter[q].commit, gitter[q].revision)'
      BY <1>1, <2>1, <2>3 DEF GitterOK, Selectable
    <2>5. \A c : Selected(c)' = Selected(c) /\ AllFiles(c)' = AllFiles(c)
      BY DEF Selected, Selects, AllFiles
    <2> QED
      BY <1>1, <2>1, <2>2, <2>3, <2>4, <2>5 DEF GitterOK
  <1> QED
    BY <1>2, <1>3

\* Tips that grow take nothing from what is stored.
LEMMA StoredKept ==
    ASSUME GitInv, UNCHANGED <<reference, filter>>, NEW v \in Revisions,
           snapshot'[v] = snapshot[v], reported'[v] = reported[v], tips[v] \subseteq tips'[v]
    PROVE  StoredOK(v)'
  <1>1. StoredOK(v)
    BY DEF GitInv
  <1>2. \A c : Selectable(c, v) => Selectable(c, v)'
    BY DEF Selectable
  <1>3. \A c : Selected(c)' = Selected(c) /\ AllFiles(c)' = AllFiles(c) /\ NoSnapshot' = NoSnapshot
    BY DEF Selected, Selects, AllFiles, NoSnapshot
  <1> QED
    BY <1>1, <1>2, <1>3 DEF StoredOK

\* A step of one process that touches neither what is stored nor the remote.
LEMMA GitterSteps ==
    ASSUME GitAssumption, GitInv, NEW p \in Gitters, NEW row \in GitterRow,
           gitter' = [gitter EXCEPT ![p] = row],
           UNCHANGED <<reference, filter, remote, snapshot, revision, tips, reported>>,
           mirror' \in MirrorRow, mirror' # mirror => mirrorLock = p,
           \/ mirrorLock' = mirrorLock
           \/ mirrorLock = Unlocked /\ mirrorLock' = p
           \/ mirrorLock = p /\ mirrorLock' = Unlocked,
           GitterOK(p)'
    PROVE  GitInv'
  <1>1. gitter' \in [Gitters -> GitterRow] /\ mirrorLock' \in Gitters \cup {Unlocked}
        /\ \A q \in Gitters : GitterOK(q)'
    BY GitterMoves
  <1>2. \A v \in Revisions : StoredOK(v)'
    BY StoredKept
  <1>3. GitTyped' /\ TipsFollow'
    BY <1>1 DEF GitInv, GitTyped, TipsFollow
  <1> QED
    BY <1>1, <1>2, <1>3 DEF GitInv

\* A process that gives up, or is killed, lets the lock go.
LEMMA GivesUp ==
    ASSUME GitAssumption, GitInv, NEW p \in Gitters, Return(p), Unlock(p),
           UNCHANGED <<reference, filter, remote, mirror, snapshot, revision, tips, reported>>
    PROVE  GitInv'
  <1>1. gitter \in [Gitters -> GitterRow] /\ mirror \in MirrorRow
    BY DEF GitInv, GitTyped
  <1>2. gitter' = [gitter EXCEPT ![p] = Away] /\ gitter'[p] = Away
    BY <1>1 DEF Return
  <1>3. GitterOK(p)'
    BY <1>2 DEF GitterOK, Away
  <1>4. mirrorLock' = mirrorLock \/ (mirrorLock = p /\ mirrorLock' = Unlocked)
    BY DEF Unlock
  <1> QED
    BY <1>1, <1>2, <1>3, <1>4, GitRows, GitterSteps

-----------------------------------------------------------------------------
(* The steps of an attempt. *)

\* What a process's own row tells at each stage.
LEMMA OwnRow ==
    ASSUME GitAssumption, GitInv, NEW p \in Gitters
    PROVE  /\ gitter[p] \in GitterRow /\ gitter \in [Gitters -> GitterRow]
           /\ mirror \in MirrorRow /\ mirrorLock \in Gitters \cup {Unlocked}
           /\ GitterOK(p) /\ p # Unlocked
  BY DEF GitInv, GitTyped, GitAssumption

\* Another stage is a row again.
LEMMA NextRow ==
    ASSUME NEW x \in GitterRow
    PROVE  /\ \A a \in {"away", "lock", "initialize", "creating", "transport", "fetch", "fetching", "resolve",
                        "tree", "store"} : [x EXCEPT !.at = a] \in GitterRow
           /\ \A c \in Tips : /\ [x EXCEPT !.at = "fetching", !.seen = c] \in GitterRow
                              /\ [x EXCEPT !.at = "tree", !.commit = c] \in GitterRow
           /\ \A S \in SUBSET EntriesOf : [x EXCEPT !.at = "store", !.files = S] \in GitterRow
  BY DEF GitterRow

\* An attempt begins: its revision's tips start with the branch as it is.
LEMMA BeginMaterializeInv ==
    ASSUME GitAssumption, GitInv, NEW p \in Gitters, BeginMaterialize(p) PROVE GitInv'
  <1>1. UNCHANGED <<reference, filter, remote, mirror, mirrorLock, snapshot, revision>>
        /\ revision \in Revisions /\ revision > 0
    BY GitRows DEF BeginMaterialize, GitInv, GitTyped, Revisions
  <1>2. tips \in [Revisions -> SUBSET Tips] /\ remote \in Tips /\ reported \in [Revisions -> SUBSET Tips]
        /\ snapshot \in [Revisions -> SnapshotRow]
    BY DEF GitInv, GitTyped
  <1>3. tips' = [tips EXCEPT ![revision] = IF tips[revision] = {} THEN {remote} ELSE tips[revision]]
    BY DEF BeginMaterialize
  <1>4. tips' \in [Revisions -> SUBSET Tips] /\ tips'[revision] # {}
        /\ \A v \in Revisions : tips[v] \subseteq tips'[v]
    BY <1>1, <1>2, <1>3
  <1>5. TipsFollow'
    <2>1. \A v \in Revisions : tips'[v] # {} => remote \in tips'[v]
      BY <1>1, <1>2, <1>3 DEF GitInv, TipsFollow
    <2> QED
      BY <1>1, <2>1 DEF TipsFollow
  <1>6. CASE /\ snapshot[revision] # NoSnapshot
             /\ reported' = [reported EXCEPT ![revision] = @ \cup {snapshot[revision].commit}]
             /\ UNCHANGED gitter
    <2>1. gitter' = [gitter EXCEPT ![p] = gitter[p]] /\ gitter[p] \in GitterRow
      BY <1>6, OwnRow
    <2>2. GitterOK(p)'
      <3>1. GitterOK(p)
        BY OwnRow
      <3>2. \A c, v : v \in Revisions /\ Selectable(c, v) => Selectable(c, v)'
        BY <1>1, <1>4 DEF Selectable
      <3>3. \A c : Selected(c)' = Selected(c) /\ AllFiles(c)' = AllFiles(c)
        BY <1>1 DEF Selected, Selects, AllFiles
      <3> QED
        BY <1>1, <1>4, <1>6, <3>1, <3>2, <3>3 DEF GitterOK
    <2>3. gitter' \in [Gitters -> GitterRow] /\ \A q \in Gitters : GitterOK(q)'
      BY <1>1, <1>4, <2>1, <2>2, OwnRow, GitterMoves
    <2>4. ASSUME NEW v \in Revisions PROVE StoredOK(v)'
      <3>1. CASE v # revision
        <4>1. reported'[v] = reported[v] /\ snapshot'[v] = snapshot[v]
          BY <1>1, <1>2, <1>6, <3>1
        <4> QED
          BY <1>1, <1>4, <4>1, StoredKept
      <3>2. CASE v = revision
        <4>1. reported'[v] = reported[v] \cup {snapshot[v].commit} /\ snapshot'[v] = snapshot[v]
          BY <1>1, <1>2, <1>6, <3>2
        <4>2. StoredOK(v)
          BY DEF GitInv
        <4>3. \A c : Selectable(c, v) => Selectable(c, v)'
          BY <1>1, <1>4 DEF Selectable
        <4>4. \A c : Selected(c)' = Selected(c) /\ AllFiles(c)' = AllFiles(c)
          BY <1>1 DEF Selected, Selects, AllFiles
        <4> QED
          BY <1>6, <3>2, <4>1, <4>2, <4>3, <4>4 DEF StoredOK
      <3> QED
        BY <3>1, <3>2
    <2>5. reported' \in [Revisions -> SUBSET Tips]
      <3>1. snapshot[revision].commit \in Tips
        BY <1>1, <1>2 DEF SnapshotRow
      <3> QED
        BY <1>1, <1>2, <1>6, <3>1
    <2>6. GitTyped'
      BY <1>1, <1>4, <2>3, <2>5 DEF GitInv, GitTyped
    <2> QED
      BY <1>5, <2>3, <2>4, <2>6 DEF GitInv
  <1>7. CASE /\ snapshot[revision] = NoSnapshot
             /\ gitter' = [gitter EXCEPT ![p] = [Away EXCEPT !.at = "lock", !.revision = revision]]
             /\ UNCHANGED reported
    <2> DEFINE row == [Away EXCEPT !.at = "lock", !.revision = revision]
    <2>1. row \in GitterRow /\ row.at = "lock" /\ row.revision = revision
      BY <1>1, GitRows DEF Away, GitterRow
    <2>2. gitter'[p] = row
      BY <1>7, OwnRow
    <2> HIDE DEF row
    <2>3. GitterOK(p)'
      BY <1>1, <1>4, <2>1, <2>2 DEF GitterOK
    <2>4. gitter' \in [Gitters -> GitterRow] /\ \A q \in Gitters : GitterOK(q)'
      BY <1>1, <1>4, <1>7, <2>1, <2>3, OwnRow, GitterMoves DEF row
    <2>5. \A v \in Revisions : StoredOK(v)'
      BY <1>1, <1>4, <1>7, StoredKept
    <2>6. GitTyped'
      BY <1>1, <1>4, <1>7, <2>4 DEF GitInv, GitTyped
    <2> QED
      BY <1>5, <2>4, <2>5, <2>6 DEF GitInv
  <1> QED
    BY <1>6, <1>7 DEF BeginMaterialize

\* The stages before a fetch: only the lock is taken and the mirror made.
LEMMA PrepareInv ==
    ASSUME GitAssumption, GitInv, NEW p \in Gitters,
           LockMirror(p) \/ CreateMirror(p) \/ CreatedMirror(p) \/ InspectMirror(p) \/ Resolve(p)
    PROVE  GitInv'
  <1> DEFINE x == gitter[p]
  <1>0. /\ x \in GitterRow /\ gitter \in [Gitters -> GitterRow] /\ mirror \in MirrorRow
        /\ mirrorLock \in Gitters \cup {Unlocked} /\ GitterOK(p) /\ p # Unlocked
    BY OwnRow
  <1>1. ASSUME NEW a \in {"initialize", "creating", "transport", "fetch"}, To(p, a), Keep, x.at # "away",
               mirror' \in MirrorRow, mirror' # mirror => mirrorLock = p,
               \/ mirrorLock' = mirrorLock /\ x.at # "lock"
               \/ mirrorLock = Unlocked /\ mirrorLock' = p
        PROVE  GitInv'
    <2> DEFINE row == [x EXCEPT !.at = a]
    <2>1. gitter' = [gitter EXCEPT ![p] = row] /\ row \in GitterRow /\ gitter'[p] = row
      BY <1>0, <1>1, NextRow DEF To
    <2>2. row.at = a /\ row.revision = x.revision
      BY <1>0 DEF GitterRow
    <2> HIDE DEF row
    <2>3. UNCHANGED <<reference, filter, remote, snapshot, revision, tips, reported>>
      BY <1>1 DEF Keep
    <2>4. mirrorLock' = p
      BY <1>0, <1>1 DEF GitterOK
    <2>5. GitterOK(p)'
      BY <1>0, <1>1, <2>1, <2>2, <2>3, <2>4 DEF GitterOK
    <2>6. \/ mirrorLock' = mirrorLock
          \/ mirrorLock = Unlocked /\ mirrorLock' = p
          \/ mirrorLock = p /\ mirrorLock' = Unlocked
      BY <1>1
    <2> QED
      BY <1>1, <2>1, <2>3, <2>5, <2>6, GitterSteps
  <1>2. \A s \in {"absent", "partial", "ready"} : [mirror EXCEPT !.state = s] \in MirrorRow
    BY <1>0 DEF MirrorRow
  <1>3. x.at \in {"initialize", "creating"} => mirrorLock = p
    BY <1>0 DEF GitterOK
  <1>4. CASE LockMirror(p)
    BY <1>0, <1>1, <1>4 DEF LockMirror, AtStage
  <1>5. CASE CreateMirror(p)
    BY <1>0, <1>1, <1>2, <1>3, <1>5 DEF CreateMirror, AtStage
  <1>6. CASE CreatedMirror(p)
    BY <1>0, <1>1, <1>2, <1>3, <1>6 DEF CreatedMirror, AtStage
  <1>7. ASSUME ReturnError(p), UNCHANGED mirror PROVE GitInv'
    BY <1>7, GivesUp DEF ReturnError
  <1>8. CASE InspectMirror(p)
    <2>1. CASE mirror.state = "ready" /\ To(p, "transport") /\ Keep /\ UNCHANGED <<mirror, mirrorLock>>
      BY <1>0, <1>1, <1>8, <2>1 DEF InspectMirror, AtStage
    <2> QED
      BY <1>7, <1>8, <2>1 DEF InspectMirror
  <1>9. CASE Resolve(p)
    <2>1. CASE To(p, "fetch") /\ Keep /\ UNCHANGED <<mirror, mirrorLock>>
      BY <1>0, <1>1, <1>9, <2>1 DEF Resolve, AtStage
    <2> QED
      BY <1>7, <1>9, <2>1 DEF Resolve
  <1> QED
    BY <1>4, <1>5, <1>6, <1>8, <1>9

\* A fetch reads the branch and sets the mirror to it, under the lock.
LEMMA FetchInv ==
    ASSUME GitAssumption, GitInv, NEW p \in Gitters, StartFetch(p) \/ EndFetch(p) \/ FailFetch(p)
    PROVE  GitInv'
  <1> DEFINE x == gitter[p]
  <1>0. /\ x \in GitterRow /\ gitter \in [Gitters -> GitterRow] /\ mirror \in MirrorRow
        /\ mirrorLock \in Gitters \cup {Unlocked} /\ GitterOK(p) /\ p # Unlocked
    BY OwnRow
  <1>1. CASE StartFetch(p)
    <2> DEFINE row == [x EXCEPT !.at = "fetching", !.seen = remote]
    <2>1. gitter' = [gitter EXCEPT ![p] = row] /\ x.at = "fetch"
          /\ UNCHANGED <<reference, filter, remote, mirror, mirrorLock, snapshot, revision, tips, reported>>
      BY <1>1 DEF StartFetch, AtStage, Keep
    <2>2. row \in GitterRow /\ gitter'[p] = row
      <3>1. remote \in Tips
        BY DEF GitInv, GitTyped
      <3> QED
        BY <1>0, <2>1, <3>1, NextRow
    <2>3. row.at = "fetching" /\ row.revision = x.revision /\ row.seen = remote
      BY <1>0 DEF GitterRow
    <2> HIDE DEF row
    <2>4. x.revision \in Revisions /\ tips[x.revision] # {} /\ mirrorLock = p
      BY <1>0, <2>1 DEF GitterOK
    <2>5. remote \in tips[x.revision]
      BY <2>4 DEF GitInv, TipsFollow
    <2>6. GitterOK(p)'
      BY <2>1, <2>2, <2>3, <2>4, <2>5 DEF GitterOK
    <2> QED
      BY <1>0, <2>1, <2>2, <2>6, GitterSteps
  <1>2. CASE EndFetch(p)
    <2> DEFINE row == [x EXCEPT !.at = "resolve"]
    <2>1. gitter' = [gitter EXCEPT ![p] = row] /\ x.at = "fetching"
          /\ UNCHANGED <<reference, filter, remote, mirrorLock, snapshot, revision, tips, reported>>
          /\ mirror' = [mirror EXCEPT !.tip = x.seen, !.objects = @ \cup History(x.seen)]
      BY <1>2 DEF EndFetch, AtStage, Keep, To
    <2>2. row \in GitterRow /\ gitter'[p] = row
      BY <1>0, <2>1, NextRow
    <2>3. row.at = "resolve" /\ row.revision = x.revision /\ x.seen \in Tips
      BY <1>0 DEF GitterRow
    <2> HIDE DEF row
    <2>4. x.revision \in Revisions /\ tips[x.revision] # {} /\ mirrorLock = p /\ x.seen \in tips[x.revision]
      BY <1>0, <2>1 DEF GitterOK
    <2>5. History(x.seen) \subseteq Commits
      BY <2>3 DEF History, Tips, GitAssumption
    <2>6. mirror' \in MirrorRow /\ mirror'.tip = x.seen
      BY <1>0, <2>1, <2>3, <2>5 DEF MirrorRow
    <2>7. GitterOK(p)'
      BY <2>1, <2>2, <2>3, <2>4, <2>6 DEF GitterOK
    <2> QED
      BY <1>0, <2>1, <2>2, <2>4, <2>6, <2>7, GitterSteps
  <1>3. CASE FailFetch(p)
    BY <1>3, GivesUp DEF FailFetch, ReturnError
  <1> QED
    BY <1>1, <1>2, <1>3

\* The commit is resolved and its tree read from the mirror as it was fetched.
LEMMA ReadInv ==
    ASSUME GitAssumption, GitInv, NEW p \in Gitters, ResolveCommit(p) \/ ReadTree(p)
    PROVE  GitInv'
  <1> DEFINE x == gitter[p]
  <1>0. /\ x \in GitterRow /\ gitter \in [Gitters -> GitterRow] /\ mirror \in MirrorRow
        /\ mirrorLock \in Gitters \cup {Unlocked} /\ GitterOK(p) /\ p # Unlocked
    BY OwnRow
  <1>1. ASSUME ReturnError(p), UNCHANGED mirror PROVE GitInv'
    BY <1>1, GivesUp DEF ReturnError
  <1>2. CASE ResolveCommit(p) /\ Resolved # NoCommit
    <2> DEFINE row == [x EXCEPT !.at = "tree", !.commit = Resolved]
    <2>1. gitter' = [gitter EXCEPT ![p] = row] /\ x.at = "resolve"
          /\ UNCHANGED <<reference, filter, remote, mirror, mirrorLock, snapshot, revision, tips, reported>>
      BY <1>2 DEF ResolveCommit, AtStage, Keep
    <2>2. x.revision \in Revisions /\ tips[x.revision] # {} /\ mirrorLock = p /\ mirror.tip \in tips[x.revision]
      BY <1>0, <2>1 DEF GitterOK
    <2>3. Resolved \in Commits /\ Resolved \in Tips
      BY <1>0, <1>2 DEF Resolved, MirrorRow, Tips
    <2>4. Selectable(Resolved, x.revision)
      BY <1>2, <2>2 DEF Resolved, Selectable
    <2>5. row \in GitterRow /\ gitter'[p] = row
      BY <1>0, <2>1, <2>3, NextRow
    <2>6. row.at = "tree" /\ row.revision = x.revision /\ row.commit = Resolved
      BY <1>0 DEF GitterRow
    <2> HIDE DEF row
    <2>7. \A c, v : Selectable(c, v)' <=> Selectable(c, v)
      BY <2>1 DEF Selectable
    <2>8. Resolved' = Resolved
      BY <2>1 DEF Resolved
    <2>9. GitterOK(p)'
      BY <2>1, <2>2, <2>3, <2>4, <2>5, <2>6, <2>7, <2>8 DEF GitterOK
    <2> QED
      BY <1>0, <2>1, <2>5, <2>9, GitterSteps
  <1>3. CASE ReadTree(p) /\ SafeTree(TreeOf[x.commit].entries) /\ WithinLimits(Selected(x.commit))
    <2> DEFINE row == [x EXCEPT !.at = "store", !.files = Selected(x.commit)]
    <2>1. gitter' = [gitter EXCEPT ![p] = row] /\ x.at = "tree"
          /\ UNCHANGED <<reference, filter, remote, mirror, mirrorLock, snapshot, revision, tips, reported>>
      BY <1>3 DEF ReadTree, AtStage, Keep
    <2>2. /\ x.revision \in Revisions /\ tips[x.revision] # {} /\ mirrorLock = p
          /\ x.commit \in Commits /\ Selectable(x.commit, x.revision)
      BY <1>0, <2>1 DEF GitterOK
    <2>3. AllFiles(x.commit) /\ Selected(x.commit) \in SUBSET EntriesOf
      BY <1>3, <2>2, GitRows DEF SafeTree, AllFiles
    <2>4. row \in GitterRow /\ gitter'[p] = row
      BY <1>0, <2>1, <2>3, NextRow
    <2>5. row.at = "store" /\ row.revision = x.revision /\ row.commit = x.commit /\ row.files = Selected(x.commit)
      BY <1>0 DEF GitterRow
    <2> HIDE DEF row
    <2>6. \A c : Selected(c)' = Selected(c) /\ AllFiles(c)' = AllFiles(c)
      BY <2>1 DEF Selected, Selects, AllFiles
    <2>7. \A c, v : Selectable(c, v)' <=> Selectable(c, v)
      BY <2>1 DEF Selectable
    <2>8. GitterOK(p)'
      BY <2>1, <2>2, <2>3, <2>4, <2>5, <2>6, <2>7 DEF GitterOK
    <2> QED
      BY <1>0, <2>1, <2>4, <2>8, GitterSteps
  <1> QED
    BY <1>1, <1>2, <1>3 DEF ResolveCommit, ReadTree

\* What is stored is the process's own, or stays what it was.
LEMMA StoreSnapshotInv ==
    ASSUME GitAssumption, GitInv, NEW p \in Gitters, StoreSnapshot(p) PROVE GitInv'
  <1> DEFINE x == gitter[p]
             v == x.revision
             own == [commit |-> x.commit, files |-> x.files]
             stored == IF snapshot[v] = NoSnapshot THEN own ELSE snapshot[v]
  <1>0. /\ x \in GitterRow /\ gitter \in [Gitters -> GitterRow] /\ mirror \in MirrorRow
        /\ mirrorLock \in Gitters \cup {Unlocked} /\ GitterOK(p) /\ p # Unlocked
    BY OwnRow
  <1>1. CASE ReturnError(p) /\ UNCHANGED mirror
    BY <1>1, GivesUp DEF ReturnError
  <1>2. CASE /\ Storable(p) /\ snapshot' = [snapshot EXCEPT ![v] = stored]
             /\ reported' = [reported EXCEPT ![v] = @ \cup {stored.commit}]
             /\ Return(p) /\ Unlock(p)
             /\ UNCHANGED <<reference, filter, remote, mirror, revision, attempts, pushes, gitKills, tips>>
    <2>1. /\ v \in Revisions /\ mirrorLock = p /\ x.commit \in Commits /\ Selectable(x.commit, v)
          /\ x.files = Selected(x.commit) /\ AllFiles(x.commit)
      BY <1>0 DEF GitterOK, StoreSnapshot, AtStage
    <2>2. snapshot \in [Revisions -> SnapshotRow] /\ reported \in [Revisions -> SUBSET Tips] /\ StoredOK(v)
      BY <2>1 DEF GitInv, GitTyped
    <2>3. own \in SnapshotRow /\ own.commit = x.commit /\ own.files = x.files /\ own # NoSnapshot /\ x.commit \in Tips
      BY <1>0, <2>1, GitRows DEF SnapshotRow, GitterRow, NoSnapshot
    <2>4. /\ stored \in SnapshotRow /\ stored # NoSnapshot /\ stored.commit \in Tips
          /\ snapshot[v] # NoSnapshot => stored = snapshot[v]
          /\ snapshot[v] = NoSnapshot => stored = own
      <3>1. snapshot[v] \in SnapshotRow
        BY <2>1, <2>2
      <3> QED
        BY <2>3, <3>1 DEF SnapshotRow
    <2> HIDE DEF own, stored
    <2>5. snapshot' \in [Revisions -> SnapshotRow] /\ snapshot'[v] = stored
          /\ reported' \in [Revisions -> SUBSET Tips] /\ reported'[v] = reported[v] \cup {stored.commit}
      BY <1>2, <2>1, <2>2, <2>4
    <2>7. \A c, u : Selected(c)' = Selected(c) /\ AllFiles(c)' = AllFiles(c) /\ (Selectable(c, u) => Selectable(c, u)')
      BY <1>2 DEF Selected, Selects, AllFiles, Selectable
    <2>8. PICK w \in Revisions : w = v
      BY <2>1
    <2>9. ASSUME NEW u \in Revisions PROVE StoredOK(u)'
      <3>1. CASE u = w
        <4>1. StoredOK(u) /\ snapshot'[u] = stored /\ reported'[u] = reported[u] \cup {stored.commit}
          BY <2>2, <2>5, <2>8, <3>1
        <4>2. CASE snapshot[v] # NoSnapshot
          <5>1. snapshot'[u] = snapshot[u] /\ reported[u] \subseteq {snapshot[u].commit}
                /\ reported'[u] \subseteq {snapshot[u].commit}
            BY <2>4, <2>8, <3>1, <4>1, <4>2 DEF StoredOK
          <5> QED
            BY <2>4, <2>7, <2>8, <3>1, <4>1, <4>2, <5>1 DEF StoredOK
        <4>3. CASE snapshot[v] = NoSnapshot
          <5>1. snapshot'[u] = own /\ reported'[u] \subseteq {x.commit} /\ Selectable(x.commit, u)
            BY <2>1, <2>3, <2>4, <2>8, <3>1, <4>1, <4>3 DEF StoredOK
          <5> QED
            BY <2>1, <2>3, <2>7, <5>1 DEF StoredOK, NoSnapshot
        <4> QED
          BY <4>2, <4>3
      <3>2. CASE u # w
        <4>1. snapshot'[u] = snapshot[u] /\ reported'[u] = reported[u] /\ tips'[u] = tips[u]
          BY <1>2, <2>2, <2>8, <3>2
        <4> QED
          BY <1>2, <4>1, StoredKept
      <3> QED
        BY <3>1, <3>2
    <2>10. gitter' = [gitter EXCEPT ![p] = Away] /\ gitter'[p] = Away /\ Away \in GitterRow
      BY <1>0, <1>2, GitRows DEF Return
    <2>11. GitterOK(p)'
      BY <2>10 DEF GitterOK, Away
    <2>12. mirrorLock' = Unlocked
      BY <1>2, <2>1 DEF Unlock
    <2>13. gitter' \in [Gitters -> GitterRow] /\ \A q \in Gitters : GitterOK(q)'
      BY <1>0, <1>2, <2>1, <2>10, <2>11, <2>12, GitterMoves
    <2>14. GitTyped' /\ TipsFollow'
      BY <1>0, <1>2, <2>5, <2>12, <2>13 DEF GitInv, GitTyped, TipsFollow
    <2> QED
      BY <2>9, <2>13, <2>14 DEF GitInv
  <1> QED
    BY <1>1, <1>2 DEF StoreSnapshot

\* Nobody else's stage or files depend on a new capture.
LEMMA CaptureInv == ASSUME GitAssumption, GitInv, Capture PROVE GitInv'
  <1>1. UNCHANGED <<reference, filter, remote, mirror, mirrorLock, snapshot, gitter, tips, reported>>
        /\ revision' \in 0..MaxRevisions
    BY GitRows DEF Capture, GitInv, GitTyped
  <1>2. \A p \in Gitters : GitterOK(p)'
    <2>1. \A p \in Gitters : GitterOK(p)
      BY DEF GitInv
    <2> QED
      BY <1>1, <2>1 DEF GitterOK, Selectable, Selected, Selects, AllFiles
  <1>3. \A v \in Revisions : StoredOK(v)'
    BY <1>1, StoredKept
  <1>4. GitTyped' /\ TipsFollow'
    BY <1>1 DEF GitInv, GitTyped, TipsFollow
  <1> QED
    BY <1>2, <1>3, <1>4 DEF GitInv

\* A push adds the new commit to the tips of every revision that was attempted.
LEMMA PushInv ==
    ASSUME GitAssumption, GitInv, NEW c \in Commits \cup {NoCommit}, Push(c) PROVE GitInv'
  <1>1. UNCHANGED <<reference, filter, mirror, mirrorLock, snapshot, gitter, revision, reported>>
        /\ remote' = c /\ c \in Tips
        /\ tips' = [v \in Revisions |-> IF tips[v] = {} THEN {} ELSE tips[v] \cup {c}]
    BY DEF Push, Tips
  <1>2. tips \in [Revisions -> SUBSET Tips]
    BY DEF GitInv, GitTyped
  <1>3. tips' \in [Revisions -> SUBSET Tips] /\ \A v \in Revisions : tips[v] \subseteq tips'[v]
    BY <1>1, <1>2
  <1>4. \A p \in Gitters : GitterOK(p)'
    <2> SUFFICES ASSUME NEW p \in Gitters PROVE GitterOK(p)'
      OBVIOUS
    <2>1. GitterOK(p)
      BY DEF GitInv
    <2>2. \A d : Selected(d)' = Selected(d) /\ AllFiles(d)' = AllFiles(d)
      BY <1>1 DEF Selected, Selects, AllFiles
    <2>3. \A d, v : v \in Revisions /\ Selectable(d, v) => Selectable(d, v)'
      BY <1>1, <1>3 DEF Selectable
    <2>4. gitter[p].at # "away" =>
            gitter[p].revision \in Revisions /\ tips'[gitter[p].revision] # {}
            /\ tips[gitter[p].revision] \subseteq tips'[gitter[p].revision]
      BY <1>3, <2>1 DEF GitterOK
    <2> QED
      BY <1>1, <2>1, <2>2, <2>3, <2>4 DEF GitterOK
  <1>5. \A v \in Revisions : StoredOK(v)'
    BY <1>1, <1>3, StoredKept
  <1>6. TipsFollow'
    <2>1. \A v \in Revisions : tips'[v] # {} => remote' \in tips'[v]
      BY <1>1, <1>2
    <2> QED
      BY <2>1 DEF TipsFollow
  <1>7. GitTyped'
    BY <1>1, <1>3 DEF GitInv, GitTyped
  <1> QED
    BY <1>4, <1>5, <1>6, <1>7 DEF GitInv

\* Every step keeps the invariant.
LEMMA GitStepInv == ASSUME GitAssumption, GitInv, [GitNext]_gitVars PROVE GitInv'
  <1>1. CASE UNCHANGED gitVars
    <2>1. UNCHANGED <<reference, filter, remote, mirror, mirrorLock, snapshot, gitter, revision, tips, reported>>
      BY <1>1 DEF gitVars
    <2> QED
      BY <2>1 DEF GitInv, GitTyped, TipsFollow, GitterOK, StoredOK, Selectable, Selected, Selects, AllFiles
  <1>2. ASSUME NEW p \in Gitters, Materialize(p) PROVE GitInv'
    <2>1. CASE LockTimeout(p)
      BY <2>1, GivesUp DEF LockTimeout, ReturnError
    <2> QED
      BY <1>2, <2>1, BeginMaterializeInv, PrepareInv, FetchInv, ReadInv, StoreSnapshotInv DEF Materialize
  <1>3. ASSUME NEW p \in Gitters, KillGitter(p) PROVE GitInv'
    BY <1>3, GivesUp DEF KillGitter
  <1> QED
    BY <1>1, <1>2, <1>3, CaptureInv, PushInv DEF GitNext

\* A stored snapshot is one commit's, the selected one or one the branch had in
\* time, with the files the patterns of source and commit want, for any number
\* of processes, kills, pushes and revisions (sourcegit.Materialize,
\* filterPattern.matches, pathFilter.partition).
THEOREM SnapshotFaithful == ASSUME GitAssumption PROVE GitSpec => []SnapshotIsFaithful
  <1>1. GitInv => SnapshotIsFaithful
    <2> SUFFICES ASSUME GitInv, NEW v \in Revisions
                 PROVE  /\ reported[v] \subseteq {snapshot[v].commit}
                        /\ snapshot[v] # NoSnapshot =>
                             LET c == snapshot[v].commit
                             IN /\ IF reference.kind = "BRANCH" THEN c \in tips[v] ELSE c = reference.commit
                                /\ snapshot[v].files = {e \in TreeOf[c].entries : Wanted(c, e.path)}
                                /\ \A e \in TreeOf[c].entries : e.kind = "file"
      BY DEF SnapshotIsFaithful
    <2>1. StoredOK(v) /\ filter \in Filters
      BY DEF GitInv, GitTyped
    <2> QED
      BY <2>1, SelectedWanted DEF StoredOK, Selectable, AllFiles
  <1> QED
    BY <1>1, GitInitInv, GitStepInv, PTL DEF GitSpec
=============================================================================
