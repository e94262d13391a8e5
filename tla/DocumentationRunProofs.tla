------------------------ MODULE DocumentationRunProofs ------------------------
(***************************************************************************)
(* Proofs about module DocumentationRun: for any number of runs, pages,    *)
(* sources, attempts and changes, at most one run is active and a live job *)
(* drives it, the published wiki is whole, outcomes stand, publications    *)
(* form a chain, content changes are followed up once, and the runs use    *)
(* their jobs as the queue allows.                                         *)
(***************************************************************************)
EXTENDS DocumentationRun, FiniteSetTheorems, WellFoundedInduction, TLAPS

RunRow == [status : ActiveStatus \cup TerminalStatus \cup {"ABSENT"},
           version : Nat, text : Texts, sources : [Sources -> Captured],
           models : [Roles -> Nat], prior : RunIds \cup {None},
           parent : RunIds \cup {None}, key : Nat, page : [Pages -> PageStatus]]
KbRow == [lifecycle : {"ACTIVE", "ARCHIVED"}, version : Nat \ {0},
          wiki : RunIds \cup {None}, text : Texts]
JobRow == [phase : {"queued", "running", "cancelling"} \cup Settled,
           budget : 0..Attempts,
           stage : {"start", "working", "publishing", "ok", "failure", "retry"}]

Open(row, p) == row.page[p] \in {"PENDING", "RUNNING"}

(***************************************************************************)
(* The inductive invariant of one run: which jobs it needs, and that they  *)
(* are alive and have not reported that they are done; which jobs it has   *)
(* not enqueued yet; what its pages are in each status.  A handler that    *)
(* publishes has found no skipped page.                                    *)
(***************************************************************************)
Needs(row, kind) ==
    \/ kind = "prepare" /\ row.status = "PREPARING"
    \/ kind = "plan" /\ row.status = "PLANNING"
    \/ kind \in Pages /\ row.status = "GENERATING" /\ Open(row, kind)
    \/ kind = "finalize" /\ row.status = "FINALIZING"

Later(status, kind) ==
    \/ status = "ABSENT"
    \/ kind = "plan" /\ status = "PREPARING"
    \/ kind \in Pages /\ status \in {"PREPARING", "PLANNING"}
    \/ kind = "finalize" /\ status \in {"PREPARING", "PLANNING", "GENERATING"}

Live(x) == x.phase \notin Settled /\ x.stage # "ok"

PagesOK(row) ==
    /\ row.status = "GENERATING" => \E p \in Pages : Open(row, p)
    /\ row.status = "FINALIZING" => \E p \in Pages : row.page[p] # "NONE"
    /\ row.status = "FINALIZING" => \A p \in Pages : ~Open(row, p)
    /\ row.status = "PUBLISHED" => \A p \in Pages : row.page[p] \in {"NONE", "COMPLETE"}
    /\ row.status = "PUBLISHED" => \E p \in Pages : row.page[p] = "COMPLETE"

\* The jobs of run r fit its row.
Fits(row, r, jobs) ==
    /\ PagesOK(row)
    /\ \A k \in Kinds : Needs(row, k) => Live(jobs[<<r, k>>])
    /\ \A k \in Kinds : Later(row.status, k) => jobs[<<r, k>>] = NoJob
    /\ row.status = "FINALIZING" /\ jobs[<<r, "finalize">>].stage = "publishing" =>
         \A p \in Pages : row.page[p] # "SKIPPED"

RunInv(r) == Fits(run[r], r, job) /\ (run[r].status = "ABSENT" => run[r] = AbsentRun)

(***************************************************************************)
(* And of all of them: one is active, the follow-up of a run was created   *)
(* when it ended, and a run whose captured version is still the knowledge  *)
(* base's captured the wiki that is still published.                       *)
(***************************************************************************)
ActiveIsOne == \A a, b \in RunIds : run[a].status \in ActiveStatus /\ run[b].status \in ActiveStatus => a = b

VersionsGrow ==
    /\ kb.wiki # None => run[kb.wiki].status = "PUBLISHED"
    /\ \A r \in RunIds : run[r].status # "ABSENT" =>
         /\ run[r].version <= kb.version
         /\ run[r].version = kb.version => run[r].prior = kb.wiki

DocInv == DocTypeOK /\ (\A r \in RunIds : RunInv(r)) /\ ActiveIsOne /\ VersionsGrow /\ OneFollowUp

-----------------------------------------------------------------------------
(***************************************************************************)
(* What a step may do to the runs: each keeps what it captured and its     *)
(* outcome, and one may be created while no other is active, on behalf of  *)
(* one that ended in the same step.                                        *)
(***************************************************************************)
Ended == {"PUBLISHED", "NO_OP", "INTERRUPTED"}

Advances(old, row) ==
    /\ row.status = "ABSENT" <=> old.status = "ABSENT"
    /\ old.status \in TerminalStatus => row.status = old.status
    /\ row.version = old.version /\ row.prior = old.prior /\ row.parent = old.parent

Born(n) ==
    /\ run[n].status = "ABSENT" /\ run'[n].status = "PREPARING"
    /\ run'[n].version = kb'.version /\ run'[n].prior = kb'.wiki
    /\ run'[n].parent # None =>
         /\ run[run'[n].parent].status \in ActiveStatus
         /\ run'[run'[n].parent].status \in Ended
    /\ \A i \in RunIds \ {n} : run'[i].status \notin ActiveStatus /\ Advances(run[i], run'[i])

KbMoves ==
    /\ kb.version <= kb'.version
    /\ kb'.wiki # kb.wiki =>
         /\ kb.version < kb'.version /\ kb'.wiki \in RunIds
         /\ run[kb'.wiki].status = "FINALIZING" /\ run'[kb'.wiki].status = "PUBLISHED"
         /\ run[kb'.wiki].prior = kb.wiki

Evolution ==
    /\ (\A i \in RunIds : Advances(run[i], run'[i])) \/ (\E n \in RunIds : Born(n))
    /\ KbMoves

\* The sources a run captures now, as DriftFollowedUp reads them.
FollowsUp(r) ==
    /\ run[r].status \in ActiveStatus
    /\ run'[r].status \in {"PUBLISHED", "NO_OP"}
    /\ \E s \in Sources :
        run[r].sources[s].active /\ source[s].rev # run[r].sources[s].rev
    => \E q \in ActiveRuns(run') :
        /\ run'[q].parent = r
        /\ \A s \in Sources : run'[q].sources[s].rev =
                IF source[s].active THEN source[s].rev ELSE None

Good ==
    /\ DocTypeOK' /\ (\A i \in RunIds : RunInv(i)')
    /\ Evolution /\ \A i \in RunIds : FollowsUp(i)

LEMMA Statuses ==
    /\ ActiveStatus \cap TerminalStatus = {} /\ "ABSENT" \notin ActiveStatus \cup TerminalStatus
    /\ Ended \subseteq TerminalStatus /\ "PREPARING" \in ActiveStatus /\ "FINALIZING" \in ActiveStatus
    /\ None \notin RunIds
  BY DEF ActiveStatus, TerminalStatus, Ended, None, RunIds

LEMMA EvolutionKeeps ==
    ASSUME DocInv, DocTypeOK', Evolution
    PROVE  ActiveIsOne' /\ VersionsGrow' /\ OneFollowUp'
  <1>1. /\ DocTypeOK /\ ActiveIsOne /\ VersionsGrow /\ OneFollowUp
        /\ \A i \in RunIds : run[i] \in RunRow /\ run'[i] \in RunRow
        /\ kb \in KbRow /\ kb' \in KbRow
    BY DEF DocInv, DocTypeOK, RunRow, KbRow
  <1>2. /\ \A i \in RunIds : run[i].version \in Nat /\ run[i].parent \in RunIds \cup {None}
        /\ kb.version \in Nat /\ kb'.version \in Nat /\ kb.wiki \in RunIds \cup {None}
        /\ \A i \in RunIds : run'[i].status \in ActiveStatus \cup TerminalStatus \cup {"ABSENT"}
        /\ \A i \in RunIds : run[i].status \in ActiveStatus \cup TerminalStatus \cup {"ABSENT"}
        /\ \A i \in RunIds : run'[i].parent \in RunIds \cup {None}
    BY <1>1 DEF RunRow, KbRow
  <1>3. KbMoves
    BY DEF Evolution
  <1>4. CASE \A i \in RunIds : Advances(run[i], run'[i])
    <2>1. ActiveIsOne'
      BY <1>1, <1>2, <1>4, Statuses DEF ActiveIsOne, Advances
    <2>2. VersionsGrow'
      BY <1>1, <1>2, <1>3, <1>4, Statuses DEF VersionsGrow, Advances, KbMoves, TerminalStatus
    <2>3. OneFollowUp'
      BY <1>1, <1>2, <1>4, Statuses DEF OneFollowUp, Advances, Ended
    <2> QED
      BY <2>1, <2>2, <2>3
  <1>5. ASSUME NEW n \in RunIds, Born(n) PROVE ActiveIsOne' /\ VersionsGrow' /\ OneFollowUp'
    <2>1. ActiveIsOne'
      BY <1>5 DEF ActiveIsOne, Born
    <2>2. VersionsGrow'
      <3>1. kb'.wiki # None => kb'.wiki \in RunIds \ {n} /\ run'[kb'.wiki].status = "PUBLISHED"
        BY <1>1, <1>2, <1>3, <1>5, Statuses DEF VersionsGrow, Born, KbMoves, Advances, TerminalStatus
      <3>2. \A i \in RunIds \ {n} : run'[i].status # "ABSENT" =>
               run'[i].version <= kb'.version /\ (run'[i].version = kb'.version => run'[i].prior = kb'.wiki)
        BY <1>1, <1>2, <1>3, <1>5 DEF VersionsGrow, Born, KbMoves, Advances
      <3>3. run'[n].version <= kb'.version /\ run'[n].prior = kb'.wiki
        BY <1>2, <1>5 DEF Born
      <3> QED
        BY <3>1, <3>2, <3>3 DEF VersionsGrow
    <2>3. OneFollowUp'
      <3>1. \A q \in RunIds \ {n} : run'[q].parent = run[q].parent
        BY <1>5 DEF Born, Advances
      <3>2. \A q \in RunIds \ {n} : run'[q].parent # None =>
               /\ run'[q].parent \in RunIds \ {n} /\ run[run'[q].parent].status \in Ended
               /\ run'[run'[q].parent].status = run[run'[q].parent].status
        BY <1>1, <1>2, <1>5, <3>1, Statuses DEF OneFollowUp, Born, Advances, Ended
      <3>3. \A q \in RunIds : run'[q].parent # None => run'[run'[q].parent].status \in Ended
        BY <1>5, <3>2 DEF Born
      <3>4. \A q, o \in RunIds : run'[q].parent # None /\ run'[o].parent = run'[q].parent => o = q
        BY <1>1, <1>5, <3>1, <3>2, Statuses DEF OneFollowUp, Born
      <3> QED
        BY <3>3, <3>4 DEF OneFollowUp, Ended
    <2> QED
      BY <2>1, <2>2, <2>3
  <1> QED
    BY <1>4, <1>5 DEF Evolution

LEMMA GoodKeeps == DocInv /\ Good => DocInv'
  BY EvolutionKeeps DEF DocInv, Good

-----------------------------------------------------------------------------
(***************************************************************************)
(* Steps that write one row, and steps that create a run.                  *)
(***************************************************************************)
\* The part of a run whose row and jobs are left alone.
LEMMA RunFrame ==
    ASSUME NEW i \in RunIds, RunInv(i), run'[i] = run[i], \A k \in Kinds : job'[<<i, k>>] = job[<<i, k>>]
    PROVE  RunInv(i)'
  <1>1. "finalize" \in Kinds
    BY DEF Kinds
  <1>2. Fits(run[i], i, job')
    BY <1>1 DEF RunInv, Fits
  <1> QED
    BY <1>2 DEF RunInv

LEMMA RowStep ==
    ASSUME DocInv, NEW r \in RunIds, NEW row \in RunRow, run[r].status # "ABSENT", Advances(run[r], row),
           run' = [run EXCEPT ![r] = row], job' \in [DocJobs -> JobRow], Fits(row, r, job'),
           \A i \in RunIds \ {r}, k \in Kinds : job'[<<i, k>>] = job[<<i, k>>],
           kb' \in KbRow, KbMoves, UNCHANGED <<source, model>>, edits' \in 0..MaxEdits,
           run[r].status \in ActiveStatus /\ row.status \in {"PUBLISHED", "NO_OP"} => ~Behind(r)
    PROVE  Good
  <1>1. DocTypeOK /\ \A i \in RunIds : RunInv(i)
    BY DEF DocInv
  <1>2. run'[r] = row /\ \A i \in RunIds \ {r} : run'[i] = run[i]
    BY <1>1 DEF DocTypeOK
  <1>3. DocTypeOK'
    BY <1>1 DEF DocTypeOK, RunRow, KbRow, JobRow
  <1>4. RunInv(r)'
    BY <1>2 DEF RunInv, Advances
  <1>5. \A i \in RunIds \ {r} : RunInv(i)'
    BY <1>1, <1>2, RunFrame
  <1>6. \A i \in RunIds : Advances(run[i], run'[i])
    BY <1>2 DEF Advances
  <1>7. \A i \in RunIds : FollowsUp(i)
    <2>1. FollowsUp(r)
      BY <1>2 DEF FollowsUp, Behind
    <2>2. \A i \in RunIds \ {r} : FollowsUp(i)
      BY <1>2, Statuses DEF FollowsUp, TerminalStatus
    <2> QED
      BY <2>1, <2>2
  <1> QED
    BY <1>3, <1>4, <1>5, <1>6, <1>7 DEF Good, Evolution

\* What a new row captures.
Captures(new) ==
    /\ new.status = "PREPARING" /\ new.page = [p \in Pages |-> "NONE"]
    /\ \A s \in Sources : new.sources[s].rev = IF source[s].active THEN source[s].rev ELSE None

\* The jobs of a new run: the prepare job is queued, and no other exists yet.
LEMMA NewFits ==
    ASSUME NEW n \in RunIds, NEW new \in RunRow, Captures(new), NEW jobs,
           jobs[<<n, "prepare">>] = QueuedJob, \A k \in Kinds \ {"prepare"} : jobs[<<n, k>>] = NoJob
    PROVE  Fits(new, n, jobs)
  <1>1. new.status = "PREPARING" /\ "prepare" \notin Pages
    BY DocumentationAssumption DEF Captures
  <1>2. PagesOK(new)
    BY <1>1 DEF PagesOK
  <1>3. Live(QueuedJob)
    BY DEF Live, QueuedJob, Settled
  <1>4. \A k \in Kinds : Needs(new, k) => k = "prepare"
    BY <1>1 DEF Needs
  <1>5. \A k \in Kinds : Later(new.status, k) => k # "prepare"
    BY <1>1 DEF Later
  <1> QED
    BY <1>1, <1>2, <1>3, <1>4, <1>5 DEF Fits

LEMMA SpawnStep ==
    ASSUME DocInv, NEW r \in RunIds, NEW row \in RunRow, run[r].status \in ActiveStatus, row.status \in Ended,
           Advances(run[r], row),
           NEW n \in RunIds, run[n].status = "ABSENT", NEW new \in RunRow, Captures(new), new.parent = r,
           new.version = kb'.version, new.prior = kb'.wiki,
           run' \in [RunIds -> RunRow], run'[r] = row, run'[n] = new, \A i \in RunIds \ {r, n} : run'[i] = run[i],
           NEW jobs \in [DocJobs -> JobRow], Fits(row, r, jobs),
           \A i \in RunIds \ {r}, k \in Kinds : jobs[<<i, k>>] = job[<<i, k>>],
           job' \in [DocJobs -> JobRow], job'[<<n, "prepare">>] = QueuedJob,
           \A i \in DocJobs \ {<<n, "prepare">>} : job'[i] = jobs[i],
           kb' \in KbRow, KbMoves, UNCHANGED <<source, model, edits>>
    PROVE  Good
  <1>1. DocTypeOK /\ ActiveIsOne /\ \A i \in RunIds : RunInv(i)
    BY DEF DocInv
  <1>2. n # r
    BY Statuses
  <1>3. run'[r] = row /\ run'[n] = new /\ \A i \in RunIds \ {r, n} : run'[i] = run[i]
    OBVIOUS
  <1>4. QueuedJob \in JobRow
    BY DocumentationAssumption DEF QueuedJob, JobRow
  <1>5. "prepare" \in Kinds /\ "finalize" \in Kinds /\ <<n, "prepare">> \in DocJobs
    BY DEF Kinds, DocJobs
  <1>6. /\ job'[<<n, "prepare">>] = QueuedJob
        /\ \A k \in Kinds \ {"prepare"} : job'[<<n, k>>] = jobs[<<n, k>>]
        /\ \A i \in RunIds \ {n}, k \in Kinds : job'[<<i, k>>] = jobs[<<i, k>>]
    BY <1>5 DEF DocJobs
  <1>7. DocTypeOK'
    <2>1. job' \in [DocJobs -> JobRow]
      OBVIOUS
    <2>2. run' \in [RunIds -> RunRow]
      BY <1>1 DEF DocTypeOK, RunRow
    <2> QED
      BY <1>1, <2>1, <2>2 DEF DocTypeOK, RunRow, KbRow, JobRow
  <1>8. RunInv(n)'
    <2>1. \A k \in Kinds \ {"prepare"} : job'[<<n, k>>] = NoJob
      <3>1. \A k \in Kinds : job[<<n, k>>] = NoJob
        BY <1>1 DEF RunInv, Fits, Later
      <3>2. \A k \in Kinds : jobs[<<n, k>>] = job[<<n, k>>]
        BY <1>2
      <3> QED
        BY <1>6, <3>1, <3>2
    <2>2. Fits(new, n, job')
      BY <1>6, <2>1, NewFits
    <2> QED
      BY <1>3, <2>2 DEF RunInv, Captures
  <1>9. RunInv(r)'
    <2>1. Fits(row, r, job')
      BY <1>2, <1>5, <1>6 DEF Fits
    <2> QED
      BY <1>3, <2>1, Statuses DEF RunInv
  <1>10. \A i \in RunIds \ {r, n} : RunInv(i)'
    <2> SUFFICES ASSUME NEW i \in RunIds \ {r, n} PROVE RunInv(i)'
      OBVIOUS
    <2>1. \A k \in Kinds : job'[<<i, k>>] = jobs[<<i, k>>] /\ jobs[<<i, k>>] = job[<<i, k>>]
      BY <1>6
    <2> QED
      BY <1>1, <1>3, <2>1, RunFrame
  <1>11. Born(n)
    <2>1. \A i \in RunIds \ {n} : Advances(run[i], run'[i])
      BY <1>3 DEF Advances
    <2>2. \A i \in RunIds \ {n} : run'[i].status \notin ActiveStatus
      BY <1>1, <1>3, Statuses DEF ActiveIsOne
    <2> QED
      BY <1>2, <1>3, <2>1, <2>2 DEF Born, Captures
  <1>12. \A i \in RunIds : FollowsUp(i)
    <2>1. FollowsUp(r)
      <3>1. n \in ActiveRuns(run')
        BY <1>3, Statuses DEF ActiveRuns, Captures
      <3>2. run'[n].parent = r /\ \A s \in Sources : run'[n].sources[s].rev =
              IF source[s].active THEN source[s].rev ELSE None
        BY <1>3 DEF Captures
      <3> QED
        BY <3>1, <3>2 DEF FollowsUp
    <2>2. \A i \in RunIds \ {r} : FollowsUp(i)
      BY <1>3, Statuses DEF FollowsUp, TerminalStatus
    <2> QED
      BY <2>1, <2>2
  <1> QED
    BY <1>7, <1>8, <1>9, <1>10, <1>11, <1>12 DEF Good, Evolution

\* A nonempty set of naturals has a least element.
LEMMA LeastOfRuns ==
    ASSUME NEW T \in SUBSET Nat, T # {}
    PROVE  \E x \in T : \A y \in T : x <= y
  <1> DEFINE R == {ss \in Nat \X Nat : ss[1] < ss[2]}
  <1>1. IsWellFoundedOn(R, Nat)
    BY NatLessThanWellFounded, Zenon DEF OpToRel
  <1>2. \A x, y \in Nat : y < x => <<y, x>> \in R
    OBVIOUS
  <1> HIDE DEF R
  <1>3. PICK x \in T : \A y \in T : ~(<<y, x>> \in R)
    BY <1>1, WFMin, Zenon
  <1>4. \A y \in T : ~(y < x)
    BY <1>2, <1>3
  <1> QED
    BY <1>4

LEMMA NewRunIsFree ==
    ASSUME FreeRuns # {}
    PROVE  NewRun \in RunIds /\ run[NewRun].status = "ABSENT"
  <1>1. FreeRuns \in SUBSET Nat
    BY DocumentationAssumption DEF FreeRuns, RunIds
  <1>2. \E r \in FreeRuns : \A q \in FreeRuns : r <= q
    BY <1>1, LeastOfRuns
  <1>3. NewRun \in FreeRuns
    BY <1>2 DEF NewRun
  <1> QED
    BY <1>3 DEF FreeRuns

\* The row that newRunTx inserts.
LEMMA NewRowCaptures ==
    ASSUME DocTypeOK, NEW base \in KbRow, NEW parent \in RunIds \cup {None}, NEW key \in Nat
    PROVE  LET new == NewRow(base, parent, key) IN
           /\ new \in RunRow /\ Captures(new) /\ new.parent = parent
           /\ new.version = base.version /\ new.prior = base.wiki
  <1> DEFINE new == NewRow(base, parent, key)
             captured == [s \in Sources |-> IF source[s].active THEN source[s] ELSE AbsentRun.sources[s]]
             text == CHOOSE t \in Texts : TRUE
  <1>1. text \in Texts
    BY DocumentationAssumption
  <1>2. \A s \in Sources : AbsentRun.sources[s] = [active |-> FALSE, conf |-> 0, rev |-> 0]
    BY DEF AbsentRun
  <1>3. captured \in [Sources -> Captured] /\ \A s \in Sources : captured[s].rev = IF source[s].active THEN source[s].rev ELSE None
    <2>1. \A s \in Sources : source[s] \in Captured
      BY DEF DocTypeOK
    <2>2. [active |-> FALSE, conf |-> 0, rev |-> 0] \in Captured
      BY DEF Captured
    <2>3. \A s \in Sources : (IF source[s].active THEN source[s] ELSE AbsentRun.sources[s]) \in Captured
      BY <1>2, <2>1, <2>2
    <2>4. captured \in [Sources -> Captured]
      BY <2>3
    <2>5. ASSUME NEW s \in Sources
          PROVE  captured[s].rev = IF source[s].active THEN source[s].rev ELSE None
      <3>1. captured[s] = IF source[s].active THEN source[s] ELSE [active |-> FALSE, conf |-> 0, rev |-> 0]
        BY <1>2
      <3> QED
        BY <3>1 DEF None
    <2> QED
      BY <2>4, <2>5
  <1>4. /\ new.status = "PREPARING" /\ new.version = base.version /\ new.text = base.text
        /\ new.sources = captured /\ new.models = model /\ new.prior = base.wiki /\ new.parent = parent
        /\ new.key = key /\ new.page = [p \in Pages |-> "NONE"]
    BY DEF NewRow, AbsentRun
  <1>5. AbsentRun \in RunRow
    BY <1>1 DEF AbsentRun, RunRow, Captured, None, PageStatus
  <1>6. new \in RunRow
    <2>1. new = [AbsentRun EXCEPT !.status = "PREPARING", !.version = base.version, !.text = base.text,
                   !.sources = captured, !.models = model, !.prior = base.wiki, !.parent = parent, !.key = key]
      BY DEF NewRow
    <2>2. /\ "PREPARING" \in ActiveStatus /\ base.version \in Nat /\ base.text \in Texts
          /\ model \in [Roles -> Nat] /\ base.wiki \in RunIds \cup {None}
      BY DEF ActiveStatus, KbRow, DocTypeOK
    <2> HIDE DEF new, captured
    <2> QED
      BY <1>3, <1>5, <2>1, <2>2 DEF RunRow
  <1> QED
    BY <1>3, <1>4, <1>6 DEF Captures, new

-----------------------------------------------------------------------------
(***************************************************************************)
(* The jobs of a run.                                                      *)
(***************************************************************************)
LEMMA JobChange ==
    ASSUME DocTypeOK, NEW r \in RunIds, NEW k \in Kinds, NEW x \in JobRow
    PROVE  LET jobs == [job EXCEPT ![<<r, k>>] = x] IN
           /\ jobs \in [DocJobs -> JobRow] /\ jobs[<<r, k>>] = x
           /\ \A m \in Kinds \ {k} : jobs[<<r, m>>] = job[<<r, m>>]
           /\ \A i \in RunIds \ {r}, m \in Kinds : jobs[<<i, m>>] = job[<<i, m>>]
  BY DEF DocTypeOK, JobRow, DocJobs

Stages == {"start", "working", "publishing", "ok", "failure", "retry"}

\* The row of a job whose handler has got as far as result.
Answered(j, result) == [job[j] EXCEPT !.stage = result]

LEMMA ReturnsJob ==
    ASSUME DocTypeOK, NEW j \in DocJobs, NEW result \in Stages
    PROVE  /\ Answered(j, result) \in JobRow
           /\ Answered(j, result).stage = result
           /\ Answered(j, result).phase = job[j].phase
           /\ Answered(j, result).budget = job[j].budget
           /\ Returns(j, result) = [job EXCEPT ![j] = Answered(j, result)]
  <1>1. job[j] \in JobRow
    BY DEF DocTypeOK, JobRow
  <1> QED
    BY <1>1 DEF JobRow, Answered, Returns, Stages

\* A job that exists belongs to a run, and is not one of its later jobs.
LEMMA JobExists ==
    ASSUME DocInv, NEW r \in RunIds, NEW k \in Kinds, job[<<r, k>>].phase # "none"
    PROVE  run[r].status # "ABSENT" /\ ~Later(run[r].status, k)
  <1>1. Fits(run[r], r, job) /\ NoJob.phase = "none"
    BY DEF DocInv, RunInv, NoJob
  <1>2. ~Later(run[r].status, k)
    BY <1>1 DEF Fits
  <1> QED
    BY <1>2 DEF Later

\* A run that is over needs no job.
LEMMA OverFits ==
    ASSUME NEW row \in RunRow, NEW r, NEW jobs, row.status \in {"INTERRUPTED", "FAILED", "NO_OP"}
    PROVE  Fits(row, r, jobs)
  BY DEF Fits, PagesOK, Needs, Later

LEMMA EndedRow ==
    ASSUME DocTypeOK, NEW r \in RunIds, NEW status \in ActiveStatus \cup TerminalStatus
    PROVE  LET row == [run[r] EXCEPT !.status = status] IN
           /\ row \in RunRow /\ row.status = status /\ row.page = run[r].page
           /\ run[r].status \in ActiveStatus => Advances(run[r], row)
           /\ EndRun(r, status) = [run EXCEPT ![r] = row]
  <1> DEFINE row == [run[r] EXCEPT !.status = status]
  <1>1. run[r] \in RunRow
    BY DEF DocTypeOK, RunRow
  <1>2. row \in RunRow /\ row.status = status /\ row.page = run[r].page
    BY <1>1 DEF RunRow
  <1>3. row.version = run[r].version /\ row.prior = run[r].prior /\ row.parent = run[r].parent
    BY <1>1 DEF RunRow
  <1>4. EndRun(r, status) = [run EXCEPT ![r] = row]
    BY DEF EndRun
  <1> HIDE DEF row
  <1>5. run[r].status \in ActiveStatus => Advances(run[r], row)
    BY <1>2, <1>3, Statuses DEF Advances
  <1> QED
    BY <1>2, <1>4, <1>5 DEF row

LEMMA KbStays ==
    ASSUME DocTypeOK, UNCHANGED kb
    PROVE  kb' \in KbRow /\ KbMoves
  <1>1. kb \in KbRow
    BY DEF DocTypeOK, KbRow
  <1>2. kb.version \in Nat
    BY <1>1 DEF KbRow
  <1> QED
    BY <1>1, <1>2 DEF KbMoves

\* A step that only changes one job, and not one its run still waits for.
LEMMA OneJobStep ==
    ASSUME DocInv, NEW r \in RunIds, NEW k \in Kinds, job[<<r, k>>].phase # "none", NEW x \in JobRow,
           run' = run, job' = [job EXCEPT ![<<r, k>>] = x], UNCHANGED <<kb, source, model>>, edits' \in 0..MaxEdits,
           Needs(run[r], k) => Live(x),
           x.stage = "publishing" =>
             job[<<r, k>>].stage = "publishing" \/ \A p \in Pages : run[r].page[p] # "SKIPPED"
    PROVE  Good
  <1>1. DocTypeOK /\ RunInv(r) /\ run[r] \in RunRow
    BY DEF DocInv, DocTypeOK, RunRow
  <1>2. run[r].status # "ABSENT" /\ ~Later(run[r].status, k)
    BY JobExists
  <1>3. /\ job' \in [DocJobs -> JobRow] /\ job'[<<r, k>>] = x
        /\ \A m \in Kinds \ {k} : job'[<<r, m>>] = job[<<r, m>>]
        /\ \A i \in RunIds \ {r}, m \in Kinds : job'[<<i, m>>] = job[<<i, m>>]
    BY <1>1, JobChange
  <1>4. Fits(run[r], r, job')
    <2>1. Fits(run[r], r, job) /\ "finalize" \in Kinds
      BY <1>1 DEF RunInv, Kinds
    <2>2. \A m \in Kinds : Needs(run[r], m) => Live(job'[<<r, m>>])
      BY <1>3, <2>1 DEF Fits
    <2>3. \A m \in Kinds : Later(run[r].status, m) => job'[<<r, m>>] = NoJob
      BY <1>2, <1>3, <2>1 DEF Fits
    <2>4. run[r].status = "FINALIZING" /\ job'[<<r, "finalize">>].stage = "publishing" =>
            \A p \in Pages : run[r].page[p] # "SKIPPED"
      BY <1>3, <2>1 DEF Fits
    <2> QED
      BY <2>1, <2>2, <2>3, <2>4 DEF Fits
  <1>5. run' = [run EXCEPT ![r] = run[r]] /\ Advances(run[r], run[r])
    BY <1>1 DEF DocTypeOK, Advances
  <1>6. run[r].status \in ActiveStatus /\ run[r].status \in {"PUBLISHED", "NO_OP"} => ~Behind(r)
    BY Statuses DEF TerminalStatus
  <1> QED
    BY <1>1, <1>2, <1>3, <1>4, <1>5, <1>6, KbStays, RowStep

\* A handler reports that it is done, fails or is to be retried.
LEMMA ReturnStep ==
    ASSUME DocInv, NEW r \in RunIds, NEW k \in Kinds, job[<<r, k>>].phase \in {"running", "cancelling"},
           NEW result \in Stages,
           run' = run, job' = Returns(<<r, k>>, result), UNCHANGED <<kb, source, model>>, edits' \in 0..MaxEdits,
           Needs(run[r], k) => result # "ok",
           result = "publishing" =>
             job[<<r, k>>].stage = "publishing" \/ \A p \in Pages : run[r].page[p] # "SKIPPED"
    PROVE  Good
  <1>1. DocTypeOK
    BY DEF DocInv
  <1>0. <<r, k>> \in DocJobs
    BY DEF DocJobs
  <1>2. PICK x : x = Answered(<<r, k>>, result)
    OBVIOUS
  <1>3. x \in JobRow /\ x.stage = result /\ x.phase = job[<<r, k>>].phase
    BY <1>0, <1>1, <1>2, ReturnsJob
  <1>4. Needs(run[r], k) => Live(x)
    BY <1>3 DEF Live, Settled
  <1>5. job[<<r, k>>].phase # "none"
    OBVIOUS
  <1>6. job' = [job EXCEPT ![<<r, k>>] = x]
    BY <1>0, <1>1, <1>2, ReturnsJob
  <1>7. x.stage = "publishing" =>
          job[<<r, k>>].stage = "publishing" \/ \A p \in Pages : run[r].page[p] # "SKIPPED"
    BY <1>3
  <1> QED
    BY <1>3, <1>4, <1>5, <1>6, <1>7, OneJobStep

-----------------------------------------------------------------------------
(***************************************************************************)
(* A handler ends its run, with or without a follow-up.                    *)
(***************************************************************************)
LEMMA ReturnsFrame ==
    ASSUME DocTypeOK, NEW r \in RunIds, NEW k \in Kinds, NEW j, j = <<r, k>>, NEW result \in Stages,
           NEW jobs, jobs = Returns(j, result)
    PROVE  /\ jobs \in [DocJobs -> JobRow] /\ jobs[j].stage = result /\ jobs[j].phase = job[j].phase
           /\ \A m \in Kinds \ {k} : jobs[<<r, m>>] = job[<<r, m>>]
           /\ \A i \in RunIds \ {r}, m \in Kinds : jobs[<<i, m>>] = job[<<i, m>>]
  <1>1. j \in DocJobs
    BY DEF DocJobs
  <1>2. PICK x : x = Answered(j, result)
    OBVIOUS
  <1>3. x \in JobRow /\ x.stage = result /\ x.phase = job[j].phase /\ jobs = [job EXCEPT ![j] = x]
    BY <1>1, <1>2, ReturnsJob
  <1>4. jobs = [job EXCEPT ![<<r, k>>] = x] /\ x \in JobRow
    BY <1>3
  <1>5. /\ jobs \in [DocJobs -> JobRow] /\ jobs[<<r, k>>] = x
        /\ \A m \in Kinds \ {k} : jobs[<<r, m>>] = job[<<r, m>>]
        /\ \A i \in RunIds \ {r}, m \in Kinds : jobs[<<i, m>>] = job[<<i, m>>]
    BY <1>4, JobChange
  <1> QED
    BY <1>3, <1>5

\* The pages a run has when it is published.
WholeWiki(row) ==
    /\ \A p \in Pages : row.page[p] \in {"NONE", "COMPLETE"}
    /\ \E p \in Pages : row.page[p] = "COMPLETE"

LEMMA EndedFits ==
    ASSUME NEW row \in RunRow, NEW r, NEW jobs, row.status \in TerminalStatus,
           row.status = "PUBLISHED" => WholeWiki(row)
    PROVE  Fits(row, r, jobs)
  BY DEF Fits, PagesOK, Needs, Later, TerminalStatus, WholeWiki

LEMMA EndStep ==
    ASSUME DocInv, NEW r \in RunIds, NEW k \in Kinds, NEW j, j = <<r, k>>, NEW result \in Stages,
           run[r].status \in ActiveStatus, NEW status \in TerminalStatus,
           status = "PUBLISHED" => WholeWiki(run[r]), status \in {"PUBLISHED", "NO_OP"} => ~Behind(r),
           run' = EndRun(r, status), job' = Returns(j, result),
           kb' \in KbRow, KbMoves, UNCHANGED <<source, model, edits>>
    PROVE  Good
  <1>1. DocTypeOK
    BY DEF DocInv
  <1>2. PICK row : row = [run[r] EXCEPT !.status = status]
    OBVIOUS
  <1>3. row \in RunRow /\ row.status = status /\ row.page = run[r].page /\ Advances(run[r], row)
        /\ run' = [run EXCEPT ![r] = row]
    BY <1>1, <1>2, EndedRow
  <1>4. /\ job' \in [DocJobs -> JobRow]
        /\ \A i \in RunIds \ {r}, m \in Kinds : job'[<<i, m>>] = job[<<i, m>>]
    BY <1>1, ReturnsFrame
  <1>5. row.status \in TerminalStatus /\ (row.status = "PUBLISHED" => WholeWiki(row))
    BY <1>3 DEF WholeWiki
  <1>6. Fits(row, r, job')
    BY <1>3, <1>5, EndedFits
  <1>7. edits' \in 0..MaxEdits /\ run[r].status # "ABSENT"
    BY <1>1, Statuses DEF DocTypeOK
  <1> QED
    BY <1>3, <1>4, <1>6, <1>7, RowStep

LEMMA FollowStep ==
    ASSUME DocInv, NEW r \in RunIds, NEW k \in Kinds, NEW j, j = <<r, k>>, NEW result \in Stages,
           run[r].status \in ActiveStatus, NEW status \in Ended,
           status = "PUBLISHED" => WholeWiki(run[r]),
           NEW ended, ended = EndRun(r, status), NEW jobs, jobs = Returns(j, result),
           NEW base \in KbRow, kb' = base, KbMoves, FreeRuns # {},
           run' = WithNewRun(ended, base, r, None), job' = WithPrepare(jobs),
           UNCHANGED <<source, model, edits>>
    PROVE  Good
  <1>1. DocTypeOK
    BY DEF DocInv
  <1>2. PICK row : row = [run[r] EXCEPT !.status = status]
    OBVIOUS
  <1>3. row \in RunRow /\ row.status = status /\ row.page = run[r].page /\ Advances(run[r], row)
        /\ ended = [run EXCEPT ![r] = row]
    BY <1>1, <1>2, EndedRow DEF Ended, TerminalStatus
  <1>4. /\ jobs \in [DocJobs -> JobRow]
        /\ \A i \in RunIds \ {r}, m \in Kinds : jobs[<<i, m>>] = job[<<i, m>>]
    BY <1>1, ReturnsFrame
  <1>5. row.status \in TerminalStatus /\ (row.status = "PUBLISHED" => WholeWiki(row))
    BY <1>3 DEF WholeWiki, Ended, TerminalStatus
  <1>6. Fits(row, r, jobs)
    BY <1>3, <1>5, EndedFits
  <1>7. PICK n : n = NewRun
    OBVIOUS
  <1>8. n \in RunIds /\ run[n].status = "ABSENT"
    BY <1>7, NewRunIsFree
  <1>9. PICK new : new = NewRow(base, r, None)
    OBVIOUS
  <1>10. /\ new \in RunRow /\ Captures(new) /\ new.parent = r
         /\ new.version = kb'.version /\ new.prior = kb'.wiki
    BY <1>1, <1>9, NewRowCaptures DEF None
  <1>11. /\ run' \in [RunIds -> RunRow] /\ run'[r] = row /\ run'[n] = new
         /\ \A i \in RunIds \ {r, n} : run'[i] = run[i]
    <2>1. run' = [ended EXCEPT ![n] = new]
      BY <1>7, <1>9 DEF WithNewRun
    <2>2. run \in [RunIds -> RunRow]
      BY <1>1 DEF DocTypeOK, RunRow
    <2>3. n # r
      BY <1>8, Statuses
    <2>4. ended \in [RunIds -> RunRow] /\ ended[r] = row /\ \A i \in RunIds \ {r} : ended[i] = run[i]
      BY <1>3, <2>2
    <2> QED
      BY <1>8, <1>10, <2>1, <2>3, <2>4
  <1>12. /\ job' \in [DocJobs -> JobRow] /\ job'[<<n, "prepare">>] = QueuedJob
         /\ \A i \in DocJobs \ {<<n, "prepare">>} : job'[i] = jobs[i]
    <2>1. job' = [jobs EXCEPT ![<<n, "prepare">>] = QueuedJob] /\ <<n, "prepare">> \in DocJobs
      BY <1>7, <1>8 DEF WithPrepare, DocJobs, Kinds
    <2>2. QueuedJob \in JobRow
      BY DocumentationAssumption DEF QueuedJob, JobRow
    <2> QED
      BY <1>4, <2>1, <2>2
  <1>13. row.status \in Ended /\ kb' \in KbRow
    BY <1>3
  <1> QED
    BY <1>3, <1>4, <1>6, <1>8, <1>10, <1>11, <1>12, <1>13, SpawnStep

LEMMA FollowUpStep ==
    ASSUME DocInv, NEW r \in RunIds, NEW k \in Kinds, NEW j, j = <<r, k>>, NEW result \in Stages,
           run[r].status \in ActiveStatus, NEW status \in {"NO_OP", "PUBLISHED"},
           status = "PUBLISHED" => WholeWiki(run[r]),
           NEW ended, ended = EndRun(r, status), NEW jobs, jobs = Returns(j, result),
           NEW base \in KbRow, kb' = base, KbMoves, FollowUp(r, ended, base, jobs),
           UNCHANGED <<source, model, edits>>
    PROVE  Good
  <1>1. status \in Ended /\ status \in TerminalStatus
    BY DEF Ended, TerminalStatus
  <1>2. CASE Behind(r)
    <2>1. FreeRuns # {} /\ run' = WithNewRun(ended, base, r, None) /\ job' = WithPrepare(jobs)
      BY <1>2 DEF FollowUp
    <2> QED
      BY <1>1, <2>1, FollowStep
  <1>3. CASE ~Behind(r)
    <2>1. run' = EndRun(r, status) /\ job' = Returns(j, result) /\ kb' \in KbRow
      BY <1>3 DEF FollowUp
    <2> QED
      BY <1>1, <1>3, <2>1, EndStep
  <1> QED
    BY <1>2, <1>3

\* interruptTx: the run ends, with a follow-up if one can be captured, or
\* nothing is written at all.
LEMMA InterruptStep ==
    ASSUME DocInv, NEW r \in RunIds, NEW k \in Kinds, NEW j, j = <<r, k>>, job[j].phase = "running",
           run[r].status \in ActiveStatus, NEW otherwise \in {"retry", "publishing"},
           otherwise = "publishing" => job[j].stage = "publishing",
           Interrupt(r, j, "ok", otherwise), UNCHANGED <<kb, source, model, edits>>
    PROVE  Good
  <1>1. DocTypeOK /\ kb' \in KbRow /\ KbMoves /\ edits' \in 0..MaxEdits
    BY KbStays DEF DocInv, DocTypeOK
  <1>2. "ok" \in Stages /\ otherwise \in Stages /\ "INTERRUPTED" \in Ended /\ "INTERRUPTED" \in TerminalStatus
    BY DEF Stages, Ended, TerminalStatus
  <1>3. PICK ended : ended = EndRun(r, "INTERRUPTED")
    OBVIOUS
  <1>4. ended = [run EXCEPT ![r].status = "INTERRUPTED"]
    BY <1>3 DEF EndRun
  <1>5. CASE kb.lifecycle # "ACTIVE"
    <2>1. run' = EndRun(r, "INTERRUPTED") /\ job' = Returns(j, "ok")
      BY <1>3, <1>4, <1>5 DEF Interrupt
    <2> QED
      BY <1>1, <1>2, <2>1, EndStep
  <1>6. CASE kb.lifecycle = "ACTIVE" /\ CanStart(ended, kb)
    <2>1. PICK jobs, base : jobs = Returns(j, "ok") /\ base = kb
      OBVIOUS
    <2>2. FreeRuns # {} /\ run' = WithNewRun(ended, base, r, None) /\ job' = WithPrepare(jobs)
      BY <1>4, <1>6, <2>1 DEF Interrupt
    <2>3. base \in KbRow /\ kb' = base
      BY <1>1, <2>1
    <2> QED
      BY <1>1, <1>2, <1>3, <2>1, <2>2, <2>3, FollowStep
  <1>7. CASE kb.lifecycle = "ACTIVE" /\ ~CanStart(ended, kb)
    <2>1. run' = run /\ job' = Returns(<<r, k>>, otherwise)
      BY <1>4, <1>7 DEF Interrupt
    <2>2. job[<<r, k>>].phase \in {"running", "cancelling"} /\ otherwise # "ok"
      OBVIOUS
    <2>3. otherwise = "publishing" =>
             job[<<r, k>>].stage = "publishing" \/ \A p \in Pages : run[r].page[p] # "SKIPPED"
      OBVIOUS
    <2> QED
      BY <1>1, <1>2, <2>1, <2>2, <2>3, ReturnStep
  <1> QED
    BY <1>5, <1>6, <1>7

-----------------------------------------------------------------------------
(***************************************************************************)
(* The handlers.                                                           *)
(***************************************************************************)
LEMMA KindsApart ==
    /\ "prepare" \in Kinds /\ "plan" \in Kinds /\ "finalize" \in Kinds /\ Pages \subseteq Kinds
    /\ "prepare" \notin Pages /\ "plan" \notin Pages /\ "finalize" \notin Pages
  BY DocumentationAssumption DEF Kinds

\* A handler that finds nothing to do, or gives up.
LEMMA AnswerStep ==
    ASSUME DocInv, NEW r \in RunIds, NEW k \in Kinds, NEW j, j = <<r, k>>,
           job[j].phase \in {"running", "cancelling"}, NEW result \in Stages \ {"publishing"},
           result = "ok" => ~Needs(run[r], k),
           run' = run, job' = Returns(j, result), UNCHANGED <<kb, source, model, edits>>
    PROVE  Good
  <1>1. edits' \in 0..MaxEdits
    BY DEF DocInv, DocTypeOK
  <1>2. job[<<r, k>>].phase \in {"running", "cancelling"} /\ job' = Returns(<<r, k>>, result)
    OBVIOUS
  <1>3. result \in Stages /\ result # "publishing" /\ (Needs(run[r], k) => result # "ok")
    BY Zenon
  <1> QED
    BY <1>1, <1>2, <1>3, ReturnStep

LEMMA PrepareStep ==
    ASSUME DocInv, NEW r \in RunIds, NEW intact \in BOOLEAN, Prepare(r, intact)
    PROVE  Good
  <1>1. PICK j : j = <<r, "prepare">>
    OBVIOUS
  <1>2. /\ job[j].phase = "running" /\ UNCHANGED <<kb, source, model, edits>> /\ "prepare" \in Kinds
        /\ "ok" \in Stages /\ "failure" \in Stages /\ "retry" \in Stages
    BY <1>1, KindsApart DEF Prepare, Permitted, Stages
  <1>3. DocTypeOK /\ kb \in KbRow /\ kb' \in KbRow /\ KbMoves /\ edits' \in 0..MaxEdits
    BY <1>2, KbStays DEF DocInv, DocTypeOK, KbRow
  <1>4. CASE run[r].status # "PREPARING"
    <2>1. PICK result : result = Answer(r)
      OBVIOUS
    <2>2. result \in Stages \ {"publishing"}
      BY <2>1 DEF Answer, Stages
    <2>3. run' = run /\ job' = Returns(j, result)
      BY <1>1, <1>4, <2>1 DEF Prepare
    <2>4. ~Needs(run[r], "prepare")
      BY <1>4, KindsApart DEF Needs
    <2> QED
      BY <1>1, <1>2, <2>2, <2>3, <2>4, AnswerStep
  <1>5. CASE run[r].status = "PREPARING" /\ ~ConfigurationCurrent(r)
    <2>1. Interrupt(r, j, "ok", "retry") /\ run[r].status \in ActiveStatus
      BY <1>1, <1>5 DEF Prepare, ActiveStatus
    <2> QED
      BY <1>1, <1>2, <2>1, InterruptStep
  <1>6. CASE run[r].status = "PREPARING" /\ ConfigurationCurrent(r) /\ SameSnapshot(r) /\ intact
    <2>1. PICK ended, jobs, base : ended = EndRun(r, "NO_OP") /\ jobs = Returns(j, "ok") /\ base = kb
      OBVIOUS
    <2>2. FollowUp(r, ended, base, jobs) /\ run[r].status \in ActiveStatus
      BY <1>1, <1>6, <2>1 DEF Prepare, ActiveStatus
    <2>3. base \in KbRow /\ kb' = base
      BY <1>2, <1>3, <2>1
    <2> QED
      BY <1>1, <1>2, <1>3, <2>1, <2>2, <2>3, FollowUpStep
  <1>7. CASE /\ run[r].status = "PREPARING" /\ ConfigurationCurrent(r) /\ ~(SameSnapshot(r) /\ intact)
             /\ \E role \in Roles : run[r].models[role] = None
    <2>1. run' = EndRun(r, "FAILED") /\ job' = Returns(j, "failure")
      BY <1>1, <1>7 DEF Prepare
    <2>2. run[r].status \in ActiveStatus /\ "FAILED" \in TerminalStatus
      BY <1>7 DEF ActiveStatus, TerminalStatus
    <2> QED
      BY <1>1, <1>2, <1>3, <2>1, <2>2, EndStep
  <1>8. CASE /\ run[r].status = "PREPARING" /\ ConfigurationCurrent(r) /\ ~(SameSnapshot(r) /\ intact)
             /\ ~\E role \in Roles : run[r].models[role] = None
    <2>1. PICK row, jobs : row = [run[r] EXCEPT !.status = "PLANNING"] /\ jobs = Returns(j, "ok")
      OBVIOUS
    <2>2. "PLANNING" \in ActiveStatus /\ run[r].status \in ActiveStatus /\ run[r].status # "ABSENT"
      BY <1>8, Statuses DEF ActiveStatus
    <2>3. run' = EndRun(r, "PLANNING") /\ job' = [jobs EXCEPT ![<<r, "plan">>] = QueuedJob]
      BY <1>1, <1>8, <2>1 DEF Prepare
    <2>4. row \in RunRow /\ row.status = "PLANNING" /\ Advances(run[r], row) /\ run' = [run EXCEPT ![r] = row]
      BY <1>3, <2>1, <2>2, <2>3, EndedRow
    <2>5. /\ jobs \in [DocJobs -> JobRow]
          /\ \A m \in Kinds \ {"prepare"} : jobs[<<r, m>>] = job[<<r, m>>]
          /\ \A i \in RunIds \ {r}, m \in Kinds : jobs[<<i, m>>] = job[<<i, m>>]
      BY <1>1, <1>2, <1>3, <2>1, ReturnsFrame
    <2>6. QueuedJob \in JobRow /\ Live(QueuedJob)
      BY DocumentationAssumption DEF QueuedJob, JobRow, Live, Settled
    <2>7. /\ job' \in [DocJobs -> JobRow] /\ job'[<<r, "plan">>] = QueuedJob
          /\ \A m \in Kinds \ {"prepare", "plan"} : job'[<<r, m>>] = job[<<r, m>>]
          /\ \A i \in RunIds \ {r}, m \in Kinds : job'[<<i, m>>] = job[<<i, m>>]
      BY <2>3, <2>5, <2>6, KindsApart DEF DocJobs
    <2>8. Fits(row, r, job')
      <3>1. PagesOK(row)
        BY <2>4 DEF PagesOK
      <3>2. \A m \in Kinds : Needs(row, m) => m = "plan"
        BY <2>4 DEF Needs
      <3>3. \A m \in Kinds : Later(row.status, m) => m \notin {"prepare", "plan"} /\ Later(run[r].status, m)
        BY <1>8, <2>4, KindsApart DEF Later
      <3>4. \A m \in Kinds : Later(run[r].status, m) => job[<<r, m>>] = NoJob
        BY DEF DocInv, RunInv, Fits
      <3> QED
        BY <2>4, <2>6, <2>7, <3>1, <3>2, <3>3, <3>4 DEF Fits
    <2>9. row.status \notin {"PUBLISHED", "NO_OP"}
      BY <2>4
    <2> QED
      BY <1>2, <1>3, <2>2, <2>4, <2>7, <2>8, <2>9, RowStep
  <1> QED
    BY <1>4, <1>5, <1>6, <1>7, <1>8

LEMMA BeginPlanStep ==
    ASSUME DocInv, NEW r \in RunIds, BeginPlan(r)
    PROVE  Good
  <1>1. PICK j, result : j = <<r, "plan">> /\ result = IF run[r].status = "PLANNING" THEN "working" ELSE Answer(r)
    OBVIOUS
  <1>2. /\ job[j].phase \in {"running", "cancelling"} /\ run' = run /\ job' = Returns(j, result)
        /\ UNCHANGED <<kb, source, model, edits>>
    BY <1>1 DEF BeginPlan
  <1>3. result \in Stages \ {"publishing"} /\ (result = "ok" => run[r].status # "PLANNING")
    BY <1>1 DEF Answer, Stages
  <1>4. "plan" \in Kinds /\ (result = "ok" => ~Needs(run[r], "plan"))
    BY <1>3, KindsApart DEF Needs
  <1> QED
    BY <1>1, <1>2, <1>3, <1>4, AnswerStep

LEMMA AcceptPlanStep ==
    ASSUME DocInv, NEW r \in RunIds, NEW pages \in (SUBSET Pages) \ {{}}, AcceptPlan(r, pages)
    PROVE  Good
  <1>1. PICK j : j = <<r, "plan">>
    OBVIOUS
  <1>2. /\ job[j].phase = "running" /\ UNCHANGED <<kb, source, model, edits>> /\ "plan" \in Kinds
        /\ "ok" \in Stages /\ "retry" \in Stages \ {"publishing"}
    BY <1>1, KindsApart DEF AcceptPlan, Permitted, Stages
  <1>3. DocTypeOK /\ kb' \in KbRow /\ KbMoves /\ edits' \in 0..MaxEdits
    BY <1>2, KbStays DEF DocInv, DocTypeOK
  <1>4. CASE run[r].status # "PLANNING"
    <2>1. run' = run /\ job' = Returns(j, "retry")
      BY <1>1, <1>4 DEF AcceptPlan
    <2> QED
      BY <1>1, <1>2, <2>1, AnswerStep
  <1>5. CASE run[r].status = "PLANNING" /\ ~ConfigurationCurrent(r)
    <2>1. Interrupt(r, j, "ok", "retry") /\ run[r].status \in ActiveStatus
      BY <1>1, <1>5 DEF AcceptPlan, ActiveStatus
    <2> QED
      BY <1>1, <1>2, <2>1, InterruptStep
  <1>6. CASE run[r].status = "PLANNING" /\ ConfigurationCurrent(r)
    <2>1. PICK planned : planned = [p \in Pages |-> IF p \in pages THEN "PENDING" ELSE "NONE"]
      OBVIOUS
    <2>2. PICK row, jobs : /\ row = [run[r] EXCEPT !.status = "GENERATING", !.page = planned]
                           /\ jobs = Returns(j, "ok")
      OBVIOUS
    <2>3. run' = [run EXCEPT ![r] = row]
      BY <1>1, <1>6, <2>1, <2>2 DEF AcceptPlan
    <2>4. job' = [i \in DocJobs |-> IF i[1] = r /\ i[2] \in pages THEN QueuedJob ELSE jobs[i]]
      BY <1>1, <1>6, <2>2 DEF AcceptPlan
    <2>5. /\ row \in RunRow /\ row.status = "GENERATING" /\ row.page = planned
          /\ row.version = run[r].version /\ row.prior = run[r].prior /\ row.parent = run[r].parent
      <3>1. run[r] \in RunRow
        BY <1>3 DEF DocTypeOK, RunRow
      <3>2. "GENERATING" \in ActiveStatus /\ planned \in [Pages -> PageStatus]
        BY <2>1 DEF ActiveStatus, PageStatus
      <3> QED
        BY <2>2, <3>1, <3>2 DEF RunRow
    <2>6. Advances(run[r], row) /\ run[r].status # "ABSENT"
      BY <1>6, <2>5, Statuses DEF Advances, TerminalStatus
    <2>7. /\ jobs \in [DocJobs -> JobRow]
          /\ \A m \in Kinds \ {"plan"} : jobs[<<r, m>>] = job[<<r, m>>]
          /\ \A i \in RunIds \ {r}, m \in Kinds : jobs[<<i, m>>] = job[<<i, m>>]
      BY <1>1, <1>2, <1>3, <2>2, ReturnsFrame
    <2>8. QueuedJob \in JobRow /\ Live(QueuedJob)
      BY DocumentationAssumption DEF QueuedJob, JobRow, Live, Settled
    <2>9. /\ job' \in [DocJobs -> JobRow]
          /\ \A m \in pages : job'[<<r, m>>] = QueuedJob
          /\ \A m \in Kinds \ pages : job'[<<r, m>>] = jobs[<<r, m>>]
          /\ \A i \in RunIds \ {r}, m \in Kinds : job'[<<i, m>>] = jobs[<<i, m>>]
      BY <2>4, <2>7, <2>8, KindsApart DEF DocJobs
    <2>10. Fits(row, r, job')
      <3>1. PagesOK(row)
        <4>0. pages \subseteq Pages /\ pages # {}
          BY Zenon
        <4>1. PICK p \in Pages : p \in pages
          BY <4>0
        <4>2. Open(row, p)
          BY <2>1, <2>5, <4>1 DEF Open
        <4> QED
          BY <2>5, <4>2 DEF PagesOK
      <3>2. \A m \in Kinds : Needs(row, m) => m \in pages
        BY <2>1, <2>5 DEF Needs, Open
      <3>3. \A m \in Kinds : Later(row.status, m) => m = "finalize"
        BY <2>5 DEF Later
      <3>4. job[<<r, "finalize">>] = NoJob
        <4>1. Fits(run[r], r, job) /\ Later(run[r].status, "finalize")
          BY <1>6 DEF DocInv, RunInv, Later
        <4> QED
          BY <4>1, KindsApart DEF Fits
      <3> QED
        BY <2>5, <2>7, <2>8, <2>9, <3>1, <3>2, <3>3, <3>4, KindsApart DEF Fits
    <2>11. row.status \notin {"PUBLISHED", "NO_OP"} /\ \A i \in RunIds \ {r}, m \in Kinds : job'[<<i, m>>] = job[<<i, m>>]
      BY <2>5, <2>7, <2>9
    <2> QED
      BY <1>2, <1>3, <2>3, <2>5, <2>6, <2>9, <2>10, <2>11, RowStep
  <1> QED
    BY <1>4, <1>5, <1>6

LEMMA FailRunStep ==
    ASSUME DocInv, NEW r \in RunIds, NEW kind \in {"plan", "finalize"}, FailRun(r, kind)
    PROVE  Good
  <1>1. PICK j : j = <<r, kind>>
    OBVIOUS
  <1>2. /\ job[j].phase = "running" /\ UNCHANGED <<kb, source, model, edits>> /\ kind \in Kinds
        /\ "failure" \in Stages \ {"publishing"} /\ job' = Returns(j, "failure")
    BY <1>1, KindsApart DEF FailRun, Permitted, Stages
  <1>3. DocTypeOK /\ kb' \in KbRow /\ KbMoves
    BY <1>2, KbStays DEF DocInv
  <1>4. CASE run[r].status \in TerminalStatus
    <2>1. run' = run
      BY <1>4 DEF FailRun
    <2> QED
      BY <1>1, <1>2, <2>1, AnswerStep
  <1>5. CASE run[r].status \notin TerminalStatus
    <2>1. run' = EndRun(r, "FAILED") /\ "FAILED" \in TerminalStatus
      BY <1>5 DEF FailRun, TerminalStatus
    <2>2. run[r].status # "ABSENT"
      <3>1. job[<<r, kind>>].phase # "none"
        BY <1>1, <1>2
      <3> QED
        BY <1>2, <3>1, JobExists
    <2>3. run[r].status \in ActiveStatus
      BY <1>3, <1>5, <2>2 DEF DocTypeOK
    <2> QED
      BY <1>1, <1>2, <1>3, <2>1, <2>3, EndStep
  <1> QED
    BY <1>4, <1>5

\* A page of a generating run gets another status.
PagedRun(r, p, status, next) == [[run[r] EXCEPT !.page[p] = status] EXCEPT !.status = next]

LEMMA PagedRow ==
    ASSUME DocTypeOK, NEW r \in RunIds, NEW p \in Pages, NEW status \in PageStatus, run[r].status = "GENERATING",
           NEW next \in {"GENERATING", "FINALIZING"}, NEW row, row = PagedRun(r, p, status, next)
    PROVE  /\ row \in RunRow /\ row.status = next /\ Advances(run[r], row)
           /\ row.page[p] = status /\ \A q \in Pages \ {p} : row.page[q] = run[r].page[q]
  <1>1. run[r] \in RunRow
    BY DEF DocTypeOK, RunRow
  <1>2. run[r].page \in [Pages -> PageStatus]
    BY <1>1 DEF RunRow
  <1>3. PICK page : page = [run[r].page EXCEPT ![p] = status]
    OBVIOUS
  <1>4. page \in [Pages -> PageStatus] /\ page[p] = status /\ \A q \in Pages \ {p} : page[q] = run[r].page[q]
    BY <1>2, <1>3
  <1>5. row = [run[r] EXCEPT !.page = page, !.status = next] /\ next \in ActiveStatus
    BY <1>1, <1>3 DEF RunRow, ActiveStatus, PagedRun
  <1>6. /\ row \in RunRow /\ row.status = next /\ row.page = page
        /\ row.version = run[r].version /\ row.prior = run[r].prior /\ row.parent = run[r].parent
    BY <1>1, <1>4, <1>5 DEF RunRow
  <1>7. Advances(run[r], row)
    BY <1>6, Statuses DEF Advances, TerminalStatus
  <1> QED
    BY <1>4, <1>6, <1>7

LEMMA BeginPageStep ==
    ASSUME DocInv, NEW r \in RunIds, NEW p \in Pages, BeginPage(r, p)
    PROVE  Good
  <1>1. PICK j : j = <<r, p>>
    OBVIOUS
  <1>2. /\ job[j].phase = "running" /\ UNCHANGED <<kb, source, model, edits>> /\ p \in Kinds
        /\ "ok" \in Stages \ {"publishing"} /\ "working" \in Stages
    BY <1>1, KindsApart DEF BeginPage, Permitted, Stages
  <1>3. DocTypeOK /\ kb' \in KbRow /\ KbMoves /\ edits' \in 0..MaxEdits
    BY <1>2, KbStays DEF DocInv, DocTypeOK
  <1>4. CASE run[r].status # "GENERATING" \/ (ConfigurationCurrent(r) /\ run[r].page[p] \in {"COMPLETE", "SKIPPED"})
    <2>1. run' = run /\ job' = Returns(j, "ok")
      BY <1>1, <1>4 DEF BeginPage
    <2>2. ~Needs(run[r], p)
      BY <1>4, KindsApart DEF Needs, Open
    <2> QED
      BY <1>1, <1>2, <2>1, <2>2, AnswerStep
  <1>5. CASE run[r].status = "GENERATING" /\ ~ConfigurationCurrent(r)
    <2>1. Interrupt(r, j, "ok", "retry") /\ run[r].status \in ActiveStatus
      BY <1>1, <1>5 DEF BeginPage, ActiveStatus
    <2> QED
      BY <1>1, <1>2, <2>1, InterruptStep
  <1>6. CASE run[r].status = "GENERATING" /\ ConfigurationCurrent(r) /\ run[r].page[p] \notin {"COMPLETE", "SKIPPED"}
    <2>1. PICK row : row = PagedRun(r, p, "RUNNING", "GENERATING")
      OBVIOUS
    <2>2. /\ row \in RunRow /\ row.status = "GENERATING" /\ Advances(run[r], row)
          /\ row.page[p] = "RUNNING" /\ \A q \in Pages \ {p} : row.page[q] = run[r].page[q]
      BY <1>3, <1>6, <2>1, PagedRow DEF PageStatus
    <2>3. run' = [run EXCEPT ![r] = row] /\ job' = Returns(j, "working")
      <3>1. run' = [run EXCEPT ![r].page[p] = "RUNNING"] /\ job' = Returns(j, "working")
        BY <1>1, <1>6 DEF BeginPage
      <3>2. run[r] \in RunRow
        BY <1>3 DEF DocTypeOK, RunRow
      <3>3. row = [run[r] EXCEPT !.page[p] = "RUNNING"]
        BY <1>6, <2>1, <3>2 DEF RunRow, PagedRun
      <3> QED
        BY <3>1, <3>3
    <2>4. /\ job' \in [DocJobs -> JobRow] /\ job'[j].stage = "working" /\ job'[j].phase = job[j].phase
          /\ \A m \in Kinds \ {p} : job'[<<r, m>>] = job[<<r, m>>]
          /\ \A i \in RunIds \ {r}, m \in Kinds : job'[<<i, m>>] = job[<<i, m>>]
      BY <1>1, <1>2, <1>3, <2>3, ReturnsFrame
    <2>5. Fits(row, r, job')
      <3>1. PagesOK(row)
        BY <2>2 DEF PagesOK, Open
      <3>2. Live(job'[<<r, p>>])
        BY <1>1, <1>2, <2>4 DEF Live, Settled
      <3>3. \A m \in Kinds : Needs(row, m) => m = p \/ Needs(run[r], m)
        BY <1>6, <2>2 DEF Needs, Open
      <3>4. \A m \in Kinds : Later(row.status, m) => m # p /\ Later(run[r].status, m)
        BY <1>6, <2>2, KindsApart DEF Later
      <3>5. Fits(run[r], r, job)
        BY DEF DocInv, RunInv
      <3> QED
        BY <2>2, <2>4, <3>1, <3>2, <3>3, <3>4, <3>5 DEF Fits
    <2>6. row.status \notin {"PUBLISHED", "NO_OP"} /\ run[r].status # "ABSENT"
      BY <1>6, <2>2
    <2> QED
      BY <1>2, <1>3, <2>2, <2>3, <2>4, <2>5, <2>6, RowStep
  <1> QED
    BY <1>4, <1>5, <1>6

\* maybeFinalizeTx: a page ends, and the last one enqueues the finalize job.
LEMMA PageEnds ==
    ASSUME DocInv, NEW r \in RunIds, NEW p \in Pages, NEW j, j = <<r, p>>, job[j].phase = "running",
           run[r].status = "GENERATING", NEW status \in {"COMPLETE", "SKIPPED"},
           NEW jobs, jobs = Returns(j, "ok"),
           run' = WithPage(r, p, status), job' = AfterPage(r, p, status, jobs),
           UNCHANGED <<kb, source, model, edits>>
    PROVE  Good
  <1>1. DocTypeOK /\ kb' \in KbRow /\ KbMoves /\ edits' \in 0..MaxEdits
    BY KbStays DEF DocInv, DocTypeOK
  <1>2. /\ p \in Kinds /\ "ok" \in Stages /\ status \in PageStatus /\ run[r].status # "ABSENT"
        /\ "finalize" \in Kinds /\ p # "finalize"
    BY KindsApart DEF Stages, PageStatus
  <1>3. /\ jobs \in [DocJobs -> JobRow]
        /\ \A m \in Kinds \ {p} : jobs[<<r, m>>] = job[<<r, m>>]
        /\ \A i \in RunIds \ {r}, m \in Kinds : jobs[<<i, m>>] = job[<<i, m>>]
    BY <1>1, <1>2, ReturnsFrame
  <1>4. PICK paged : paged = PagedRun(r, p, status, "GENERATING")
    OBVIOUS
  <1>5. /\ paged \in RunRow /\ paged.status = "GENERATING" /\ Advances(run[r], paged)
        /\ paged.page[p] = status /\ \A q \in Pages \ {p} : paged.page[q] = run[r].page[q]
    BY <1>1, <1>2, <1>4, PagedRow
  <1>6. run[r] \in RunRow /\ run \in [RunIds -> RunRow]
    BY <1>1 DEF DocTypeOK, RunRow
  <1>7. paged = [run[r] EXCEPT !.page[p] = status]
    BY <1>4, <1>6 DEF RunRow, PagedRun
  <1>8. PICK runs : runs = [run EXCEPT ![r] = paged]
    OBVIOUS
  <1>9. runs = [run EXCEPT ![r].page[p] = status] /\ runs[r] = paged
    BY <1>6, <1>7, <1>8
  <1>10. Fits(run[r], r, job)
    BY DEF DocInv, RunInv
  <1>11. CASE \E q \in Pages : Open(paged, q)
    <2>1. WithPage(r, p, status) = runs
      BY <1>9, <1>11 DEF WithPage, Open
    <2>2. run' = [run EXCEPT ![r] = paged] /\ job' = jobs
      BY <1>5, <1>8, <1>9, <2>1 DEF AfterPage
    <2>3. Fits(paged, r, job')
      <3>1. PagesOK(paged)
        BY <1>5, <1>11 DEF PagesOK
      <3>2. \A m \in Kinds : Needs(paged, m) => m # p /\ Needs(run[r], m)
        BY <1>5 DEF Needs, Open
      <3>3. \A m \in Kinds : Later(paged.status, m) => m # p /\ Later(run[r].status, m)
        BY <1>5, KindsApart DEF Later
      <3> QED
        BY <1>3, <1>5, <1>10, <2>2, <3>1, <3>2, <3>3 DEF Fits
    <2>4. paged.status \notin {"PUBLISHED", "NO_OP"}
      BY <1>5
    <2> QED
      BY <1>1, <1>2, <1>3, <1>5, <2>2, <2>3, <2>4, RowStep
  <1>12. CASE ~\E q \in Pages : Open(paged, q)
    <2>1. PICK row : row = PagedRun(r, p, status, "FINALIZING")
      OBVIOUS
    <2>2. /\ row \in RunRow /\ row.status = "FINALIZING" /\ Advances(run[r], row)
          /\ row.page[p] = status /\ \A q \in Pages \ {p} : row.page[q] = run[r].page[q]
      BY <1>1, <1>2, <2>1, PagedRow
    <2>3. row = [paged EXCEPT !.status = "FINALIZING"]
      BY <1>7, <2>1 DEF PagedRun
    <2>4. WithPage(r, p, status) = [runs EXCEPT ![r].status = "FINALIZING"]
      BY <1>9, <1>12 DEF WithPage, Open
    <2>5. run' = [run EXCEPT ![r] = row] /\ run'[r] = row
      BY <1>6, <1>8, <1>9, <2>3, <2>4
    <2>6. job' = [jobs EXCEPT ![<<r, "finalize">>] = QueuedJob]
      BY <2>2, <2>5 DEF AfterPage
    <2>7. QueuedJob \in JobRow /\ Live(QueuedJob) /\ QueuedJob.stage = "start"
      BY DocumentationAssumption DEF QueuedJob, JobRow, Live, Settled
    <2>8. /\ job' \in [DocJobs -> JobRow] /\ job'[<<r, "finalize">>] = QueuedJob
          /\ \A i \in RunIds \ {r}, m \in Kinds : job'[<<i, m>>] = job[<<i, m>>]
      BY <1>2, <1>3, <2>6, <2>7 DEF DocJobs
    <2>9. Fits(row, r, job')
      <3>1. \A q \in Pages : ~Open(row, q)
        BY <1>5, <1>12, <2>2 DEF Open
      <3>2. PagesOK(row)
        BY <2>2, <3>1 DEF PagesOK
      <3>3. \A m \in Kinds : Needs(row, m) => m = "finalize"
        BY <2>2 DEF Needs
      <3>4. \A m \in Kinds : ~Later(row.status, m)
        BY <2>2 DEF Later
      <3> QED
        BY <2>7, <2>8, <3>2, <3>3, <3>4 DEF Fits
    <2>10. row.status \notin {"PUBLISHED", "NO_OP"}
      BY <2>2
    <2> QED
      BY <1>1, <1>2, <2>2, <2>5, <2>8, <2>9, <2>10, RowStep
  <1> QED
    BY <1>11, <1>12

LEMMA CompletePageStep ==
    ASSUME DocInv, NEW r \in RunIds, NEW p \in Pages, CompletePage(r, p)
    PROVE  Good
  <1>1. PICK j, jobs : j = <<r, p>> /\ jobs = Returns(j, "ok")
    OBVIOUS
  <1>2. /\ job[j].phase = "running" /\ UNCHANGED <<kb, source, model, edits>> /\ p \in Kinds
        /\ "ok" \in Stages \ {"publishing"}
    BY <1>1, KindsApart DEF CompletePage, Permitted, Stages
  <1>3. CASE run[r].page[p] = "COMPLETE" \/ run[r].status # "GENERATING"
    <2>1. run' = run /\ job' = Returns(j, "ok")
      BY <1>1, <1>3 DEF CompletePage
    <2>2. ~Needs(run[r], p)
      BY <1>3, KindsApart DEF Needs, Open
    <2> QED
      BY <1>1, <1>2, <2>1, <2>2, AnswerStep
  <1>4. CASE run[r].page[p] # "COMPLETE" /\ run[r].status = "GENERATING" /\ ~ConfigurationCurrent(r)
    <2>1. Interrupt(r, j, "ok", "retry") /\ run[r].status \in ActiveStatus
      BY <1>1, <1>4 DEF CompletePage, ActiveStatus
    <2> QED
      BY <1>1, <1>2, <2>1, InterruptStep
  <1>5. CASE run[r].page[p] # "COMPLETE" /\ run[r].status = "GENERATING" /\ ConfigurationCurrent(r)
    <2>1. run' = WithPage(r, p, "COMPLETE") /\ job' = AfterPage(r, p, "COMPLETE", jobs)
      BY <1>1, <1>5 DEF CompletePage
    <2> QED
      BY <1>1, <1>2, <1>5, <2>1, PageEnds
  <1> QED
    BY <1>3, <1>4, <1>5

LEMMA SkipPageStep ==
    ASSUME DocInv, NEW r \in RunIds, NEW p \in Pages, SkipPage(r, p)
    PROVE  Good
  <1>1. PICK j, jobs : j = <<r, p>> /\ jobs = Returns(j, "ok")
    OBVIOUS
  <1>2. /\ job[j].phase = "running" /\ UNCHANGED <<kb, source, model, edits>> /\ p \in Kinds
        /\ "ok" \in Stages \ {"publishing"}
    BY <1>1, KindsApart DEF SkipPage, Permitted, Stages
  <1>3. CASE run[r].page[p] \in {"COMPLETE", "SKIPPED"} \/ run[r].status # "GENERATING"
    <2>1. run' = run /\ job' = Returns(j, "ok")
      BY <1>1, <1>3 DEF SkipPage
    <2>2. ~Needs(run[r], p)
      BY <1>3, KindsApart DEF Needs, Open
    <2> QED
      BY <1>1, <1>2, <2>1, <2>2, AnswerStep
  <1>4. CASE ~(run[r].page[p] \in {"COMPLETE", "SKIPPED"} \/ run[r].status # "GENERATING")
    <2>1. /\ run' = WithPage(r, p, "SKIPPED") /\ job' = AfterPage(r, p, "SKIPPED", jobs)
          /\ run[r].status = "GENERATING"
      BY <1>1, <1>4 DEF SkipPage
    <2> QED
      BY <1>1, <1>2, <2>1, PageEnds
  <1> QED
    BY <1>3, <1>4

LEMMA BeginFinalizationStep ==
    ASSUME DocInv, NEW r \in RunIds, BeginFinalization(r)
    PROVE  Good
  <1>1. PICK j : j = <<r, "finalize">>
    OBVIOUS
  <1>2. /\ job[j].phase = "running" /\ UNCHANGED <<kb, source, model, edits>> /\ "finalize" \in Kinds
        /\ "publishing" \in Stages
    BY <1>1, KindsApart DEF BeginFinalization, Permitted, Stages
  <1>3. edits' \in 0..MaxEdits
    BY <1>2 DEF DocInv, DocTypeOK
  <1>4. CASE run[r].status # "FINALIZING"
    <2>1. PICK result : result = Answer(r)
      OBVIOUS
    <2>2. result \in Stages \ {"publishing"}
      BY <2>1 DEF Answer, Stages
    <2>3. run' = run /\ job' = Returns(j, result)
      BY <1>1, <1>4, <2>1 DEF BeginFinalization
    <2>4. ~Needs(run[r], "finalize")
      BY <1>4, KindsApart DEF Needs
    <2> QED
      BY <1>1, <1>2, <2>2, <2>3, <2>4, AnswerStep
  <1>5. CASE /\ run[r].status = "FINALIZING"
             /\ (\E p \in Pages : run[r].page[p] = "SKIPPED") \/ ~ConfigurationCurrent(r)
    <2>1. Interrupt(r, j, "ok", "retry") /\ run[r].status \in ActiveStatus
      BY <1>1, <1>5 DEF BeginFinalization, ActiveStatus
    <2> QED
      BY <1>1, <1>2, <2>1, InterruptStep
  <1>6. CASE /\ run[r].status = "FINALIZING"
             /\ ~((\E p \in Pages : run[r].page[p] = "SKIPPED") \/ ~ConfigurationCurrent(r))
    <2>1. run' = run /\ job' = Returns(<<r, "finalize">>, "publishing")
      BY <1>6 DEF BeginFinalization
    <2>2. job[<<r, "finalize">>].phase \in {"running", "cancelling"} /\ \A p \in Pages : run[r].page[p] # "SKIPPED"
      BY <1>1, <1>2, <1>6
    <2> QED
      BY <1>2, <1>3, <2>1, <2>2, ReturnStep
  <1> QED
    BY <1>4, <1>5, <1>6

\* Publish: the version captured is still that of the knowledge base, so the
\* wiki it replaces is the one captured.
LEMMA PublishStep ==
    ASSUME DocInv, NEW r \in RunIds, Publish(r)
    PROVE  Good
  <1>1. PICK j : j = <<r, "finalize">>
    OBVIOUS
  <1>2. /\ job[j].phase = "running" /\ job[j].stage = "publishing" /\ UNCHANGED <<source, model, edits>>
        /\ "finalize" \in Kinds /\ run[r].status = "FINALIZING" /\ run[r].status \in ActiveStatus
    BY <1>1, KindsApart DEF Publish, Permitted, ActiveStatus
  <1>3. DocTypeOK /\ VersionsGrow /\ Fits(run[r], r, job) /\ kb \in KbRow /\ run[r] \in RunRow
        /\ run \in [RunIds -> RunRow]
    BY DEF DocInv, RunInv, DocTypeOK, KbRow, RunRow
  <1>4. CASE ~ConfigurationCurrent(r)
    <2>1. Interrupt(r, j, "ok", "publishing") /\ UNCHANGED <<kb, source, model, edits>>
      BY <1>1, <1>2, <1>4 DEF Publish
    <2> QED
      BY <1>1, <1>2, <2>1, InterruptStep
  <1>5. CASE ConfigurationCurrent(r)
    <2>1. PICK base, ended : base = [kb EXCEPT !.wiki = r, !.version = @ + 1] /\ ended = EndRun(r, "PUBLISHED")
      OBVIOUS
    <2>2. PICK answer \in {"ok", "publishing"} : kb' = base /\ FollowUp(r, ended, base, Returns(j, answer))
      BY <1>1, <1>5, <2>1 DEF Publish
    <2>3. PICK jobs : jobs = Returns(j, answer)
      OBVIOUS
    <2>4. FollowUp(r, ended, base, jobs) /\ answer \in Stages
      BY <2>2, <2>3 DEF Stages
    <2>5. WholeWiki(run[r])
      <3>1. \A p \in Pages : run[r].page[p] \in PageStatus /\ run[r].page[p] # "SKIPPED" /\ ~Open(run[r], p)
        BY <1>1, <1>2, <1>3 DEF Fits, PagesOK, RunRow
      <3>2. \A p \in Pages : run[r].page[p] \in {"NONE", "COMPLETE"}
        BY <3>1 DEF PageStatus, Open
      <3>3. \E p \in Pages : run[r].page[p] # "NONE"
        BY <1>2, <1>3 DEF Fits, PagesOK
      <3> QED
        BY <3>2, <3>3 DEF WholeWiki
    <2>6. base \in KbRow /\ base.wiki = r /\ base.version = kb.version + 1 /\ kb.version \in Nat
      <3>1. r \in RunIds \cup {None} /\ kb.version + 1 \in Nat \ {0} /\ kb.version \in Nat
        BY <1>3 DEF KbRow
      <3>2. base = [lifecycle |-> kb.lifecycle, version |-> kb.version + 1, wiki |-> r, text |-> kb.text]
        BY <1>3, <2>1 DEF KbRow
      <3> QED
        BY <1>3, <3>1, <3>2 DEF KbRow
    <2>7. ended \in [RunIds -> RunRow] /\ ended[r].status = "PUBLISHED"
      <3>1. PICK row : row = [run[r] EXCEPT !.status = "PUBLISHED"]
        OBVIOUS
      <3>2. row \in RunRow /\ row.status = "PUBLISHED" /\ ended = [run EXCEPT ![r] = row]
        BY <1>3, <2>1, <3>1, EndedRow DEF TerminalStatus
      <3> QED
        BY <1>3, <3>2
    <2>8. run'[r].status = "PUBLISHED"
      <3>1. CASE Behind(r)
        <4>1. FreeRuns # {} /\ run' = WithNewRun(ended, base, r, None)
          BY <2>4, <3>1 DEF FollowUp
        <4>2. NewRun # r
          BY <1>2, <4>1, NewRunIsFree
        <4>3. PICK n, new : n = NewRun /\ new = NewRow(base, r, None)
          OBVIOUS
        <4>4. run' = [ended EXCEPT ![n] = new] /\ n # r
          BY <4>1, <4>2, <4>3 DEF WithNewRun
        <4> QED
          BY <2>7, <4>4
      <3>2. CASE ~Behind(r)
        BY <2>4, <2>7, <3>2 DEF FollowUp
      <3> QED
        BY <3>1, <3>2
    <2>9. run[r].prior = kb.wiki
      BY <1>2, <1>3, <1>5 DEF VersionsGrow, ConfigurationCurrent
    <2>10. KbMoves
      BY <1>2, <2>2, <2>6, <2>8, <2>9 DEF KbMoves
    <2> QED
      BY <1>1, <1>2, <2>1, <2>2, <2>3, <2>4, <2>5, <2>6, <2>10, FollowUpStep
  <1> QED
    BY <1>4, <1>5

-----------------------------------------------------------------------------
(***************************************************************************)
(* The life of a job.                                                      *)
(***************************************************************************)
\* The row of a run that a terminal callback ends.
ClosedRun(r, status) == [SkipOpenPages(run[r]) EXCEPT !.status = status]

LEMMA ClosedRow ==
    ASSUME DocTypeOK, NEW r \in RunIds, NEW status \in TerminalStatus, NEW row, row = ClosedRun(r, status),
           run[r].status \in ActiveStatus \/ run[r].status = status
    PROVE  /\ row \in RunRow /\ row.status = status /\ Advances(run[r], row)
           /\ \A p \in Pages : ~Open(run[r], p) => row.page[p] = run[r].page[p]
  <1>1. run[r] \in RunRow
    BY DEF DocTypeOK, RunRow
  <1>2. run[r].page \in [Pages -> PageStatus]
    BY <1>1 DEF RunRow
  <1>3. PICK page : page = [p \in Pages |-> IF run[r].page[p] \in {"PENDING", "RUNNING"} THEN "SKIPPED" ELSE run[r].page[p]]
    OBVIOUS
  <1>4. page \in [Pages -> PageStatus] /\ \A p \in Pages : ~Open(run[r], p) => page[p] = run[r].page[p]
    BY <1>2, <1>3 DEF Open, PageStatus
  <1>5. row = [[run[r] EXCEPT !.page = page] EXCEPT !.status = status]
    BY <1>3 DEF ClosedRun, SkipOpenPages
  <1>6. /\ row \in RunRow /\ row.status = status /\ row.page = page
        /\ row.version = run[r].version /\ row.prior = run[r].prior /\ row.parent = run[r].parent
    BY <1>1, <1>4, <1>5 DEF RunRow
  <1>7. Advances(run[r], row)
    BY <1>6, Statuses DEF Advances
  <1> QED
    BY <1>4, <1>6, <1>7

\* The row of a job that settles or is queued again.
SettledJob(j, phase) == [job[j] EXCEPT !.phase = phase, !.stage = "start"]

LEMMA JobWritten ==
    ASSUME DocTypeOK, NEW j \in DocJobs, NEW phase \in {"queued", "running", "cancelling"} \cup Settled, NEW x,
           x = SettledJob(j, phase)
    PROVE  /\ x \in JobRow /\ x.phase = phase /\ x.stage = "start" /\ x.budget = job[j].budget
  <1>1. job[j] \in JobRow
    BY DEF DocTypeOK, JobRow
  <1> QED
    BY <1>1 DEF JobRow, SettledJob

\* terminateRunJob and terminatePageJob: a job that settles badly takes with it
\* the run that waits for it, and no other.
LEMMA SettleBadlyStep ==
    ASSUME DocInv, NEW r \in RunIds, NEW k \in Kinds, NEW j, j = <<r, k>>,
           job[j].phase \in {"queued", "running", "cancelling"}, NEW outcome \in {"failed", "cancelled"},
           SettleBadly(j, outcome), edits' \in 0..MaxEdits
    PROVE  Good
  <1>1. PICK x : x = SettledJob(j, outcome)
    OBVIOUS
  <1>2. DocTypeOK /\ j \in DocJobs /\ RunInv(r) /\ UNCHANGED <<kb, source, model>>
    BY DEF DocInv, DocJobs, SettleBadly
  <1>3. x \in JobRow /\ x.stage = "start"
    BY <1>1, <1>2, JobWritten DEF Settled
  <1>4. job' = [job EXCEPT ![<<r, k>>] = x] /\ job[<<r, k>>].phase # "none"
    BY <1>1 DEF SettleBadly, SettledJob
  <1>5. run[r].status # "ABSENT" /\ ~Later(run[r].status, k)
    BY <1>4, JobExists
  <1>6. run[r].status \in ActiveStatus \cup TerminalStatus /\ kb' \in KbRow /\ KbMoves
    BY <1>2, <1>5, KbStays DEF DocTypeOK
  <1>7. ASSUME run' = run, ~Needs(run[r], k) PROVE Good
    BY <1>2, <1>3, <1>4, <1>7, OneJobStep
  <1>8. ASSUME NEW status \in TerminalStatus, run' = [run EXCEPT ![r] = ClosedRun(r, status)],
               IF run[r].status \in ActiveStatus THEN status \in {"FAILED", "INTERRUPTED"}
                                                  ELSE status = run[r].status
        PROVE  Good
    <2>1. PICK row : row = ClosedRun(r, status)
      OBVIOUS
    <2>2. /\ row \in RunRow /\ row.status = status /\ Advances(run[r], row)
          /\ \A p \in Pages : ~Open(run[r], p) => row.page[p] = run[r].page[p]
      BY <1>2, <1>8, <2>1, ClosedRow
    <2>3. row.status = "PUBLISHED" => WholeWiki(row)
      <3>1. status = "PUBLISHED" => run[r].status = "PUBLISHED"
        BY <1>8
      <3>2. run[r].status = "PUBLISHED" => WholeWiki(run[r]) /\ \A p \in Pages : ~Open(run[r], p)
        BY <1>2 DEF RunInv, Fits, PagesOK, WholeWiki, Open
      <3> QED
        BY <2>2, <3>1, <3>2 DEF WholeWiki
    <2>4. Fits(row, r, job')
      BY <1>8, <2>2, <2>3, EndedFits
    <2>5. /\ job' \in [DocJobs -> JobRow]
          /\ \A i \in RunIds \ {r}, m \in Kinds : job'[<<i, m>>] = job[<<i, m>>]
      BY <1>2, <1>3, <1>4, JobChange
    <2>6. run' = [run EXCEPT ![r] = row] /\ ~(run[r].status \in ActiveStatus /\ row.status \in {"PUBLISHED", "NO_OP"})
      BY <1>8, <2>1, <2>2
    <2> QED
      BY <1>2, <1>5, <1>6, <2>2, <2>4, <2>5, <2>6, RowStep
  <1>9. run' = TerminalCallback(j, outcome) /\ j[1] = r /\ j[2] = k
    BY DEF SettleBadly
  <1>10. CASE k \in Pages /\ run[r].page[k] \in {"COMPLETE", "SKIPPED"}
    <2>1. run' = run /\ ~Needs(run[r], k)
      BY <1>9, <1>10, KindsApart DEF TerminalCallback, Needs, Open
    <2> QED
      BY <1>7, <2>1
  <1>11. CASE k \in Pages /\ run[r].page[k] \notin {"COMPLETE", "SKIPPED"}
    <2>1. PICK status : status = IF run[r].status \in TerminalStatus THEN run[r].status ELSE "INTERRUPTED"
      OBVIOUS
    <2>2. run' = [run EXCEPT ![r] = ClosedRun(r, status)]
      <3>1. SkipOpenPages(run[r]).status = run[r].status
        BY <1>2 DEF SkipOpenPages, DocTypeOK
      <3> QED
        BY <1>9, <1>11, <2>1, <3>1 DEF TerminalCallback, ClosedRun
    <2>3. /\ status \in TerminalStatus
          /\ IF run[r].status \in ActiveStatus THEN status \in {"FAILED", "INTERRUPTED"} ELSE status = run[r].status
      BY <1>6, <2>1, Statuses DEF TerminalStatus
    <2> QED
      BY <1>8, <2>2, <2>3
  <1>12. CASE k \notin Pages /\ run[r].status # Driven(k)
    <2>1. run' = run
      BY <1>9, <1>12 DEF TerminalCallback
    <2>2. ~Needs(run[r], k)
      BY <1>12 DEF Needs, Driven
    <2> QED
      BY <1>7, <2>1, <2>2
  <1>13. CASE k \notin Pages /\ run[r].status = Driven(k)
    <2>1. PICK status : status = IF outcome = "failed" THEN "FAILED" ELSE "INTERRUPTED"
      OBVIOUS
    <2>2. run' = [run EXCEPT ![r] = ClosedRun(r, status)]
      BY <1>9, <1>13, <2>1 DEF TerminalCallback, ClosedRun
    <2>3. run[r].status \in ActiveStatus
      BY <1>13 DEF Driven, Kinds, ActiveStatus
    <2>4. /\ status \in TerminalStatus
          /\ IF run[r].status \in ActiveStatus THEN status \in {"FAILED", "INTERRUPTED"} ELSE status = run[r].status
      BY <2>1, <2>3 DEF TerminalStatus
    <2> QED
      BY <1>8, <2>2, <2>4
  <1> QED
    BY <1>10, <1>11, <1>12, <1>13

LEMMA EditsBound ==
    ASSUME DocInv, NEW kind, Change(kind) \/ UNCHANGED edits
    PROVE  edits' \in 0..MaxEdits
  BY DocumentationAssumption DEF DocInv, DocTypeOK, Change

LEMMA LeaseStep ==
    ASSUME DocInv, NEW r \in RunIds, NEW k \in Kinds, NEW j, j = <<r, k>>,
           job[j].phase \in {"queued", "running"}, LeaseTo(j), edits' \in 0..MaxEdits
    PROVE  Good
  <1>1. PICK x : x = [phase |-> "running", budget |-> job[j].budget - 1, stage |-> "start"]
    OBVIOUS
  <1>2. DocTypeOK /\ j \in DocJobs
    BY DEF DocInv, DocJobs
  <1>3. job[j].budget \in 0..Attempts /\ job[j].budget > 0
    BY <1>2 DEF DocTypeOK, LeaseTo
  <1>4. x \in JobRow /\ Live(x) /\ x.stage = "start"
    BY <1>1, <1>3, DocumentationAssumption DEF JobRow, Live, Settled
  <1>5. job' = [job EXCEPT ![<<r, k>>] = x] /\ run' = run /\ UNCHANGED <<kb, source, model>>
    BY <1>1 DEF LeaseTo
  <1>6. job[<<r, k>>].phase # "none"
    OBVIOUS
  <1> QED
    BY <1>4, <1>5, <1>6, OneJobStep

LEMMA SettleStep ==
    ASSUME DocInv, NEW r \in RunIds, NEW k \in Kinds, NEW j, j = <<r, k>>,
           job[j].phase \in {"running", "cancelling"},
           \/ job[j].stage = "ok" /\ Settle(j, "succeeded")
           \/ Settle(j, "queued")
    PROVE  Good
  <1>1. PICK phase \in {"succeeded", "queued"} : Settle(j, phase) /\ (phase = "succeeded" => job[j].stage = "ok")
    BY Zenon
  <1>2. PICK x : x = SettledJob(j, phase)
    OBVIOUS
  <1>3. DocTypeOK /\ j \in DocJobs /\ Fits(run[r], r, job)
    BY DEF DocInv, DocJobs, RunInv
  <1>4. x \in JobRow /\ x.phase = phase /\ x.stage = "start"
    BY <1>1, <1>2, <1>3, JobWritten DEF Settled
  <1>5. Needs(run[r], k) => Live(x)
    <2>1. Needs(run[r], k) => job[j].stage # "ok"
      BY <1>3 DEF Fits, Live
    <2> QED
      BY <1>1, <1>4, <2>1 DEF Live, Settled
  <1>6. /\ job' = [job EXCEPT ![<<r, k>>] = x] /\ run' = run /\ UNCHANGED <<kb, source, model>>
        /\ edits' \in 0..MaxEdits
    BY <1>1, <1>2, <1>3 DEF Settle, SettledJob, DocTypeOK
  <1>7. job[<<r, k>>].phase # "none"
    OBVIOUS
  <1> QED
    BY <1>4, <1>5, <1>6, <1>7, OneJobStep

LEMMA AcceptStep ==
    ASSUME DocInv, NEW r \in RunIds, NEW k \in Kinds, NEW j, j = <<r, k>>, Accept(j)
    PROVE  Good
  <1>1. CASE /\ job[j].phase \in {"running", "cancelling"} /\ job[j].stage = "ok"
             /\ Settle(j, "succeeded")
    BY <1>1, SettleStep
  <1>2. CASE job[j].phase = "running" /\ Settle(j, "queued")
    BY <1>2, SettleStep
  <1>3. CASE job[j].phase = "running" /\ SettleBadly(j, "failed") /\ UNCHANGED edits
    <2>1. edits' \in 0..MaxEdits
      BY <1>3 DEF DocInv, DocTypeOK
    <2> QED
      BY <1>3, <2>1, SettleBadlyStep
  <1> QED
    BY <1>1, <1>2, <1>3 DEF Accept, Permitted

LEMMA RequestCancelStep ==
    ASSUME DocInv, NEW r \in RunIds, NEW k \in Kinds, NEW j, j = <<r, k>>, RequestCancel(j)
    PROVE  Good
  <1>1. edits' \in 0..MaxEdits
    BY EditsBound DEF RequestCancel
  <1>2. CASE job[j].phase \in {"queued", "running"} /\ SettleBadly(j, "cancelled")
    BY <1>1, <1>2, SettleBadlyStep
  <1>3. CASE /\ job[j].phase = "running" /\ job' = [job EXCEPT ![j].phase = "cancelling"]
             /\ UNCHANGED <<kb, source, model, run>>
    <2>1. PICK x : x = [job[j] EXCEPT !.phase = "cancelling"]
      OBVIOUS
    <2>2. DocTypeOK /\ j \in DocJobs /\ Fits(run[r], r, job)
      BY DEF DocInv, DocJobs, RunInv
    <2>3. job[j] \in JobRow
      BY <2>2 DEF DocTypeOK, JobRow
    <2>4. x \in JobRow /\ x.phase = "cancelling" /\ x.stage = job[j].stage
      BY <2>1, <2>3 DEF JobRow
    <2>5. Needs(run[r], k) => Live(x)
      BY <2>2, <2>4 DEF Fits, Live, Settled
    <2>6. job' = [job EXCEPT ![<<r, k>>] = x] /\ job[<<r, k>>].phase # "none"
      BY <1>3, <2>1
    <2>7. x.stage = "publishing" => job[<<r, k>>].stage = "publishing"
      BY <2>4
    <2> QED
      BY <1>1, <1>3, <2>4, <2>5, <2>6, <2>7, OneJobStep
  <1> QED
    BY <1>2, <1>3 DEF RequestCancel

LEMMA JobStepGood ==
    ASSUME DocInv, NEW j \in DocJobs, JobStep(j)
    PROVE  Good
  <1>1. PICK r \in RunIds, k \in Kinds : j = <<r, k>>
    BY DEF DocJobs
  <1>2. CASE Lease(j)
    <2>1. job[j].phase = "queued" /\ LeaseTo(j) /\ edits' \in 0..MaxEdits
      BY <1>2, EditsBound DEF Lease
    <2> QED
      BY <1>1, <2>1, LeaseStep
  <1>3. CASE TakeOver(j)
    <2>1. job[j].phase = "running" /\ LeaseTo(j) /\ edits' \in 0..MaxEdits
      BY <1>3, EditsBound DEF TakeOver
    <2> QED
      BY <1>1, <2>1, LeaseStep
  <1>4. CASE Exhaust(j)
    <2>1. job[j].phase = "running" /\ SettleBadly(j, "failed") /\ edits' \in 0..MaxEdits
      BY <1>4, EditsBound DEF Exhaust
    <2> QED
      BY <1>1, <2>1, SettleBadlyStep
  <1>5. CASE HandlerError(j)
    <2>1. /\ job[<<r, k>>].phase \in {"running", "cancelling"} /\ edits' \in 0..MaxEdits
          /\ run' = run /\ job' = Returns(<<r, k>>, "retry") /\ UNCHANGED <<kb, source, model>>
      BY <1>1, <1>5, EditsBound DEF HandlerError, Permitted
    <2>2. "retry" \in Stages
      BY DEF Stages
    <2> QED
      BY <2>1, <2>2, ReturnStep
  <1>6. CASE Accept(j)
    BY <1>1, <1>6, AcceptStep
  <1>7. CASE RequestCancel(j)
    BY <1>1, <1>7, RequestCancelStep
  <1>8. CASE FinishCancel(j)
    <2>1. job[j].phase = "cancelling" /\ SettleBadly(j, "cancelled") /\ edits' \in 0..MaxEdits
      BY <1>8, EditsBound DEF FinishCancel
    <2> QED
      BY <1>1, <2>1, SettleBadlyStep
  <1> QED
    BY <1>2, <1>3, <1>4, <1>5, <1>6, <1>7, <1>8 DEF JobStep

-----------------------------------------------------------------------------
(***************************************************************************)
(* Requests and changes of the configuration.                              *)
(***************************************************************************)
LEMMA RequestGenerationStep ==
    ASSUME DocInv, RequestGeneration
    PROVE  Good
  <1>1. DocTypeOK /\ kb \in KbRow /\ \A i \in RunIds : RunInv(i)
    BY DEF DocInv, DocTypeOK, KbRow
  <1>2. UNCHANGED <<kb, source, model, edits>> /\ FreeRuns # {} /\ \A i \in RunIds : run[i].status \notin ActiveStatus
    BY DEF RequestGeneration, CanStart, ActiveRuns
  <1>3. PICK n, new, base : n = NewRun /\ base = kb /\ new = NewRow(base, None, base.version)
    OBVIOUS
  <1>4. n \in RunIds /\ run[n].status = "ABSENT"
    BY <1>2, <1>3, NewRunIsFree
  <1>5. base \in KbRow /\ base.version \in Nat
    BY <1>1, <1>3 DEF KbRow
  <1>6. new \in RunRow /\ Captures(new) /\ new.parent = None /\ new.version = base.version /\ new.prior = base.wiki
    BY <1>1, <1>3, <1>5, NewRowCaptures
  <1>7. run' = [run EXCEPT ![n] = new] /\ job' = [job EXCEPT ![<<n, "prepare">>] = QueuedJob]
    BY <1>3 DEF RequestGeneration, WithNewRun, WithPrepare
  <1>8. run \in [RunIds -> RunRow]
    BY <1>1 DEF DocTypeOK, RunRow
  <1>9. run' \in [RunIds -> RunRow] /\ run'[n] = new /\ \A i \in RunIds \ {n} : run'[i] = run[i]
    BY <1>4, <1>6, <1>7, <1>8
  <1>10. QueuedJob \in JobRow
    BY DocumentationAssumption DEF QueuedJob, JobRow
  <1>11. /\ job' \in [DocJobs -> JobRow] /\ job'[<<n, "prepare">>] = QueuedJob
         /\ \A m \in Kinds \ {"prepare"} : job'[<<n, m>>] = job[<<n, m>>]
         /\ \A i \in RunIds \ {n}, m \in Kinds : job'[<<i, m>>] = job[<<i, m>>]
    BY <1>1, <1>4, <1>7, <1>10, KindsApart, JobChange
  <1>12. DocTypeOK'
    BY <1>1, <1>2, <1>9, <1>11 DEF DocTypeOK, RunRow, JobRow
  <1>13. RunInv(n)'
    <2>1. \A m \in Kinds : job[<<n, m>>] = NoJob
      BY <1>1, <1>4 DEF RunInv, Fits, Later
    <2>2. \A m \in Kinds \ {"prepare"} : job'[<<n, m>>] = NoJob
      BY <1>11, <2>1
    <2>3. Fits(new, n, job')
      BY <1>4, <1>6, <1>11, <2>2, NewFits
    <2> QED
      BY <1>6, <1>9, <2>3 DEF RunInv, Captures
  <1>14. \A i \in RunIds \ {n} : RunInv(i)'
    BY <1>1, <1>9, <1>11, RunFrame
  <1>15. Born(n)
    <2>1. \A i \in RunIds \ {n} : Advances(run[i], run'[i]) /\ run'[i].status \notin ActiveStatus
      BY <1>2, <1>9 DEF Advances
    <2>2. run'[n].status = "PREPARING" /\ run'[n].version = kb'.version /\ run'[n].prior = kb'.wiki /\ run'[n].parent = None
      BY <1>2, <1>3, <1>6, <1>9 DEF Captures
    <2> QED
      BY <1>4, <2>1, <2>2 DEF Born
  <1>16. \A i \in RunIds : FollowsUp(i)
    BY <1>2 DEF FollowsUp
  <1>17. KbMoves
    BY <1>1, <1>2, KbStays
  <1> QED
    BY <1>4, <1>12, <1>13, <1>14, <1>15, <1>16, <1>17 DEF Good, Evolution

\* A step that leaves runs and jobs alone, and the wiki of the knowledge base.
LEMMA EditStep ==
    ASSUME DocInv, NEW kind, Edit(kind), kb' \in KbRow, kb'.wiki = kb.wiki, kb.version <= kb'.version,
           source' \in [Sources -> Captured], model' \in [Roles -> Nat]
    PROVE  Good
  <1>1. UNCHANGED <<run, job>> /\ edits' \in 0..MaxEdits /\ DocTypeOK
    BY EditsBound DEF Edit, DocInv
  <1>2. DocTypeOK'
    BY <1>1 DEF DocTypeOK, KbRow
  <1>3. \A i \in RunIds : RunInv(i)'
    BY <1>1, RunFrame DEF DocInv
  <1>4. \A i \in RunIds : Advances(run[i], run'[i]) /\ FollowsUp(i)
    BY <1>1, Statuses DEF Advances, FollowsUp, TerminalStatus
  <1> QED
    BY <1>2, <1>3, <1>4 DEF Good, Evolution, KbMoves

LEMMA EnvironmentStep ==
    ASSUME DocInv, Environment
    PROVE  Good
  <1>1. DocTypeOK /\ kb \in KbRow /\ kb.version \in Nat
    BY DEF DocInv, DocTypeOK, KbRow
  <1>2. CASE EditKnowledgeBase
    <2>1. PICK lifecycle \in {"ACTIVE", "ARCHIVED"}, text \in Texts :
             kb' = [kb EXCEPT !.lifecycle = lifecycle, !.text = text, !.version = @ + 1]
      BY <1>2 DEF EditKnowledgeBase
    <2>2. kb' = [lifecycle |-> lifecycle, version |-> kb.version + 1, wiki |-> kb.wiki, text |-> text]
      BY <1>1, <2>1 DEF KbRow
    <2>3. kb.version + 1 \in Nat \ {0} /\ kb.version <= kb.version + 1 /\ kb.wiki \in RunIds \cup {None}
      BY <1>1 DEF KbRow
    <2>4. kb' \in KbRow /\ kb'.wiki = kb.wiki /\ kb'.version = kb.version + 1
      BY <2>2, <2>3 DEF KbRow
    <2>5. Edit("knowledge base") /\ source' \in [Sources -> Captured] /\ model' \in [Roles -> Nat]
      BY <1>1, <1>2 DEF EditKnowledgeBase, DocTypeOK
    <2> QED
      BY <2>3, <2>4, <2>5, EditStep
  <1>3. ASSUME NEW kind, Edit(kind), UNCHANGED kb, source' \in [Sources -> Captured], model' \in [Roles -> Nat]
        PROVE  Good
    <2>1. kb' \in KbRow /\ kb'.wiki = kb.wiki /\ kb.version <= kb'.version
      BY <1>1, <1>3
    <2> QED
      BY <1>3, <2>1, EditStep
  <1>4. ASSUME NEW s \in Sources, EditSource(s) \/ ChangeLifecycle(s) \/ CompleteSync(s)
        PROVE  Good
    <2>1. source[s] \in Captured /\ source \in [Sources -> Captured] /\ model \in [Roles -> Nat]
      BY <1>1 DEF DocTypeOK
    <2>2. CASE EditSource(s)
      <3>1. PICK active \in BOOLEAN : active = FALSE
        BY Zenon
      <3>2. PICK conf \in Nat : conf = source[s].conf + 1
        BY <2>1 DEF Captured
      <3>3. [source[s] EXCEPT !.conf = conf, !.active = active] \in Captured
        BY <2>1 DEF Captured
      <3>4. source' = [source EXCEPT ![s] = [source[s] EXCEPT !.conf = conf, !.active = active]]
        BY <2>1, <2>2, <3>1, <3>2 DEF EditSource
      <3>5. source' \in [Sources -> Captured] /\ Edit("source") /\ UNCHANGED <<kb, model>>
        BY <2>1, <2>2, <3>3, <3>4 DEF EditSource
      <3> QED
        BY <1>3, <2>1, <3>5
    <2>3. CASE ChangeLifecycle(s)
      <3>1. PICK active \in BOOLEAN : active = ~source[s].active
        BY Zenon
      <3>2. [source[s] EXCEPT !.active = active] \in Captured
        BY <2>1 DEF Captured
      <3>3. source' = [source EXCEPT ![s] = [source[s] EXCEPT !.active = active]]
        BY <2>1, <2>3, <3>1 DEF ChangeLifecycle
      <3>4. source' \in [Sources -> Captured] /\ Edit("membership") /\ UNCHANGED <<kb, model>>
        BY <2>1, <2>3, <3>2, <3>3 DEF ChangeLifecycle
      <3> QED
        BY <1>3, <2>1, <3>4
    <2>4. CASE CompleteSync(s)
      <3>1. PICK rev \in 1..MaxRev : source' = [source EXCEPT ![s].rev = rev]
        BY <2>4 DEF CompleteSync
      <3>2. rev \in Nat
        BY DocumentationAssumption
      <3>3. [source[s] EXCEPT !.rev = rev] \in Captured
        BY <2>1, <3>2 DEF Captured
      <3>4. source' \in [Sources -> Captured] /\ Edit("content") /\ UNCHANGED <<kb, model>>
        BY <2>1, <2>4, <3>1, <3>3 DEF CompleteSync
      <3> QED
        BY <1>3, <2>1, <3>4
    <2> QED
      BY <1>4, <2>2, <2>3, <2>4
  <1>5. ASSUME NEW role \in Roles, EditModel(role)
        PROVE  Good
    <2>1. PICK m \in 0..MaxModels : model' = [model EXCEPT ![role] = m]
      BY <1>5 DEF EditModel
    <2>2. model' \in [Roles -> Nat] /\ Edit("model") /\ UNCHANGED <<kb, source>> /\ source \in [Sources -> Captured]
      BY <1>1, <1>5, <2>1, DocumentationAssumption DEF EditModel, DocTypeOK
    <2> QED
      BY <1>3, <2>2
  <1> QED
    BY <1>2, <1>4, <1>5 DEF Environment

LEMMA HandlerStepGood ==
    ASSUME DocInv, NEW j \in DocJobs, HandlerStep(j)
    PROVE  Good
  <1>1. PICK r \in RunIds, k \in Kinds : j = <<r, k>> /\ j[1] = r /\ j[2] = k
    BY DEF DocJobs
  <1>2. CASE k = "prepare" /\ \E intact \in BOOLEAN : Prepare(r, intact)
    BY <1>2, PrepareStep
  <1>3. CASE k = "plan" /\ BeginPlan(r)
    BY <1>3, BeginPlanStep
  <1>4. CASE \E pages \in (SUBSET Pages) \ {{}} : AcceptPlan(r, pages)
    BY <1>4, AcceptPlanStep
  <1>5. CASE k \in {"plan", "finalize"} /\ FailRun(r, k)
    BY <1>5, FailRunStep
  <1>6. CASE k \in Pages /\ (BeginPage(r, k) \/ CompletePage(r, k) \/ SkipPage(r, k))
    BY <1>6, BeginPageStep, CompletePageStep, SkipPageStep
  <1>7. CASE BeginFinalization(r) \/ Publish(r)
    BY <1>7, BeginFinalizationStep, PublishStep
  <1> QED
    BY <1>1, <1>2, <1>3, <1>4, <1>5, <1>6, <1>7 DEF HandlerStep

-----------------------------------------------------------------------------
(***************************************************************************)
(* The invariant is inductive, and what follows from it.                   *)
(***************************************************************************)
LEMMA NextGood == DocInv /\ Next => Good
  BY RequestGenerationStep, EnvironmentStep, HandlerStepGood, JobStepGood DEF Next

LEMMA InitInv == Init => DocInv
  <1> SUFFICES ASSUME Init PROVE DocInv
    OBVIOUS
  <1> USE DEF Init
  <1>1. (CHOOSE t \in Texts : TRUE) \in Texts
    BY DocumentationAssumption
  <1>2. AbsentRun \in RunRow /\ AbsentRun.status = "ABSENT" /\ AbsentRun.parent = None
    BY <1>1 DEF AbsentRun, RunRow, Captured, None, PageStatus
  <1>3. NoJob \in JobRow
    BY DocumentationAssumption DEF NoJob, JobRow, Settled
  <1>4. source \in [Sources -> Captured]
    <2>1. [active |-> TRUE, conf |-> 1, rev |-> 1] \in Captured /\ [active |-> FALSE, conf |-> 1, rev |-> None] \in Captured
      BY DEF Captured, None
    <2> QED
      BY <2>1
  <1>5. kb \in KbRow
    BY <1>1 DEF KbRow
  <1>6. DocTypeOK
    BY <1>2, <1>3, <1>4, <1>5, DocumentationAssumption DEF DocTypeOK, RunRow, JobRow, KbRow
  <1>7. \A r \in RunIds : RunInv(r)
    <2> SUFFICES ASSUME NEW r \in RunIds PROVE RunInv(r)
      OBVIOUS
    <2>1. run[r] = AbsentRun /\ \A k \in Kinds : job[<<r, k>>] = NoJob
      BY DEF DocJobs
    <2>2. Fits(run[r], r, job)
      BY <1>2, <2>1 DEF Fits, PagesOK, Needs, Later
    <2> QED
      BY <2>1, <2>2 DEF RunInv
  <1>8. ActiveIsOne /\ VersionsGrow /\ OneFollowUp
    BY <1>2, Statuses DEF ActiveIsOne, VersionsGrow, OneFollowUp
  <1> QED
    BY <1>6, <1>7, <1>8 DEF DocInv

LEMMA StepInv == DocInv /\ [Next]_vars => DocInv'
  <1>1. CASE UNCHANGED vars
    BY <1>1 DEF vars, DocInv, DocTypeOK, RunInv, ActiveIsOne, VersionsGrow, OneFollowUp
  <1> QED
    BY <1>1, NextGood, GoodKeeps

LEMMA InvariantHolds == Spec => []DocInv
  BY InitInv, StepInv, PTL DEF Spec

LEMMA InvDriven == DocInv => RunIsDriven
  <1> SUFFICES ASSUME DocInv PROVE RunIsDriven
    OBVIOUS
  <1>1. OneActiveRun
    <2>1. CASE ActiveRuns(run) = {}
      BY <2>1, FS_EmptySet DEF OneActiveRun
    <2>2. CASE ActiveRuns(run) # {}
      <3>1. PICK a \in RunIds : a \in ActiveRuns(run)
        BY <2>2 DEF ActiveRuns
      <3>2. ActiveRuns(run) = {a}
        BY <3>1 DEF ActiveRuns, DocInv, ActiveIsOne
      <3>3. Cardinality({a}) = 1
        BY FS_Singleton
      <3> QED
        BY <3>2, <3>3 DEF OneActiveRun
    <2> QED
      BY <2>1, <2>2
  <1>2. RunHasDriver
    <2> SUFFICES ASSUME NEW r \in RunIds
                 PROVE  LET Alive(kind) == job[<<r, kind>>].phase \notin Settled
                            open == {p \in Pages : run[r].page[p] \in {"PENDING", "RUNNING"}}
                        IN  /\ run[r].status = "PREPARING" => Alive("prepare")
                            /\ run[r].status = "PLANNING" => Alive("plan")
                            /\ run[r].status = "GENERATING" => open # {} /\ \A p \in open : Alive(p)
                            /\ run[r].status = "FINALIZING" => Alive("finalize") /\ open = {}
      BY DEF RunHasDriver
    <2>1. PagesOK(run[r]) /\ \A k \in Kinds : Needs(run[r], k) => job[<<r, k>>].phase \notin Settled
      BY DEF DocInv, RunInv, Fits, Live
    <2> QED
      BY <2>1, KindsApart DEF PagesOK, Needs, Open
  <1>3. WikiIsWhole
    <2>1. kb.wiki # None => kb.wiki \in RunIds /\ run[kb.wiki].status = "PUBLISHED"
      BY DEF DocInv, DocTypeOK, VersionsGrow
    <2>2. \A r \in RunIds : PagesOK(run[r])
      BY DEF DocInv, RunInv, Fits
    <2> QED
      BY <2>1, <2>2 DEF WikiIsWhole, PagesOK
  <1> QED
    BY <1>1, <1>2, <1>3 DEF RunIsDriven, DocInv

(***************************************************************************)
(* At most one run of the knowledge base is active, the job that moves it  *)
(* on is alive, and the published wiki is whole: newRunTx, AcceptPlan,     *)
(* maybeFinalizeTx, Publish and the terminal callbacks together, for any   *)
(* number of runs, pages, attempts, losses, cancellations and edits.       *)
(***************************************************************************)
THEOREM DocDriven == Spec => []RunIsDriven
  BY InvariantHolds, InvDriven, PTL

(***************************************************************************)
(* A run that was published, found nothing to do or was interrupted gets   *)
(* at most one follow-up, and a failed run none (interruptTx,              *)
(* followUpContentDriftTx).                                                *)
(***************************************************************************)
THEOREM FollowUps == Spec => []OneFollowUp
  <1>1. DocInv => OneFollowUp
    BY DEF DocInv
  <1> QED
    BY <1>1, InvariantHolds, PTL

(***************************************************************************)
(* Outcomes stand, publications form a chain and drift of the content is   *)
(* followed up in the step that ends the run (Publish, FailRun, the        *)
(* terminal callbacks, followUpContentDriftTx).                            *)
(***************************************************************************)
THEOREM History == Spec => RunHistory
  <1>1. ASSUME DocInv, [Next]_vars
        PROVE  /\ [\A r \in RunIds : run[r].status \in TerminalStatus => run'[r].status = run[r].status]_vars
               /\ [kb'.wiki # kb.wiki =>
                     /\ run[kb'.wiki].status = "FINALIZING" /\ run'[kb'.wiki].status = "PUBLISHED"
                     /\ run[kb'.wiki].prior = kb.wiki]_vars
               /\ [\A r \in RunIds :
                     /\ run[r].status \in ActiveStatus
                     /\ run'[r].status \in {"PUBLISHED", "NO_OP"}
                     /\ \E s \in Sources :
                         run[r].sources[s].active /\ source[s].rev # run[r].sources[s].rev
                     => \E q \in ActiveRuns(run') :
                         /\ run'[q].parent = r
                         /\ \A s \in Sources : run'[q].sources[s].rev =
                                 IF source[s].active THEN source[s].rev ELSE None]_vars
    <2>1. CASE UNCHANGED vars
      BY <2>1
    <2>2. CASE Next
      <3>1. Good
        BY <1>1, <2>2, NextGood
      <3>2. \A r \in RunIds : run[r].status \in TerminalStatus => run'[r].status = run[r].status
        BY <3>1, Statuses DEF Good, Evolution, Born, Advances
      <3>3. \A r \in RunIds : FollowsUp(r)
        BY <3>1 DEF Good
      <3>4. KbMoves
        BY <3>1 DEF Good, Evolution
      <3> QED
        BY <3>2, <3>3, <3>4 DEF KbMoves, FollowsUp
    <2> QED
      BY <1>1, <2>1, <2>2
  <1> QED
    BY <1>1, InvariantHolds, PTL DEF Spec, RunHistory, OutcomeKept, WikiChain, DriftFollowedUp

-----------------------------------------------------------------------------
(***************************************************************************)
(* What the runs ask of the job queue.                                     *)
(***************************************************************************)
\* What a handler does to the jobs: it answers for its own, and enqueues jobs
\* that did not exist.
HandlerMoves ==
    \A i \in DocJobs :
        \/ job[i] = NoJob /\ job'[i] = QueuedJob
        \/ job'[i].phase = job[i].phase /\ job'[i].budget = job[i].budget

\* Jobs as they are but for the stage of their handlers.
SameLives(jobs) ==
    \A i \in DocJobs : jobs[i].phase = job[i].phase /\ jobs[i].budget = job[i].budget

LEMMA ReturnsLives ==
    ASSUME DocTypeOK, NEW j \in DocJobs, NEW result \in Stages, NEW jobs, jobs = Returns(j, result)
    PROVE  jobs \in [DocJobs -> JobRow] /\ SameLives(jobs)
  <1>1. PICK x : x = Answered(j, result)
    OBVIOUS
  <1>2. x \in JobRow /\ x.phase = job[j].phase /\ x.budget = job[j].budget /\ jobs = [job EXCEPT ![j] = x]
    BY <1>1, ReturnsJob
  <1>3. job \in [DocJobs -> JobRow]
    BY DEF DocTypeOK, JobRow
  <1> QED
    BY <1>2, <1>3 DEF SameLives

LEMMA AnswerMoves ==
    ASSUME DocInv, NEW j \in DocJobs, NEW result \in Stages, job' = Returns(j, result)
    PROVE  HandlerMoves
  <1>1. SameLives(job')
    BY ReturnsLives DEF DocInv
  <1> QED
    BY <1>1 DEF SameLives, HandlerMoves

LEMMA EnqueueMoves ==
    ASSUME DocInv, NEW j \in DocJobs, NEW result \in Stages, NEW jobs, jobs = Returns(j, result),
           NEW n \in DocJobs, job[n] = NoJob, job' = [jobs EXCEPT ![n] = QueuedJob]
    PROVE  HandlerMoves
  <1>1. jobs \in [DocJobs -> JobRow] /\ SameLives(jobs)
    BY ReturnsLives DEF DocInv
  <1> QED
    BY <1>1 DEF SameLives, HandlerMoves

\* The jobs a run enqueues later do not exist yet.
LEMMA LaterJob ==
    ASSUME DocInv, NEW r \in RunIds, NEW k \in Kinds, Later(run[r].status, k)
    PROVE  <<r, k>> \in DocJobs /\ job[<<r, k>>] = NoJob
  BY DEF DocInv, RunInv, Fits, DocJobs

LEMMA PrepareMoves ==
    ASSUME DocInv, NEW j \in DocJobs, NEW result \in Stages, NEW jobs, jobs = Returns(j, result),
           FreeRuns # {}, job' = WithPrepare(jobs)
    PROVE  HandlerMoves
  <1>1. PICK n : n = NewRun
    OBVIOUS
  <1>2. n \in RunIds /\ Later(run[n].status, "prepare")
    BY <1>1, NewRunIsFree DEF Later
  <1>3. <<n, "prepare">> \in DocJobs /\ job[<<n, "prepare">>] = NoJob
    BY <1>2, KindsApart, LaterJob
  <1>4. job' = [jobs EXCEPT ![<<n, "prepare">>] = QueuedJob]
    BY <1>1 DEF WithPrepare
  <1> QED
    BY <1>3, <1>4, EnqueueMoves

LEMMA FollowUpMoves ==
    ASSUME DocInv, NEW j \in DocJobs, NEW result \in Stages, NEW jobs, jobs = Returns(j, result),
           NEW r, NEW ended, NEW base, FollowUp(r, ended, base, jobs)
    PROVE  HandlerMoves
  <1>1. CASE Behind(r)
    <2>1. FreeRuns # {} /\ job' = WithPrepare(jobs)
      BY <1>1 DEF FollowUp
    <2> QED
      BY <2>1, PrepareMoves
  <1>2. CASE ~Behind(r)
    <2>1. job' = Returns(j, result)
      BY <1>2 DEF FollowUp
    <2> QED
      BY <2>1, AnswerMoves
  <1> QED
    BY <1>1, <1>2

LEMMA InterruptMoves ==
    ASSUME DocInv, NEW j \in DocJobs, NEW otherwise \in Stages, NEW r, Interrupt(r, j, "ok", otherwise)
    PROVE  HandlerMoves
  <1>1. PICK jobs : jobs = Returns(j, "ok")
    OBVIOUS
  <1>2. "ok" \in Stages
    BY DEF Stages
  <1>3. CASE job' = Returns(j, "ok")
    BY <1>2, <1>3, AnswerMoves
  <1>4. CASE job' = Returns(j, otherwise)
    BY <1>4, AnswerMoves
  <1>5. CASE FreeRuns # {} /\ job' = WithPrepare(jobs)
    BY <1>1, <1>2, <1>5, PrepareMoves
  <1> QED
    BY <1>1, <1>3, <1>4, <1>5 DEF Interrupt

LEMMA HandlerStepMoves ==
    ASSUME DocInv, NEW j \in DocJobs, HandlerStep(j)
    PROVE  HandlerMoves
  <1>1. PICK r \in RunIds, k \in Kinds : j = <<r, k>> /\ j[1] = r /\ j[2] = k
    BY DEF DocJobs
  <1>2. /\ "ok" \in Stages /\ "retry" \in Stages /\ "failure" \in Stages /\ "publishing" \in Stages
        /\ "working" \in Stages /\ Answer(r) \in Stages
    BY DEF Stages, Answer
  <1>3. PICK result \in Stages : result = Answer(r)
    BY <1>2
  <1>4. PICK jobs : jobs = Returns(j, "ok")
    OBVIOUS
  <1>5. ASSUME NEW x \in Stages, job' = Returns(j, x) PROVE HandlerMoves
    BY <1>5, AnswerMoves
  <1>6. ASSUME NEW x \in Stages, Interrupt(r, j, "ok", x) PROVE HandlerMoves
    BY <1>6, InterruptMoves
  <1>7. ASSUME NEW i \in Kinds, Later(run[r].status, i), job' = [jobs EXCEPT ![<<r, i>>] = QueuedJob]
        PROVE  HandlerMoves
    <2>1. <<r, i>> \in DocJobs /\ job[<<r, i>>] = NoJob
      BY <1>7, LaterJob
    <2> QED
      BY <1>2, <1>4, <1>7, <2>1, EnqueueMoves
  <1>8. ASSUME NEW intact \in BOOLEAN, k = "prepare", Prepare(r, intact) PROVE HandlerMoves
    <2>1. CASE job' = Returns(j, result)
      BY <1>5, <2>1
    <2>2. CASE Interrupt(r, j, "ok", "retry")
      BY <1>2, <1>6, <2>2
    <2>3. CASE FollowUp(r, EndRun(r, "NO_OP"), kb, Returns(j, "ok"))
      <3>1. PICK ended, base : ended = EndRun(r, "NO_OP") /\ base = kb
        OBVIOUS
      <3>2. FollowUp(r, ended, base, jobs)
        BY <1>4, <2>3, <3>1
      <3> QED
        BY <1>2, <1>4, <3>2, FollowUpMoves
    <2>4. CASE job' = Returns(j, "failure")
      BY <1>2, <1>5, <2>4
    <2>5. CASE run[r].status = "PREPARING" /\ job' = [jobs EXCEPT ![<<r, "plan">>] = QueuedJob]
      <3>1. Later(run[r].status, "plan")
        BY <2>5 DEF Later
      <3> QED
        BY <1>7, <2>5, <3>1, KindsApart
    <2> QED
      BY <1>1, <1>3, <1>4, <1>8, <2>1, <2>2, <2>3, <2>4, <2>5 DEF Prepare
  <1>9. CASE k = "plan" /\ BeginPlan(r)
    <2>1. job' = Returns(j, "working") \/ job' = Returns(j, result)
      BY <1>1, <1>3, <1>9 DEF BeginPlan
    <2> QED
      BY <1>2, <1>5, <2>1
  <1>10. ASSUME NEW pages \in (SUBSET Pages) \ {{}}, k = "plan", AcceptPlan(r, pages) PROVE HandlerMoves
    <2>1. CASE job' = Returns(j, "retry")
      BY <1>2, <1>5, <2>1
    <2>2. CASE Interrupt(r, j, "ok", "retry")
      BY <1>2, <1>6, <2>2
    <2>3. CASE /\ run[r].status = "PLANNING"
               /\ job' = [i \in DocJobs |-> IF i[1] = r /\ i[2] \in pages THEN QueuedJob ELSE jobs[i]]
      <3>1. SameLives(jobs)
        BY <1>2, <1>4, ReturnsLives DEF DocInv
      <3>2. \A i \in DocJobs : i[1] = r /\ i[2] \in pages => job[i] = NoJob
        <4> SUFFICES ASSUME NEW i \in DocJobs, i[1] = r, i[2] \in pages PROVE job[i] = NoJob
          OBVIOUS
        <4>1. PICK p \in Pages : i = <<r, p>>
          BY <1>10 DEF DocJobs
        <4>2. Later(run[r].status, p) /\ p \in Kinds
          BY <2>3, KindsApart DEF Later
        <4> QED
          BY <4>1, <4>2, LaterJob
      <3> QED
        BY <2>3, <3>1, <3>2 DEF SameLives, HandlerMoves
    <2> QED
      BY <1>1, <1>4, <1>10, <2>1, <2>2, <2>3 DEF AcceptPlan
  <1>11. CASE FailRun(r, k)
    BY <1>1, <1>2, <1>5, <1>11 DEF FailRun
  <1>12. CASE k \in Pages /\ BeginPage(r, k)
    <2>1. job' = Returns(j, "ok") \/ job' = Returns(j, "working") \/ Interrupt(r, j, "ok", "retry")
      BY <1>1, <1>12 DEF BeginPage
    <2> QED
      BY <1>2, <1>5, <1>6, <2>1
  <1>13. CASE k \in Pages /\ (CompletePage(r, k) \/ SkipPage(r, k))
    <2>1. \/ job' = Returns(j, "ok") \/ Interrupt(r, j, "ok", "retry")
          \/ run[r].status = "GENERATING" /\ \E status \in {"COMPLETE", "SKIPPED"} : job' = AfterPage(r, k, status, jobs)
      BY <1>1, <1>4, <1>13 DEF CompletePage, SkipPage
    <2>2. CASE run[r].status = "GENERATING" /\ \E status \in {"COMPLETE", "SKIPPED"} : job' = AfterPage(r, k, status, jobs)
      <3>1. job' = jobs \/ job' = [jobs EXCEPT ![<<r, "finalize">>] = QueuedJob]
        BY <2>2 DEF AfterPage
      <3>2. Later(run[r].status, "finalize")
        BY <2>2 DEF Later
      <3> QED
        BY <1>2, <1>4, <1>5, <1>7, <3>1, <3>2, KindsApart
    <2> QED
      BY <1>2, <1>5, <1>6, <2>1, <2>2
  <1>14. CASE k = "finalize" /\ BeginFinalization(r)
    <2>1. job' = Returns(j, result) \/ job' = Returns(j, "publishing") \/ Interrupt(r, j, "ok", "retry")
      BY <1>1, <1>3, <1>14 DEF BeginFinalization
    <2> QED
      BY <1>2, <1>5, <1>6, <2>1
  <1>15. CASE k = "finalize" /\ Publish(r)
    <2>1. CASE Interrupt(r, j, "ok", "publishing")
      BY <1>2, <1>6, <2>1
    <2>2. CASE \E answer \in {"ok", "publishing"} :
                 FollowUp(r, EndRun(r, "PUBLISHED"), [kb EXCEPT !.wiki = r, !.version = @ + 1], Returns(j, answer))
      <3>1. PICK ended, base : ended = EndRun(r, "PUBLISHED") /\ base = [kb EXCEPT !.wiki = r, !.version = @ + 1]
        OBVIOUS
      <3>2. PICK answer \in {"ok", "publishing"} : FollowUp(r, ended, base, Returns(j, answer))
        BY <2>2, <3>1
      <3>3. PICK after : after = Returns(j, answer)
        OBVIOUS
      <3>4. FollowUp(r, ended, base, after) /\ answer \in Stages
        BY <1>2, <3>2, <3>3
      <3> QED
        BY <3>3, <3>4, FollowUpMoves
    <2> QED
      BY <1>1, <1>15, <2>1, <2>2 DEF Publish
  <1> QED
    BY <1>1, <1>8, <1>9, <1>10, <1>11, <1>12, <1>13, <1>14, <1>15 DEF HandlerStep

\* A step of one job's life, as JobLifecycle has it.
Moves(x, y) ==
    \/ x.phase = "none" /\ y.phase = "queued" /\ y.budget = Attempts
    \/ /\ x.phase \in {"queued", "running"} /\ y.phase = "running"
       /\ x.budget > 0 /\ y.budget = x.budget - 1
    \/ x.phase = "running" /\ y.phase = "queued" /\ x.budget > 0 /\ y.budget = x.budget
    \/ x.phase = "running" /\ y.phase \in {"cancelling", "failed"} /\ y.budget = x.budget
    \/ x.phase \in {"running", "cancelling"} /\ y.phase = "succeeded" /\ y.budget = x.budget
    \/ x.phase \in {"queued", "running", "cancelling"} /\ y.phase = "cancelled" /\ y.budget = x.budget
    \/ y.phase = x.phase /\ y.budget = x.budget

LEMMA MovesIsStep ==
    ASSUME NEW j \in DocJobs, Moves(job[j], job'[j])
    PROVE  Queue!Step(j)
  <1>1. Attempts \in 1..Attempts
    BY DocumentationAssumption
  <1> QED
    BY <1>1 DEF Moves, Queue!Step, Queue!Submit, Queue!StartRun, Queue!Requeue, Queue!AskToCancel,
                Queue!Succeed, Queue!Fail, Queue!Cancel, Queue!Stay, Queue!Quietly

LEMMA OneMoves ==
    ASSUME DocTypeOK, NEW j \in DocJobs, NEW x, job' = [job EXCEPT ![j] = x], Moves(job[j], x)
    PROVE  \A i \in DocJobs : Moves(job[i], job'[i])
  <1>1. job'[j] = x /\ \A i \in DocJobs \ {j} : job'[i] = job[i]
    BY DEF DocTypeOK
  <1>2. \A i \in DocJobs \ {j} : Moves(job[i], job'[i])
    BY <1>1 DEF Moves
  <1> QED
    BY <1>1, <1>2

LEMMA SettledMoves ==
    ASSUME DocTypeOK, NEW j \in DocJobs, NEW phase \in {"queued", "running", "cancelling"} \cup Settled,
           job' = [job EXCEPT ![j].phase = phase, ![j].stage = "start"],
           \/ phase = "queued" /\ job[j].phase = "running" /\ job[j].budget > 0
           \/ phase = "succeeded" /\ job[j].phase \in {"running", "cancelling"}
           \/ phase = "failed" /\ job[j].phase = "running"
           \/ phase = "cancelled" /\ job[j].phase \in {"queued", "running", "cancelling"}
    PROVE  \A i \in DocJobs : Moves(job[i], job'[i])
  <1>1. PICK x : x = SettledJob(j, phase)
    OBVIOUS
  <1>2. x.phase = phase /\ x.budget = job[j].budget
    BY <1>1, JobWritten
  <1>3. job' = [job EXCEPT ![j] = x]
    BY <1>1 DEF SettledJob
  <1>4. Moves(job[j], x)
    BY <1>2 DEF Moves
  <1> QED
    BY <1>3, <1>4, OneMoves

LEMMA JobStepMoves ==
    ASSUME DocInv, NEW j \in DocJobs, JobStep(j)
    PROVE  \A i \in DocJobs : Moves(job[i], job'[i])
  <1>1. DocTypeOK
    BY DEF DocInv
  <1>2. ASSUME NEW phase \in {"queued", "succeeded", "failed", "cancelled"},
               job' = [job EXCEPT ![j].phase = phase, ![j].stage = "start"],
               \/ phase = "queued" /\ job[j].phase = "running" /\ job[j].budget > 0
               \/ phase = "succeeded" /\ job[j].phase \in {"running", "cancelling"}
               \/ phase = "failed" /\ job[j].phase = "running"
               \/ phase = "cancelled" /\ job[j].phase \in {"queued", "running", "cancelling"}
        PROVE  \A i \in DocJobs : Moves(job[i], job'[i])
    <2>1. phase \in {"queued", "running", "cancelling"} \cup Settled
      BY DEF Settled
    <2> QED
      BY <1>1, <1>2, <2>1, SettledMoves
  <1>3. CASE Lease(j) \/ TakeOver(j)
    <2>1. PICK x : x = [phase |-> "running", budget |-> job[j].budget - 1, stage |-> "start"]
      OBVIOUS
    <2>2. job' = [job EXCEPT ![j] = x] /\ job[j].phase \in {"queued", "running"} /\ job[j].budget > 0
      BY <1>3, <2>1 DEF Lease, TakeOver, LeaseTo
    <2>3. Moves(job[j], x)
      BY <2>1, <2>2 DEF Moves
    <2> QED
      BY <1>1, <2>2, <2>3, OneMoves
  <1>4. CASE Exhaust(j)
    BY <1>2, <1>4 DEF Exhaust, SettleBadly
  <1>5. CASE HandlerError(j)
    <2>1. job' = Returns(j, "retry") /\ "retry" \in Stages
      BY <1>5 DEF HandlerError, Stages
    <2>2. SameLives(job')
      BY <1>1, <2>1, ReturnsLives
    <2> QED
      BY <2>2 DEF SameLives, Moves
  <1>6. CASE Accept(j)
    BY <1>2, <1>6 DEF Accept, Permitted, Settle, SettleBadly
  <1>7. CASE RequestCancel(j)
    <2>1. CASE job[j].phase = "running" /\ job' = [job EXCEPT ![j].phase = "cancelling"]
      <3>1. PICK x : x = [job[j] EXCEPT !.phase = "cancelling"]
        OBVIOUS
      <3>2. job[j] \in JobRow
        BY <1>1 DEF DocTypeOK, JobRow
      <3>3. x.phase = "cancelling" /\ x.budget = job[j].budget
        BY <3>1, <3>2 DEF JobRow
      <3>4. Moves(job[j], x) /\ job' = [job EXCEPT ![j] = x]
        BY <2>1, <3>1, <3>3 DEF Moves
      <3> QED
        BY <1>1, <3>4, OneMoves
    <2>2. CASE job[j].phase \in {"queued", "running"} /\ SettleBadly(j, "cancelled")
      BY <1>2, <2>2 DEF SettleBadly
    <2> QED
      BY <1>7, <2>1, <2>2 DEF RequestCancel
  <1>8. CASE FinishCancel(j)
    BY <1>2, <1>8 DEF FinishCancel, SettleBadly
  <1> QED
    BY <1>3, <1>4, <1>5, <1>6, <1>7, <1>8 DEF JobStep

LEMMA NextMoves ==
    ASSUME DocInv, [Next]_vars
    PROVE  \A j \in DocJobs : Moves(job[j], job'[j])
  <1>1. CASE HandlerMoves
    <2>1. NoJob.phase = "none" /\ QueuedJob.phase = "queued" /\ QueuedJob.budget = Attempts
      BY DEF NoJob, QueuedJob
    <2> QED
      BY <1>1, <2>1 DEF HandlerMoves, Moves
  <1>2. CASE RequestGeneration
    <2>1. FreeRuns # {} /\ job' = WithPrepare(job)
      BY <1>2 DEF RequestGeneration
    <2>2. PICK n : n = NewRun
      OBVIOUS
    <2>3. n \in RunIds /\ Later(run[n].status, "prepare")
      BY <2>1, <2>2, NewRunIsFree DEF Later
    <2>4. <<n, "prepare">> \in DocJobs /\ job[<<n, "prepare">>] = NoJob
      BY <2>3, KindsApart, LaterJob
    <2>5. job' = [job EXCEPT ![<<n, "prepare">>] = QueuedJob]
      BY <2>1, <2>2 DEF WithPrepare
    <2>6. HandlerMoves
      BY <2>4, <2>5 DEF HandlerMoves, DocInv, DocTypeOK
    <2> QED
      BY <1>1, <2>6
  <1>3. ASSUME NEW j \in DocJobs, HandlerStep(j) PROVE HandlerMoves
    BY <1>3, HandlerStepMoves
  <1>4. ASSUME NEW j \in DocJobs, JobStep(j) PROVE \A i \in DocJobs : Moves(job[i], job'[i])
    BY <1>4, JobStepMoves
  <1>5. CASE Environment \/ UNCHANGED vars
    <2>1. job' = job
      BY <1>5 DEF Environment, EditKnowledgeBase, EditSource, ChangeLifecycle, CompleteSync, EditModel, Edit, vars
    <2> QED
      BY <2>1 DEF Moves
  <1> QED
    BY <1>1, <1>2, <1>3, <1>4, <1>5 DEF Next

(***************************************************************************)
(* Documentation runs ask of the queue only what it promises: every job is *)
(* submitted once, started within its attempts and settled once, with its  *)
(* terminal callback in the step that settles it.  With Implementation of  *)
(* JobQueueProofs the two components fit.                                  *)
(***************************************************************************)
THEOREM RunsUseQueue == Spec => UsesLifecycle
  <1>1. Init => Queue!Init
    BY DEF Init, Queue!Init, NoJob
  <1>2. DocInv /\ [Next]_vars => [Queue!Next]_(Queue!vars)
    <2> SUFFICES ASSUME DocInv, [Next]_vars PROVE Queue!Next
      OBVIOUS
    <2>1. \A j \in DocJobs : Queue!Step(j)
      BY NextMoves, MovesIsStep
    <2> QED
      BY <2>1 DEF Queue!Next
  <1> QED
    BY <1>1, <1>2, InvariantHolds, PTL DEF Spec, UsesLifecycle, Queue!Spec
===============================================================================
