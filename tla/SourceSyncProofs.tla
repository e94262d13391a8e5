---------------------------- MODULE SourceSyncProofs ----------------------------
(***************************************************************************)
(* Proofs about the synchronization of a source and the capture of a       *)
(* website.  For any number of workers, retention workers, captures,       *)
(* attempts and contents of the remote, captures end with their jobs,      *)
(* health and lifecycle are about the configuration the source has, a      *)
(* readable revision has its files, and completions move the source        *)
(* forward.  For any site, mode and limits, captures of an unchanged site  *)
(* agree, and they obey robots.txt.                                        *)
(***************************************************************************)
EXTENDS SourceSync, WebsiteCrawl, FiniteSetTheorems, SequenceTheorems,
        WellFoundedInduction, TLAPS

Final == {"SUCCEEDED", "SUPERSEDED"}

\* What a completion may not find outdated, and may still find at all.
Fresh(i) == sync[i].configuration = source.configuration /\ sync[i].secret = secret
Open(i) == job[i].phase \in Active /\ sync[i].kind = "SYNC" /\ sync[i].status \notin Final /\ Fresh(i)
Seen(n) == \A k \in Ids : sync[k].seen <= n

(***************************************************************************)
(* The inductive invariant.                                                *)
(***************************************************************************)
\* The part of CaptureFollowsJob about one capture.
Follows(i) ==
    /\ sync[i].status \in {"PENDING", "RUNNING"} => job[i].phase \in Active
    /\ job[i].phase = "succeeded" => sync[i].status \in Final

\* The part of RevisionHasSnapshot about one revision.
HasFiles(r) ==
    revision[r].state = "live" /\ r \notin intents
    => snapshot[r] # 0 /\ Upstream[snapshot[r]] = Upstream[revision[r].seen]

\* A capture exists with its job and is not ahead of the source, whose version
\* tells the configuration; a revision stems from its success; and what is
\* stored for one that may still complete is as new as any completion saw.
CaptureOK(i) ==
    /\ job[i].phase = "none" => sync[i] = NoSync /\ snapshot[i] = 0
    /\ job[i].phase # "none" => sync[i].kind # "none" /\ sync[i].status # "none"
    /\ sync[i].configuration <= source.configuration /\ sync[i].secret <= secret
    /\ sync[i].version <= source.version
    /\ sync[i].version = source.version => sync[i].configuration = source.configuration
    /\ Follows(i)
    /\ revision[i].state # "none" => sync[i].status = "SUCCEEDED" /\ sync[i].result = i
    /\ HasFiles(i)
    /\ sync[i].seen <= remote /\ snapshot[i] <= remote
    /\ Open(i) /\ snapshot[i] # 0 => Seen(snapshot[i])

\* A handler that is done has a final capture behind it, one that completes has
\* stored what it saw, and what it saw is as new as any completion saw.
HandlerOK(w) ==
    LET h == handler[w]
        i == handler[w].sync
    IN  h.at # "idle" =>
        /\ i \in Ids /\ job[i].phase # "none" /\ h.seen <= remote
        /\ h.at \in {"cleanup", "ok"} => sync[i].status \in Final
        /\ h.at = "store" => h.seen # 0
        /\ h.at \in {"complete", "commit"} /\ sync[i].kind = "SYNC" /\ sync[i].status # "SUCCEEDED" =>
             snapshot[i] # 0 /\ Upstream[snapshot[i]] = Upstream[h.seen]
        /\ h.at \in {"store", "complete"} /\ Open(i) => Seen(h.seen)
        /\ h.at = "commit" => writing = w

\* scheduleOnce adopts: no two active captures are of one kind and one key.
Adopted ==
    \A i, k \in Ids :
        /\ job[i].phase \in Active /\ job[k].phase \in Active /\ sync[i].kind = sync[k].kind
        /\ sync[i].configuration = sync[k].configuration /\ sync[i].secret = sync[k].secret
        => i = k

Evidence ==
    \/ \E i \in Ids : /\ sync[i].kind = "VALIDATION" /\ sync[i].status = "SUCCEEDED"
                      /\ sync[i].configuration = source.configuration
    \/ source.configuration = 1 /\ sync[1].kind = "SYNC" /\ job[1].phase # "none"

\* What was validated is known by a capture that succeeded.
Validated ==
    /\ source.validated <= source.configuration
    /\ source.lifecycle = "ACTIVE" => source.validated = source.configuration
    /\ source.validated = source.configuration => Evidence
    /\ HealthIsCurrent

\* A completion in its transaction has its permit, and every other active
\* synchronization is stale by then.
Written ==
    writing # Nobody =>
        LET i == handler[writing].sync IN
        /\ handler[writing].at = "commit" /\ handler[writing].chosen \in Ids /\ Permitted(writing)
        /\ sync[i].status = "RUNNING" /\ sync[i].kind = "SYNC"
        /\ sync[i].configuration = source.configuration
        /\ Seen(handler[writing].seen)
        /\ \A k \in Ids \ {i} : job[k].phase \in Active /\ sync[k].kind = "SYNC" => ~Fresh(k)

\* Retention works on what was staged, or on what it has purged since.
Retired ==
    /\ \A r \in intents : revision[r].state = "live"
    /\ \A k \in Keepers : retiring[k].at # "idle" =>
         /\ retiring[k].revision \in Ids
         /\ retiring[k].revision \in intents \/ revision[retiring[k].revision].state = "purged"

SyncInv ==
    /\ SyncTypeOK
    /\ \A i \in Ids : CaptureOK(i)
    /\ \A w \in Workers : HandlerOK(w)
    /\ Adopted /\ Validated /\ Written /\ Retired

-----------------------------------------------------------------------------
(* The values rows start from, and what types say of one row. *)

LEMMA StartRows ==
    /\ NoSync \in SyncRow /\ NoJob \in JobRow /\ NewJob \in JobRow /\ Idle \in HandlerRow
    /\ NoRevision \in RevisionRow /\ Resting \in IntentRow
    /\ \A k \in {"REPOSITORY", "WEBSITE"} : Created(k) \in SourceRow
  BY SyncAssumption DEF NoSync, SyncRow, NoJob, NewJob, JobRow, Idle, HandlerRow, NoRevision, RevisionRow,
     Resting, IntentRow, Created, SourceRow, Active

LEMMA NewSyncRow ==
    ASSUME NEW k \in {"VALIDATION", "SYNC"}, NEW s \in SourceRow, secret \in Nat
    PROVE  NewSync(k, s) \in SyncRow
  BY SyncAssumption DEF NewSync, SyncRow, SourceRow

LEMMA OneIsId == 1 \in Ids
  BY SyncAssumption DEF Ids

LEMMA InitInv == Init => SyncInv
  <1> SUFFICES ASSUME Init PROVE SyncInv
    OBVIOUS
  <1> USE OneIsId
  <1>1. PICK scenario \in Scenarios :
          \/ /\ source = Created(scenario.kind)
             /\ sync = [i \in Ids |-> IF i = 1 THEN NewSync("VALIDATION", source) ELSE NoSync]
             /\ job = [i \in Ids |-> IF i = 1 THEN NewJob ELSE NoJob]
             /\ revision = [i \in Ids |-> NoRevision]
             /\ snapshot = [i \in Ids |-> 0]
             /\ checked = 0
          \/ /\ source = [Created(scenario.kind) EXCEPT
                           !.lifecycle = "ACTIVE", !.health = "HEALTHY", !.version = 3,
                           !.validated = 1, !.current = 1]
             /\ sync = [i \in Ids |->
                   IF i = 1 THEN [kind |-> "SYNC", status |-> "SUCCEEDED", version |-> 2,
                                  configuration |-> 1, secret |-> 1, result |-> 1, seen |-> 1]
                   ELSE NoSync]
             /\ job = [i \in Ids |-> IF i = 1 THEN [NewJob EXCEPT !.phase = "succeeded"] ELSE NoJob]
             /\ revision = [i \in Ids |->
                   IF i = 1 THEN [state |-> "live", seen |-> 1] ELSE NoRevision]
             /\ snapshot = [i \in Ids |-> IF i = 1 THEN 1 ELSE 0]
             /\ checked = 1
    BY DEF Init
  <1>2. scenario.kind \in {"REPOSITORY", "WEBSITE"}
    BY SyncAssumption
  <1>3. /\ secret = 1 /\ remote = 1 /\ handler = [w \in Workers |-> Idle] /\ writing = Nobody
        /\ intents = {} /\ keeper \in Keepers /\ retiring = [k \in Keepers |-> Resting]
    BY DEF Init
  <1>4. Len(Upstream) \in Nat \ {0} /\ Attempts \in Nat \ {0}
    BY SyncAssumption
  <1>5. CASE source = Created(scenario.kind)
    <2>1. source \in SourceRow /\ NewSync("VALIDATION", source) \in SyncRow
      BY <1>2, <1>3, <1>5, StartRows, NewSyncRow
    <2>3. /\ sync = [i \in Ids |-> IF i = 1 THEN NewSync("VALIDATION", source) ELSE NoSync]
          /\ job = [i \in Ids |-> IF i = 1 THEN NewJob ELSE NoJob]
          /\ revision = [i \in Ids |-> NoRevision]
          /\ snapshot = [i \in Ids |-> 0]
      BY <1>1, <1>5 DEF Created
    <2>2. SyncTypeOK
      BY <1>3, <1>4, <2>1, <2>3, StartRows DEF SyncTypeOK
    <2>4. \A i \in Ids : CaptureOK(i)
      BY <1>3, <1>5, <2>3 DEF CaptureOK, Follows, HasFiles, Created, NewSync, NoSync, NewJob, NoJob, NoRevision,
         Active, Final
    <2>5. Adopted /\ Validated
      BY <1>5, <2>3 DEF Adopted, Validated, HealthIsCurrent, NoJob, Active, Created
    <2> QED
      BY <1>3, <2>2, <2>4, <2>5 DEF SyncInv, HandlerOK, Idle, Written, Retired, Resting
  <1>6. CASE source # Created(scenario.kind)
    <2>1. /\ source = [Created(scenario.kind) EXCEPT
                           !.lifecycle = "ACTIVE", !.health = "HEALTHY", !.version = 3,
                           !.validated = 1, !.current = 1]
          /\ sync = [i \in Ids |->
                   IF i = 1 THEN [kind |-> "SYNC", status |-> "SUCCEEDED", version |-> 2,
                                  configuration |-> 1, secret |-> 1, result |-> 1, seen |-> 1]
                   ELSE NoSync]
          /\ job = [i \in Ids |-> IF i = 1 THEN [NewJob EXCEPT !.phase = "succeeded"] ELSE NoJob]
          /\ revision = [i \in Ids |-> IF i = 1 THEN [state |-> "live", seen |-> 1] ELSE NoRevision]
          /\ snapshot = [i \in Ids |-> IF i = 1 THEN 1 ELSE 0]
          /\ checked = 1
      BY <1>1, <1>6
    <2>2. source \in SourceRow
      <3>1. \A s \in SourceRow, v \in Nat \ {0}, n \in Nat, c \in {0} \cup Ids :
              [s EXCEPT !.lifecycle = "ACTIVE", !.health = "HEALTHY", !.version = v,
                        !.validated = n, !.current = c] \in SourceRow
        BY DEF SourceRow
      <3>2. 3 \in Nat \ {0} /\ 1 \in Nat /\ 1 \in {0} \cup Ids
        OBVIOUS
      <3> QED
        BY <1>2, <2>1, <3>1, <3>2, StartRows
    <2>3. [NewJob EXCEPT !.phase = "succeeded"] \in JobRow
          /\ [NewJob EXCEPT !.phase = "succeeded"].phase = "succeeded"
      BY StartRows DEF JobRow, Settled
    <2>4. sync \in [Ids -> SyncRow]
      <3>1. [kind |-> "SYNC", status |-> "SUCCEEDED", version |-> 2,
             configuration |-> 1, secret |-> 1, result |-> 1, seen |-> 1] \in SyncRow
        BY <1>4 DEF SyncRow, Closed
      <3> QED
        BY <2>1, <3>1, StartRows
    <2>5. SyncTypeOK
      BY <1>3, <1>4, <2>1, <2>2, <2>3, <2>4, StartRows DEF SyncTypeOK, RevisionRow
    <2>6. source.version = 3 /\ source.configuration = 1 /\ source.validated = 1 /\ source.health = "HEALTHY"
      BY <2>1 DEF Created
    <2>7. \A i \in Ids : CaptureOK(i)
      BY <1>3, <2>1, <2>3, <2>6 DEF CaptureOK, Follows, HasFiles, NoSync, NoJob, NoRevision, Active, Final, Open
    <2>8. Adopted /\ Validated
      <3>1. Adopted
        BY <2>1, <2>3 DEF Adopted, NoJob, Active
      <3>2. Evidence
        BY <2>1, <2>3, <2>6 DEF Evidence
      <3> QED
        BY <2>1, <2>6, <3>1, <3>2 DEF Validated, HealthIsCurrent
    <2>9. \A w \in Workers : HandlerOK(w)
      BY <1>3 DEF HandlerOK, Idle
    <2>10. Written /\ Retired
      BY <1>3 DEF Written, Retired, Resting
    <2> QED
      BY <2>5, <2>7, <2>8, <2>9, <2>10 DEF SyncInv
  <1> QED
    BY <1>5, <1>6

-----------------------------------------------------------------------------
(***************************************************************************)
(* What every step keeps, except the one that schedules a capture and the  *)
(* one that commits: versions grow, a capture keeps what it captured and a *)
(* final one stays, jobs do not come back, and files are only removed from *)
(* what was reused or is retired.                                          *)
(***************************************************************************)
Grows ==
    /\ remote' >= remote /\ secret' >= secret /\ source'.configuration >= source.configuration
    /\ source' = source \/ source'.version > source.version

KeepsCapture(i) ==
    /\ sync'[i].kind = sync[i].kind /\ sync'[i].version = sync[i].version
    /\ sync'[i].configuration = sync[i].configuration /\ sync'[i].secret = sync[i].secret
    /\ sync'[i].seen = sync[i].seen
    /\ sync[i].status \in Final => sync'[i] = sync[i]
    /\ job[i].phase = "none" => sync'[i] = sync[i] /\ job'[i].phase = "none" /\ snapshot'[i] = snapshot[i]
    /\ job[i].phase # "none" => job'[i].phase # "none" /\ sync'[i].status # "none"
    /\ job'[i].phase \in Active => job[i].phase \in Active

KeepsFiles(i) ==
    /\ \/ snapshot'[i] = snapshot[i]
       \/ snapshot'[i] = 0 /\ sync[i].status = "SUCCEEDED" /\ (i \in intents' \/ revision'[i].state # "live")
       \/ snapshot[i] = 0 /\ snapshot'[i] <= remote' /\ (Open(i) => Seen(snapshot'[i]))
    /\ revision'[i] = revision[i] \/ (revision[i].state # "none" /\ revision'[i].state = "purged")
    /\ i \in intents => i \in intents' \/ revision'[i].state = "purged"

SeenKept == \A k \in Ids : sync'[k].seen <= sync[k].seen

LEMMA RowTypes ==
    ASSUME SyncTypeOK
    PROVE  /\ source.configuration \in Nat /\ source.version \in Nat /\ source.validated \in Nat
           /\ secret \in Nat /\ remote \in Nat
           /\ \A i \in Ids : /\ sync[i].configuration \in Nat /\ sync[i].secret \in Nat
                             /\ sync[i].version \in Nat /\ sync[i].seen \in Nat
                             /\ snapshot[i] \in Nat
           /\ \A w \in Workers : handler[w].seen \in Nat
  BY SyncAssumption DEF SyncTypeOK, SourceRow, SyncRow, HandlerRow

LEMMA SeenStays ==
    ASSUME SyncTypeOK, SyncTypeOK', SeenKept, NEW n \in Nat, Seen(n)
    PROVE  Seen(n)'
  <1>1. \A k \in Ids : sync[k].seen \in Nat /\ sync'[k].seen \in Nat
    BY SyncAssumption DEF SyncTypeOK, SyncRow
  <1> QED
    BY <1>1 DEF Seen, SeenKept

LEMMA OpenStays ==
    ASSUME SyncInv, SyncTypeOK', Grows, NEW i \in Ids, KeepsCapture(i), Open(i)'
    PROVE  Open(i)
  <1>1. sync[i].configuration <= source.configuration /\ sync[i].secret <= secret
    BY DEF SyncInv, CaptureOK
  <1>2. Fresh(i)
    <2>1. sync[i].configuration = source'.configuration /\ sync[i].secret = secret'
      BY DEF Open, Fresh, KeepsCapture
    <2>2. /\ source'.configuration \in Nat /\ secret' \in Nat /\ source.configuration \in Nat /\ secret \in Nat
          /\ sync[i].configuration \in Nat /\ sync[i].secret \in Nat
      BY SyncAssumption DEF SyncInv, SyncTypeOK, SourceRow, SyncRow
    <2> QED
      BY <1>1, <2>1, <2>2 DEF Grows, Fresh
  <1> QED
    BY <1>2 DEF Open, KeepsCapture

LEMMA CaptureStays ==
    ASSUME SyncInv, SyncTypeOK', Grows, NEW i \in Ids, KeepsCapture(i), KeepsFiles(i), Follows(i)',
           Open(i)' => SeenKept
    PROVE  CaptureOK(i)'
  <1> USE DEF SyncInv
  <1>0. CaptureOK(i)
    OBVIOUS
  <1>t. /\ source'.configuration \in Nat /\ secret' \in Nat /\ source.configuration \in Nat /\ secret \in Nat
        /\ source'.version \in Nat /\ source.version \in Nat /\ remote \in Nat /\ remote' \in Nat
        /\ sync[i].configuration \in Nat /\ sync[i].secret \in Nat /\ sync[i].version \in Nat
        /\ sync[i].seen \in Nat /\ snapshot[i] \in Nat /\ snapshot'[i] \in Nat
    BY SyncAssumption, SMTT(30) DEF SyncTypeOK, SourceRow, SyncRow
  <1>1. /\ job'[i].phase = "none" => sync'[i] = NoSync /\ snapshot'[i] = 0
        /\ job'[i].phase # "none" => sync'[i].kind # "none" /\ sync'[i].status # "none"
    BY <1>0 DEF CaptureOK, KeepsCapture
  <1>2. /\ sync'[i].configuration <= source'.configuration /\ sync'[i].secret <= secret'
        /\ sync'[i].version <= source'.version
        /\ sync'[i].version = source'.version => sync'[i].configuration = source'.configuration
    BY <1>0, <1>t DEF CaptureOK, KeepsCapture, Grows
  <1>3. revision'[i].state # "none" => sync'[i].status = "SUCCEEDED" /\ sync'[i].result = i
    BY <1>0 DEF CaptureOK, KeepsCapture, KeepsFiles, Final
  <1>4. HasFiles(i)'
    BY <1>0 DEF CaptureOK, KeepsFiles, HasFiles
  <1>5. sync'[i].seen <= remote' /\ snapshot'[i] <= remote'
    BY <1>0, <1>t DEF CaptureOK, KeepsCapture, KeepsFiles, Grows
  <1>6. ASSUME Open(i)', snapshot'[i] # 0 PROVE Seen(snapshot[i])'
    <2>1. Open(i) /\ SeenKept
      BY <1>6, OpenStays
    <2>2. Seen(snapshot'[i])
      BY <1>0, <1>6, <2>1 DEF CaptureOK, KeepsFiles
    <2>3. \A k \in Ids : sync'[k].seen <= snapshot'[i]
      <3>1. \A k \in Ids : sync[k].seen \in Nat /\ sync'[k].seen \in Nat
        BY SyncAssumption DEF SyncTypeOK, SyncRow
      <3> QED
        BY <1>t, <2>1, <2>2, <3>1 DEF Seen, SeenKept
    <2> QED
      BY <2>3 DEF Seen
  <1> QED
    BY <1>1, <1>2, <1>3, <1>4, <1>5, <1>6 DEF CaptureOK

LEMMA HandlerStays ==
    ASSUME SyncInv, SyncTypeOK', Grows, NEW w \in Workers, handler'[w] = handler[w],
           handler[w].at = "commit" => writing' = writing,
           \A i \in Ids : job[i].phase # "none" /\ i = handler[w].sync =>
             KeepsCapture(i) /\ KeepsFiles(i) /\ (Open(i)' => SeenKept)
    PROVE  HandlerOK(w)'
  <1> USE DEF SyncInv
  <1> DEFINE h == handler[w]
             i == handler[w].sync
  <1> SUFFICES ASSUME h.at # "idle" PROVE HandlerOK(w)'
    BY DEF HandlerOK
  <1>0. HandlerOK(w) /\ i \in Ids /\ job[i].phase # "none"
    BY DEF HandlerOK
  <1>1. KeepsCapture(i) /\ KeepsFiles(i) /\ CaptureOK(i)
    BY <1>0
  <1>2. job'[i].phase # "none" /\ h.seen <= remote'
    <2>1. h.seen \in Nat /\ remote \in Nat /\ remote' \in Nat
      BY SyncAssumption DEF SyncTypeOK, HandlerRow
    <2>2. h.seen <= remote
      BY <1>0 DEF HandlerOK
    <2> QED
      BY <1>0, <1>1, <2>1, <2>2 DEF KeepsCapture, Grows
  <1>3. h.at \in {"cleanup", "ok"} => sync'[i].status \in Final
    BY <1>0, <1>1 DEF HandlerOK, KeepsCapture
  <1>4. h.at \in {"complete", "commit"} /\ sync'[i].kind = "SYNC" /\ sync'[i].status # "SUCCEEDED" =>
          snapshot'[i] # 0 /\ Upstream[snapshot'[i]] = Upstream[h.seen]
    BY <1>0, <1>1 DEF HandlerOK, KeepsCapture, KeepsFiles, Final
  <1>5. ASSUME h.at \in {"store", "complete"}, Open(i)' PROVE Seen(h.seen)'
    <2>1. Open(i) /\ SeenKept
      BY <1>0, <1>1, <1>5, OpenStays
    <2>2. Seen(h.seen)
      BY <1>0, <1>5, <2>1 DEF HandlerOK
    <2>3. \A k \in Ids : sync'[k].seen <= h.seen
      <3>1. h.seen \in Nat /\ \A k \in Ids : sync[k].seen \in Nat /\ sync'[k].seen \in Nat
        BY SyncAssumption, SMTT(30) DEF SyncTypeOK, SyncRow, HandlerRow
      <3> QED
        BY <2>1, <2>2, <3>1 DEF Seen, SeenKept
    <2> QED
      BY <2>3 DEF Seen
  <1>6. h.at = "commit" => writing' = w
    BY <1>0 DEF HandlerOK
  <1>7. h.at = "store" => h.seen # 0
    BY <1>0 DEF HandlerOK
  <1> QED
    BY <1>0, <1>2, <1>3, <1>4, <1>5, <1>6, <1>7 DEF HandlerOK

LEMMA AdoptedStays ==
    ASSUME SyncInv, \A i \in Ids : KeepsCapture(i)
    PROVE  Adopted'
  BY DEF SyncInv, Adopted, KeepsCapture

LEMMA EvidenceStays ==
    ASSUME SyncInv, \A i \in Ids : job[i].phase # "none" => KeepsCapture(i), Evidence,
           source'.configuration = source.configuration
    PROVE  Evidence'
  <1>1. CASE source.configuration = 1 /\ sync[1].kind = "SYNC" /\ job[1].phase # "none"
    BY <1>1, OneIsId DEF Evidence, KeepsCapture
  <1>2. ASSUME NEW i \in Ids, sync[i].kind = "VALIDATION", sync[i].status = "SUCCEEDED",
               sync[i].configuration = source.configuration
        PROVE  Evidence'
    <2>1. job[i].phase # "none"
      BY <1>2 DEF SyncInv, CaptureOK, NoSync
    <2> QED
      BY <1>2, <2>1 DEF Evidence, KeepsCapture, Final
  <1> QED
    BY <1>1, <1>2 DEF Evidence

LEMMA ValidatedStays ==
    ASSUME SyncInv, \A i \in Ids : job[i].phase # "none" => KeepsCapture(i), UNCHANGED <<source, checked>>
    PROVE  Validated'
  BY EvidenceStays DEF SyncInv, Validated, HealthIsCurrent

\* No transaction is open, or its own rows are left alone.
LEMMA WrittenStays ==
    ASSUME SyncInv, SyncTypeOK', Grows, \A i \in Ids : KeepsCapture(i), UNCHANGED writing,
           writing # Nobody => /\ UNCHANGED source /\ handler'[writing] = handler[writing]
                               /\ job'[handler[writing].sync] = job[handler[writing].sync]
                               /\ sync'[handler[writing].sync] = sync[handler[writing].sync]
    PROVE  Written'
  <1> SUFFICES ASSUME writing # Nobody PROVE Written'
    BY DEF Written
  <1> DEFINE i == handler[writing].sync
  <1>1. writing \in Workers /\ i \in Ids
    BY DEF SyncInv, SyncTypeOK, HandlerOK, Written
  <1>2. Permitted(writing)'
    BY <1>1 DEF SyncInv, Written, Permitted
  <1>3. \A k \in Ids \ {i} : job'[k].phase \in Active /\ sync'[k].kind = "SYNC" => ~Fresh(k)'
    <2> SUFFICES ASSUME NEW k \in Ids \ {i}, job'[k].phase \in Active, sync'[k].kind = "SYNC", Fresh(k)' PROVE FALSE
      OBVIOUS
    <2>1. ~Fresh(k)
      BY DEF KeepsCapture, SyncInv, Written
    <2>2. sync[k].configuration = source.configuration /\ sync[k].secret = secret' /\ sync[k].secret <= secret
      BY DEF Fresh, KeepsCapture, SyncInv, CaptureOK
    <2>3. secret \in Nat /\ secret' \in Nat /\ sync[k].secret \in Nat
      BY DEF SyncInv, SyncTypeOK, SyncRow
    <2> QED
      BY <2>1, <2>2, <2>3 DEF Fresh, Grows
  <1>4. Seen(handler[writing].seen)'
    BY <1>1 DEF SyncInv, Written, Seen, KeepsCapture
  <1> QED
    BY <1>1, <1>2, <1>3, <1>4 DEF SyncInv, Written

LEMMA RetiredStays == ASSUME Retired, UNCHANGED <<intents, revision, retiring>> PROVE Retired'
  BY DEF Retired

\* A step that schedules and commits nothing.
LEMMA PlainStep ==
    ASSUME SyncInv, SyncTypeOK', Grows, Validated', Written', Retired',
           \A i \in Ids : KeepsCapture(i) /\ KeepsFiles(i) /\ Follows(i)',
           \A w \in Workers : HandlerOK(w)' \/ (handler'[w] = handler[w] /\ (handler[w].at = "commit" => writing' = writing))
    PROVE  SyncInv'
  <1>1. SeenKept
    <2>1. \A k \in Ids : sync[k].seen \in Nat
      BY SyncAssumption DEF SyncInv, SyncTypeOK, SyncRow
    <2> QED
      BY <2>1 DEF SeenKept, KeepsCapture
  <1>2. \A i \in Ids : CaptureOK(i)'
    BY <1>1, CaptureStays
  <1>3. \A w \in Workers : HandlerOK(w)'
    BY <1>1, HandlerStays
  <1> QED
    BY <1>2, <1>3, AdoptedStays DEF SyncInv

-----------------------------------------------------------------------------
(* Steps that touch no capture: commands on the source, the remote, and the *)
(* retention of snapshots.                                                  *)

LEMMA UntouchedCaptures ==
    ASSUME SyncInv, UNCHANGED <<sync, job, snapshot, revision, intents>>
    PROVE  \A i \in Ids : KeepsCapture(i) /\ KeepsFiles(i) /\ Follows(i)'
  BY DEF SyncInv, KeepsCapture, KeepsFiles, CaptureOK, Follows

LEMMA SameRows ==
    ASSUME SyncInv, UNCHANGED <<source, secret>>, remote' >= remote
    PROVE  Grows
  <1>1. secret \in Nat /\ source.configuration \in Nat
    BY DEF SyncInv, SyncTypeOK, SourceRow
  <1> QED
    BY <1>1 DEF Grows

LEMMA RemoteStays == ASSUME SyncInv PROVE remote >= remote
  BY SyncAssumption DEF SyncInv, SyncTypeOK

LEMMA CommandStep ==
    ASSUME SyncInv, SyncTypeOK', Command, UNCHANGED <<secret, sync, job>>, Validated',
           source'.configuration >= source.configuration, source'.version = source.version + 1
    PROVE  SyncInv'
  <1>1. writing = Nobody /\ UNCHANGED <<remote, handler, writing, revision, intents, snapshot, retiring>>
    BY DEF Command, files
  <1>2. Grows
    <2>1. secret \in Nat /\ source.version \in Nat
      BY DEF SyncInv, SyncTypeOK, SourceRow
    <2> QED
      BY <1>1, <2>1, RemoteStays DEF Grows
  <1>3. \A i \in Ids : KeepsCapture(i) /\ KeepsFiles(i) /\ Follows(i)'
    BY <1>1, UntouchedCaptures
  <1>4. Written'
    BY <1>1 DEF Written
  <1> QED
    BY <1>1, <1>2, <1>3, <1>4, RetiredStays, PlainStep DEF SyncInv

LEMMA SourceFields ==
    ASSUME SyncTypeOK
    PROVE  /\ source \in SourceRow
           /\ source.version + 1 \in Nat \ {0} /\ source.configuration + 1 \in Nat \ {0}
           /\ source.configuration \in Nat /\ source.validated \in Nat
  BY DEF SyncTypeOK, SourceRow

LEMMA UpdateStep == ASSUME SyncInv, NEW c \in BOOLEAN, Update(c) PROVE SyncInv'
  <1> USE DEF SyncInv
  <1>1. Command /\ UNCHANGED <<secret, sync, job, checked>>
    BY DEF Update
  <1>2. CASE c
    <2> DEFINE row(v, n) == [source EXCEPT !.version = v, !.configuration = n, !.health = "UNKNOWN",
                                           !.lifecycle = IF @ = "ACTIVE" THEN "DRAFT" ELSE @]
    <2>1. source' = row(source.version + 1, source.configuration + 1)
      BY <1>2 DEF Update
    <2>2. \A v, n \in Nat \ {0} :
            /\ row(v, n) \in SourceRow
            /\ row(v, n).version = v /\ row(v, n).configuration = n /\ row(v, n).health = "UNKNOWN"
            /\ row(v, n).lifecycle # "ACTIVE" /\ row(v, n).validated = source.validated
      <3> SUFFICES ASSUME NEW v \in Nat \ {0}, NEW n \in Nat \ {0}
                   PROVE  /\ row(v, n) \in SourceRow
                          /\ row(v, n).version = v /\ row(v, n).configuration = n /\ row(v, n).health = "UNKNOWN"
                          /\ row(v, n).lifecycle # "ACTIVE" /\ row(v, n).validated = source.validated
        OBVIOUS
      <3> DEFINE rest == IF source.lifecycle = "ACTIVE" THEN "DRAFT" ELSE source.lifecycle
      <3>1. source \in SourceRow
        BY SourceFields
      <3>2. rest \in {"DRAFT", "DISABLED", "REMOVED"}
        BY <3>1 DEF SourceRow
      <3>3. row(v, n) = [source EXCEPT !.version = v, !.configuration = n, !.health = "UNKNOWN", !.lifecycle = rest]
        OBVIOUS
      <3> HIDE DEF rest, row
      <3> QED
        BY <3>1, <3>2, <3>3 DEF SourceRow
    <2> HIDE DEF row
    <2>3. /\ source' \in SourceRow /\ source'.version = source.version + 1
          /\ source'.configuration = source.configuration + 1 /\ source'.health = "UNKNOWN"
          /\ source'.lifecycle # "ACTIVE" /\ source'.validated = source.validated
      BY <2>1, <2>2, SourceFields
    <2>4. SyncTypeOK'
      BY <1>1, <2>3 DEF SyncTypeOK, Command, files
    <2>5. source'.validated < source'.configuration
      BY <2>3, SourceFields DEF Validated
    <2>6. Validated'
      BY <2>3, <2>5, SourceFields DEF Validated, HealthIsCurrent
    <2> QED
      BY <1>1, <2>3, <2>4, <2>6, SourceFields, CommandStep
  <1>3. CASE ~c
    <2> DEFINE row(v) == [source EXCEPT !.version = v]
    <2>1. source' = row(source.version + 1)
      BY <1>3 DEF Update
    <2>2. \A v \in Nat \ {0} :
            /\ row(v) \in SourceRow /\ row(v).version = v /\ row(v).configuration = source.configuration
            /\ row(v).health = source.health /\ row(v).lifecycle = source.lifecycle
            /\ row(v).validated = source.validated
      BY SourceFields DEF SourceRow
    <2> HIDE DEF row
    <2>3. /\ source' \in SourceRow /\ source'.version = source.version + 1
          /\ source'.configuration = source.configuration /\ source'.health = source.health
          /\ source'.lifecycle = source.lifecycle /\ source'.validated = source.validated
      BY <2>1, <2>2, SourceFields
    <2>4. SyncTypeOK'
      BY <1>1, <2>3 DEF SyncTypeOK, Command, files
    <2>5. Validated'
      BY <1>1, <2>3 DEF Validated, HealthIsCurrent, Evidence
    <2> QED
      BY <1>1, <2>3, <2>4, <2>5, SourceFields, CommandStep
  <1> QED
    BY <1>2, <1>3

LEMMA LifecycleStep ==
    ASSUME SyncInv, NEW t \in {"ACTIVE", "DISABLED", "REMOVED"}, ChangeLifecycle(t)
    PROVE  SyncInv'
  <1> USE DEF SyncInv
  <1>1. Command /\ UNCHANGED <<secret, sync, job, checked>> /\ (t = "ACTIVE" => source.validated = source.configuration)
    BY DEF ChangeLifecycle
  <1> DEFINE row(v) == [source EXCEPT !.lifecycle = t, !.version = v]
  <1>2. source' = row(source.version + 1)
    BY DEF ChangeLifecycle
  <1>3. \A v \in Nat \ {0} :
          /\ row(v) \in SourceRow /\ row(v).version = v /\ row(v).configuration = source.configuration
          /\ row(v).health = source.health /\ row(v).lifecycle = t
          /\ row(v).validated = source.validated
    BY SourceFields DEF SourceRow
  <1> HIDE DEF row
  <1>4. /\ source' \in SourceRow /\ source'.version = source.version + 1
        /\ source'.configuration = source.configuration /\ source'.health = source.health
        /\ source'.lifecycle = t /\ source'.validated = source.validated
    BY <1>2, <1>3, SourceFields
  <1>5. SyncTypeOK'
    BY <1>1, <1>4 DEF SyncTypeOK, Command, files
  <1>6. Validated'
    BY <1>1, <1>4 DEF Validated, HealthIsCurrent, Evidence
  <1> QED
    BY <1>1, <1>4, <1>5, <1>6, SourceFields, CommandStep

LEMMA RotateStep == ASSUME SyncInv, RotateSecret PROVE SyncInv'
  <1> USE DEF SyncInv
  <1>1. /\ secret' = secret + 1
        /\ UNCHANGED <<source, sync, job, remote, handler, writing, revision, snapshot, retiring, intents, keeper, checked>>
    BY DEF RotateSecret, rows, files
  <1>2. SyncTypeOK'
    BY <1>1 DEF SyncTypeOK
  <1>3. Grows
    <2>1. secret \in Nat /\ source.configuration \in Nat
      BY DEF SyncTypeOK, SourceRow
    <2> QED
      BY <1>1, <2>1, RemoteStays DEF Grows
  <1>4. \A i \in Ids : KeepsCapture(i) /\ KeepsFiles(i) /\ Follows(i)'
    BY <1>1, UntouchedCaptures
  <1>5. Written' /\ Validated' /\ Retired'
    BY <1>1, <1>2, <1>3, <1>4, WrittenStays, ValidatedStays, RetiredStays
  <1> QED
    BY <1>1, <1>2, <1>3, <1>4, <1>5, PlainStep

LEMMA RemoteStep == ASSUME SyncInv, RemoteChanges PROVE SyncInv'
  <1> USE DEF SyncInv
  <1>1. /\ remote < Len(Upstream) /\ remote' = remote + 1
        /\ UNCHANGED <<source, sync, job, secret, handler, writing, revision, snapshot, retiring, intents, keeper, checked>>
    BY DEF RemoteChanges, rows, files
  <1>2. SyncTypeOK' /\ remote' >= remote
    BY <1>1, SyncAssumption DEF SyncTypeOK
  <1>3. Grows
    BY <1>1, <1>2, SameRows
  <1>4. \A i \in Ids : KeepsCapture(i) /\ KeepsFiles(i) /\ Follows(i)'
    BY <1>1, UntouchedCaptures
  <1>5. Written' /\ Validated' /\ Retired'
    BY <1>1, <1>2, <1>3, <1>4, WrittenStays, ValidatedStays, RetiredStays
  <1> QED
    BY <1>1, <1>2, <1>3, <1>4, <1>5, PlainStep

\* A step of retention touches files, revisions and its own work.
LEMMA RetentionOK ==
    ASSUME SyncInv, UNCHANGED <<source, sync, job, secret, remote, handler, writing, checked>>,
           revision' \in [Ids -> RevisionRow], snapshot' \in [Ids -> 0..Len(Upstream)], intents' \subseteq Ids,
           keeper' \in Keepers, retiring' \in [Keepers -> IntentRow], Retired',
           \A i \in Ids : KeepsFiles(i) /\ (job[i].phase = "none" => snapshot'[i] = snapshot[i])
    PROVE  SyncInv'
  <1> USE DEF SyncInv
  <1>1. SyncTypeOK'
    BY DEF SyncTypeOK
  <1>2. Grows
    BY SameRows, RemoteStays
  <1>3. \A i \in Ids : KeepsCapture(i) /\ Follows(i)'
    BY DEF KeepsCapture, CaptureOK, Follows
  <1>4. Written' /\ Validated'
    BY <1>1, <1>2, <1>3, WrittenStays, ValidatedStays
  <1> QED
    BY <1>1, <1>2, <1>3, <1>4, PlainStep

LEMMA StageStep == ASSUME SyncInv, NEW r \in Ids, Stage(r) PROVE SyncInv'
  <1>1. /\ revision[r].state = "live" /\ intents' = intents \cup {r}
        /\ UNCHANGED <<source, sync, job, secret, remote, handler, writing, revision, snapshot, retiring, keeper, checked>>
    BY DEF Stage, rows, files
  <1>2. Retired'
    BY <1>1 DEF SyncInv, Retired
  <1>3. \A i \in Ids : KeepsFiles(i)
    BY <1>1 DEF KeepsFiles
  <1> QED
    BY <1>1, <1>2, <1>3, RetentionOK DEF SyncInv, SyncTypeOK

LEMMA PickStep == ASSUME SyncInv, NEW k \in Keepers, NEW r \in Ids, Pick(k, r) PROVE SyncInv'
  <1>1. /\ r \in intents /\ retiring' = [retiring EXCEPT ![k] = [at |-> "discard", revision |-> r]]
        /\ UNCHANGED <<source, sync, job, secret, remote, handler, writing, revision, snapshot, intents, keeper, checked>>
    BY DEF Pick, rows
  <1>2. retiring' \in [Keepers -> IntentRow]
    BY <1>1 DEF SyncInv, SyncTypeOK, IntentRow
  <1>3. Retired'
    BY <1>1 DEF SyncInv, SyncTypeOK, Retired
  <1>4. \A i \in Ids : KeepsFiles(i)
    BY <1>1 DEF KeepsFiles
  <1> QED
    BY <1>1, <1>2, <1>3, <1>4, RetentionOK DEF SyncInv, SyncTypeOK

\* What is discarded was a revision, so its capture has succeeded.
LEMMA DiscardStep == ASSUME SyncInv, NEW k \in Keepers, DiscardIntent(k) PROVE SyncInv'
  <1> DEFINE r == retiring[k].revision
  <1>1. /\ retiring[k].at = "discard" /\ snapshot' = [snapshot EXCEPT ![r] = 0]
        /\ retiring' = [retiring EXCEPT ![k].at = "finalize"]
        /\ UNCHANGED <<source, sync, job, secret, remote, handler, writing, revision, intents, keeper, checked>>
    BY DEF DiscardIntent, rows
  <1>2. r \in Ids /\ (r \in intents \/ revision[r].state = "purged")
    BY <1>1 DEF SyncInv, Retired
  <1>3. sync[r].status = "SUCCEEDED" /\ job[r].phase # "none"
    BY <1>2 DEF SyncInv, Retired, CaptureOK, NoSync
  <1>4. retiring' \in [Keepers -> IntentRow] /\ snapshot' \in [Ids -> 0..Len(Upstream)]
    <2>1. retiring' \in [Keepers -> IntentRow]
      BY <1>1 DEF SyncInv, SyncTypeOK, IntentRow
    <2>2. 0 \in 0..Len(Upstream)
      BY SyncAssumption
    <2> QED
      BY <1>1, <2>1, <2>2 DEF SyncInv, SyncTypeOK
  <1>5. Retired'
    BY <1>1, <1>2 DEF SyncInv, SyncTypeOK, Retired
  <1>6. snapshot'[r] = 0 /\ \A i \in Ids \ {r} : snapshot'[i] = snapshot[i]
    BY <1>1, <1>2 DEF SyncInv, SyncTypeOK
  <1>7. \A i \in Ids : KeepsFiles(i)
    BY <1>1, <1>2, <1>3, <1>6 DEF KeepsFiles
  <1> QED
    BY <1>1, <1>3, <1>4, <1>5, <1>6, <1>7, RetentionOK DEF SyncInv, SyncTypeOK

LEMMA FinalizeStep == ASSUME SyncInv, NEW k \in Keepers, FinalizeIntent(k) PROVE SyncInv'
  <1> DEFINE r == retiring[k].revision
  <1>1. /\ retiring[k].at = "finalize" /\ retiring' = [retiring EXCEPT ![k] = Resting]
        /\ UNCHANGED <<source, sync, job, secret, remote, handler, writing, snapshot, keeper, checked>>
    BY DEF FinalizeIntent, rows
  <1>2. r \in Ids /\ (r \in intents \/ revision[r].state = "purged")
    BY <1>1 DEF SyncInv, Retired
  <1>3. retiring' \in [Keepers -> IntentRow] /\ retiring'[k].at = "idle"
        /\ \A x \in Keepers \ {k} : retiring'[x] = retiring[x]
    BY <1>1, StartRows DEF SyncInv, SyncTypeOK, Resting
  <1>4. CASE r \in intents /\ revision' = [revision EXCEPT ![r].state = "purged"] /\ intents' = intents \ {r}
    <2>1. /\ revision' \in [Ids -> RevisionRow] /\ revision'[r].state = "purged"
          /\ \A i \in Ids \ {r} : revision'[i] = revision[i]
      BY <1>2, <1>4 DEF SyncInv, SyncTypeOK, RevisionRow
    <2>2. Retired'
      <3>1. \A x \in intents' : revision'[x].state = "live"
        BY <1>4, <2>1 DEF SyncInv, SyncTypeOK, Retired
      <3>2. ASSUME NEW x \in Keepers, retiring'[x].at # "idle"
            PROVE  /\ retiring'[x].revision \in Ids
                   /\ retiring'[x].revision \in intents' \/ revision'[retiring'[x].revision].state = "purged"
        <4>1. x # k /\ retiring'[x] = retiring[x]
          BY <1>3, <3>2
        <4>2. /\ retiring[x].revision \in Ids
              /\ retiring[x].revision \in intents \/ revision[retiring[x].revision].state = "purged"
          BY <3>2, <4>1 DEF SyncInv, Retired
        <4> QED
          BY <1>4, <2>1, <4>1, <4>2
      <3> QED
        BY <3>1, <3>2 DEF Retired
    <2>3. revision[r].state = "live"
      BY <1>4 DEF SyncInv, Retired
    <2>4. \A i \in Ids : KeepsFiles(i)
      BY <1>1, <1>4, <2>1, <2>3 DEF KeepsFiles
    <2> QED
      BY <1>1, <1>3, <1>4, <2>1, <2>2, <2>4, RetentionOK DEF SyncInv, SyncTypeOK
  <1>5. CASE UNCHANGED <<revision, intents>>
    <2>1. Retired'
      BY <1>3, <1>5 DEF SyncInv, Retired
    <2>2. \A i \in Ids : KeepsFiles(i)
      BY <1>1, <1>5 DEF KeepsFiles
    <2> QED
      BY <1>1, <1>3, <1>5, <2>1, <2>2, RetentionOK DEF SyncInv, SyncTypeOK
  <1> QED
    BY <1>4, <1>5 DEF FinalizeIntent

LEMMA LoseKeeperStep == ASSUME SyncInv, LoseKeeper PROVE SyncInv'
  <1>1. UNCHANGED <<source, sync, job, secret, remote, handler, writing, revision, snapshot, intents, checked>>
    BY DEF LoseKeeper, rows
  <1>2. keeper' \in Keepers /\ (UNCHANGED retiring \/ retiring' = [retiring EXCEPT ![keeper] = Resting])
    BY DEF LoseKeeper, SyncInv, SyncTypeOK
  <1>3. retiring' \in [Keepers -> IntentRow] /\ Retired'
    <2>1. CASE UNCHANGED retiring
      BY <1>1, <2>1, RetiredStays DEF SyncInv, SyncTypeOK
    <2>2. CASE retiring' = [retiring EXCEPT ![keeper] = Resting]
      <3>1. retiring' \in [Keepers -> IntentRow]
        BY <2>2, StartRows DEF SyncInv, SyncTypeOK
      <3>2. Resting.at = "idle"
        BY DEF Resting
      <3>3. \A x \in Keepers : retiring'[x] = retiring[x] \/ retiring'[x].at = "idle"
        BY <2>2, <3>2 DEF SyncInv, SyncTypeOK
      <3> QED
        BY <1>1, <3>1, <3>3 DEF SyncInv, Retired
    <2> QED
      BY <1>2, <2>1, <2>2
  <1>4. \A i \in Ids : KeepsFiles(i)
    BY <1>1 DEF KeepsFiles
  <1> QED
    BY <1>1, <1>2, <1>3, <1>4, RetentionOK DEF SyncInv, SyncTypeOK

LEMMA RetentionStep == ASSUME SyncInv, Retention PROVE SyncInv'
  BY StageStep, PickStep, DiscardStep, FinalizeStep, LoseKeeperStep DEF Retention

-----------------------------------------------------------------------------
(* Steps of one handler that write no row. *)

Ats == {"idle", "begin", "execute", "store", "complete", "reportRetry", "reportFail", "commit",
        "cleanup", "ok", "retry", "fail"}

LEMMA GotoRow ==
    ASSUME SyncTypeOK, NEW w \in Workers, NEW at \in Ats, Goto(w, at)
    PROVE  /\ handler' \in [Workers -> HandlerRow]
           /\ handler'[w].at = at /\ handler'[w].sync = handler[w].sync /\ handler'[w].budget = handler[w].budget
           /\ handler'[w].seen = handler[w].seen /\ handler'[w].chosen = handler[w].chosen
           /\ \A x \in Workers \ {w} : handler'[x] = handler[x]
  BY DEF Goto, SyncTypeOK, HandlerRow, Ats

LEMMA WorkerOf ==
    ASSUME SyncInv, NEW w \in Workers, handler[w].at # "idle"
    PROVE  LET i == handler[w].sync IN
           i \in Ids /\ job[i].phase # "none" /\ CaptureOK(i) /\ handler[w].seen <= remote
  BY DEF SyncInv, HandlerOK

\* The transaction is that of another handler.
LEMMA NotWriting ==
    ASSUME SyncInv, NEW w \in Workers, handler[w].at # "commit"
    PROVE  writing # w /\ (writing # Nobody => writing \in Workers \ {w})
  BY SyncAssumption DEF SyncInv, SyncTypeOK, Written

LEMMA HandlerOnly ==
    ASSUME SyncInv, NEW w \in Workers, handler[w].at # "commit",
           UNCHANGED <<source, secret, remote, sync, job, writing, revision, snapshot, retiring, intents, keeper, checked>>,
           handler' \in [Workers -> HandlerRow], \A x \in Workers \ {w} : handler'[x] = handler[x], HandlerOK(w)'
    PROVE  SyncInv'
  <1> USE DEF SyncInv
  <1>1. SyncTypeOK'
    BY DEF SyncTypeOK
  <1>2. Grows
    BY SameRows, RemoteStays
  <1>3. \A i \in Ids : KeepsCapture(i) /\ KeepsFiles(i) /\ Follows(i)'
    BY UntouchedCaptures
  <1>4. writing # Nobody => handler'[writing] = handler[writing]
    BY NotWriting
  <1>5. Written' /\ Validated' /\ Retired'
    BY <1>1, <1>2, <1>3, <1>4, WrittenStays, ValidatedStays, RetiredStays
  <1>6. \A x \in Workers : HandlerOK(x)' \/ (handler'[x] = handler[x] /\ (handler[x].at = "commit" => writing' = writing))
    OBVIOUS
  <1> QED
    BY <1>1, <1>2, <1>3, <1>5, <1>6, PlainStep

LEMMA SeenByRemote == ASSUME SyncInv PROVE Seen(remote)
  BY DEF SyncInv, CaptureOK, Seen

LEMMA ExecuteStep == ASSUME SyncInv, NEW w \in Workers, Execute(w) PROVE SyncInv'
  <1> DEFINE i == handler[w].sync
             at == IF sync[i].kind = "VALIDATION" THEN "complete" ELSE "store"
  <1>1. /\ handler[w].at = "execute" /\ handler' = [handler EXCEPT ![w].seen = remote, ![w].at = at]
        /\ UNCHANGED <<source, secret, remote, sync, job, writing, revision, snapshot, retiring, intents, keeper, checked>>
    BY DEF Execute, rows, files
  <1>2. at \in {"complete", "store"} /\ (at = "complete" => sync[i].kind = "VALIDATION")
    OBVIOUS
  <1> HIDE DEF at
  <1>3. remote \in 0..Len(Upstream) /\ remote # 0 /\ remote <= remote
    BY SyncAssumption DEF SyncInv, SyncTypeOK
  <1>4. /\ handler' \in [Workers -> HandlerRow] /\ \A x \in Workers \ {w} : handler'[x] = handler[x]
        /\ handler'[w].at = at /\ handler'[w].sync = i /\ handler'[w].seen = remote
    <2>1. \A n \in 0..Len(Upstream) : LET f == [handler EXCEPT ![w].seen = n, ![w].at = at] IN
            /\ f \in [Workers -> HandlerRow] /\ \A x \in Workers \ {w} : f[x] = handler[x]
            /\ f[w].at = at /\ f[w].sync = i /\ f[w].seen = n
      BY <1>2, ZenonT(60) DEF SyncInv, SyncTypeOK, HandlerRow
    <2> QED
      BY <1>1, <1>3, <2>1
  <1>5. HandlerOK(w)'
    <2>1. i \in Ids /\ job[i].phase # "none" /\ Seen(remote)
      BY <1>1, WorkerOf, SeenByRemote
    <2>2. Seen(remote)'
      BY <1>1, <2>1 DEF Seen
    <2> QED
      BY <1>1, <1>2, <1>3, <1>4, <2>1, <2>2 DEF HandlerOK, Seen
  <1> QED
    BY <1>1, <1>4, <1>5, HandlerOnly

LEMMA ReplayStep == ASSUME SyncInv, NEW w \in Workers, Replay(w) PROVE SyncInv'
  <1> DEFINE i == handler[w].sync
  <1>1. /\ handler[w].at = "execute" /\ snapshot[i] # 0
        /\ handler' = [handler EXCEPT ![w].seen = snapshot[i], ![w].at = "complete"]
        /\ UNCHANGED <<source, secret, remote, sync, job, writing, revision, snapshot, retiring, intents, keeper, checked>>
    BY DEF Replay, rows, files
  <1>2. i \in Ids /\ job[i].phase # "none" /\ CaptureOK(i) /\ snapshot[i] \in 0..Len(Upstream)
    BY <1>1, WorkerOf DEF SyncInv, SyncTypeOK
  <1>3. /\ handler' \in [Workers -> HandlerRow] /\ \A x \in Workers \ {w} : handler'[x] = handler[x]
        /\ handler'[w].at = "complete" /\ handler'[w].sync = i /\ handler'[w].seen = snapshot[i]
    BY <1>1, <1>2, SMTT(30) DEF SyncInv, SyncTypeOK, HandlerRow
  <1>4. PICK j \in Ids : j = i
    BY <1>2
  <1>5. snapshot[j] <= remote /\ (Open(j)' => Seen(snapshot[j])')
    BY <1>1, <1>2, <1>4 DEF CaptureOK, Open, Fresh, Seen
  <1>6. HandlerOK(w)'
    BY <1>1, <1>2, <1>3, <1>4, <1>5 DEF HandlerOK
  <1> QED
    BY <1>1, <1>3, <1>6, HandlerOnly

LEMMA FailStep == ASSUME SyncInv, NEW w \in Workers, Fail(w) PROVE SyncInv'
  <1>1. UNCHANGED <<source, secret, remote, sync, job, writing, revision, snapshot, retiring, intents, keeper, checked>>
    BY DEF Fail, rows, files
  <1>2. PICK at \in {"reportRetry", "reportFail", "retry"} : Goto(w, at) /\ handler[w].at \notin {"idle", "commit"}
    BY DEF Fail
  <1>3. /\ handler' \in [Workers -> HandlerRow] /\ \A x \in Workers \ {w} : handler'[x] = handler[x]
        /\ handler'[w].at = at /\ handler'[w].sync = handler[w].sync /\ handler'[w].seen = handler[w].seen
    BY <1>2, GotoRow DEF Ats, SyncInv
  <1>4. HandlerOK(w)'
    BY <1>1, <1>2, <1>3, WorkerOf DEF HandlerOK
  <1> QED
    BY <1>1, <1>2, <1>3, <1>4, HandlerOnly

\* A handler without its lease is in no transaction.
LEMMA AbandonStep == ASSUME SyncInv, NEW w \in Workers, Abandon(w) PROVE SyncInv'
  <1>1. /\ UNCHANGED <<source, secret, remote, sync, job, writing, revision, snapshot, retiring, intents, keeper, checked>>
        /\ handler' = [handler EXCEPT ![w] = Idle]
        /\ ~(job[handler[w].sync].holder = w /\ job[handler[w].sync].budget = handler[w].budget)
    BY DEF Abandon, rows, files
  <1>2. handler[w].at # "commit"
    BY <1>1, SyncAssumption DEF SyncInv, HandlerOK, Written, Permitted
  <1>3. /\ handler' \in [Workers -> HandlerRow] /\ \A x \in Workers \ {w} : handler'[x] = handler[x]
        /\ handler'[w].at = "idle"
    BY <1>1, StartRows DEF SyncInv, SyncTypeOK, Idle
  <1>4. HandlerOK(w)'
    BY <1>3 DEF HandlerOK
  <1> QED
    BY <1>1, <1>2, <1>3, <1>4, HandlerOnly

\* The transaction of a completion opens or closes.
LEMMA WriterChanges ==
    ASSUME SyncInv, NEW w \in Workers,
           UNCHANGED <<source, secret, remote, sync, job, revision, snapshot, retiring, intents, keeper, checked>>,
           handler' \in [Workers -> HandlerRow], \A x \in Workers \ {w} : handler'[x] = handler[x], HandlerOK(w)',
           writing' \in {w, Nobody}, writing \in {w, Nobody}, Written'
    PROVE  SyncInv'
  <1> USE DEF SyncInv
  <1>1. SyncTypeOK'
    BY DEF SyncTypeOK
  <1>2. Grows
    BY SameRows, RemoteStays
  <1>3. \A i \in Ids : KeepsCapture(i) /\ KeepsFiles(i) /\ Follows(i)'
    BY UntouchedCaptures
  <1>4. Validated' /\ Retired'
    BY <1>3, ValidatedStays, RetiredStays
  <1>5. \A x \in Workers \ {w} : handler[x].at # "commit"
    BY SyncAssumption DEF HandlerOK
  <1>6. \A x \in Workers : HandlerOK(x)' \/ (handler'[x] = handler[x] /\ (handler[x].at = "commit" => writing' = writing))
    BY <1>5
  <1> QED
    BY <1>1, <1>2, <1>3, <1>4, <1>6, PlainStep

LEMMA CompleteSyncStep == ASSUME SyncInv, NEW w \in Workers, CompleteSync(w) PROVE SyncInv'
  <1> USE DEF SyncInv
  <1> DEFINE i == handler[w].sync
  <1>1. /\ UNCHANGED <<source, secret, remote, sync, job, revision, snapshot, retiring, intents, keeper, checked>>
        /\ handler[w].at = "complete" /\ sync[i].kind = "SYNC" /\ Permitted(w) /\ writing = Nobody
        /\ sync[i].status = "RUNNING" /\ ~CaptureStale(i)
    BY DEF CompleteSync, Completing, rows, files
  <1>2. i \in Ids /\ job[i].phase # "none" /\ HandlerOK(w) /\ handler[w].seen <= remote
    BY <1>1, WorkerOf
  <1>3. Open(i) /\ Fresh(i)
    BY <1>1 DEF Open, Fresh, CaptureStale, Permitted, Active, Final
  <1>4. Seen(handler[w].seen) /\ snapshot[i] # 0 /\ Upstream[snapshot[i]] = Upstream[handler[w].seen]
    BY <1>1, <1>2, <1>3 DEF HandlerOK
  <1>5. CASE Goto(w, "retry") /\ UNCHANGED writing
    <2>1. /\ handler' \in [Workers -> HandlerRow] /\ \A x \in Workers \ {w} : handler'[x] = handler[x]
          /\ handler'[w].at = "retry" /\ handler'[w].sync = i /\ handler'[w].seen = handler[w].seen
      BY <1>5, GotoRow DEF Ats
    <2>2. HandlerOK(w)'
      BY <1>1, <1>2, <2>1 DEF HandlerOK
    <2> QED
      BY <1>1, <1>5, <2>1, <2>2, HandlerOnly
  <1>6. CASE \E r \in Ids : handler' = [handler EXCEPT ![w].at = "commit", ![w].chosen = r] /\ writing' = w
    <2>1. PICK r \in Ids : handler' = [handler EXCEPT ![w].at = "commit", ![w].chosen = r] /\ writing' = w
      BY <1>6
    <2>2. /\ handler' \in [Workers -> HandlerRow] /\ \A x \in Workers \ {w} : handler'[x] = handler[x]
          /\ handler'[w].at = "commit" /\ handler'[w].sync = i /\ handler'[w].seen = handler[w].seen
          /\ handler'[w].budget = handler[w].budget /\ handler'[w].chosen = r
      BY <2>1 DEF SyncTypeOK, HandlerRow
    <2>3. HandlerOK(w)'
      BY <1>1, <1>2, <1>4, <2>1, <2>2 DEF HandlerOK
    <2>4. \A k \in Ids \ {i} : job[k].phase \in Active /\ sync[k].kind = "SYNC" => ~Fresh(k)
      BY <1>1, <1>2, <1>3 DEF Adopted, Open, Fresh
    <2>5. Permitted(w)'
      BY <1>1, <2>2 DEF Permitted
    <2>6. Seen(handler[w].seen)'
      BY <1>1, <1>4, <2>2 DEF Seen
    <2>7. Written'
      BY <1>1, <1>3, <2>1, <2>2, <2>4, <2>5, <2>6 DEF Written, Fresh
    <2> QED
      BY <1>1, <2>1, <2>2, <2>3, <2>7, WriterChanges
  <1> QED
    BY <1>2, <1>5, <1>6 DEF CompleteSync

LEMMA RollbackStep == ASSUME SyncInv, NEW w \in Workers, Rollback(w) PROVE SyncInv'
  <1> USE DEF SyncInv
  <1>1. /\ UNCHANGED <<source, secret, remote, sync, job, revision, snapshot, retiring, intents, keeper, checked>>
        /\ handler[w].at = "commit" /\ writing' = Nobody /\ Goto(w, "retry")
    BY DEF Rollback, rows, files
  <1>2. writing = w
    BY <1>1 DEF HandlerOK
  <1>3. /\ handler' \in [Workers -> HandlerRow] /\ \A x \in Workers \ {w} : handler'[x] = handler[x]
        /\ handler'[w].at = "retry" /\ handler'[w].sync = handler[w].sync /\ handler'[w].seen = handler[w].seen
    BY <1>1, GotoRow DEF Ats
  <1>4. HandlerOK(w)' /\ Written'
    BY <1>1, <1>3, WorkerOf DEF HandlerOK, Written
  <1> QED
    BY <1>1, <1>2, <1>3, <1>4, WriterChanges

-----------------------------------------------------------------------------
(* Steps that write the row of the capture, and of the source. *)

\* The health of the source is written for its present configuration.
LEMMA SourceFailed ==
    ASSUME SyncTypeOK, source' = [source EXCEPT !.health = "UNHEALTHY", !.version = @ + 1]
    PROVE  /\ source' \in SourceRow /\ source'.version = source.version + 1
           /\ source'.configuration = source.configuration /\ source'.health = "UNHEALTHY"
           /\ source'.lifecycle = source.lifecycle /\ source'.validated = source.validated
  <1> DEFINE row(v) == [source EXCEPT !.health = "UNHEALTHY", !.version = v]
  <1>1. source' = row(source.version + 1)
    OBVIOUS
  <1>2. \A v \in Nat \ {0} :
          /\ row(v) \in SourceRow /\ row(v).version = v /\ row(v).configuration = source.configuration
          /\ row(v).health = "UNHEALTHY" /\ row(v).lifecycle = source.lifecycle
          /\ row(v).validated = source.validated
    BY SourceFields DEF SourceRow
  <1> HIDE DEF row
  <1> QED
    BY <1>1, <1>2, SourceFields

\* Two workers do not both have the permit of one job.
LEMMA OnePermit ==
    ASSUME SyncInv, NEW w \in Workers, handler[w].at # "commit", Permitted(w), writing # Nobody
    PROVE  handler[writing].sync # handler[w].sync
  BY NotWriting DEF SyncInv, Written, Permitted

\* A handler with its permit moves its open capture on.
LEMMA StatusStep ==
    ASSUME SyncInv, NEW w \in Workers, handler[w].at \notin {"idle", "commit"}, Permitted(w),
           NEW j \in Ids, j = handler[w].sync, sync[j].status \notin Final,
           sync' \in [Ids -> SyncRow], \A k \in Ids \ {j} : sync'[k] = sync[k],
           sync'[j].kind = sync[j].kind, sync'[j].version = sync[j].version,
           sync'[j].configuration = sync[j].configuration, sync'[j].secret = sync[j].secret,
           sync'[j].seen = sync[j].seen, sync'[j].status # "none",
           UNCHANGED <<secret, remote, job, writing, revision, snapshot, retiring, intents, keeper>>,
           source' \in SourceRow, source'.configuration = source.configuration,
           source' = source \/ (writing = Nobody /\ source'.version = source.version + 1),
           handler' \in [Workers -> HandlerRow], \A x \in Workers \ {w} : handler'[x] = handler[x],
           HandlerOK(w)', (\A i \in Ids : KeepsCapture(i)) => Validated'
    PROVE  SyncInv'
  <1> USE DEF SyncInv
  <1>1. SyncTypeOK'
    BY DEF SyncTypeOK
  <1>2. Grows
    <2>1. source.version \in Nat /\ source.configuration \in Nat /\ secret \in Nat
      BY DEF SyncTypeOK, SourceRow
    <2> QED
      BY <2>1, RemoteStays DEF Grows
  <1>3. \A i \in Ids : KeepsCapture(i) /\ KeepsFiles(i)
    <2>1. job[j].phase = "running"
      BY DEF Permitted
    <2>2. KeepsCapture(j)
      BY <2>1 DEF KeepsCapture
    <2>3. \A i \in Ids \ {j} : KeepsCapture(i)
      BY DEF KeepsCapture, CaptureOK
    <2>4. \A i \in Ids : KeepsFiles(i)
      BY DEF KeepsFiles
    <2> QED
      BY <2>2, <2>3, <2>4
  <1>4. \A i \in Ids : Follows(i)'
    <2>1. job[j].phase = "running"
      BY DEF Permitted
    <2> QED
      BY <2>1 DEF CaptureOK, Follows, Active
  <1>5. Written'
    BY <1>1, <1>2, <1>3, NotWriting, OnePermit, WrittenStays DEF HandlerOK, Written
  <1>6. \A x \in Workers : HandlerOK(x)' \/ (handler'[x] = handler[x] /\ (handler[x].at = "commit" => writing' = writing))
    OBVIOUS
  <1> QED
    BY <1>1, <1>2, <1>3, <1>4, <1>5, <1>6, RetiredStays, PlainStep

\* A row with another status and another result is a row.
LEMMA SyncRowWith ==
    ASSUME NEW x \in SyncRow, NEW s \in {"PENDING", "RUNNING"} \cup Closed, NEW r \in {0} \cup Ids, NEW n \in 0..Len(Upstream)
    PROVE  /\ [x EXCEPT !.status = s] \in SyncRow
           /\ [x EXCEPT !.status = s, !.result = r] \in SyncRow
           /\ [x EXCEPT !.status = s, !.result = r, !.seen = n] \in SyncRow
  BY DEF SyncRow

LEMMA BeginStep == ASSUME SyncInv, NEW w \in Workers, Begin(w) PROVE SyncInv'
  <1> USE DEF SyncInv
  <1>1. /\ handler[w].at = "begin" /\ Permitted(w)
        /\ UNCHANGED <<source, secret, remote, job, writing, revision, snapshot, retiring, intents, keeper, checked>>
    BY DEF Begin, files
  <1>2. PICK j \in Ids : j = handler[w].sync /\ job[j].phase # "none" /\ CaptureOK(j) /\ handler[w].seen <= remote
    BY <1>1, WorkerOf
  <1> DEFINE at == IF sync'[j].status = "RUNNING" THEN "execute" ELSE "cleanup"
  <1>3. Goto(w, at) /\ at \in {"execute", "cleanup"} /\ (at = "cleanup" => sync'[j].status # "RUNNING")
    BY <1>2 DEF Begin
  <1> HIDE DEF at
  <1>4. /\ handler' \in [Workers -> HandlerRow] /\ \A x \in Workers \ {w} : handler'[x] = handler[x]
        /\ handler'[w].at = at /\ handler'[w].sync = j /\ handler'[w].seen = handler[w].seen
    BY <1>2, <1>3, GotoRow DEF Ats
  <1>5. CASE sync[j].status \in {"PENDING", "FAILED"} /\ sync' = [sync EXCEPT ![j].status = "RUNNING", ![j].result = 0]
    <2> DEFINE row == [sync[j] EXCEPT !.status = "RUNNING", !.result = 0]
    <2>0. row \in SyncRow /\ row.kind = sync[j].kind /\ row.version = sync[j].version
          /\ row.configuration = sync[j].configuration /\ row.secret = sync[j].secret
          /\ row.seen = sync[j].seen /\ row.status = "RUNNING"
      <3>1. sync[j] \in SyncRow /\ 0 \in 0..Len(Upstream)
        BY SyncAssumption DEF SyncTypeOK
      <3>2. row \in SyncRow
        BY <3>1, SyncRowWith
      <3> QED
        BY <3>1, <3>2 DEF SyncRow
    <2>3. sync' = [sync EXCEPT ![j] = row]
      BY <1>5 DEF SyncTypeOK
    <2> HIDE DEF row
    <2>1. /\ sync' \in [Ids -> SyncRow] /\ \A k \in Ids \ {j} : sync'[k] = sync[k]
          /\ sync'[j].kind = sync[j].kind /\ sync'[j].version = sync[j].version
          /\ sync'[j].configuration = sync[j].configuration /\ sync'[j].secret = sync[j].secret
          /\ sync'[j].seen = sync[j].seen /\ sync'[j].status = "RUNNING"
      BY <2>0, <2>3 DEF SyncTypeOK
    <2>2. HandlerOK(w)'
      BY <1>1, <1>2, <1>3, <1>4, <2>1 DEF HandlerOK
    <2>4. source \in SourceRow
      BY DEF SyncTypeOK
    <2> QED
      BY <1>1, <1>2, <1>4, <1>5, <2>1, <2>2, <2>4, ValidatedStays, StatusStep DEF Final
  <1>6. CASE sync[j].status \notin {"PENDING", "FAILED"} /\ UNCHANGED sync
    <2>1. at = "cleanup" => sync[j].status \in Final
      <3>1. sync[j].status \in {"none", "PENDING", "RUNNING"} \cup Closed /\ sync[j].status # "none"
        BY <1>2 DEF SyncTypeOK, SyncRow, CaptureOK
      <3> QED
        BY <1>3, <1>6, <3>1 DEF Closed, Final
    <2>2. HandlerOK(w)'
      BY <1>1, <1>2, <1>3, <1>4, <1>6, <2>1 DEF HandlerOK
    <2> QED
      BY <1>1, <1>4, <1>6, <2>2, HandlerOnly
  <1> QED
    BY <1>2, <1>5, <1>6 DEF Begin

\* What the fields of the capture are after its status was written.
LEMMA StatusRow ==
    ASSUME SyncTypeOK, NEW j \in Ids, NEW s \in Closed, sync' = [sync EXCEPT ![j].status = s]
    PROVE  /\ sync' \in [Ids -> SyncRow] /\ \A k \in Ids \ {j} : sync'[k] = sync[k]
           /\ sync'[j].kind = sync[j].kind /\ sync'[j].version = sync[j].version
           /\ sync'[j].configuration = sync[j].configuration /\ sync'[j].secret = sync[j].secret
           /\ sync'[j].seen = sync[j].seen /\ sync'[j].status = s
  <1> DEFINE row == [sync[j] EXCEPT !.status = s]
  <1>1. row \in SyncRow /\ row.kind = sync[j].kind /\ row.version = sync[j].version
        /\ row.configuration = sync[j].configuration /\ row.secret = sync[j].secret
        /\ row.seen = sync[j].seen /\ row.status = s
    <2>1. sync[j] \in SyncRow /\ 0 \in 0..Len(Upstream)
      BY SyncAssumption DEF SyncTypeOK
    <2>2. row \in SyncRow
      BY <2>1, SyncRowWith
    <2> QED
      BY <2>1, <2>2 DEF SyncRow
  <1>2. sync' = [sync EXCEPT ![j] = row]
    OBVIOUS
  <1> HIDE DEF row
  <1> QED
    BY <1>1, <1>2 DEF SyncTypeOK

LEMMA SupersedeStep == ASSUME SyncInv, NEW w \in Workers, Supersede(w) PROVE SyncInv'
  <1> USE DEF SyncInv
  <1>1. /\ handler[w].at \notin {"idle", "commit"} /\ Permitted(w) /\ sync[handler[w].sync].status = "RUNNING"
        /\ Goto(w, "ok")
        /\ UNCHANGED <<source, secret, remote, job, writing, revision, snapshot, retiring, intents, keeper, checked>>
    BY DEF Supersede, Completing, files
  <1>2. PICK j \in Ids : j = handler[w].sync /\ job[j].phase # "none" /\ handler[w].seen <= remote
    BY <1>1, WorkerOf
  <1>3. /\ handler' \in [Workers -> HandlerRow] /\ \A x \in Workers \ {w} : handler'[x] = handler[x]
        /\ handler'[w].at = "ok" /\ handler'[w].sync = j /\ handler'[w].seen = handler[w].seen
    BY <1>1, <1>2, GotoRow DEF Ats
  <1>4. sync' = [sync EXCEPT ![j].status = "SUPERSEDED"]
    BY <1>2 DEF Supersede
  <1>5. /\ sync' \in [Ids -> SyncRow] /\ \A k \in Ids \ {j} : sync'[k] = sync[k]
        /\ sync'[j].kind = sync[j].kind /\ sync'[j].version = sync[j].version
        /\ sync'[j].configuration = sync[j].configuration /\ sync'[j].secret = sync[j].secret
        /\ sync'[j].seen = sync[j].seen /\ sync'[j].status = "SUPERSEDED"
    BY <1>4, StatusRow DEF Closed
  <1>6. HandlerOK(w)'
    BY <1>1, <1>2, <1>3, <1>5 DEF HandlerOK, Final
  <1>7. source \in SourceRow
    BY DEF SyncTypeOK
  <1> QED
    BY <1>1, <1>2, <1>3, <1>5, <1>6, <1>7, ValidatedStays, StatusStep DEF Final

LEMMA CompleteFailedStep == ASSUME SyncInv, NEW w \in Workers, CompleteFailed(w) PROVE SyncInv'
  <1> USE DEF SyncInv
  <1>1. /\ handler[w].at \notin {"idle", "commit"} /\ Permitted(w) /\ sync[handler[w].sync].status = "RUNNING"
        /\ writing = Nobody /\ ~CaptureStale(handler[w].sync)
        /\ source' = [source EXCEPT !.health = "UNHEALTHY", !.version = @ + 1]
        /\ checked' = sync[handler[w].sync].configuration
        /\ UNCHANGED <<secret, remote, job, writing, revision, snapshot, retiring, intents, keeper>>
    BY DEF CompleteFailed, Completing, files
  <1>2. PICK j \in Ids : j = handler[w].sync /\ job[j].phase # "none" /\ handler[w].seen <= remote
    BY <1>1, WorkerOf
  <1>3. PICK at \in {"retry", "fail"} : Goto(w, at)
    BY DEF CompleteFailed
  <1>4. /\ handler' \in [Workers -> HandlerRow] /\ \A x \in Workers \ {w} : handler'[x] = handler[x]
        /\ handler'[w].at = at /\ handler'[w].sync = j /\ handler'[w].seen = handler[w].seen
    BY <1>2, <1>3, GotoRow DEF Ats
  <1>5. sync' = [sync EXCEPT ![j].status = "FAILED"]
    BY <1>2 DEF CompleteFailed
  <1>6. /\ sync' \in [Ids -> SyncRow] /\ \A k \in Ids \ {j} : sync'[k] = sync[k]
        /\ sync'[j].kind = sync[j].kind /\ sync'[j].version = sync[j].version
        /\ sync'[j].configuration = sync[j].configuration /\ sync'[j].secret = sync[j].secret
        /\ sync'[j].seen = sync[j].seen /\ sync'[j].status = "FAILED"
    BY <1>5, StatusRow DEF Closed
  <1>7. HandlerOK(w)'
    BY <1>1, <1>2, <1>3, <1>4, <1>6 DEF HandlerOK
  <1>8. /\ source' \in SourceRow /\ source'.version = source.version + 1
        /\ source'.configuration = source.configuration
        /\ source'.lifecycle = source.lifecycle /\ source'.validated = source.validated
    BY <1>1, SourceFailed
  <1>9. ASSUME \A i \in Ids : KeepsCapture(i) PROVE Validated'
    BY <1>1, <1>8, <1>9, EvidenceStays DEF Validated, HealthIsCurrent, CaptureStale
  <1> QED
    BY <1>1, <1>2, <1>4, <1>6, <1>7, <1>8, <1>9, StatusStep DEF Final

LEMMA CompleteValidationStep == ASSUME SyncInv, NEW w \in Workers, CompleteValidation(w) PROVE SyncInv'
  <1> USE DEF SyncInv
  <1>1. /\ handler[w].at \notin {"idle", "commit"} /\ Permitted(w) /\ sync[handler[w].sync].status = "RUNNING"
        /\ sync[handler[w].sync].kind = "VALIDATION"
        /\ writing = Nobody /\ ~CaptureStale(handler[w].sync)
        /\ checked' = sync[handler[w].sync].configuration /\ Goto(w, "ok")
        /\ UNCHANGED <<secret, remote, job, writing, revision, snapshot, retiring, intents, keeper>>
    BY DEF CompleteValidation, Completing, files
  <1>2. PICK j \in Ids : j = handler[w].sync /\ job[j].phase # "none" /\ handler[w].seen <= remote
    BY <1>1, WorkerOf
  <1>3. /\ handler' \in [Workers -> HandlerRow] /\ \A x \in Workers \ {w} : handler'[x] = handler[x]
        /\ handler'[w].at = "ok" /\ handler'[w].sync = j /\ handler'[w].seen = handler[w].seen
    BY <1>1, <1>2, GotoRow DEF Ats
  <1>4. sync' = [sync EXCEPT ![j].status = "SUCCEEDED"]
    BY <1>2 DEF CompleteValidation
  <1>5. /\ sync' \in [Ids -> SyncRow] /\ \A k \in Ids \ {j} : sync'[k] = sync[k]
        /\ sync'[j].kind = sync[j].kind /\ sync'[j].version = sync[j].version
        /\ sync'[j].configuration = sync[j].configuration /\ sync'[j].secret = sync[j].secret
        /\ sync'[j].seen = sync[j].seen /\ sync'[j].status = "SUCCEEDED"
    BY <1>4, StatusRow DEF Closed
  <1>6. HandlerOK(w)'
    BY <1>1, <1>2, <1>3, <1>5 DEF HandlerOK, Final
  <1>7. /\ source' \in SourceRow /\ source'.version = source.version + 1
        /\ source'.configuration = source.configuration /\ source'.validated = source.configuration
    <2> DEFINE row(v, n) == [source EXCEPT !.lifecycle = IF @ = "DRAFT" THEN "ACTIVE" ELSE @,
                                           !.health = "HEALTHY", !.version = v, !.validated = n]
    <2>1. source' = row(source.version + 1, source.configuration)
      BY DEF CompleteValidation
    <2>2. \A v \in Nat \ {0}, n \in Nat :
            /\ row(v, n) \in SourceRow /\ row(v, n).version = v /\ row(v, n).configuration = source.configuration
            /\ row(v, n).validated = n
      BY SourceFields, ZenonT(60) DEF SourceRow
    <2> HIDE DEF row
    <2> QED
      BY <2>1, <2>2, SourceFields
  <1>8. Validated'
    <2>1. sync[j].configuration = source.configuration
      BY <1>1, <1>2 DEF CaptureStale
    <2>2. Evidence'
      BY <1>1, <1>2, <1>5, <1>7, <2>1 DEF Evidence
    <2>3. source'.validated <= source'.configuration
      BY <1>7, SourceFields
    <2> QED
      BY <1>1, <1>2, <1>7, <2>1, <2>2, <2>3 DEF Validated, HealthIsCurrent
  <1> QED
    BY <1>1, <1>2, <1>3, <1>5, <1>6, <1>7, <1>8, StatusStep DEF Final

-----------------------------------------------------------------------------
(* Steps that write files. *)

LEMMA FileStep ==
    ASSUME SyncInv, NEW w \in Workers, handler[w].at # "commit",
           UNCHANGED <<source, secret, remote, sync, job, writing, revision, retiring, intents, keeper, checked>>,
           snapshot' \in [Ids -> 0..Len(Upstream)],
           \A i \in Ids : KeepsFiles(i) /\ (job[i].phase = "none" => snapshot'[i] = snapshot[i]),
           handler' \in [Workers -> HandlerRow], \A x \in Workers \ {w} : handler'[x] = handler[x], HandlerOK(w)'
    PROVE  SyncInv'
  <1> USE DEF SyncInv
  <1>1. SyncTypeOK'
    BY DEF SyncTypeOK
  <1>2. Grows
    BY SameRows, RemoteStays
  <1>3. \A i \in Ids : KeepsCapture(i) /\ Follows(i)'
    BY DEF KeepsCapture, CaptureOK, Follows
  <1>4. writing # Nobody => handler'[writing] = handler[writing]
    BY NotWriting
  <1>5. Written' /\ Validated' /\ Retired'
    BY <1>1, <1>2, <1>3, <1>4, WrittenStays, ValidatedStays, RetiredStays
  <1>6. \A x \in Workers : HandlerOK(x)' \/ (handler'[x] = handler[x] /\ (handler[x].at = "commit" => writing' = writing))
    OBVIOUS
  <1> QED
    BY <1>1, <1>2, <1>3, <1>5, <1>6, PlainStep

LEMMA StoreStep == ASSUME SyncInv, NEW w \in Workers, StoreSnapshot(w) PROVE SyncInv'
  <1> USE DEF SyncInv
  <1>1. /\ handler[w].at = "store"
        /\ UNCHANGED <<source, secret, remote, sync, job, writing, revision, retiring, intents, keeper, checked>>
    BY DEF StoreSnapshot, rows
  <1>2. PICK j \in Ids : j = handler[w].sync /\ job[j].phase # "none" /\ CaptureOK(j) /\ handler[w].seen <= remote
    BY <1>1, WorkerOf
  <1>3. handler[w].seen # 0 /\ (Open(j) => Seen(handler[w].seen))
    BY <1>1, <1>2 DEF HandlerOK
  <1>4. CASE UNCHANGED snapshot /\ (Goto(w, "reportRetry") \/ Goto(w, "reportFail"))
    <2>1. PICK at \in {"reportRetry", "reportFail"} : Goto(w, at)
      BY <1>4
    <2>2. /\ handler' \in [Workers -> HandlerRow] /\ \A x \in Workers \ {w} : handler'[x] = handler[x]
          /\ handler'[w].at = at /\ handler'[w].sync = j /\ handler'[w].seen = handler[w].seen
      BY <1>2, <2>1, GotoRow DEF Ats
    <2>3. HandlerOK(w)'
      BY <1>1, <1>2, <2>2 DEF HandlerOK
    <2> QED
      BY <1>1, <1>4, <2>2, <2>3, HandlerOnly
  <1>5. CASE /\ ~(snapshot[j] # 0 /\ Upstream[snapshot[j]] # Upstream[handler[w].seen])
             /\ Goto(w, "complete")
             /\ snapshot' = [snapshot EXCEPT ![j] = IF @ = 0 THEN handler[w].seen ELSE @]
    <2>1. handler[w].seen \in 0..Len(Upstream)
      BY DEF SyncTypeOK, HandlerRow
    <2>2. /\ snapshot' \in [Ids -> 0..Len(Upstream)] /\ \A i \in Ids \ {j} : snapshot'[i] = snapshot[i]
          /\ snapshot'[j] = (IF snapshot[j] = 0 THEN handler[w].seen ELSE snapshot[j])
      BY <1>5, <2>1 DEF SyncTypeOK
    <2>3. /\ handler' \in [Workers -> HandlerRow] /\ \A x \in Workers \ {w} : handler'[x] = handler[x]
          /\ handler'[w].at = "complete" /\ handler'[w].sync = j /\ handler'[w].seen = handler[w].seen
      BY <1>2, <1>5, GotoRow DEF Ats
    <2>4. snapshot'[j] # 0 /\ Upstream[snapshot'[j]] = Upstream[handler[w].seen]
      BY <1>3, <1>5, <2>2
    <2>5. Open(j)' => Seen(handler[w].seen)'
      BY <1>1, <1>3, <2>3 DEF Open, Fresh, Seen
    <2>6. HandlerOK(w)'
      BY <1>1, <1>2, <2>3, <2>4, <2>5 DEF HandlerOK
    <2>7. \A i \in Ids : KeepsFiles(i) /\ (job[i].phase = "none" => snapshot'[i] = snapshot[i])
      BY <1>1, <1>2, <1>3, <2>2 DEF KeepsFiles
    <2> QED
      BY <1>1, <2>2, <2>3, <2>6, <2>7, FileStep
  <1> QED
    BY <1>2, <1>4, <1>5 DEF StoreSnapshot

LEMMA CleanupStep == ASSUME SyncInv, NEW w \in Workers, Cleanup(w) PROVE SyncInv'
  <1> USE DEF SyncInv
  <1>1. /\ handler[w].at = "cleanup" /\ Goto(w, "ok")
        /\ UNCHANGED <<source, secret, remote, sync, job, writing, revision, retiring, intents, keeper, checked>>
    BY DEF Cleanup, rows
  <1>2. PICK j \in Ids : j = handler[w].sync /\ job[j].phase # "none" /\ CaptureOK(j) /\ handler[w].seen <= remote
    BY <1>1, WorkerOf
  <1>3. /\ handler' \in [Workers -> HandlerRow] /\ \A x \in Workers \ {w} : handler'[x] = handler[x]
        /\ handler'[w].at = "ok" /\ handler'[w].sync = j /\ handler'[w].seen = handler[w].seen
    BY <1>1, <1>2, GotoRow DEF Ats
  <1>4. HandlerOK(w)'
    BY <1>1, <1>2, <1>3 DEF HandlerOK
  <1>5. CASE UNCHANGED snapshot
    BY <1>1, <1>3, <1>4, <1>5, HandlerOnly
  <1>6. CASE sync[j].status = "SUCCEEDED" /\ sync[j].result # j /\ snapshot' = [snapshot EXCEPT ![j] = 0]
    <2>1. 0 \in 0..Len(Upstream)
      BY SyncAssumption
    <2>2. /\ snapshot' \in [Ids -> 0..Len(Upstream)] /\ \A i \in Ids \ {j} : snapshot'[i] = snapshot[i]
          /\ snapshot'[j] = 0
      BY <1>6, <2>1 DEF SyncTypeOK
    <2>3. revision[j].state = "none"
      BY <1>2, <1>6 DEF CaptureOK
    <2>4. \A i \in Ids : KeepsFiles(i) /\ (job[i].phase = "none" => snapshot'[i] = snapshot[i])
      BY <1>1, <1>2, <1>6, <2>2, <2>3 DEF KeepsFiles
    <2> QED
      BY <1>1, <1>3, <1>4, <2>2, <2>4, FileStep
  <1> QED
    BY <1>2, <1>5, <1>6 DEF Cleanup

-----------------------------------------------------------------------------
(* The transaction of a completion commits. *)

LEMMA CommitStep == ASSUME SyncInv, NEW w \in Workers, Commit(w) PROVE SyncInv'
  <1> USE DEF SyncInv
  <1>1. /\ handler[w].at = "commit" /\ writing' = Nobody /\ Goto(w, "cleanup")
        /\ UNCHANGED <<secret, remote, job, snapshot, retiring, intents, keeper>>
    BY DEF Commit, files
  <1>2. writing = w /\ writing # Nobody
    BY <1>1, SyncAssumption DEF HandlerOK
  <1>3. PICK j \in Ids : j = handler[w].sync /\ CaptureOK(j) /\ handler[w].seen <= remote
    BY <1>1, WorkerOf
  <1>4. PICK r \in Ids : r = handler[w].chosen
    BY <1>2 DEF Written
  <1>5. PICK n \in 0..Len(Upstream) : n = handler[w].seen /\ n \in Nat /\ n <= remote
    BY <1>3, SyncAssumption DEF SyncTypeOK, HandlerRow
  <1>6. /\ job[j].phase = "running" /\ sync[j].status = "RUNNING" /\ sync[j].kind = "SYNC"
        /\ sync[j].configuration = source.configuration /\ Seen(n)
        /\ \A k \in Ids \ {j} : job[k].phase \in Active /\ sync[k].kind = "SYNC" => ~Fresh(k)
    BY <1>2, <1>3, <1>5 DEF Written, Permitted
  <1>7. snapshot[j] # 0 /\ Upstream[snapshot[j]] = Upstream[n] /\ revision[j].state = "none"
    BY <1>1, <1>3, <1>5, <1>6 DEF HandlerOK, CaptureOK
  <1> DEFINE row == [sync[j] EXCEPT !.status = "SUCCEEDED", !.result = r, !.seen = n]
  <1>8. /\ row \in SyncRow /\ row.kind = sync[j].kind /\ row.version = sync[j].version
        /\ row.configuration = sync[j].configuration /\ row.secret = sync[j].secret
        /\ row.status = "SUCCEEDED" /\ row.result = r /\ row.seen = n
    <2>1. sync[j] \in SyncRow
      BY DEF SyncTypeOK
    <2>2. row \in SyncRow
      BY <2>1, SyncRowWith DEF Closed
    <2> QED
      BY <2>1, <2>2 DEF SyncRow
  <1>9. sync' = [sync EXCEPT ![j] = row]
    BY <1>3, <1>4, <1>5 DEF Commit
  <1> HIDE DEF row
  <1>10. sync' \in [Ids -> SyncRow] /\ sync'[j] = row /\ \A k \in Ids \ {j} : sync'[k] = sync[k]
    BY <1>8, <1>9 DEF SyncTypeOK
  <1>11. /\ revision' \in [Ids -> RevisionRow] /\ \A k \in Ids \ {j} : revision'[k] = revision[k]
         /\ IF r = j THEN revision'[j].state = "live" /\ revision'[j].seen = n ELSE revision'[j] = revision[j]
    <2>1. [state |-> "live", seen |-> n] \in RevisionRow
      BY DEF RevisionRow
    <2> QED
      BY <1>3, <1>4, <1>5, <2>1 DEF Commit, SyncTypeOK
  <1>12. /\ source' \in SourceRow /\ source'.version = source.version + 1
         /\ source'.configuration = source.configuration /\ source'.validated = source.validated
         /\ source'.lifecycle = source.lifecycle
    <2> DEFINE new(v) == [source EXCEPT !.current = r, !.health = "HEALTHY", !.version = v]
    <2>1. source' = new(source.version + 1)
      BY <1>4 DEF Commit
    <2>2. \A v \in Nat \ {0} :
            /\ new(v) \in SourceRow /\ new(v).version = v /\ new(v).configuration = source.configuration
            /\ new(v).validated = source.validated /\ new(v).lifecycle = source.lifecycle
      BY SourceFields DEF SourceRow
    <2> HIDE DEF new
    <2> QED
      BY <2>1, <2>2, SourceFields
  <1>13. /\ handler' \in [Workers -> HandlerRow] /\ \A x \in Workers \ {w} : handler'[x] = handler[x]
         /\ handler'[w].at = "cleanup" /\ handler'[w].sync = j /\ handler'[w].seen = n
    BY <1>1, <1>3, <1>5, GotoRow DEF Ats
  <1>14. SyncTypeOK'
    BY <1>1, <1>10, <1>11, <1>12, <1>13 DEF SyncTypeOK
  <1>15. Grows
    <2>1. source.version \in Nat /\ source.configuration \in Nat /\ secret \in Nat
      BY DEF SyncTypeOK, SourceRow
    <2> QED
      BY <1>1, <1>12, <2>1, RemoteStays DEF Grows
  <1>16. \A i \in Ids \ {j} : KeepsCapture(i) /\ KeepsFiles(i) /\ Follows(i)' /\ ~Open(i)'
    <2>1. \A i \in Ids \ {j} : KeepsCapture(i) /\ KeepsFiles(i) /\ Follows(i)'
      BY <1>1, <1>10, <1>11 DEF KeepsCapture, KeepsFiles, CaptureOK, Follows
    <2>2. \A i \in Ids \ {j} : ~Open(i)
      BY <1>6 DEF Open
    <2> QED
      BY <1>14, <1>15, <2>1, <2>2, OpenStays
  <1>17. \A i \in Ids \ {j} : CaptureOK(i)'
    BY <1>14, <1>15, <1>16, CaptureStays
  <1>18. CaptureOK(j)'
    <2>1. Follows(j)' /\ ~Open(j)'
      BY <1>1, <1>6, <1>8, <1>10 DEF Follows, Open, Final
    <2>2. HasFiles(j)'
      BY <1>1, <1>7, <1>11 DEF HasFiles
    <2>3. /\ row.configuration <= source'.configuration /\ row.secret <= secret
          /\ row.version <= source'.version /\ row.version # source'.version
      <3>1. sync[j].version <= source.version /\ sync[j].secret <= secret
        BY <1>3 DEF CaptureOK
      <3>2. sync[j].version \in Nat /\ source.version \in Nat /\ sync[j].configuration \in Nat
        BY DEF SyncTypeOK, SyncRow, SourceRow
      <3> QED
        BY <1>6, <1>8, <1>12, <3>1, <3>2
    <2>4. revision'[j].state # "none" => r = j
      BY <1>7, <1>11
    <2>5. snapshot[j] <= remote
      BY <1>3 DEF CaptureOK
    <2> QED
      BY <1>1, <1>5, <1>6, <1>8, <1>10, <2>1, <2>2, <2>3, <2>4, <2>5 DEF CaptureOK
  <1>19. ASSUME NEW x \in Workers PROVE HandlerOK(x)'
    <2>1. CASE x = w
      BY <1>1, <1>5, <1>6, <1>8, <1>10, <1>13, <2>1 DEF HandlerOK, Final
    <2>2. CASE x # w /\ handler[x].sync = j
      <3>1. handler'[x] = handler[x] /\ handler[x].at # "commit" /\ HandlerOK(x)
        BY <1>2, <1>13, <2>2 DEF HandlerOK
      <3>2. ~Open(j)'
        BY <1>8, <1>10 DEF Open, Final
      <3> QED
        BY <1>1, <1>6, <1>8, <1>10, <2>2, <3>1, <3>2 DEF HandlerOK, Final
    <2>3. CASE x # w /\ handler[x].sync # j
      <3>1. handler'[x] = handler[x] /\ handler[x].at # "commit"
        BY <1>2, <1>13, <2>3 DEF HandlerOK
      <3> QED
        BY <1>14, <1>15, <1>16, <2>3, <3>1, HandlerStays
    <2> QED
      BY <2>1, <2>2, <2>3
  <1>20. Adopted'
    <2>1. \A k \in Ids : /\ sync'[k].kind = sync[k].kind /\ sync'[k].configuration = sync[k].configuration
                         /\ sync'[k].secret = sync[k].secret
      BY <1>8, <1>10
    <2> QED
      BY <1>1, <2>1 DEF Adopted
  <1>21. Validated'
    <2>1. Evidence => Evidence'
      <3>1. \A k \in Ids : sync[k].kind = "VALIDATION" => sync'[k] = sync[k]
        BY <1>6, <1>10
      <3>2. sync'[1].kind = sync[1].kind
        BY <1>8, <1>10, OneIsId
      <3> QED
        BY <1>1, <1>12, <3>1, <3>2 DEF Evidence
    <2>2. checked' = source.configuration
      BY <1>3, <1>6 DEF Commit
    <2> QED
      BY <1>12, <2>1, <2>2 DEF Validated, HealthIsCurrent
  <1>22. Written'
    BY <1>1 DEF Written
  <1>23. Retired'
    <2>1. j \notin intents /\ \A k \in Keepers : retiring[k].at # "idle" => retiring[k].revision # j
      BY <1>7 DEF Retired
    <2> QED
      BY <1>1, <1>11, <2>1 DEF Retired, SyncTypeOK
  <1> QED
    BY <1>14, <1>17, <1>18, <1>19, <1>20, <1>21, <1>22, <1>23

-----------------------------------------------------------------------------
(* Steps that schedule a capture. *)

\* A nonempty set of captures has a last one.
LEMMA LastOf ==
    ASSUME NEW S \in SUBSET Ids, S # {}
    PROVE  \E m \in S : \A k \in S : k <= m
  <1> DEFINE R == {ss \in Nat \X Nat : ss[1] < ss[2]}
             T == {m \in Nat : \A k \in S : k <= m}
  <1>1. IsWellFoundedOn(R, Nat)
    BY NatLessThanWellFounded, Zenon DEF OpToRel
  <1>2. \A x, y \in Nat : y < x => <<y, x>> \in R
    OBVIOUS
  <1>3. MaxSyncs \in Nat /\ \A k \in S : k \in Nat /\ k >= 1 /\ k <= MaxSyncs
    BY SyncAssumption DEF Ids
  <1>4. T \in SUBSET Nat /\ MaxSyncs \in T
    BY <1>3
  <1> HIDE DEF R
  <1>5. PICK m \in T : \A y \in T : ~(<<y, m>> \in R)
    BY <1>1, <1>4, WFMin, Zenon
  <1>6. \A y \in T : ~(y < m)
    BY <1>2, <1>5
  <1>7. m \in Nat /\ \A k \in S : k <= m
    OBVIOUS
  <1>8. m \in S
    <2> SUFFICES ASSUME m \notin S PROVE FALSE
      OBVIOUS
    <2>1. \A k \in S : k < m
      BY <1>3, <1>7
    <2>2. PICK k \in S : TRUE
      OBVIOUS
    <2>3. m - 1 \in Nat /\ m - 1 < m
      BY <1>3, <1>7, <2>1, <2>2
    <2>4. \A x \in S : x <= m - 1
      BY <1>3, <1>7, <2>1
    <2>5. m - 1 \in T
      BY <2>3, <2>4
    <2> QED
      BY <1>6, <2>3, <2>5
  <1> QED
    BY <1>7, <1>8

\* The next capture is one that was never scheduled.
LEMMA FreeIdIsFree == ASSUME FreeId \in Ids PROVE job[FreeId].phase = "none"
  <1> SUFFICES ASSUME FreeId \in Scheduled PROVE FALSE
    BY DEF Scheduled
  <1>1. Scheduled \in SUBSET Ids /\ Scheduled # {}
    BY DEF Scheduled
  <1> DEFINE m == CHOOSE i \in Scheduled : \A k \in Scheduled : k <= i
  <1>2. m \in Scheduled /\ \A k \in Scheduled : k <= m
    BY <1>1, LastOf
  <1>3. FreeId = 1 + m
    BY <1>1 DEF FreeId
  <1> HIDE DEF m
  <1>4. m \in Nat
    BY <1>1, <1>2, SyncAssumption DEF Ids
  <1> QED
    BY <1>2, <1>3, <1>4

LEMMA ScheduleStep ==
    ASSUME SyncInv, NEW kind \in {"VALIDATION", "SYNC"}, Schedule(kind), writing = Nobody,
           UNCHANGED <<source, secret, remote, handler, writing, revision, snapshot, retiring, intents, keeper, checked>>
    PROVE  SyncInv'
  <1> USE DEF SyncInv
  <1>1. CASE UNCHANGED <<sync, job>>
    <2>1. SyncTypeOK'
      BY <1>1 DEF SyncTypeOK
    <2>2. Grows
      BY SameRows, RemoteStays
    <2>3. \A i \in Ids : KeepsCapture(i) /\ KeepsFiles(i) /\ Follows(i)'
      BY <1>1, UntouchedCaptures
    <2>4. Written' /\ Validated' /\ Retired'
      BY <2>3, ValidatedStays, RetiredStays DEF Written
    <2> QED
      BY <2>1, <2>2, <2>3, <2>4, PlainStep
  <1>2. CASE ~UNCHANGED <<sync, job>>
    <2>1. /\ FreeId \in Ids
          /\ sync' = [sync EXCEPT ![FreeId] = NewSync(kind, source)]
          /\ job' = [job EXCEPT ![FreeId] = NewJob]
          /\ \A i \in Ids : ~(/\ job[i].phase \in Active /\ sync[i].kind = kind
                              /\ sync[i].configuration = source.configuration /\ sync[i].secret = secret)
      BY <1>2 DEF Schedule
    <2>2. PICK j \in Ids : j = FreeId /\ job[j].phase = "none" /\ CaptureOK(j)
      BY <2>1, FreeIdIsFree
    <2>3. source \in SourceRow /\ secret \in Nat /\ source.version \in Nat /\ source.configuration \in Nat
      BY DEF SyncTypeOK, SourceRow
    <2> DEFINE row == NewSync(kind, source)
    <2>4. /\ row \in SyncRow /\ row.kind = kind /\ row.status = "PENDING" /\ row.version = source.version
          /\ row.configuration = source.configuration /\ row.secret = secret /\ row.seen = 0
      <3>1. row \in SyncRow
        BY <2>3, NewSyncRow
      <3> QED
        BY <3>1 DEF NewSync
    <2> HIDE DEF row
    <2>5. sync' \in [Ids -> SyncRow] /\ sync'[j] = row /\ \A i \in Ids \ {j} : sync'[i] = sync[i]
      BY <2>1, <2>2, <2>4 DEF SyncTypeOK, row
    <2>6. /\ job' \in [Ids -> JobRow] /\ job'[j].phase = "queued" /\ \A i \in Ids \ {j} : job'[i] = job[i]
      BY <2>1, <2>2, StartRows DEF SyncTypeOK, NewJob
    <2>7. SyncTypeOK'
      BY <2>5, <2>6 DEF SyncTypeOK
    <2>8. Grows
      BY SameRows, RemoteStays
    <2>9. \A i \in Ids \ {j} : KeepsCapture(i) /\ KeepsFiles(i) /\ Follows(i)'
      BY <2>5, <2>6 DEF KeepsCapture, KeepsFiles, CaptureOK, Follows
    <2>10. sync[j] = NoSync /\ snapshot[j] = 0 /\ sync[j].seen = 0
      BY <2>2 DEF CaptureOK, NoSync
    <2>11. SeenKept
      <3>1. \A k \in Ids : sync[k].seen \in Nat
        BY SyncAssumption DEF SyncTypeOK, SyncRow
      <3> QED
        BY <2>4, <2>5, <2>10, <3>1 DEF SeenKept
    <2>12. \A i \in Ids \ {j} : CaptureOK(i)'
      BY <2>7, <2>8, <2>9, <2>11, CaptureStays
    <2>13. CaptureOK(j)'
      <3>1. revision[j].state = "none"
        BY <2>2, <2>10 DEF CaptureOK, NoSync
      <3>2. Follows(j)' /\ HasFiles(j)'
        BY <2>4, <2>5, <2>6, <3>1 DEF Follows, HasFiles, Active
      <3>3. remote \in Nat
        BY SyncAssumption DEF SyncTypeOK
      <3> QED
        BY <2>3, <2>4, <2>5, <2>6, <2>10, <3>1, <3>2, <3>3 DEF CaptureOK
    <2>14. \A w \in Workers : HandlerOK(w)'
      BY <2>2, <2>7, <2>8, <2>9, <2>11, HandlerStays
    <2>15. Adopted'
      <3> SUFFICES ASSUME NEW a \in Ids, NEW b \in Ids, job'[a].phase \in Active, job'[b].phase \in Active,
                          sync'[a].kind = sync'[b].kind, sync'[a].configuration = sync'[b].configuration,
                          sync'[a].secret = sync'[b].secret, a # b
                   PROVE  FALSE
        BY DEF Adopted
      <3>1. CASE a = j
        BY <2>1, <2>4, <2>5, <2>6, <3>1
      <3>2. CASE b = j
        BY <2>1, <2>4, <2>5, <2>6, <3>2
      <3>3. CASE a # j /\ b # j
        BY <2>5, <2>6, <3>3 DEF Adopted
      <3> QED
        BY <3>1, <3>2, <3>3
    <2>16. Validated'
      BY <2>2, <2>9, ValidatedStays
    <2>17. Written' /\ Retired'
      BY RetiredStays DEF Written
    <2> QED
      BY <2>7, <2>12, <2>13, <2>14, <2>15, <2>16, <2>17
  <1> QED
    BY <1>1, <1>2

LEMMA RequestStep == ASSUME SyncInv, NEW kind \in {"VALIDATION", "SYNC"}, RequestOperation(kind) PROVE SyncInv'
  BY ScheduleStep DEF RequestOperation, Command, files

LEMMA DueStep == ASSUME SyncInv, ScheduleDue PROVE SyncInv'
  BY ScheduleStep DEF ScheduleDue, files

-----------------------------------------------------------------------------
(* Steps of a job: it is leased, loses its lease, is cancelled or settled. *)

\* The row of one job changes, and perhaps its capture and the source.
LEMMA JobStep ==
    ASSUME SyncInv, NEW j \in Ids, job[j].phase \in Active,
           job' \in [Ids -> JobRow], \A k \in Ids \ {j} : job'[k] = job[k], job'[j].phase # "none",
           sync' \in [Ids -> SyncRow], \A k \in Ids \ {j} : sync'[k] = sync[k],
           sync'[j].kind = sync[j].kind, sync'[j].version = sync[j].version,
           sync'[j].configuration = sync[j].configuration, sync'[j].secret = sync[j].secret,
           sync'[j].seen = sync[j].seen, sync'[j].status # "none",
           sync[j].status \in Final => sync'[j] = sync[j], Follows(j)',
           UNCHANGED <<secret, remote, writing, revision, snapshot, retiring, intents, keeper>>,
           source' \in SourceRow, source'.configuration = source.configuration,
           source' = source \/ (writing = Nobody /\ source'.version = source.version + 1),
           handler' \in [Workers -> HandlerRow], \A x \in Workers : HandlerOK(x)' \/ handler'[x] = handler[x],
           writing # Nobody => handler[writing].sync # j /\ handler'[writing] = handler[writing],
           (\A i \in Ids : KeepsCapture(i)) => Validated'
    PROVE  SyncInv'
  <1> USE DEF SyncInv
  <1>1. SyncTypeOK'
    BY DEF SyncTypeOK
  <1>2. Grows
    <2>1. source.version \in Nat /\ source.configuration \in Nat /\ secret \in Nat
      BY DEF SyncTypeOK, SourceRow
    <2> QED
      BY <2>1, RemoteStays DEF Grows
  <1>3. \A i \in Ids : KeepsCapture(i) /\ KeepsFiles(i) /\ Follows(i)'
    <2>1. KeepsCapture(j)
      BY DEF KeepsCapture, Active
    <2>2. \A i \in Ids \ {j} : KeepsCapture(i) /\ Follows(i)'
      BY DEF KeepsCapture, CaptureOK, Follows
    <2>3. \A i \in Ids : KeepsFiles(i)
      BY DEF KeepsFiles
    <2> QED
      BY <2>1, <2>2, <2>3
  <1>4. Written'
    <2>1. writing # Nobody => handler[writing].sync \in Ids \ {j}
      BY DEF SyncTypeOK, HandlerOK, Written
    <2> QED
      BY <1>1, <1>2, <1>3, <2>1, WrittenStays
  <1>5. \A x \in Workers : HandlerOK(x)' \/ (handler'[x] = handler[x] /\ (handler[x].at = "commit" => writing' = writing))
    OBVIOUS
  <1> QED
    BY <1>1, <1>2, <1>3, <1>4, <1>5, RetiredStays, PlainStep

\* A job row with another phase and no holder is a row.
LEMMA JobRowWith ==
    ASSUME SyncTypeOK, NEW j \in Ids, NEW p \in Active \cup Settled,
           \/ job' = [job EXCEPT ![j].phase = p, ![j].holder = Nobody]
           \/ job' = [job EXCEPT ![j].phase = p]
    PROVE  job' \in [Ids -> JobRow] /\ job'[j].phase = p /\ \A k \in Ids \ {j} : job'[k] = job[k]
  <1> DEFINE one == [job[j] EXCEPT !.phase = p, !.holder = Nobody]
             two == [job[j] EXCEPT !.phase = p]
  <1>1. one \in JobRow /\ one.phase = p /\ two \in JobRow /\ two.phase = p
    <2>1. job[j] \in JobRow
      BY DEF SyncTypeOK
    <2> QED
      BY <2>1 DEF JobRow
  <1>2. job' = [job EXCEPT ![j] = one] \/ job' = [job EXCEPT ![j] = two]
    OBVIOUS
  <1> HIDE DEF one, two
  <1> QED
    BY <1>1, <1>2 DEF SyncTypeOK

\* A job that is settled without its handler closes its capture, and counts
\* against the source only if nothing has changed it since.
LEMMA SettledStep ==
    ASSUME SyncInv, NEW j \in Ids, job[j].phase \in Active, NEW p \in {"failed", "cancelled"}, TerminalCallback(j, p),
           UNCHANGED <<secret, remote, writing, revision, snapshot, retiring, intents, keeper>>,
           handler' \in [Workers -> HandlerRow], \A x \in Workers : HandlerOK(x)' \/ handler'[x] = handler[x],
           writing # Nobody => handler[writing].sync # j /\ handler'[writing] = handler[writing]
    PROVE  SyncInv'
  <1> USE DEF SyncInv
  <1>1. /\ job' \in [Ids -> JobRow] /\ job'[j].phase = p /\ \A k \in Ids \ {j} : job'[k] = job[k]
        /\ p \notin {"none", "succeeded"}
    BY JobRowWith DEF TerminalCallback, Settled
  <1>2. CASE sync[j].status \in Closed /\ UNCHANGED <<source, sync, checked>>
    <2>1. /\ source \in SourceRow /\ sync \in [Ids -> SyncRow] /\ sync[j].status # "none"
          /\ source.configuration = source.configuration
      BY DEF SyncTypeOK, CaptureOK, Active
    <2>2. Follows(j)'
      BY <1>1, <1>2 DEF Follows, Closed
    <2> QED
      BY <1>1, <1>2, <2>1, <2>2, ValidatedStays, JobStep
  <1>3. CASE sync[j].status \notin Closed
    <2> DEFINE row == [sync[j] EXCEPT !.status = "FAILED", !.result = 0]
    <2>1. sync' = [sync EXCEPT ![j] = row]
      BY <1>3 DEF TerminalCallback
    <2>2. /\ row \in SyncRow /\ row.kind = sync[j].kind /\ row.version = sync[j].version
          /\ row.configuration = sync[j].configuration /\ row.secret = sync[j].secret
          /\ row.status = "FAILED" /\ row.seen = sync[j].seen
      <3>1. sync[j] \in SyncRow /\ 0 \in 0..Len(Upstream)
        BY SyncAssumption DEF SyncTypeOK
      <3>2. row \in SyncRow
        BY <3>1, SyncRowWith DEF Closed
      <3> QED
        BY <3>1, <3>2 DEF SyncRow
    <2> HIDE DEF row
    <2>3. /\ sync' \in [Ids -> SyncRow] /\ \A k \in Ids \ {j} : sync'[k] = sync[k]
          /\ sync'[j].kind = sync[j].kind /\ sync'[j].version = sync[j].version
          /\ sync'[j].configuration = sync[j].configuration /\ sync'[j].secret = sync[j].secret
          /\ sync'[j].seen = sync[j].seen /\ sync'[j].status = "FAILED"
      BY <2>1, <2>2 DEF SyncTypeOK
    <2>4. Follows(j)' /\ sync[j].status \notin Final
      BY <1>1, <1>3, <2>3 DEF Follows, Closed, Final
    <2>5. CASE UNCHANGED <<source, checked>>
      <3>1. source \in SourceRow /\ source'.configuration = source.configuration
        BY <2>5 DEF SyncTypeOK
      <3> QED
        BY <1>1, <2>3, <2>4, <2>5, <3>1, ValidatedStays, JobStep
    <2>6. CASE p = "failed" /\ source.version = sync[j].version
      <3>1. /\ writing = Nobody /\ source' = [source EXCEPT !.health = "UNHEALTHY", !.version = @ + 1]
            /\ checked' = sync[j].configuration
        BY <1>3, <2>6 DEF TerminalCallback
      <3>2. /\ source' \in SourceRow /\ source'.version = source.version + 1
            /\ source'.configuration = source.configuration
            /\ source'.lifecycle = source.lifecycle /\ source'.validated = source.validated
        BY <3>1, SourceFailed
      <3>3. checked' = source.configuration
        BY <2>6, <3>1 DEF CaptureOK
      <3>4. ASSUME \A i \in Ids : KeepsCapture(i) PROVE Validated'
        BY <3>2, <3>3, <3>4, EvidenceStays DEF Validated, HealthIsCurrent
      <3> QED
        BY <1>1, <2>3, <2>4, <3>1, <3>2, <3>4, JobStep
    <2> QED
      BY <1>3, <2>5, <2>6 DEF TerminalCallback
  <1> QED
    BY <1>2, <1>3 DEF TerminalCallback

\* A job goes on, or succeeds behind a capture that is final.
LEMMA PhaseStep ==
    ASSUME SyncInv, NEW j \in Ids, job[j].phase \in Active,
           job' \in [Ids -> JobRow], \A k \in Ids \ {j} : job'[k] = job[k],
           job'[j].phase \in Active \/ (job'[j].phase = "succeeded" /\ sync[j].status \in Final),
           UNCHANGED <<source, secret, remote, sync, writing, revision, snapshot, retiring, intents, keeper, checked>>,
           handler' \in [Workers -> HandlerRow], \A x \in Workers : HandlerOK(x)' \/ handler'[x] = handler[x],
           writing # Nobody => handler[writing].sync # j /\ handler'[writing] = handler[writing]
    PROVE  SyncInv'
  <1> USE DEF SyncInv
  <1>1. /\ source \in SourceRow /\ sync \in [Ids -> SyncRow] /\ sync[j].status # "none"
        /\ source'.configuration = source.configuration /\ job'[j].phase # "none"
    BY DEF SyncTypeOK, CaptureOK, Active
  <1>2. Follows(j)'
    BY DEF Follows, Active, Final
  <1> QED
    BY <1>1, <1>2, ValidatedStays, JobStep

LEMMA LeaseStep == ASSUME SyncInv, NEW w \in Workers, NEW j \in Ids, Lease(w, j) PROVE SyncInv'
  <1> USE DEF SyncInv
  <1>1. /\ handler[w].at = "idle" /\ job[j].phase = "queued" /\ job[j].budget > 0
        /\ UNCHANGED <<source, secret, remote, sync, writing, revision, snapshot, retiring, intents, keeper, checked>>
    BY DEF Lease, files
  <1>2. PICK b \in 0..Attempts : b = job[j].budget - 1
    <2>1. job[j].budget \in 0..Attempts
      BY DEF SyncTypeOK, JobRow
    <2> QED
      BY <1>1, <2>1, SyncAssumption
  <1>3. /\ job' \in [Ids -> JobRow] /\ job'[j].phase = "running" /\ \A k \in Ids \ {j} : job'[k] = job[k]
    <2> DEFINE row == [phase |-> "running", budget |-> b, holder |-> w]
    <2>1. row \in JobRow /\ row.phase = "running"
      BY DEF JobRow, Active
    <2>2. job' = [job EXCEPT ![j] = row]
      BY <1>2 DEF Lease, SyncTypeOK
    <2> HIDE DEF row
    <2> QED
      BY <2>1, <2>2 DEF SyncTypeOK
  <1>4. /\ handler' \in [Workers -> HandlerRow] /\ \A x \in Workers \ {w} : handler'[x] = handler[x]
        /\ handler'[w].at = "begin" /\ handler'[w].sync = j /\ handler'[w].seen = 0
    <2> DEFINE row == [Idle EXCEPT !.at = "begin", !.sync = j, !.budget = b]
    <2>1. row \in HandlerRow /\ row.at = "begin" /\ row.sync = j /\ row.seen = 0
      BY StartRows DEF HandlerRow, Idle
    <2>2. handler' = [handler EXCEPT ![w] = row]
      BY <1>2 DEF Lease
    <2> HIDE DEF row
    <2> QED
      BY <2>1, <2>2 DEF SyncTypeOK
  <1>5. HandlerOK(w)'
    <2>1. 0 <= remote
      BY SyncAssumption DEF SyncTypeOK
    <2> QED
      BY <1>1, <1>3, <1>4, <2>1 DEF HandlerOK
  <1>6. writing # Nobody => handler[writing].sync # j /\ handler'[writing] = handler[writing]
    BY <1>1, <1>4, NotWriting DEF Written, Permitted
  <1> QED
    BY <1>1, <1>3, <1>4, <1>5, <1>6, PhaseStep DEF Active

LEMMA ExpireStep == ASSUME SyncInv, NEW j \in Ids, Expire(j) PROVE SyncInv'
  <1> USE DEF SyncInv
  <1>1. /\ JobUnlocked(j) /\ job[j].phase \in {"running", "cancelling"}
        /\ UNCHANGED <<secret, remote, handler, writing, revision, snapshot, retiring, intents, keeper>>
    BY DEF Expire, files
  <1>2. /\ writing # Nobody => handler[writing].sync # j /\ handler'[writing] = handler[writing]
        /\ handler' \in [Workers -> HandlerRow] /\ \A x \in Workers : handler'[x] = handler[x]
        /\ job[j].phase \in Active
    BY <1>1 DEF JobUnlocked, SyncTypeOK, Active
  <1>3. CASE job' = [job EXCEPT ![j].phase = "queued", ![j].holder = Nobody] /\ UNCHANGED <<source, sync, checked>>
    <2>1. job' \in [Ids -> JobRow] /\ job'[j].phase = "queued" /\ \A k \in Ids \ {j} : job'[k] = job[k]
      BY <1>3, JobRowWith DEF Active
    <2> QED
      BY <1>1, <1>2, <1>3, <2>1, PhaseStep DEF Active
  <1>4. ASSUME NEW p \in {"failed", "cancelled"}, TerminalCallback(j, p) PROVE SyncInv'
    BY <1>1, <1>2, <1>4, SettledStep
  <1> QED
    BY <1>3, <1>4 DEF Expire

LEMMA CancelStep == ASSUME SyncInv, NEW j \in Ids, RequestCancel(j) PROVE SyncInv'
  <1> USE DEF SyncInv
  <1>1. /\ JobUnlocked(j) /\ job[j].phase \in {"queued", "running"}
        /\ UNCHANGED <<secret, remote, handler, writing, revision, snapshot, retiring, intents, keeper>>
    BY DEF RequestCancel, files
  <1>2. /\ writing # Nobody => handler[writing].sync # j /\ handler'[writing] = handler[writing]
        /\ handler' \in [Workers -> HandlerRow] /\ \A x \in Workers : handler'[x] = handler[x]
        /\ job[j].phase \in Active
    BY <1>1 DEF JobUnlocked, SyncTypeOK, Active
  <1>3. CASE job' = [job EXCEPT ![j].phase = "cancelling"] /\ UNCHANGED <<source, sync, checked>>
    <2>1. job' \in [Ids -> JobRow] /\ job'[j].phase = "cancelling" /\ \A k \in Ids \ {j} : job'[k] = job[k]
      BY <1>3, JobRowWith DEF Active
    <2> QED
      BY <1>1, <1>2, <1>3, <2>1, PhaseStep DEF Active
  <1>4. CASE TerminalCallback(j, "cancelled")
    BY <1>1, <1>2, <1>4, SettledStep
  <1> QED
    BY <1>3, <1>4 DEF RequestCancel

LEMMA AcceptStep == ASSUME SyncInv, NEW w \in Workers, Accept(w) PROVE SyncInv'
  <1> USE DEF SyncInv
  <1>1. /\ handler[w].at # "idle" /\ handler' = [handler EXCEPT ![w] = Idle]
        /\ UNCHANGED <<secret, remote, writing, revision, snapshot, retiring, intents, keeper>>
    BY DEF Accept, files
  <1>2. PICK j \in Ids : j = handler[w].sync /\ HandlerOK(w)
    BY <1>1, WorkerOf
  <1>3. JobUnlocked(j) /\ job[j].phase \in Active
    BY <1>2 DEF Accept, Active
  <1>4. writing # w /\ (writing # Nobody => handler[writing].sync # j /\ writing \in Workers \ {w})
    BY <1>2, <1>3, SyncAssumption DEF JobUnlocked, SyncTypeOK
  <1>5. /\ handler' \in [Workers -> HandlerRow] /\ \A x \in Workers \ {w} : handler'[x] = handler[x]
        /\ handler'[w].at = "idle"
    BY <1>1, StartRows DEF SyncTypeOK, Idle
  <1>6. HandlerOK(w)'
    BY <1>5 DEF HandlerOK
  <1>7. /\ \A x \in Workers : HandlerOK(x)' \/ handler'[x] = handler[x]
        /\ writing # Nobody => handler[writing].sync # j /\ handler'[writing] = handler[writing]
    BY <1>4, <1>5, <1>6
  <1>8. CASE \E p \in {"failed", "cancelled"} : TerminalCallback(j, p)
    BY <1>1, <1>3, <1>5, <1>7, <1>8, SettledStep
  <1>9. CASE /\ job' = [job EXCEPT ![j].phase = "queued", ![j].holder = Nobody]
             /\ UNCHANGED <<source, sync, checked>>
    <2>1. job' \in [Ids -> JobRow] /\ job'[j].phase = "queued" /\ \A k \in Ids \ {j} : job'[k] = job[k]
      BY <1>9, JobRowWith DEF Active
    <2> QED
      BY <1>1, <1>3, <1>5, <1>7, <1>9, <2>1, PhaseStep DEF Active
  <1>10. CASE /\ handler[w].at = "ok" /\ job' = [job EXCEPT ![j].phase = "succeeded", ![j].holder = Nobody]
              /\ UNCHANGED <<source, sync, checked>>
    <2>1. job' \in [Ids -> JobRow] /\ job'[j].phase = "succeeded" /\ \A k \in Ids \ {j} : job'[k] = job[k]
      BY <1>10, JobRowWith DEF Settled
    <2>2. sync[j].status \in Final
      BY <1>2, <1>10 DEF HandlerOK
    <2> QED
      BY <1>1, <1>3, <1>5, <1>7, <1>10, <2>1, <2>2, PhaseStep
  <1> QED
    BY <1>2, <1>8, <1>9, <1>10 DEF Accept

-----------------------------------------------------------------------------
(* Every step, and the theorems. *)

LEMMA StutterStep == ASSUME SyncInv, UNCHANGED vars PROVE SyncInv'
  <1> USE DEF SyncInv
  <1>1. UNCHANGED <<source, secret, remote, sync, job, handler, writing, revision, snapshot, retiring, intents,
                    keeper, checked>>
    BY DEF vars
  <1>2. \A i \in Ids : KeepsFiles(i) /\ (job[i].phase = "none" => snapshot'[i] = snapshot[i])
    BY <1>1 DEF KeepsFiles
  <1>3. Retired'
    BY <1>1, RetiredStays
  <1> QED
    BY <1>1, <1>2, <1>3, RetentionOK DEF SyncTypeOK

LEMMA WorkerKeeps == ASSUME SyncInv, NEW w \in Workers, WorkerStep(w) PROVE SyncInv'
  BY BeginStep, ExecuteStep, ReplayStep, StoreStep, SupersedeStep, CompleteFailedStep, CompleteValidationStep,
     CompleteSyncStep, CommitStep, CleanupStep, AcceptStep, AbandonStep DEF WorkerStep

LEMMA NextInv == ASSUME SyncInv, [Next]_vars PROVE SyncInv'
  <1>1. ASSUME Operators PROVE SyncInv'
    BY <1>1, UpdateStep, LifecycleStep, RequestStep, RotateStep DEF Operators
  <1>2. ASSUME NEW w \in Workers, WorkerStep(w) \/ Fail(w) \/ Rollback(w) PROVE SyncInv'
    BY <1>2, WorkerKeeps, FailStep, RollbackStep
  <1>3. ASSUME NEW i \in Ids, Expire(i) \/ RequestCancel(i) PROVE SyncInv'
    BY <1>3, ExpireStep, CancelStep
  <1> QED
    BY <1>1, <1>2, <1>3, DueStep, RemoteStep, RetentionStep, LeaseStep, StutterStep DEF Next

(* The inductive invariant holds in every reachable state: what a capture, its
   job, its files, its handlers and the row of the source say of each other. *)
THEOREM SyncSound == Spec => []SyncInv
  <1>1. Init => SyncInv
    BY InitInv
  <1>2. SyncInv /\ [Next]_vars => SyncInv'
    BY NextInv
  <1> QED
    BY <1>1, <1>2, PTL DEF Spec

(* A capture is open exactly as long as a job may still close it, an active
   source was validated in its present configuration, and its health is about
   that configuration, for every number of workers, attempts and captures. *)
THEOREM CapturesEndWithJobs == Spec => []CapturesAreSound
  <1>1. SyncInv => CapturesAreSound
    <2> SUFFICES ASSUME SyncInv PROVE CapturesAreSound
      OBVIOUS
    <2>1. CaptureFollowsJob
      BY DEF SyncInv, CaptureOK, Follows, CaptureFollowsJob, Final
    <2>2. ActiveIsValidated /\ HealthIsCurrent
      BY DEF SyncInv, Validated, Evidence, ActiveIsValidated
    <2> QED
      BY <2>1, <2>2 DEF SyncInv, CapturesAreSound
  <1> QED
    BY <1>1, SyncSound, PTL

(* Neither the cleanup of a reused candidate nor a retention worker that lost
   its permit removes the files of a revision that can be read. *)
THEOREM ReadableHasFiles == Spec => []RevisionHasSnapshot
  <1>1. SyncInv => RevisionHasSnapshot
    BY DEF SyncInv, CaptureOK, HasFiles, RevisionHasSnapshot
  <1> QED
    BY <1>1, SyncSound, PTL

\* No synchronization succeeds in the step.
NoneSucceeds ==
    \A i \in Ids : sync'[i].status = "SUCCEEDED" /\ sync[i].kind = "SYNC" => sync[i].status = "SUCCEEDED"

\* A status other than success was written to one capture.
LEMMA OtherStatus ==
    ASSUME SyncInv, NEW j \in Ids, NEW s \in {"RUNNING"} \cup Closed, s # "SUCCEEDED" \/ sync[j].kind # "SYNC",
           \/ sync' = [sync EXCEPT ![j].status = s]
           \/ sync' = [sync EXCEPT ![j].status = s, ![j].result = 0]
    PROVE  NoneSucceeds
  <1>1. sync \in [Ids -> SyncRow] /\ sync[j] \in SyncRow
    BY DEF SyncInv, SyncTypeOK
  <1> DEFINE one == [sync[j] EXCEPT !.status = s]
             two == [sync[j] EXCEPT !.status = s, !.result = 0]
  <1>2. one.status = s /\ two.status = s
    BY <1>1 DEF SyncRow
  <1>3. sync' = [sync EXCEPT ![j] = one] \/ sync' = [sync EXCEPT ![j] = two]
    OBVIOUS
  <1> HIDE DEF one, two
  <1> QED
    BY <1>1, <1>2, <1>3 DEF NoneSucceeds

LEMMA CallbackSucceedsNone ==
    ASSUME SyncInv, NEW j \in Ids, NEW p, TerminalCallback(j, p)
    PROVE  NoneSucceeds
  <1>1. CASE UNCHANGED sync
    BY <1>1 DEF NoneSucceeds
  <1>2. CASE sync' = [sync EXCEPT ![j].status = "FAILED", ![j].result = 0]
    BY <1>2, OtherStatus DEF Closed
  <1> QED
    BY <1>1, <1>2 DEF TerminalCallback

LEMMA ScheduleSucceedsNone ==
    ASSUME SyncInv, NEW kind, Schedule(kind)
    PROVE  NoneSucceeds
  <1>1. CASE UNCHANGED sync
    BY <1>1 DEF NoneSucceeds
  <1>2. CASE sync' = [sync EXCEPT ![FreeId] = NewSync(kind, source)] /\ FreeId \in Ids
    <2>1. NewSync(kind, source).status = "PENDING"
      BY DEF NewSync
    <2> QED
      BY <1>2, <2>1 DEF NoneSucceeds, SyncInv, SyncTypeOK
  <1> QED
    BY <1>1, <1>2 DEF Schedule

\* A handler is on a capture.
LEMMA CaptureOf == ASSUME SyncInv, NEW w \in Workers, handler[w].at # "idle" PROVE handler[w].sync \in Ids
  BY WorkerOf

LEMMA OnlyCommitSucceeds ==
    ASSUME SyncInv, [Next]_vars, \A w \in Workers : ~Commit(w)
    PROVE  NoneSucceeds
  <1>0. ASSUME UNCHANGED sync PROVE NoneSucceeds
    BY <1>0 DEF NoneSucceeds
  <1>1. CASE UNCHANGED vars
    BY <1>0, <1>1 DEF vars
  <1>2. CASE Operators \/ ScheduleDue
    BY <1>0, <1>2, ScheduleSucceedsNone DEF Operators, Update, ChangeLifecycle, RequestOperation, RotateSecret, rows,
       ScheduleDue
  <1>3. CASE RemoteChanges \/ Retention
    BY <1>0, <1>3 DEF RemoteChanges, Retention, Stage, Pick, DiscardIntent, FinalizeIntent, LoseKeeper, rows
  <1>4. ASSUME NEW w \in Workers,
               \/ Execute(w) \/ Replay(w) \/ StoreSnapshot(w) \/ CompleteSync(w) \/ Cleanup(w) \/ Abandon(w)
               \/ Fail(w) \/ Rollback(w)
        PROVE  NoneSucceeds
    BY <1>0, <1>4 DEF Execute, Replay, StoreSnapshot, CompleteSync, Cleanup, Abandon, Fail, Rollback, rows
  <1>5. ASSUME NEW w \in Workers, Begin(w) \/ Supersede(w) \/ CompleteFailed(w) \/ CompleteValidation(w)
        PROVE  NoneSucceeds
    <2>1. handler[w].at # "idle"
      BY <1>5 DEF Begin, Supersede, CompleteFailed, CompleteValidation
    <2>2. PICK j \in Ids : j = handler[w].sync
      BY <2>1, CaptureOf
    <2>3. CASE Begin(w)
      <3>1. UNCHANGED sync \/ sync' = [sync EXCEPT ![j].status = "RUNNING", ![j].result = 0]
        BY <2>2, <2>3 DEF Begin
      <3> QED
        BY <1>0, <3>1, OtherStatus DEF Closed
    <2>4. CASE Supersede(w)
      <3>1. sync' = [sync EXCEPT ![j].status = "SUPERSEDED"]
        BY <2>2, <2>4 DEF Supersede
      <3> QED
        BY <3>1, OtherStatus DEF Closed
    <2>5. CASE CompleteFailed(w)
      <3>1. sync' = [sync EXCEPT ![j].status = "FAILED"]
        BY <2>2, <2>5 DEF CompleteFailed
      <3> QED
        BY <3>1, OtherStatus DEF Closed
    <2>6. CASE CompleteValidation(w)
      <3>1. sync' = [sync EXCEPT ![j].status = "SUCCEEDED"] /\ sync[j].kind # "SYNC"
        BY <2>2, <2>6 DEF CompleteValidation
      <3> QED
        BY <3>1, OtherStatus DEF Closed
    <2> QED
      BY <1>5, <2>3, <2>4, <2>5, <2>6
  <1>6. ASSUME NEW w \in Workers, Accept(w) PROVE NoneSucceeds
    <2>1. PICK j \in Ids : j = handler[w].sync
      BY <1>6, CaptureOf DEF Accept
    <2>2. UNCHANGED sync \/ \E p \in {"failed", "cancelled"} : TerminalCallback(j, p)
      BY <1>6, <2>1 DEF Accept
    <2> QED
      BY <1>0, <2>2, CallbackSucceedsNone
  <1>7. ASSUME NEW w \in Workers, NEW i \in Ids, Lease(w, i) PROVE NoneSucceeds
    BY <1>0, <1>7 DEF Lease
  <1>8. ASSUME NEW i \in Ids, Expire(i) \/ RequestCancel(i) PROVE NoneSucceeds
    <2>1. UNCHANGED sync \/ \E p \in {"failed", "cancelled"} : TerminalCallback(i, p)
      BY <1>8 DEF Expire, RequestCancel
    <2> QED
      BY <1>0, <2>1, CallbackSucceedsNone
  <1> QED
    BY <1>1, <1>2, <1>3, <1>4, <1>5, <1>6, <1>7, <1>8 DEF Next, WorkerStep

LEMMA CommitInOrder ==
    ASSUME SyncInv, NEW w \in Workers, Commit(w), NEW i \in Ids,
           sync'[i].status = "SUCCEEDED", sync[i].status # "SUCCEEDED"
    PROVE  \A k \in Ids : sync[k].seen <= sync'[i].seen
  <1>1. handler[w].at = "commit" /\ writing = w /\ writing # Nobody
    BY SyncAssumption DEF Commit, SyncInv, HandlerOK
  <1>2. PICK j \in Ids : j = handler[w].sync
    BY <1>1, CaptureOf
  <1> DEFINE row == [sync[j] EXCEPT !.status = "SUCCEEDED", !.result = handler[w].chosen, !.seen = handler[w].seen]
  <1>3. sync \in [Ids -> SyncRow] /\ sync[j] \in SyncRow
    BY DEF SyncInv, SyncTypeOK
  <1>4. row.seen = handler[w].seen
    BY <1>3 DEF SyncRow
  <1>5. sync' = [sync EXCEPT ![j] = row]
    BY <1>2 DEF Commit
  <1> HIDE DEF row
  <1>6. i = j /\ sync'[i].seen = handler[w].seen
    BY <1>3, <1>4, <1>5
  <1> QED
    BY <1>1, <1>6 DEF SyncInv, Written, Seen

(* Completions move the source forward, whatever the workers, lost leases and
   rotations: none makes current what the remote showed before something an
   earlier completion saw, because at most one fresh capture is active. *)
THEOREM CompletionsInOrder == Spec => ObservedInOrder
  <1>1. ASSUME SyncInv, [Next]_vars
        PROVE  \A i \in Ids :
                 sync'[i].status = "SUCCEEDED" /\ sync[i].status # "SUCCEEDED" /\ sync[i].kind = "SYNC"
                 => \A k \in Ids : sync[k].status = "SUCCEEDED" => sync[k].seen <= sync'[i].seen
    <2>1. CASE \E w \in Workers : Commit(w)
      BY <1>1, <2>1, CommitInOrder
    <2>2. CASE \A w \in Workers : ~Commit(w)
      BY <1>1, <2>2, OnlyCommitSucceeds DEF NoneSucceeds
    <2> QED
      BY <2>1, <2>2
  <1>2. SyncInv /\ [Next]_vars =>
          [\A i \in Ids :
             sync'[i].status = "SUCCEEDED" /\ sync[i].status # "SUCCEEDED" /\ sync[i].kind = "SYNC"
             => \A k \in Ids : sync[k].status = "SUCCEEDED" => sync[k].seen <= sync'[i].seen]_vars
    BY <1>1
  <1> QED
    BY <1>2, SyncSound, PTL DEF Spec, ObservedInOrder

-----------------------------------------------------------------------------
(***************************************************************************)
(* The capture of a website obeys robots.txt: what it has asked for, what  *)
(* it has pages of and what its batch has found were all checked.          *)
(***************************************************************************)
\* Every rank is taken, since different members have different ranks and
\* there are as many ranks as members.
LEMMA Ranks ==
    ASSUME NEW S \in SUBSET Nat, IsFiniteSet(S)
    PROVE  Ascending(S) \in [1..Cardinality(S) -> S] /\ Cardinality(S) \in Nat
  <1> DEFINE UpTo(x) == {y \in S : y <= x}
             rank == [x \in S |-> Cardinality(UpTo(x))]
             n == Cardinality(S)
  <1>1. n \in Nat
    BY FS_CardinalityType
  <1>2. ASSUME NEW x \in S PROVE rank[x] \in 1..n
    <2> DEFINE t == Cardinality(UpTo(x))
    <2>1. IsFiniteSet(UpTo(x)) /\ t <= n
      BY FS_Subset
    <2>2. x \in UpTo(x)
      OBVIOUS
    <2>3. t \in Nat /\ t # 0
      BY <2>1, <2>2, FS_CardinalityType, FS_EmptySet
    <2>4. rank[x] = t
      OBVIOUS
    <2> HIDE DEF t, rank, n
    <2> QED
      BY <1>1, <2>1, <2>3, <2>4
  <1>3. ASSUME NEW x \in S, NEW y \in S, x < y PROVE rank[x] # rank[y]
    <2>0. x \in Nat /\ y \in Nat /\ \A z \in S : z \in Nat
      OBVIOUS
    <2>1. UpTo(x) \subseteq UpTo(y) /\ y \in UpTo(y) /\ y \notin UpTo(x)
      <3>1. \A z \in UpTo(x) : z \in S /\ z <= y
        BY <1>3, <2>0
      <3>2. y \in S /\ y <= y /\ ~ (y <= x)
        BY <1>3, <2>0
      <3> QED
        BY <3>1, <3>2
    <2>2. IsFiniteSet(UpTo(y))
      BY FS_Subset
    <2> QED
      BY <2>1, <2>2, FS_Subset
  <1>4. rank \in Injection(S, 1..n)
    <2>1. \A x, y \in S : x # y => rank[x] # rank[y]
      BY <1>3
    <2> QED
      BY <1>2, <2>1 DEF Injection, IsInjective
  <1>5. IsFiniteSet(1..n) /\ Cardinality(1..n) = n
    BY <1>1, FS_Interval
  <1>6. rank \in Surjection(S, 1..n)
    BY <1>4, <1>5, FS_Injection
  <1>7. ASSUME NEW k \in 1..n PROVE (CHOOSE x \in S : Cardinality(UpTo(x)) = k) \in S
    <2>1. PICK x \in S : rank[x] = k
      BY <1>6 DEF Surjection
    <2> QED
      BY <2>1
  <1> QED
    BY <1>1, <1>7 DEF Ascending

\* Elements of a sequence at some positions are a sequence of such elements.
LEMMA Elements ==
    ASSUME NEW T, NEW s \in Seq(T), NEW P \in SUBSET DOMAIN s
    PROVE  ElementsAt(s, P) \in Seq({x \in T : \E k \in P : x = s[k]})
  <1>1. P \in SUBSET Nat /\ IsFiniteSet(P)
    <2>1. DOMAIN s = 1..Len(s) /\ Len(s) \in Nat
      OBVIOUS
    <2>2. IsFiniteSet(1..Len(s))
      BY <2>1, FS_Interval, 1 \in Int, Len(s) \in Int
    <2> QED
      BY <2>1, <2>2, FS_Subset
  <1>2. Ascending(P) \in [1..Cardinality(P) -> P] /\ Cardinality(P) \in Nat
    BY <1>1, Ranks
  <1>3. ASSUME NEW k \in 1..Cardinality(P) PROVE s[Ascending(P)[k]] \in {x \in T : \E j \in P : x = s[j]}
    BY <1>2
  <1> QED
    BY <1>2, <1>3 DEF ElementsAt

URLs == DOMAIN site.docs
QueueRow == [url : URLs, depth : Nat]
PageRow == [is : {"page"}, url : URLs, text : URLs, size : Nat, links : Seq(URLs)]
ItemRow == [url : URLs, depth : Nat, at : URLs, hops : Nat, result : {Asking, Nil, Broken} \cup PageRow]
CrawlRow == [at : {"start", "sitemaps", "frontier", "fetching", "published", "validated", "failed"},
             queue : Seq(QueueRow), enqueued : {E \in SUBSET URLs : IsFiniteSet(E)}, seen : SUBSET URLs, batch : Seq(ItemRow),
             pages : UNION {[D -> PageRow] : D \in SUBSET URLs}, loaded : Nat, kept : Nat, asked : SUBSET URLs]

\* What an item of the batch, if it has a page, and a drawn item of TinyFish
\* were checked for.
ItemObeys(item) ==
    /\ item.result \in PageRow => CanFetch(item.result.url)
    /\ mode.crawler = "tinyfish" => CanFetch(item.url)

\* What may be asked for: the request for a JSON document does not ask.
Allowed(u) == mode.crawler = "json" \/ CanFetch(u)

\* What is kept of the previous revision can be kept again.
PagesObey(pages) == \A u \in DOMAIN pages : pages[u].links \in Seq(URLs) /\ pages[u].size \in Nat

CrawlObeys ==
    /\ site \in Sites /\ crawl \in CrawlRow /\ PagesObey(known)
    /\ \A u \in crawl.asked \cup DOMAIN crawl.pages : Allowed(u)
    /\ \A k \in DOMAIN crawl.batch : ItemObeys(crawl.batch[k])

\* What the site answers stays in the site, or is outside.
LEMMA SiteFacts ==
    ASSUME CrawlAssumption, site \in Sites
    PROVE  /\ MaxLinks \in Nat /\ DiscoveredCap \in Nat
           /\ URLs \subseteq Nat \ {Outside} /\ site.start \in URLs
           /\ \A u \in URLs : InOrigin(u)
           /\ IsFiniteSet(site.maps) /\ site.maps \subseteq URLs \cup {Outside}
           /\ \A u \in URLs :
                /\ Doc(u).links \in Seq(URLs \cup {Outside}) /\ Doc(u).size \in Nat
                /\ InOrigin(Doc(u).to) => Doc(u).to \in URLs
                /\ Links(Doc(u)) \in Seq(URLs)
           /\ PagesObey(site.known)
  <1>1. /\ MaxLinks \in Nat /\ DiscoveredCap \in Nat
        /\ URLs \subseteq Nat \ {Outside} /\ site.start \in URLs
        /\ IsFiniteSet(site.maps) /\ site.maps \subseteq URLs \cup {Outside}
        /\ \A u \in URLs : /\ site.docs[u].links \in Seq(URLs \cup {Outside})
                           /\ site.docs[u].to \in URLs \cup {Outside} /\ site.docs[u].size \in Nat
        /\ PagesObey(site.known)
    BY DEF CrawlAssumption, URLs, PagesObey
  <1>2. ASSUME NEW u \in URLs PROVE Links(Doc(u)) \in Seq(URLs)
    <2> DEFINE s == Doc(u).links
               P == {k \in DOMAIN s : InOrigin(s[k])}
    <2>1. s \in Seq(URLs \cup {Outside})
      BY <1>1 DEF Doc
    <2>2. ElementsAt(s, P) \in Seq({x \in URLs \cup {Outside} : \E k \in P : x = s[k]})
      BY <2>1, Elements
    <2>3. {x \in URLs \cup {Outside} : \E k \in P : x = s[k]} \subseteq URLs
      BY DEF InOrigin
    <2> HIDE DEF P, s
    <2>4. ElementsAt(s, P) \in Seq(URLs)
      BY <2>2, <2>3
    <2> QED
      BY <2>4 DEF Links, s, P
  <1> QED
    BY <1>1, <1>2 DEF Doc, InOrigin

\* The site is the same after a step, and so is what follows from it.
LEMMA SameSite ==
    ASSUME site' = site, mode' = mode
    PROVE  /\ URLs' = URLs /\ QueueRow' = QueueRow /\ PageRow' = PageRow /\ ItemRow' = ItemRow /\ CrawlRow' = CrawlRow
           /\ \A u : CanFetch(u)' = CanFetch(u) /\ Allowed(u)' = Allowed(u)
           /\ \A item : ItemObeys(item)' = ItemObeys(item)
           /\ \A pages : PagesObey(pages)' = PagesObey(pages)
  <1>1. URLs' = URLs
    BY DEF URLs
  <1>3. QueueRow' = QueueRow /\ PageRow' = PageRow
    BY <1>1 DEF QueueRow, PageRow
  <1>4. ItemRow' = ItemRow
    BY <1>1, <1>3 DEF ItemRow
  <1>5. CrawlRow' = CrawlRow
    BY <1>1, <1>3, <1>4 DEF CrawlRow
  <1>6. \A u : CanFetch(u)' = CanFetch(u) /\ Allowed(u)' = Allowed(u)
    <2>1. Policy' = Policy
      BY DEF Policy, OwnRules, StarRules, RulesOf
    <2> QED
      BY <2>1 DEF CanFetch, Allowed
  <1>7. \A item : ItemObeys(item)' = ItemObeys(item)
    BY <1>3, <1>6 DEF ItemObeys
  <1>8. \A pages : PagesObey(pages)' = PagesObey(pages)
    BY <1>1 DEF PagesObey
  <1> QED
    BY <1>1, <1>3, <1>4, <1>5, <1>6, <1>7, <1>8

\* A new capture, and one that has failed.
LEMMA FreshCaptures ==
    ASSUME NEW A \in SUBSET URLs
    PROVE  LET c == [FreshCrawl EXCEPT !.asked = A]
           IN /\ FreshCrawl \in CrawlRow /\ [FreshCrawl EXCEPT !.at = "failed", !.asked = A] \in CrawlRow
              /\ [FreshCrawl EXCEPT !.at = "validated", !.asked = A] \in CrawlRow
  <1>1. <<>> \in [{} -> PageRow]
    OBVIOUS
  <1>2. <<>> \in UNION {[D -> PageRow] : D \in SUBSET URLs}
    BY <1>1
  <1>3. <<>> \in Seq(QueueRow) /\ <<>> \in Seq(ItemRow)
    OBVIOUS
  <1>4. FreshCrawl \in CrawlRow
    BY <1>2, <1>3, FS_EmptySet DEF FreshCrawl, CrawlRow
  <1>5. [FreshCrawl EXCEPT !.at = "failed", !.asked = A] \in CrawlRow
    BY <1>4 DEF CrawlRow
  <1>6. [FreshCrawl EXCEPT !.at = "validated", !.asked = A] \in CrawlRow
    BY <1>4 DEF CrawlRow
  <1> QED
    BY <1>4, <1>5, <1>6

\* A capture that begins again, fails or ends keeps what it has asked for, at most.
LEMMA EndsObey ==
    ASSUME CrawlObeys, site' = site, mode' = mode, known' = known,
           NEW A \in SUBSET crawl.asked, NEW at \in {"start", "failed", "validated"},
           crawl' = [FreshCrawl EXCEPT !.at = at, !.asked = A]
    PROVE  CrawlObeys'
  <1>1. crawl.asked \in SUBSET URLs
    BY DEF CrawlObeys, CrawlRow
  <1>2. FreshCrawl \in CrawlRow
    BY FreshCaptures, <1>1
  <1>3. crawl' \in CrawlRow
    BY <1>1, <1>2 DEF CrawlRow
  <1>4. crawl'.asked = A /\ DOMAIN crawl'.pages = {} /\ DOMAIN crawl'.batch = {}
    BY DEF FreshCrawl
  <1> QED
    BY <1>3, <1>4, SameSite DEF CrawlObeys

\* The frontier of a capture is a queue of the site's URLs.
LEMMA FrontierObeys ==
    ASSUME CrawlObeys, site' = site, mode' = mode, known' = known,
           NEW seeds \in SUBSET URLs, IsFiniteSet(seeds), URLs \subseteq Nat,
           crawl' = Frontier(crawl, seeds)
    PROVE  CrawlObeys'
  <1>1. crawl \in CrawlRow
    BY DEF CrawlObeys
  <1> DEFINE first == [k \in 1..Cardinality(seeds) |-> [url |-> Ascending(seeds)[k], depth |-> 0]]
  <1>2. Ascending(seeds) \in [1..Cardinality(seeds) -> seeds] /\ Cardinality(seeds) \in Nat
    BY Ranks
  <1>3. \A k \in 1..Cardinality(seeds) : [url |-> Ascending(seeds)[k], depth |-> 0] \in QueueRow
    BY <1>2 DEF QueueRow
  <1>4. first \in Seq(QueueRow)
    BY <1>2, <1>3
  <1> HIDE DEF first
  <1>5. crawl' = [crawl EXCEPT !.at = "frontier", !.enqueued = seeds, !.queue = first]
    BY DEF Frontier, first
  <1>6. crawl' \in CrawlRow /\ crawl'.asked = crawl.asked /\ crawl'.pages = crawl.pages /\ crawl'.batch = crawl.batch
    BY <1>1, <1>4, <1>5 DEF CrawlRow
  <1> QED
    BY <1>6, SameSite DEF CrawlObeys

\* The beginning of a capture: robots.txt, then the sitemaps.
LEMMA BeginObeys ==
    ASSUME CrawlAssumption, CrawlObeys, RobotsUnavailable \/ ReadRobots \/ ReadSitemaps
    PROVE  CrawlObeys'
  <1>1. site \in Sites /\ crawl \in CrawlRow /\ site' = site /\ mode' = mode /\ known' = known
    BY DEF CrawlObeys, RobotsUnavailable, ReadRobots, ReadSitemaps
  <1>2. URLs \subseteq Nat /\ site.start \in URLs /\ IsFiniteSet(site.maps) /\ site.maps \subseteq URLs \cup {Outside}
    BY <1>1, SiteFacts
  <1>3. CASE crawl' = Failed
    BY <1>1, <1>3, EndsObey DEF Failed
  <1>4. CASE crawl' = [crawl EXCEPT !.at = "sitemaps"]
    <2>1. crawl' \in CrawlRow /\ crawl'.asked = crawl.asked /\ crawl'.pages = crawl.pages /\ crawl'.batch = crawl.batch
      BY <1>1, <1>4 DEF CrawlRow
    <2> QED
      BY <1>1, <2>1, SameSite DEF CrawlObeys
  <1>5. CASE crawl' = Frontier(crawl, {site.start})
    <2>1. IsFiniteSet({site.start})
      BY FS_Singleton
    <2> QED
      BY <1>1, <1>2, <1>5, <2>1, FrontierObeys
  <1>6. CASE crawl' = Frontier(crawl, Seeds)
    <2>1. Seeds \subseteq URLs /\ Seeds \subseteq site.maps \cup {site.start}
      BY <1>2 DEF Seeds, InOrigin
    <2>2. IsFiniteSet(site.maps \cup {site.start})
      BY <1>2, FS_AddElement
    <2>3. IsFiniteSet(Seeds)
      BY <2>1, <2>2, FS_Subset
    <2> QED
      BY <1>1, <1>2, <1>6, <2>1, <2>3, FrontierObeys
  <1> QED
    BY <1>3, <1>4, <1>5, <1>6 DEF RobotsUnavailable, ReadRobots, ReadSitemaps

\* A URL is drawn from the frontier; TinyFish checks it first.
LEMMA DrawObeys ==
    ASSUME CrawlAssumption, CrawlObeys, Draw
    PROVE  CrawlObeys'
  <1> DEFINE item == Head(crawl.queue)
             drawn == [url |-> item.url, depth |-> item.depth, at |-> item.url, hops |-> 0,
                       result |-> IF CanFetch(item.url) THEN Asking ELSE Nil]
             batch == IF Admitted(crawl, item) THEN Append(crawl.batch, drawn) ELSE crawl.batch
             seen == IF Admitted(crawl, item) THEN crawl.seen \cup {item.url} ELSE crawl.seen
  <1>1. /\ site \in Sites /\ crawl \in CrawlRow /\ site' = site /\ mode' = mode /\ known' = known /\ crawl.queue # <<>>
        /\ crawl' = [crawl EXCEPT !.queue = Tail(crawl.queue), !.seen = seen, !.batch = batch]
    BY DEF CrawlObeys, Draw, MayDraw
  <1>2. crawl.queue \in Seq(QueueRow) /\ crawl.batch \in Seq(ItemRow) /\ crawl.seen \in SUBSET URLs
    BY <1>1 DEF CrawlRow
  <1>3. item \in QueueRow /\ Tail(crawl.queue) \in Seq(QueueRow)
    BY <1>1, <1>2
  <1>4. drawn \in ItemRow
    BY <1>3 DEF QueueRow, ItemRow
  <1>5. batch \in Seq(ItemRow) /\ seen \in SUBSET URLs
    <2> HIDE DEF item, drawn
    <2> QED
      BY <1>2, <1>3, <1>4 DEF QueueRow
  <1>6. \A k \in DOMAIN batch : ItemObeys(batch[k])
    <2>1. Admitted(crawl, item) => ItemObeys(drawn)
      <3>1. drawn.result \in {Asking, Nil} /\ drawn.url = item.url
        OBVIOUS
      <3>2. drawn.result \notin PageRow
        BY <3>1 DEF PageRow, Asking, Nil
      <3> HIDE DEF drawn, item
      <3> QED
        BY <3>1, <3>2 DEF Admitted, ItemObeys
    <2>2. \A k \in DOMAIN crawl.batch : ItemObeys(crawl.batch[k])
      BY DEF CrawlObeys
    <2> HIDE DEF drawn, item
    <2>3. CASE Admitted(crawl, item)
      <3>1. \A k \in DOMAIN batch : (k \in DOMAIN crawl.batch /\ batch[k] = crawl.batch[k]) \/ batch[k] = drawn
        BY <1>2, <1>4, <2>3
      <3> QED
        BY <2>1, <2>2, <2>3, <3>1
    <2> QED
      BY <2>2, <2>3
  <1> HIDE DEF batch, seen
  <1>7. crawl' \in CrawlRow /\ crawl'.asked = crawl.asked /\ crawl'.pages = crawl.pages /\ crawl'.batch = batch
    BY <1>1, <1>3, <1>5 DEF CrawlRow
  <1> QED
    BY <1>1, <1>6, <1>7, SameSite DEF CrawlObeys

\* A batch is sent.
LEMMA SendBatchObeys ==
    ASSUME CrawlObeys, SendBatch
    PROVE  CrawlObeys'
  <1>1. /\ site \in Sites /\ crawl \in CrawlRow /\ site' = site /\ mode' = mode /\ known' = known
        /\ crawl' = [crawl EXCEPT !.at = "fetching"]
    BY DEF CrawlObeys, SendBatch
  <1>2. crawl' \in CrawlRow /\ crawl'.asked = crawl.asked /\ crawl'.pages = crawl.pages /\ crawl'.batch = crawl.batch
    BY <1>1 DEF CrawlRow
  <1> QED
    BY <1>1, <1>2, SameSite DEF CrawlObeys

-----------------------------------------------------------------------------
\* The item a goroutine asked for, with what it knows now.
WithItem(k, y, bytes, A) == [crawl EXCEPT !.batch[k] = y, !.loaded = bytes, !.asked = A]

\* One item of the batch changes, and what is asked for is allowed.
LEMMA ItemObeysStep ==
    ASSUME CrawlObeys, site' = site, mode' = mode, known' = known, NEW k \in DOMAIN crawl.batch, NEW y \in ItemRow, ItemObeys(y),
           NEW bytes \in Nat, NEW A \in SUBSET URLs, \A u \in A : Allowed(u),
           crawl' = WithItem(k, y, bytes, A)
    PROVE  CrawlObeys'
  <1> DEFINE batch == [crawl.batch EXCEPT ![k] = y]
  <1>1. /\ crawl \in CrawlRow /\ crawl.batch \in Seq(ItemRow)
        /\ crawl' = [crawl EXCEPT !.batch = batch, !.loaded = bytes, !.asked = A]
    BY DEF CrawlObeys, CrawlRow, WithItem
  <1>2. batch \in Seq(ItemRow) /\ DOMAIN batch = DOMAIN crawl.batch /\ batch[k] = y
        /\ \A i \in DOMAIN crawl.batch : i # k => batch[i] = crawl.batch[i]
    BY <1>1
  <1>3. \A i \in DOMAIN batch : ItemObeys(batch[i])
    BY <1>2 DEF CrawlObeys
  <1> HIDE DEF batch
  <1>4. crawl' \in CrawlRow /\ crawl'.asked = A /\ crawl'.pages = crawl.pages /\ crawl'.batch = batch
    BY <1>1, <1>2 DEF CrawlRow
  <1> QED
    BY <1>3, <1>4, SameSite DEF CrawlObeys

\* What a request yields is nothing, a failure or a page that may be fetched.
LEMMA Responses ==
    ASSUME CrawlAssumption, site \in Sites, NEW K, PagesObey(K), NEW url \in URLs, NEW u \in URLs, CanFetch(u)
    PROVE  LET r == Response(K, url, u)
           IN r \in {Asking, Nil, Broken} \cup PageRow /\ r # Asking /\ (r \in PageRow => CanFetch(r.url))
  <1>1. /\ Doc(u).size \in Nat /\ (InOrigin(Doc(u).to) => Doc(u).to \in URLs)
        /\ Links(Doc(u)) \in Seq(URLs)
    BY SiteFacts
  <1>2. Nil # Asking /\ Broken # Asking /\ Nil \notin PageRow /\ Broken \notin PageRow
    BY DEF Nil, Asking, Broken, PageRow
  <1>3. ASSUME NEW v \in URLs, NEW size \in Nat, NEW links \in Seq(URLs)
        PROVE  Page(v, u, size, links) \in PageRow /\ Page(v, u, size, links).url = v
               /\ Page(v, u, size, links) # Asking
    BY DEF Page, PageRow, Asking
  <1>5. CASE Response(K, url, u) \in {Nil, Broken}
    BY <1>2, <1>5
  <1>6. CASE NotModified(K, url, u) /\ Response(K, url, u) = Reused(u, K[url])
    <2>1. K[url].text = u /\ K[url].links \in Seq(URLs) /\ K[url].size \in Nat
      BY <1>6 DEF NotModified, PagesObey
    <2> QED
      BY <1>2, <1>3, <1>6, <2>1 DEF Reused
  <1>7. CASE Response(K, url, u) = Page(u, u, Doc(u).size, <<>>)
    <2>1. <<>> \in Seq(URLs)
      OBVIOUS
    <2>2. Page(u, u, Doc(u).size, <<>>) \in PageRow /\ Page(u, u, Doc(u).size, <<>>).url = u
          /\ Page(u, u, Doc(u).size, <<>>) # Asking
      BY <1>1, <1>3, <2>1
    <2> QED
      BY <1>7, <2>2
  <1>8. CASE InOrigin(Doc(u).to) /\ CanFetch(Doc(u).to)
             /\ Response(K, url, u) = Page(Doc(u).to, u, Doc(u).size, Links(Doc(u)))
    BY <1>1, <1>3, <1>8
  <1> QED
    BY <1>5, <1>6, <1>7, <1>8 DEF Response

\* What TinyFish makes of a URL.
LEMMA FishResults ==
    ASSUME CrawlAssumption, site \in Sites, NEW u \in URLs
    PROVE  LET r == FishResult(u)
           IN r \in {Asking, Nil, Broken} \cup PageRow /\ r # Asking /\ (r \in PageRow => CanFetch(r.url))
  <1> DEFINE final == FinalUrl(u)
             n == Min2(MaxLinks, Len(Links(Doc(final))))
  <1>1. CASE FishResult(u) = Broken
    <2>1. Broken # Asking /\ Broken \notin PageRow
      BY DEF Broken, Asking, PageRow
    <2> QED
      BY <1>1, <2>1
  <1>2. CASE InOrigin(final) /\ CanFetch(final)
             /\ FishResult(u) = Page(final, final, Doc(final).size, SubSeq(Links(Doc(final)), 1, n))
    <2>1. final \in URLs
      BY <1>2, SiteFacts DEF FinalUrl
    <2>2. Doc(final).size \in Nat /\ Links(Doc(final)) \in Seq(URLs) /\ MaxLinks \in Nat
      BY <2>1, SiteFacts
    <2>3. n \in Nat /\ n <= Len(Links(Doc(final)))
      BY <2>2 DEF Min2
    <2> HIDE DEF n, final
    <2>4. SubSeq(Links(Doc(final)), 1, n) \in Seq(URLs)
      BY <2>2, <2>3
    <2> QED
      BY <1>2, <2>1, <2>2, <2>4 DEF Page, PageRow, Asking
  <1> QED
    BY <1>1, <1>2 DEF FishResult

\* One request of a goroutine (getWithHeaders): each hop is checked before it.
LEMMA GetObeys ==
    ASSUME CrawlAssumption, CrawlObeys, NEW k \in 1..Concurrency, Get(k)
    PROVE  CrawlObeys'
  <1> DEFINE item == crawl.batch[k]
             size == Body(item)
             broken == [item EXCEPT !.result = Broken]
             answered == IF Overdrawn(size) \/ size > MaxPageBytes THEN broken
                         ELSE IF Doc(item.at).answer = "redirect" THEN Followed(item)
                         ELSE [item EXCEPT !.result = Response(known, item.url, item.at)]
  <1>1. /\ site \in Sites /\ crawl \in CrawlRow /\ crawl.batch \in Seq(ItemRow) /\ k \in DOMAIN crawl.batch
        /\ site' = site /\ mode' = mode /\ known' = known /\ mode.crawler = "builtin" /\ item.result = Asking
        /\ crawl' = IF MayAsk(item.at)
                    THEN [crawl EXCEPT !.batch[k] = answered, !.loaded = Load(size), !.asked = @ \cup {item.at}]
                    ELSE [crawl EXCEPT !.batch[k].result = Broken]
    BY DEF CrawlObeys, CrawlRow, Get
  <1>2. item \in ItemRow
    BY <1>1
  <1>3. item.url \in URLs /\ item.depth \in Nat /\ item.at \in URLs /\ item.hops \in Nat
    BY <1>2 DEF ItemRow
  <1>4. ASSUME NEW r \in {Nil, Broken} \cup PageRow, r \in PageRow => CanFetch(r.url)
        PROVE  [item EXCEPT !.result = r] \in ItemRow /\ ItemObeys([item EXCEPT !.result = r])
    BY <1>1, <1>2, <1>4 DEF ItemRow, ItemObeys
  <1>5. Broken \notin PageRow
    BY DEF Broken, PageRow
  <1>6. broken \in ItemRow /\ ItemObeys(broken)
    BY <1>4, <1>5
  <1>7. size \in Nat /\ crawl.loaded \in Nat /\ Load(size) \in Nat
    BY <1>1, <1>3, SiteFacts DEF Load, CrawlRow, Body
  <1>8. CASE ~ MayAsk(item.at)
    <2>1. crawl' = WithItem(k, broken, crawl.loaded, crawl.asked)
      BY <1>1, <1>8 DEF CrawlRow, WithItem
    <2>2. crawl.asked \in SUBSET URLs /\ \A u \in crawl.asked : Allowed(u)
      BY <1>1 DEF CrawlObeys, CrawlRow
    <2> HIDE DEF broken, item, size, answered
    <2> QED
      BY <1>1, <1>6, <1>7, <2>1, <2>2, ItemObeysStep
  <1>9. CASE MayAsk(item.at)
    <2>1. CanFetch(item.at)
      BY <1>9 DEF MayAsk
    <2>2. answered \in ItemRow /\ ItemObeys(answered)
      <3>1. CASE answered = broken
        BY <1>6, <3>1
      <3>2. CASE answered = Followed(item)
        <4>1. CASE Followed(item) = broken
          BY <1>6, <3>2, <4>1
        <4>2. CASE InOrigin(Doc(item.at).to) /\ Followed(item) = [item EXCEPT !.at = Doc(item.at).to, !.hops = NextHop(@)]
          <5>1. Doc(item.at).to \in URLs
            BY <1>1, <1>3, <4>2, SiteFacts
          <5>2. NextHop(item.hops) \in Nat
            BY <1>3 DEF NextHop
          <5>3. Followed(item) \in ItemRow /\ Followed(item).url = item.url /\ Followed(item).result = Asking
            BY <1>1, <1>2, <4>2, <5>1, <5>2 DEF ItemRow
          <5>4. Asking \notin PageRow
            BY DEF Asking, PageRow
          <5> QED
            BY <1>1, <3>2, <5>3, <5>4 DEF ItemObeys
        <4> QED
          BY <4>1, <4>2 DEF Followed
      <3>3. CASE answered = [item EXCEPT !.result = Response(known, item.url, item.at)]
        <4>1. Response(known, item.url, item.at) \in {Nil, Broken} \cup PageRow
              /\ (Response(known, item.url, item.at) \in PageRow => CanFetch(Response(known, item.url, item.at).url))
          BY <1>1, <1>3, <2>1, Responses DEF CrawlObeys
        <4> QED
          BY <1>4, <3>3, <4>1
      <3> QED
        BY <3>1, <3>2, <3>3
    <2> HIDE DEF answered, size, item
    <2>3. crawl' = WithItem(k, answered, Load(size), crawl.asked \cup {item.at})
      BY <1>1, <1>9 DEF CrawlRow, WithItem
    <2>4. crawl.asked \cup {item.at} \in SUBSET URLs /\ \A u \in crawl.asked \cup {item.at} : Allowed(u)
      BY <1>1, <1>3, <2>1 DEF CrawlObeys, CrawlRow, Allowed
    <2> QED
      BY <1>1, <1>7, <2>2, <2>3, <2>4, ItemObeysStep
  <1> QED
    BY <1>8, <1>9

\* A request that fails.
LEMMA GetFailsObeys ==
    ASSUME CrawlObeys, NEW k \in 1..Concurrency, GetFails(k)
    PROVE  CrawlObeys'
  <1> DEFINE broken == [crawl.batch[k] EXCEPT !.result = Broken]
  <1>1. /\ crawl \in CrawlRow /\ crawl.batch \in Seq(ItemRow) /\ k \in DOMAIN crawl.batch
        /\ site' = site /\ mode' = mode /\ known' = known /\ mode.crawler = "builtin"
        /\ crawl' = [crawl EXCEPT !.batch[k].result = Broken]
    BY DEF CrawlObeys, CrawlRow, GetFails
  <1>2. crawl.batch[k] \in ItemRow
    BY <1>1
  <1>3. Broken \notin PageRow
    BY DEF Broken, PageRow
  <1>4. broken \in ItemRow /\ ItemObeys(broken)
    BY <1>1, <1>2, <1>3 DEF ItemRow, ItemObeys
  <1>5. crawl' = WithItem(k, broken, crawl.loaded, crawl.asked)
    BY <1>1 DEF CrawlRow, WithItem
  <1>6. crawl.asked \in SUBSET URLs /\ crawl.loaded \in Nat /\ \A u \in crawl.asked : Allowed(u)
    BY <1>1 DEF CrawlObeys, CrawlRow
  <1> HIDE DEF broken
  <1> QED
    BY <1>1, <1>4, <1>5, <1>6, ItemObeysStep

\* The call of TinyFish, for a batch that was checked.
LEMMA FishFetchObeys ==
    ASSUME CrawlAssumption, CrawlObeys, FishFetch
    PROVE  CrawlObeys'
  <1> DEFINE batch == [i \in DOMAIN crawl.batch |-> [crawl.batch[i] EXCEPT !.result = FishResult(crawl.batch[i].url)]]
             asked == crawl.asked \cup {crawl.batch[i].url : i \in DOMAIN crawl.batch}
  <1>1. /\ site \in Sites /\ crawl \in CrawlRow /\ crawl.batch \in Seq(ItemRow) /\ crawl.asked \in SUBSET URLs
        /\ site' = site /\ mode' = mode /\ known' = known /\ mode.crawler = "tinyfish"
        /\ crawl' = [crawl EXCEPT !.asked = asked, !.batch = batch]
    BY DEF CrawlObeys, CrawlRow, FishFetch
  <1>2. ASSUME NEW i \in DOMAIN crawl.batch
        PROVE  batch[i] \in ItemRow /\ ItemObeys(batch[i]) /\ crawl.batch[i].url \in URLs /\ CanFetch(crawl.batch[i].url)
    <2>1. crawl.batch[i] \in ItemRow
      BY <1>1
    <2>2. crawl.batch[i].url \in URLs /\ CanFetch(crawl.batch[i].url)
      BY <1>1, <2>1 DEF ItemRow, CrawlObeys, ItemObeys
    <2>3. FishResult(crawl.batch[i].url) \in {Asking, Nil, Broken} \cup PageRow
          /\ (FishResult(crawl.batch[i].url) \in PageRow => CanFetch(FishResult(crawl.batch[i].url).url))
      BY <1>1, <2>2, FishResults
    <2> QED
      BY <2>1, <2>2, <2>3 DEF ItemRow, ItemObeys
  <1>3. batch \in Seq(ItemRow) /\ DOMAIN batch = DOMAIN crawl.batch
    <2>1. DOMAIN crawl.batch = 1..Len(crawl.batch) /\ Len(crawl.batch) \in Nat
      BY <1>1
    <2>2. DOMAIN batch = DOMAIN crawl.batch
      OBVIOUS
    <2>3. batch = [i \in 1..Len(crawl.batch) |-> batch[i]]
      BY <2>1
    <2> HIDE DEF batch
    <2> QED
      BY <1>2, <2>1, <2>2, <2>3
  <1>4. asked \in SUBSET URLs /\ \A u \in asked : Allowed(u)
    BY <1>1, <1>2 DEF CrawlObeys, Allowed
  <1>5. \A i \in DOMAIN batch : ItemObeys(batch[i])
    BY <1>2, <1>3
  <1> HIDE DEF batch, asked
  <1>6. crawl' \in CrawlRow /\ crawl'.asked = asked /\ crawl'.pages = crawl.pages /\ crawl'.batch = batch
    BY <1>1, <1>3, <1>4 DEF CrawlRow
  <1> QED
    BY <1>1, <1>4, <1>5, <1>6, SameSite DEF CrawlObeys

\* The first of a batch is merged, and the rest remain in order.
LEMMA FirstTaken ==
    ASSUME NEW T, NEW s \in Seq(T), 1 \in DOMAIN s
    PROVE  /\ s[1] \in T /\ RemoveAt(s, 1) \in Seq(T) /\ Len(s) \in Nat /\ Len(RemoveAt(s, 1)) = Len(s) - 1
           /\ \A k \in 1..Len(s) - 1 : RemoveAt(s, 1)[k] = s[k + 1] /\ k + 1 \in DOMAIN s
  <1> DEFINE t == SubSeq(s, 2, Len(s))
  <1>1. DOMAIN s = 1..Len(s) /\ Len(s) \in Nat /\ Len(s) >= 1 /\ s[1] \in T
    OBVIOUS
  <1>2. t \in Seq(T) /\ Len(t) = Len(s) - 1 /\ \A k \in 1..Len(s) - 1 : t[k] = s[k + 1]
    BY <1>1
  <1>3. RemoveAt(s, 1) = SubSeq(s, 1, 1 - 1) \o SubSeq(s, 1 + 1, Len(s))
    BY Zenon DEF RemoveAt
  <1>4. SubSeq(s, 1, 1 - 1) = <<>> /\ 1 + 1 = 2
    OBVIOUS
  <1>5. <<>> \o t = t
    BY Zenon, <1>2, ConcatEmptySeq
  <1>6. RemoveAt(s, 1) = t
    BY Zenon, <1>3, <1>4, <1>5
  <1>7. \A k \in 1..Len(s) - 1 : k + 1 \in DOMAIN s
    BY <1>1
  <1> HIDE DEF t
  <1> QED
    BY Zenon, <1>1, <1>2, <1>6, <1>7

\* The links of a page that are new to a capture, as many as it has room for.
LEMMA LinksOfSite ==
    ASSUME MaxLinks \in Nat, DiscoveredCap \in Nat, NEW c, NEW page \in PageRow, NEW depth \in Nat,
           Cardinality(c.enqueued) \in Nat
    PROVE  NewLinks(c, page, depth) \in Seq(URLs)
  <1> DEFINE n == Min2(MaxLinks, Len(page.links))
             links == SubSeq(page.links, 1, n)
             P == {k \in DOMAIN links : links[k] \notin c.enqueued}
             unseen == ElementsAt(links, P)
             room == IF DiscoveredCap > Cardinality(c.enqueued) THEN DiscoveredCap - Cardinality(c.enqueued) ELSE 0
             m == Min2(room, Len(unseen))
  <1>1. page.links \in Seq(URLs)
    BY DEF PageRow
  <1>2. n \in Nat /\ n <= Len(page.links)
    BY <1>1 DEF Min2
  <1>3. links \in Seq(URLs)
    <2> HIDE DEF n
    <2> QED
      BY <1>1, <1>2
  <1>4. P \subseteq DOMAIN links
    OBVIOUS
  <1> HIDE DEF links, P
  <1>5. unseen \in Seq(URLs)
    <2>1. unseen \in Seq({x \in URLs : \E k \in P : x = links[k]})
      BY <1>3, <1>4, Elements
    <2> HIDE DEF unseen
    <2> QED
      BY <2>1
  <1> HIDE DEF unseen
  <1>6. m \in Nat /\ m <= Len(unseen)
    <2>1. room \in Nat
      OBVIOUS
    <2> HIDE DEF room
    <2> QED
      BY <1>5, <2>1 DEF Min2
  <1> HIDE DEF m
  <1>7. SubSeq(unseen, 1, m) \in Seq(URLs) /\ <<>> \in Seq(URLs)
    BY <1>5, <1>6
  <1> QED
    BY <1>7 DEF NewLinks, m, room, unseen, P, links, n

\* Merging a page adds its name and its links to the capture.
LEMMA MergeTyped ==
    ASSUME MaxLinks \in Nat, DiscoveredCap \in Nat, NEW c \in CrawlRow,
           NEW url \in URLs, NEW depth \in Nat, NEW page \in PageRow
    PROVE  LET d == Merge(c, url, depth, page)
           IN /\ d \in CrawlRow /\ d.asked = c.asked /\ d.batch = c.batch /\ d.at = c.at
              /\ DOMAIN d.pages = DOMAIN c.pages \cup {page.url}
  <1> DEFINE links == NewLinks(c, page, depth)
             kept == Kept(c, url, page)
             pages == [u \in DOMAIN c.pages \cup {page.url} |-> IF u = page.url THEN page ELSE c.pages[u]]
             more == [k \in DOMAIN links |-> [url |-> links[k], depth |-> depth + 1]]
             d == Merge(c, url, depth, page)
  <1>1. /\ c.enqueued \in SUBSET URLs /\ IsFiniteSet(c.enqueued) /\ c.kept \in Nat /\ c.queue \in Seq(QueueRow)
        /\ page.url \in URLs /\ page.size \in Nat
    BY DEF CrawlRow, PageRow
  <1>2. Cardinality(c.enqueued) \in Nat
    BY <1>1, FS_CardinalityType
  <1>3. links \in Seq(URLs)
    BY <1>2, LinksOfSite
  <1>4. kept \in Nat
    BY <1>1 DEF Kept
  <1>5. PICK D \in SUBSET URLs : c.pages \in [D -> PageRow]
    BY DEF CrawlRow
  <1>6. pages \in [D \cup {page.url} -> PageRow] /\ DOMAIN pages = DOMAIN c.pages \cup {page.url}
    BY <1>5
  <1>7. pages \in UNION {[E -> PageRow] : E \in SUBSET URLs}
    BY <1>1, <1>6
  <1> HIDE DEF links
  <1>8. more \in Seq(QueueRow)
    <2>1. DOMAIN links = 1..Len(links) /\ Len(links) \in Nat /\ \A k \in DOMAIN links : links[k] \in URLs
      BY <1>3
    <2>2. \A k \in 1..Len(links) : [url |-> links[k], depth |-> depth + 1] \in QueueRow
      BY <2>1 DEF QueueRow
    <2> QED
      BY <2>1, <2>2
  <1>9. ToSet(links) \in SUBSET URLs /\ IsFiniteSet(ToSet(links))
    <2>1. DOMAIN links = 1..Len(links) /\ Len(links) \in Nat /\ \A k \in DOMAIN links : links[k] \in URLs
      BY <1>3
    <2>2. IsFiniteSet(1..Len(links))
      BY <2>1, FS_Interval, 1 \in Int, Len(links) \in Int
    <2> DEFINE f == [k \in 1..Len(links) |-> links[k]]
    <2>3. f \in Surjection(1..Len(links), ToSet(links))
      BY <2>1 DEF Surjection, ToSet
    <2>4. IsFiniteSet(ToSet(links))
      BY <2>2, <2>3, FS_Surjection
    <2> QED
      BY <2>1, <2>4 DEF ToSet
  <1>10. IsFiniteSet(c.enqueued \cup ToSet(links))
    BY <1>1, <1>9, FS_Union
  <1> HIDE DEF kept, pages, more
  <1>11. \/ page.url \in DOMAIN c.pages /\ d = [c EXCEPT !.kept = kept]
         \/ d = [c EXCEPT !.kept = kept, !.pages = pages, !.enqueued = c.enqueued \cup ToSet(links),
                          !.queue = c.queue \o more]
    BY DEF Merge, kept, pages, more, links
  <1> HIDE DEF d
  <1>12. CASE page.url \in DOMAIN c.pages /\ d = [c EXCEPT !.kept = kept]
    <2>1. DOMAIN c.pages = DOMAIN c.pages \cup {page.url}
      BY <1>12
    <2> QED
      BY <1>4, <1>12, <2>1 DEF CrawlRow, d
  <1>13. CASE d = [c EXCEPT !.kept = kept, !.pages = pages, !.enqueued = c.enqueued \cup ToSet(links),
                            !.queue = c.queue \o more]
    <2>1. c.queue \o more \in Seq(QueueRow) /\ c.enqueued \cup ToSet(links) \in SUBSET URLs
      BY <1>1, <1>8, <1>9
    <2>2. d \in CrawlRow /\ d.asked = c.asked /\ d.batch = c.batch /\ d.at = c.at /\ d.pages = pages
      BY <1>4, <1>7, <1>10, <1>13, <2>1 DEF CrawlRow
    <2> QED
      BY <1>6, <2>2 DEF d
  <1> QED
    BY <1>11, <1>12, <1>13

\* A result is merged: its name was checked when it was made.
LEMMA TakeObeys ==
    ASSUME CrawlAssumption, CrawlObeys, NEW i \in 1..Concurrency, Take(i)
    PROVE  CrawlObeys'
  <1> DEFINE item == crawl.batch[1]
             left == RemoveAt(crawl.batch, 1)
             rest == [crawl EXCEPT !.batch = left]
             after == AfterTake(1)
  <1>1. /\ site \in Sites /\ crawl \in CrawlRow /\ crawl.batch \in Seq(ItemRow) /\ 1 \in DOMAIN crawl.batch
        /\ site' = site /\ mode' = mode /\ known' = known /\ item.result # Asking /\ crawl' = NextBatch(after)
    BY DEF CrawlObeys, CrawlRow, Take, Takes
  <1>2. /\ item \in ItemRow /\ left \in Seq(ItemRow) /\ Len(left) = Len(crawl.batch) - 1 /\ Len(crawl.batch) \in Nat
        /\ \A k \in 1..Len(crawl.batch) - 1 : left[k] = crawl.batch[k + 1] /\ k + 1 \in DOMAIN crawl.batch
    BY <1>1, FirstTaken
  <1>3. ItemObeys(item) /\ \A k \in DOMAIN left : ItemObeys(left[k])
    <2> HIDE DEF left
    <2> QED
      BY <1>1, <1>2 DEF CrawlObeys
  <1>4. rest \in CrawlRow /\ rest.asked = crawl.asked /\ rest.pages = crawl.pages /\ rest.batch = left
    <2> HIDE DEF left
    <2> QED
      BY <1>1, <1>2 DEF CrawlRow
  <1>5. CASE after = Failed
    <2>1. crawl' = Failed
      BY <1>1, <1>5 DEF NextBatch, Failed
    <2> QED
      BY <1>1, <2>1, EndsObey DEF Failed
  <1>6. ASSUME after \in CrawlRow, after.asked = crawl.asked, after.batch = left, \A u \in DOMAIN after.pages : Allowed(u)
        PROVE  CrawlObeys'
    <2>1. crawl' \in CrawlRow /\ crawl'.asked = after.asked /\ crawl'.pages = after.pages /\ crawl'.batch = after.batch
      <3> HIDE DEF after
      <3> QED
        BY <1>1, <1>6 DEF CrawlRow, NextBatch
    <2>2. \A u \in crawl.asked : Allowed(u)
      BY DEF CrawlObeys
    <2> HIDE DEF after, left
    <2> QED
      BY <1>1, <1>3, <1>6, <2>1, <2>2, SameSite DEF CrawlObeys
  <1>7. \A u \in DOMAIN crawl.pages : Allowed(u)
    BY DEF CrawlObeys
  <1>8. CASE item.result = Nil /\ after = rest
    BY <1>4, <1>6, <1>7, <1>8
  <1>9. CASE item.result # Broken /\ item.result # Nil /\ after = Merge(rest, item.url, item.depth, item.result)
    <2>1. item.result \in PageRow /\ item.url \in URLs /\ item.depth \in Nat /\ CanFetch(item.result.url)
      BY <1>1, <1>2, <1>3, <1>9 DEF ItemRow, ItemObeys
    <2>2. MaxLinks \in Nat /\ DiscoveredCap \in Nat
      BY DEF CrawlAssumption
    <2> HIDE DEF rest, after, item, left
    <2>3. after \in CrawlRow /\ after.asked = rest.asked /\ after.batch = rest.batch
          /\ DOMAIN after.pages = DOMAIN rest.pages \cup {item.result.url}
      BY <1>4, <1>9, <2>1, <2>2, MergeTyped
    <2> QED
      BY <1>4, <1>6, <1>7, <2>1, <2>3 DEF Allowed
  <1> QED
    BY <1>5, <1>8, <1>9 DEF AfterTake

\* The ends of a capture, and a new one.
LEMMA EndingsObey ==
    ASSUME CrawlAssumption, CrawlObeys, FishFails \/ EndValidation \/ Publish
    PROVE  CrawlObeys'
  <1>1. /\ site \in Sites /\ crawl \in CrawlRow /\ site' = site /\ mode' = mode /\ known' = known
    BY DEF CrawlObeys, FishFails, EndValidation, Publish
  <1>2. CASE crawl' = Failed
    BY <1>1, <1>2, EndsObey DEF Failed
  <1>3. CASE crawl' = [FreshCrawl EXCEPT !.at = "validated", !.asked = crawl.asked]
    BY <1>1, <1>3, EndsObey
  <1>4. CASE crawl' = [crawl EXCEPT !.at = "published"]
    <2>1. crawl' \in CrawlRow /\ crawl'.asked = crawl.asked /\ crawl'.pages = crawl.pages /\ crawl'.batch = crawl.batch
      BY <1>1, <1>4 DEF CrawlRow
    <2> QED
      BY <1>1, <2>1, SameSite DEF CrawlObeys
  <1> QED
    BY <1>2, <1>3, <1>4 DEF FishFails, EndValidation, Publish

\* The capture of a JSON document.
LEMMA GetJSONObeys ==
    ASSUME CrawlAssumption, CrawlObeys, GetJSON
    PROVE  CrawlObeys'
  <1> DEFINE pages == [u \in {site.start} |-> Page(u, u, Doc(site.start).size, <<>>)]
  <1>1. /\ site \in Sites /\ crawl \in CrawlRow /\ site' = site /\ mode' = mode /\ known' = known
        /\ mode.crawler = "json"
        /\ \/ crawl' = Failed
           \/ crawl' = [crawl EXCEPT !.at = "validated"]
           \/ crawl' = [crawl EXCEPT !.at = "published", !.pages = pages]
    BY DEF CrawlObeys, GetJSON
  <1>2. CASE crawl' = Failed
    BY <1>1, <1>2, EndsObey DEF Failed
  <1>3. CASE crawl' = [crawl EXCEPT !.at = "validated"]
    <2>1. crawl' \in CrawlRow /\ crawl'.asked = crawl.asked /\ crawl'.pages = crawl.pages /\ crawl'.batch = crawl.batch
      BY <1>1, <1>3 DEF CrawlRow
    <2> QED
      BY <1>1, <2>1, SameSite DEF CrawlObeys
  <1>4. CASE crawl' = [crawl EXCEPT !.at = "published", !.pages = pages]
    <2>1. site.start \in URLs /\ Doc(site.start).size \in Nat
      BY <1>1, SiteFacts
    <2>2. Page(site.start, site.start, Doc(site.start).size, <<>>) \in PageRow
      <3>1. <<>> \in Seq(URLs)
        OBVIOUS
      <3> QED
        BY <2>1, <3>1 DEF Page, PageRow
    <2>3. pages \in [{site.start} -> PageRow]
      BY <2>2
    <2>4. pages \in UNION {[D -> PageRow] : D \in SUBSET URLs}
      BY <2>1, <2>3
    <2> HIDE DEF pages
    <2>5. crawl' \in CrawlRow /\ crawl'.batch = crawl.batch
      BY <1>1, <1>4, <2>4 DEF CrawlRow
    <2> QED
      BY <1>1, <2>5, SameSite DEF CrawlObeys, Allowed
  <1> QED
    BY <1>1, <1>2, <1>3, <1>4

\* A new capture, conditional on the revision before it, on the one just
\* published, or on none.
LEMMA CaptureAgainObeys ==
    ASSUME CrawlAssumption, CrawlObeys, CaptureAgain
    PROVE  CrawlObeys'
  <1>1. /\ site \in Sites /\ crawl \in CrawlRow /\ site' = site /\ mode' = mode /\ crawl' = FreshCrawl
        /\ known' \in {known, <<>>, crawl.pages}
    BY DEF CrawlObeys, CaptureAgain
  <1>2. FreshCrawl \in CrawlRow
    BY FreshCaptures
  <1>3. crawl' \in CrawlRow /\ crawl'.asked = {} /\ DOMAIN crawl'.pages = {} /\ DOMAIN crawl'.batch = {}
    BY <1>1, <1>2 DEF FreshCrawl
  <1>4. PagesObey(known')
    <2>1. PagesObey(<<>>)
      BY DEF PagesObey
    <2>2. PagesObey(crawl.pages)
      <3>1. PICK D : crawl.pages \in [D -> PageRow]
        BY <1>1 DEF CrawlRow
      <3> QED
        BY <3>1 DEF PagesObey, PageRow
    <2> QED
      BY <1>1, <2>1, <2>2 DEF CrawlObeys
  <1>5. PagesObey(known)'
    BY <1>1, <1>4, SameSite DEF PagesObey
  <1> QED
    BY <1>1, <1>3, <1>5, SameSite DEF CrawlObeys

\* Every step keeps the invariant.
LEMMA CrawlStepObeys ==
    ASSUME CrawlAssumption, CrawlObeys, [CrawlNext]_crawlVars
    PROVE  CrawlObeys'
  <1>1. CASE UNCHANGED crawlVars
    BY <1>1, SameSite DEF crawlVars, CrawlObeys
  <1> QED
    BY <1>1, BeginObeys, DrawObeys, SendBatchObeys, GetObeys, GetFailsObeys, FishFetchObeys, TakeObeys, EndingsObey,
       GetJSONObeys, CaptureAgainObeys
    DEF CrawlNext, Crawl_

\* The invariant holds at the start.
LEMMA CrawlStartObeys ==
    ASSUME CrawlAssumption, CrawlInit
    PROVE  CrawlObeys
  <1>1. site \in Sites /\ crawl = FreshCrawl /\ known = site.known
    BY DEF CrawlInit
  <1>2. crawl \in CrawlRow
    BY <1>1, FreshCaptures
  <1>3. crawl.asked = {} /\ DOMAIN crawl.pages = {} /\ DOMAIN crawl.batch = {}
    BY <1>1 DEF FreshCrawl
  <1> QED
    BY <1>1, <1>2, <1>3, SiteFacts DEF CrawlObeys

\* The invariant implies what is claimed of robots.txt.
LEMMA ObeysRobots ==
    ASSUME CrawlAssumption, CrawlObeys
    PROVE  RobotsObeyed
  <1> SUFFICES ASSUME NEW u \in crawl.asked \cup DOMAIN crawl.pages PROVE InOrigin(u) /\ Allowed(u)
    BY DEF RobotsObeyed, Allowed
  <1>1. u \in URLs /\ site \in Sites
    BY DEF CrawlObeys, CrawlRow
  <1>2. InOrigin(u)
    BY <1>1, SiteFacts
  <1> QED
    BY <1>2 DEF CrawlObeys

-----------------------------------------------------------------------------
(***************************************************************************)
(* Captures of an unchanged site agree.  What a capture has asked, loaded  *)
(* and been answered so far depends on how its goroutines raced; the rest  *)
(* of its state, its view, does not.  A view has one next view, because    *)
(* the results of a batch are merged in its order and a result that is no  *)
(* failure is determined by the site; so there is one trace of views, and  *)
(* the invariant is that every capture is at a view of it, and that every  *)
(* fingerprint published is the one of its end.                            *)
(***************************************************************************)
Drafts(batch) == [k \in DOMAIN batch |-> [url |-> batch[k].url, depth |-> batch[k].depth]]
ViewRow(at, queue, enqueued, seen, batch, pages, kept) ==
    [at |-> at, queue |-> queue, enqueued |-> enqueued, seen |-> seen, batch |-> batch, pages |-> pages, kept |-> kept]
View(c) == ViewRow(c.at, c.queue, c.enqueued, c.seen, Drafts(c.batch), c.pages, c.kept)

\* f leads from a URL over h redirects.
Chain(url, h, f) ==
    /\ h \in Nat /\ f[0] = url
    /\ \A k \in 0..h - 1 : Doc(f[k]).answer = "redirect" /\ f[k + 1] = Doc(f[k]).to

\* What an item is answered by a capture that is conditional on K, if it does
\* not fail.
Outcome(K, url, r) ==
    /\ r # Broken
    /\ IF mode.crawler = "tinyfish" THEN r = FishResult(url)
       ELSE IF ~CanFetch(url) THEN r = Nil
       ELSE \E h, f : /\ Chain(url, h, f) /\ {url, f[h]} \subseteq URLs /\ Doc(f[h]).answer # "redirect"
                      /\ r = Response(K, url, f[h])

Drawn(v) ==
    LET item == Head(v.queue) IN
    [v EXCEPT !.queue = Tail(v.queue),
       !.seen = IF Admitted(v, item) THEN v.seen \cup {item.url} ELSE v.seen,
       !.batch = IF Admitted(v, item) THEN Append(v.batch, [url |-> item.url, depth |-> item.depth]) ELSE v.batch]

Merged(v, r) ==
    LET rest == [v EXCEPT !.batch = RemoveAt(v.batch, 1)]
    IN NextBatch(IF r = Nil THEN rest ELSE Merge(rest, v.batch[1].url, v.batch[1].depth, r))

Begun(v) ==
    IF mode.crawler = "builtin" /\ ~mode.validate THEN [v EXCEPT !.at = "sitemaps"] ELSE Frontier(v, {site.start})

\* The next view of a capture that does not fail.
Moves(K, v, w) ==
    /\ v.batch \in Seq(QueueRow)
    /\ \/ v.at = "start" /\ w = Begun(v)
       \/ v.at = "sitemaps" /\ w = Frontier(v, Seeds)
       \/ MayDraw(v) /\ w = Drawn(v)
       \/ MaySend(v) /\ w = [v EXCEPT !.at = "fetching"]
       \/ v.at = "fetching" /\ 1 \in DOMAIN v.batch /\ \E r : Outcome(K, v.batch[1].url, r) /\ w = Merged(v, r)
       \/ MayEnd(v) /\ w = [v EXCEPT !.at = "published"]

Trace(K, n, t) ==
    /\ n \in Nat /\ t[0] = View(FreshCrawl)
    /\ \A k \in 0..n - 1 : Moves(K, t[k], t[k + 1])

Reached(K, v) == \E n, t : Trace(K, n, t) /\ t[n] = v

ItemFollows(K, item) ==
    /\ mode.crawler # "tinyfish" /\ item.result = Asking =>
         CanFetch(item.url) /\ \E h, f : Chain(item.url, h, f) /\ f[h] = item.at
    /\ item.result \notin {Asking, Broken} => Outcome(K, item.url, item.result)

\* The pages a capture conditional on K publishes, which follow from the site.
Publishes(K, pages) ==
    IF mode.crawler = "json" THEN pages = [u \in {site.start} |-> Page(u, u, Doc(site.start).size, <<>>)]
    ELSE \E v : Reached(K, v) /\ v.at = "published" /\ pages = v.pages

\* A capture by the crawler can only reuse pages that were read as it would
\* read them, if no canonical name is redirected.
Incremental == mode.crawler \notin {"tinyfish", "json"} /\ ~mode.validate
Honest(pages) == NamesAreServed(site) /\ Incremental => Faithful(site, pages)

CrawlReplays ==
    /\ CrawlObeys /\ Honest(known) /\ Honest(crawl.pages)
    /\ \A k \in DOMAIN crawl.batch : ItemFollows(known, crawl.batch[k])
    /\ mode.crawler = "json" => crawl.at \notin {"sitemaps", "frontier", "fetching"}
    /\ mode.crawler # "json" /\ crawl.at \in {"start", "sitemaps", "frontier", "fetching"} => Reached(known, View(crawl))
    /\ \A x \in captured : Honest(x.previous) /\ Publishes(x.previous, x.pages)

\* A nonempty set of naturals has a least element.
LEMMA LeastNatural ==
    ASSUME NEW T \in SUBSET Nat, T # {}
    PROVE  \E x \in T : \A y \in T : x <= y
  <1> DEFINE R == {ss \in Nat \X Nat : ss[1] < ss[2]}
  <1>1. IsWellFoundedOn(R, Nat)
    BY NatLessThanWellFounded, Zenon DEF OpToRel
  <1>2. \A x, y \in Nat : y < x => <<y, x>> \in R
    OBVIOUS
  <1> HIDE DEF R
  <1>3. PICK x \in T : \A y \in T : ~(<<y, x>> \in R)
    BY <1>1, WFMin, Zenon
  <1>4. \A y \in T : ~(y < x)
    BY <1>2, <1>3
  <1> QED
    BY <1>4

\* Two walks from one place that take the same steps stay together.
LEMMA Walks ==
    ASSUME NEW f, NEW g, NEW n \in Nat, f[0] = g[0],
           \A k \in 0..n - 1 : f[k] = g[k] => f[k + 1] = g[k + 1]
    PROVE  \A k \in 0..n : f[k] = g[k]
  <1> DEFINE T == {k \in 0..n : f[k] # g[k]}
  <1> SUFFICES ASSUME T # {} PROVE FALSE
    OBVIOUS
  <1>1. T \in SUBSET Nat
    OBVIOUS
  <1>2. PICK k \in T : \A j \in T : k <= j
    BY <1>1, LeastNatural
  <1>3. k \in 0..n /\ f[k] # g[k] /\ k # 0
    OBVIOUS
  <1>4. k - 1 \in 0..n - 1 /\ k - 1 \in 0..n /\ k - 1 \notin T /\ (k - 1) + 1 = k
    BY <1>1, <1>2, <1>3
  <1>5. f[k - 1] = g[k - 1]
    BY <1>4
  <1>6. f[(k - 1) + 1] = g[(k - 1) + 1]
    BY <1>4, <1>5
  <1> QED
    BY <1>3, <1>4, <1>6

\* A chain of redirects ends at one URL.
LEMMA ChainEnds ==
    ASSUME NEW url, NEW h, NEW f, NEW i, NEW g, Chain(url, h, f), Chain(url, i, g),
           Doc(f[h]).answer # "redirect", Doc(g[i]).answer # "redirect"
    PROVE  f[h] = g[i]
  <1> SUFFICES ASSUME NEW n, NEW e, NEW m, NEW d, Chain(url, n, e), Chain(url, m, d), n <= m,
                      Doc(e[n]).answer # "redirect"
               PROVE  e[n] = d[m]
    <2>1. h \in Nat /\ i \in Nat
      BY DEF Chain
    <2> QED
      BY <2>1
  <1>1. n \in Nat /\ m \in Nat /\ e[0] = d[0] /\ \A k \in 0..n - 1 : k \in 0..m - 1
    BY DEF Chain
  <1>2. \A k \in 0..n - 1 : e[k] = d[k] => e[k + 1] = d[k + 1]
    BY <1>1 DEF Chain
  <1>3. e[n] = d[n]
    <2>1. n \in 0..n
      BY <1>1
    <2> QED
      BY <1>1, <1>2, <2>1, Walks
  <1>4. n = m
    <2> SUFFICES ASSUME n # m PROVE FALSE
      OBVIOUS
    <2>1. n \in 0..m - 1
      BY <1>1
    <2> QED
      BY <1>3, <2>1 DEF Chain
  <1> QED
    BY <1>3, <1>4

\* A URL has one result, if the capture does not fail.
LEMMA OneOutcome ==
    ASSUME NEW K, NEW url, NEW r, NEW q, Outcome(K, url, r), Outcome(K, url, q)
    PROVE  r = q
  <1>1. CASE mode.crawler = "tinyfish"
    BY <1>1 DEF Outcome
  <1>2. CASE mode.crawler # "tinyfish" /\ ~CanFetch(url)
    BY <1>2 DEF Outcome
  <1>3. CASE mode.crawler # "tinyfish" /\ CanFetch(url)
    <2>1. PICK h, f : Chain(url, h, f) /\ Doc(f[h]).answer # "redirect" /\ r = Response(K, url, f[h])
      BY <1>3 DEF Outcome
    <2>2. PICK i, g : Chain(url, i, g) /\ Doc(g[i]).answer # "redirect" /\ q = Response(K, url, g[i])
      BY <1>3 DEF Outcome
    <2>3. f[h] = g[i]
      BY <2>1, <2>2, ChainEnds
    <2> QED
      BY <2>1, <2>2, <2>3
  <1> QED
    BY <1>1, <1>2, <1>3

\* A view has one next view, and a published one has none.
LEMMA OneMove ==
    ASSUME NEW K, NEW v, NEW w, NEW x, Moves(K, v, w), Moves(K, v, x)
    PROVE  w = x
  <1> DEFINE n == BatchSize(v)
  <1>1. v.batch \in Seq(QueueRow)
    BY DEF Moves
  <1>2. Len(v.batch) \in Nat /\ (v.batch = <<>> => Len(v.batch) = 0)
    BY <1>1
  <1>3. MayDraw(v) => v.at = "frontier" /\ v.queue # <<>> /\ Len(v.batch) < n
    BY DEF MayDraw
  <1>4. MaySend(v) => v.at = "frontier" /\ v.batch # <<>> /\ (v.queue = <<>> \/ Len(v.batch) = n)
    BY DEF MaySend
  <1>5. MayEnd(v) => v.at = "frontier" /\ v.batch = <<>> /\ (v.queue = <<>> \/ n = 0)
    BY DEF MayEnd
  <1> HIDE DEF n
  <1>6. ~(MayDraw(v) /\ MaySend(v)) /\ ~(MayDraw(v) /\ MayEnd(v)) /\ ~(MaySend(v) /\ MayEnd(v))
    BY <1>2, <1>3, <1>4, <1>5
  <1>7. CASE v.at = "start" \/ v.at = "sitemaps"
    BY Zenon, <1>3, <1>4, <1>5, <1>7 DEF Moves
  <1>8. CASE v.at = "frontier"
    <2>1. ASSUME NEW y, Moves(K, v, y)
          PROVE  \/ MayDraw(v) /\ y = Drawn(v)
                 \/ MaySend(v) /\ y = [v EXCEPT !.at = "fetching"]
                 \/ MayEnd(v) /\ y = [v EXCEPT !.at = "published"]
      BY Zenon, <1>8, <2>1 DEF Moves
    <2>2. CASE MayDraw(v)
      <3>1. w = Drawn(v) /\ x = Drawn(v)
        BY Zenon, <1>6, <2>1, <2>2
      <3> QED
        BY <3>1
    <2>3. CASE MaySend(v)
      <3>1. w = [v EXCEPT !.at = "fetching"] /\ x = [v EXCEPT !.at = "fetching"]
        BY Zenon, <1>6, <2>1, <2>3
      <3> QED
        BY <3>1
    <2>4. CASE MayEnd(v)
      <3>1. w = [v EXCEPT !.at = "published"] /\ x = [v EXCEPT !.at = "published"]
        BY Zenon, <1>6, <2>1, <2>4
      <3> QED
        BY <3>1
    <2> QED
      BY Zenon, <2>1, <2>2, <2>3, <2>4
  <1>9. CASE v.at = "fetching"
    <2>1. PICK r : Outcome(K, v.batch[1].url, r) /\ w = Merged(v, r)
      BY Zenon, <1>3, <1>4, <1>5, <1>9 DEF Moves
    <2>2. PICK q : Outcome(K, v.batch[1].url, q) /\ x = Merged(v, q)
      BY Zenon, <1>3, <1>4, <1>5, <1>9 DEF Moves
    <2> QED
      BY <2>1, <2>2, OneOutcome
  <1> QED
    BY Zenon, <1>3, <1>4, <1>5, <1>7, <1>8, <1>9 DEF Moves

\* The trace of views ends at one place.
LEMMA OnePublication ==
    ASSUME NEW K, NEW v, NEW w, Reached(K, v), Reached(K, w), v.at = "published", w.at = "published"
    PROVE  v = w
  <1> SUFFICES ASSUME NEW n, NEW s, NEW m, NEW t, Trace(K, n, s), Trace(K, m, t), n <= m,
                      s[n].at = "published"
               PROVE  s[n] = t[m]
    <2>1. PICK n, s : Trace(K, n, s) /\ s[n] = v
      BY DEF Reached
    <2>2. PICK m, t : Trace(K, m, t) /\ t[m] = w
      BY DEF Reached
    <2>3. n \in Nat /\ m \in Nat
      BY <2>1, <2>2 DEF Trace
    <2> QED
      BY <2>1, <2>2, <2>3
  <1>1. n \in Nat /\ m \in Nat /\ s[0] = t[0] /\ \A k \in 0..n - 1 : k \in 0..m - 1
    BY DEF Trace
  <1>2. ASSUME NEW k \in 0..n - 1, s[k] = t[k] PROVE s[k + 1] = t[k + 1]
    <2>1. Moves(K, s[k], s[k + 1]) /\ Moves(K, t[k], t[k + 1])
      BY <1>1 DEF Trace
    <2> QED
      BY <1>2, <2>1, OneMove
  <1>3. s[n] = t[n]
    <2>1. n \in 0..n
      BY <1>1
    <2> QED
      BY <1>1, <1>2, <2>1, Walks
  <1>4. n = m
    <2> SUFFICES ASSUME n # m PROVE FALSE
      OBVIOUS
    <2>1. n \in 0..m - 1
      BY <1>1
    <2>2. Moves(K, t[n], t[n + 1])
      BY <2>1 DEF Trace
    <2> QED
      BY <1>3, <2>2 DEF Moves, MayDraw, MaySend, MayEnd
  <1> QED
    BY <1>3, <1>4

\* A page that was read before would be read the same way again: the name it is
\* kept under is its canonical name, which is not redirected, so the URL asked
\* for is that name.
LEMMA ReadAgain ==
    ASSUME Incremental, NamesAreServed(site), NEW K, Faithful(site, K), NEW url, NEW r, Outcome(K, url, r),
           CrawlAssumption, site \in Sites
    PROVE  Outcome(<<>>, url, r)
  <1>1. mode.crawler # "tinyfish" /\ ~mode.validate
    BY DEF Incremental
  <1>2. CASE ~CanFetch(url)
    BY <1>1, <1>2 DEF Outcome
  <1>3. CASE CanFetch(url)
    <2>1. PICK h, f : /\ Chain(url, h, f) /\ {url, f[h]} \subseteq URLs /\ Doc(f[h]).answer # "redirect"
                      /\ r = Response(K, url, f[h])
      BY <1>1, <1>3 DEF Outcome
    <2> DEFINE u == f[h]
    <2>2. r # Broken /\ ~NotModified(<<>>, url, u)
      BY DEF Outcome, NotModified
    <2>3. CASE ~NotModified(K, url, u)
      <3>1. Response(K, url, u) = Response(<<>>, url, u)
        BY <2>2, <2>3 DEF Response
      <3> QED
        BY <1>1, <1>3, <2>1, <2>2, <3>1 DEF Outcome
    <2>4. CASE NotModified(K, url, u)
      <3>1. /\ url \in DOMAIN K /\ K[url].text = u /\ Doc(u).answer = "page"
        BY <2>4 DEF NotModified
      <3>2. Doc(u).to = url /\ K[url] = Page(url, u, Doc(u).size, Links(Doc(u)))
        BY <2>1, <3>1 DEF Faithful, Doc, URLs
      <3>3. InOrigin(url) /\ Doc(url).answer # "redirect"
        <4>1. InOrigin(url)
          BY <2>1, SiteFacts
        <4> QED
          BY <2>1, <3>1, <3>2, <4>1 DEF NamesAreServed, Doc, URLs
      <3>4. u = url
        <4>1. h \in Nat /\ f[0] = url /\ (h # 0 => 0 \in 0..h - 1)
          BY <2>1 DEF Chain
        <4>2. h = 0
          BY <2>1, <3>3, <4>1 DEF Chain
        <4> QED
          BY <4>1, <4>2
      <3>5. r = Page(url, u, Doc(u).size, Links(Doc(u)))
        <4>1. r = Reused(u, K[url])
          BY <2>1, <2>4, <3>1 DEF Response
        <4>2. r = Page(u, K[url].text, K[url].size, K[url].links)
          BY <2>2, <4>1 DEF Reused
        <4> QED
          BY <3>2, <3>4, <4>2 DEF Page
      <3>6. Response(<<>>, url, u) = Page(url, u, Doc(u).size, Links(Doc(u)))
        BY <1>1, <1>3, <2>2, <3>1, <3>2, <3>3 DEF Response
      <3> QED
        BY <1>1, <1>3, <2>1, <2>2, <3>5, <3>6 DEF Outcome
    <2> QED
      BY <2>3, <2>4
  <1> QED
    BY <1>2, <1>3

\* So the pages it publishes do not depend on what it is conditional on.
LEMMA PublishedAgain ==
    ASSUME CrawlAssumption, site \in Sites, NamesAreServed(site), mode.crawler # "json",
           NEW K, Honest(K), NEW v, Reached(K, v)
    PROVE  Reached(<<>>, v)
  <1>1. ASSUME NEW url, NEW r, Outcome(K, url, r) PROVE Outcome(<<>>, url, r)
    <2>1. CASE Incremental
      BY <1>1, <2>1, ReadAgain DEF Honest
    <2>2. CASE mode.crawler = "tinyfish"
      BY <1>1, <2>2 DEF Outcome
    <2>3. CASE mode.crawler # "tinyfish" /\ mode.validate
      <3>1. \A u : Response(K, url, u) = Response(<<>>, url, u)
        BY <2>3 DEF Response, NotModified
      <3> QED
        BY <1>1, <2>3, <3>1 DEF Outcome
    <2> QED
      BY <2>1, <2>2, <2>3 DEF Incremental
  <1>2. ASSUME NEW x, NEW y, Moves(K, x, y) PROVE Moves(<<>>, x, y)
    BY Zenon, <1>1, <1>2 DEF Moves
  <1>3. ASSUME NEW n, NEW t, Trace(K, n, t) PROVE Trace(<<>>, n, t)
    BY <1>2, <1>3 DEF Trace
  <1> QED
    BY <1>3 DEF Reached

\* What the crawler reads or reuses, it would read the same way again.
LEMMA OutcomeHonest ==
    ASSUME CrawlAssumption, site \in Sites, NEW K, Honest(K), Incremental, NamesAreServed(site), NEW url, NEW r \in PageRow,
           Outcome(K, url, r)
    PROVE  Doc(r.text).to = r.url /\ r = Page(r.url, r.text, Doc(r.text).size, Links(Doc(r.text)))
  <1>1. Outcome(<<>>, url, r)
    BY ReadAgain DEF Honest
  <1>2. r # Nil /\ r # Broken
    BY DEF Nil, Broken, PageRow
  <1>3. PICK u : r = Response(<<>>, url, u) /\ ~NotModified(<<>>, url, u)
    BY <1>1, <1>2 DEF Outcome, Incremental, NotModified
  <1>4. r = Page(Doc(u).to, u, Doc(u).size, Links(Doc(u)))
    BY <1>2, <1>3 DEF Response, Incremental
  <1>5. r.url = Doc(u).to /\ r.text = u
    BY <1>4 DEF Page
  <1> QED
    BY <1>4, <1>5

\* What follows from the site and the mode is the same after a step.
LEMMA SameReplay ==
    ASSUME site' = site, mode' = mode
    PROVE  /\ \A K, url, r : Outcome(K, url, r)' <=> Outcome(K, url, r)
           /\ \A K, item : ItemFollows(K, item)' <=> ItemFollows(K, item)
           /\ \A K, v, w : Moves(K, v, w)' <=> Moves(K, v, w)
           /\ \A K, v : Reached(K, v)' <=> Reached(K, v)
           /\ \A K, pages : Publishes(K, pages)' <=> Publishes(K, pages)
           /\ \A pages : Honest(pages)' <=> Honest(pages)
  <1>1. /\ QueueRow' = QueueRow /\ URLs' = URLs /\ \A u : CanFetch(u)' = CanFetch(u)
    BY SameSite
  <1>2. \A u : Doc(u)' = Doc(u)
    BY DEF Doc
  <1>3. \A K, url, u : Response(K, url, u)' = Response(K, url, u)
    BY <1>1, <1>2 DEF Response, NotModified
  <1>4. \A u : FishResult(u)' = FishResult(u)
    BY <1>1, <1>2 DEF FishResult, FinalUrl
  <1>5. \A u, h, f : Chain(u, h, f)' <=> Chain(u, h, f)
    BY <1>2 DEF Chain
  <1>6. \A K, url, r : Outcome(K, url, r)' <=> Outcome(K, url, r)
    BY <1>1, <1>2, <1>3, <1>4, <1>5 DEF Outcome
  <1>7. \A K, item : ItemFollows(K, item)' <=> ItemFollows(K, item)
    BY <1>1, <1>5, <1>6 DEF ItemFollows
  <1>8. \A v, item : Admitted(v, item)' <=> Admitted(v, item)
    BY <1>1 DEF Admitted
  <1>9. \A v : Drawn(v)' = Drawn(v)
    BY <1>8 DEF Drawn
  <1>10. \A v : Begun(v)' = Begun(v)
    BY DEF Begun
  <1>11. Seeds' = Seeds
    BY DEF Seeds
  <1>12. /\ \A v, url, page : Kept(v, url, page)' = Kept(v, url, page)
         /\ \A v, page, depth : NewLinks(v, page, depth)' = NewLinks(v, page, depth)
    BY DEF Kept, NewLinks
  <1>13. ASSUME NEW v, NEW url, NEW depth, NEW page PROVE Merge(v, url, depth, page)' = Merge(v, url, depth, page)
    <2>1. Kept(v, url, page)' = Kept(v, url, page) /\ NewLinks(v, page, depth)' = NewLinks(v, page, depth)
      BY Zenon, <1>12
    <2> QED
      BY Zenon, <2>1 DEF Merge
  <1>14. \A v, r : Merged(v, r)' = Merged(v, r)
    BY <1>13 DEF Merged
  <1>15. \A K, v, w : Moves(K, v, w)' <=> Moves(K, v, w)
    BY <1>1, <1>6, <1>9, <1>10, <1>11, <1>14 DEF Moves
  <1>16. \A K, n, t : Trace(K, n, t)' <=> Trace(K, n, t)
    BY <1>15 DEF Trace
  <1>17. \A K, v : Reached(K, v)' <=> Reached(K, v)
    BY <1>16 DEF Reached
  <1>18. \A K, pages : Publishes(K, pages)' <=> Publishes(K, pages)
    BY <1>2, <1>17 DEF Publishes
  <1>19. \A pages : Honest(pages)' <=> Honest(pages)
    BY DEF Honest, Incremental
  <1> QED
    BY <1>6, <1>7, <1>15, <1>17, <1>18, <1>19

\* A trace goes on with the next move.
LEMMA TraceGrows ==
    ASSUME NEW K, NEW v, NEW w, Reached(K, v), Moves(K, v, w)
    PROVE  Reached(K, w)
  <1>1. PICK n, t : Trace(K, n, t) /\ t[n] = v
    BY DEF Reached
  <1> DEFINE u == [k \in 0..n + 1 |-> IF k = n + 1 THEN w ELSE t[k]]
  <1>2. n \in Nat
    BY <1>1 DEF Trace
  <1>3. u[n + 1] = w /\ u[0] = t[0] /\ \A k \in 0..n : u[k] = t[k]
    BY <1>2
  <1> HIDE DEF u
  <1>4. ASSUME NEW k \in 0..n PROVE Moves(K, u[k], u[k + 1])
    <2>1. CASE k = n
      BY <1>1, <1>2, <1>3, <2>1
    <2>2. CASE k # n
      <3>1. k \in 0..n - 1 /\ k + 1 \in 0..n
        BY <1>2, <2>2
      <3>2. Moves(K, t[k], t[k + 1])
        BY <1>1, <3>1 DEF Trace
      <3> QED
        BY <1>3, <3>1, <3>2
    <2> QED
      BY <2>1, <2>2
  <1>5. Trace(K, n + 1, u)
    <2>1. n + 1 \in Nat /\ (n + 1) - 1 = n
      BY <1>2
    <2> QED
      BY <1>1, <1>3, <1>4, <2>1 DEF Trace
  <1> QED
    BY <1>3, <1>5 DEF Reached

\* A capture that moves to the next view stays on the trace.
LEMMA Replays ==
    ASSUME site' = site, mode' = mode, known' = known, Reached(known, View(crawl)),
           View(crawl') = View(crawl) \/ Moves(known, View(crawl), View(crawl'))
    PROVE  Reached(known, View(crawl))'
  <1>1. PICK K, v : K = known' /\ v = View(crawl')
    OBVIOUS
  <1>2. Reached(K, v)
    BY <1>1, TraceGrows
  <1>3. Reached(K, v)'
    BY <1>2, SameReplay
  <1>4. PICK n, t : (Trace(K, n, t))' /\ t[n] = v
    BY <1>3 DEF Reached
  <1>5. Trace(known, n, t)'
    BY <1>1, <1>4 DEF Trace
  <1> QED
    BY <1>1, <1>4, <1>5 DEF Reached

\* A new capture begins the trace.
LEMMA BeginsAgain ==
    ASSUME crawl' = FreshCrawl
    PROVE  Reached(known, View(crawl))'
  <1> DEFINE t == [k \in {0} |-> View(FreshCrawl)]
  <1>1. Trace(known, 0, t)'
    BY DEF Trace
  <1>2. View(crawl') = t[0]
    OBVIOUS
  <1> QED
    BY <1>1, <1>2 DEF Reached

Underway == {"start", "sitemaps", "frontier", "fetching"}

\* What a step that publishes nothing has to show.
LEMMA StepReplays ==
    ASSUME CrawlReplays, CrawlObeys', site' = site, mode' = mode, known' = known, captured' = captured,
           Honest(crawl'.pages),
           mode.crawler = "json" => crawl'.at \notin {"sitemaps", "frontier", "fetching"},
           mode.crawler # "json" /\ crawl'.at \in Underway =>
             crawl.at \in Underway /\ (View(crawl') = View(crawl) \/ Moves(known, View(crawl), View(crawl'))),
           \A k \in DOMAIN crawl'.batch : ItemFollows(known, crawl'.batch[k])
    PROVE  CrawlReplays'
  <1>1. (\A k \in DOMAIN crawl.batch : ItemFollows(known, crawl.batch[k]))'
    BY SameReplay
  <1>2. (mode.crawler # "json" /\ crawl.at \in Underway => Reached(known, View(crawl)))'
    <2> SUFFICES ASSUME mode.crawler # "json", crawl'.at \in Underway PROVE Reached(known, View(crawl))'
      BY DEF Underway
    <2>1. Reached(known, View(crawl))
      BY DEF CrawlReplays, Underway
    <2> QED
      BY <2>1, Replays
  <1>3. (\A x \in captured : Honest(x.previous) /\ Publishes(x.previous, x.pages))'
    BY SameReplay DEF CrawlReplays
  <1>4. (Honest(known) /\ Honest(crawl.pages))'
    BY SameReplay DEF CrawlReplays
  <1> QED
    BY <1>1, <1>2, <1>3, <1>4 DEF CrawlReplays, Underway

LEMMA HonestEmpty == Honest(<<>>)
  BY DEF Honest, Faithful

\* A capture that fails keeps nothing.
LEMMA FailureReplays ==
    ASSUME CrawlReplays, CrawlObeys', site' = site, mode' = mode, known' = known, captured' = captured, crawl' = Failed
    PROVE  CrawlReplays'
  <1>1. crawl'.at = "failed" /\ DOMAIN crawl'.batch = {} /\ crawl'.pages = <<>>
    BY DEF Failed, FreshCrawl
  <1> QED
    BY <1>1, HonestEmpty, StepReplays DEF Underway

\* The operators of the frontier need no more of a capture than its view.
LEMMA ViewOf ==
    ASSUME NEW c \in CrawlRow
    PROVE  /\ View(c).batch \in Seq(QueueRow) /\ Len(View(c).batch) = Len(c.batch) /\ DOMAIN View(c).batch = DOMAIN c.batch
           /\ View(c).batch = <<>> <=> c.batch = <<>>
           /\ \A k \in DOMAIN c.batch : View(c).batch[k] = [url |-> c.batch[k].url, depth |-> c.batch[k].depth]
           /\ MayDraw(View(c)) <=> MayDraw(c)
           /\ MaySend(View(c)) <=> MaySend(c)
           /\ MayEnd(View(c)) <=> MayEnd(c)
           /\ \A item : Admitted(View(c), item) <=> Admitted(c, item)
  <1> DEFINE b == [k \in DOMAIN c.batch |-> [url |-> c.batch[k].url, depth |-> c.batch[k].depth]]
  <1>1. c.batch \in Seq(ItemRow) /\ View(c).batch = b
    BY DEF CrawlRow, View, ViewRow, Drafts
  <1>2. DOMAIN c.batch = 1..Len(c.batch) /\ Len(c.batch) \in Nat /\ \A k \in DOMAIN c.batch : c.batch[k] \in ItemRow
    BY <1>1
  <1>3. \A k \in DOMAIN c.batch : [url |-> c.batch[k].url, depth |-> c.batch[k].depth] \in QueueRow
    BY <1>2 DEF ItemRow, QueueRow
  <1>4. b \in Seq(QueueRow) /\ Len(b) = Len(c.batch) /\ DOMAIN b = DOMAIN c.batch
        /\ \A k \in DOMAIN c.batch : b[k] = [url |-> c.batch[k].url, depth |-> c.batch[k].depth]
    BY <1>2, <1>3
  <1> HIDE DEF b
  <1>5. b = <<>> <=> c.batch = <<>>
    BY <1>1, <1>4
  <1>6. View(c).at = c.at /\ View(c).queue = c.queue /\ View(c).pages = c.pages /\ View(c).seen = c.seen
    BY DEF View, ViewRow
  <1>7. BatchSize(View(c)) = BatchSize(c)
    BY <1>6 DEF BatchSize
  <1>8. MayDraw(View(c)) <=> MayDraw(c)
    BY <1>1, <1>4, <1>6, <1>7 DEF MayDraw
  <1>9. MaySend(View(c)) <=> MaySend(c)
    BY <1>1, <1>4, <1>5, <1>6, <1>7 DEF MaySend
  <1>10. MayEnd(View(c)) <=> MayEnd(c)
    BY <1>1, <1>5, <1>6, <1>7 DEF MayEnd
  <1>11. \A item : Admitted(View(c), item) <=> Admitted(c, item)
    BY <1>6 DEF Admitted
  <1> QED
    BY <1>1, <1>4, <1>5, <1>8, <1>9, <1>10, <1>11

\* Other updates of a capture are updates of its view.
LEMMA ViewMoves ==
    ASSUME NEW c \in CrawlRow, NEW at, NEW seeds
    PROVE  /\ View([c EXCEPT !.at = at]) = [View(c) EXCEPT !.at = at]
           /\ View(Frontier(c, seeds)) = Frontier(View(c), seeds)
  <1>1. View([c EXCEPT !.at = at]) = [View(c) EXCEPT !.at = at]
    BY DEF View, ViewRow, CrawlRow
  <1> DEFINE first == [k \in 1..Cardinality(seeds) |-> [url |-> Ascending(seeds)[k], depth |-> 0]]
  <1>2. /\ Frontier(c, seeds) = [c EXCEPT !.at = "frontier", !.enqueued = seeds, !.queue = first]
        /\ Frontier(View(c), seeds) = [View(c) EXCEPT !.at = "frontier", !.enqueued = seeds, !.queue = first]
    BY DEF Frontier
  <1> HIDE DEF first
  <1> DEFINE d == [c EXCEPT !.at = "frontier", !.enqueued = seeds, !.queue = first]
             w == ViewRow("frontier", first, seeds, c.seen, Drafts(c.batch), c.pages, c.kept)
  <1>3. /\ d.at = "frontier" /\ d.enqueued = seeds /\ d.queue = first
        /\ d.seen = c.seen /\ d.batch = c.batch /\ d.pages = c.pages /\ d.kept = c.kept
    BY DEF CrawlRow
  <1>4. [View(c) EXCEPT !.at = "frontier", !.enqueued = seeds, !.queue = first] = w
    <2> DEFINE b == Drafts(c.batch)
    <2>1. [ViewRow(c.at, c.queue, c.enqueued, c.seen, b, c.pages, c.kept) EXCEPT !.at = "frontier"]
            = ViewRow("frontier", c.queue, c.enqueued, c.seen, b, c.pages, c.kept)
      BY DEF ViewRow
    <2>2. [ViewRow("frontier", c.queue, c.enqueued, c.seen, b, c.pages, c.kept) EXCEPT !.enqueued = seeds]
            = ViewRow("frontier", c.queue, seeds, c.seen, b, c.pages, c.kept)
      BY DEF ViewRow
    <2>3. [ViewRow("frontier", c.queue, seeds, c.seen, b, c.pages, c.kept) EXCEPT !.queue = first] = w
      BY DEF ViewRow
    <2> QED
      BY Zenon, <2>1, <2>2, <2>3 DEF View
  <1>5. View(d) = w
    <2> HIDE DEF d
    <2> QED
      BY <1>3 DEF View
  <1> QED
    BY <1>1, <1>2, <1>4, <1>5

\* The beginning of a capture.
LEMMA BeginReplays ==
    ASSUME CrawlReplays, CrawlObeys', RobotsUnavailable \/ ReadRobots \/ ReadSitemaps
    PROVE  CrawlReplays'
  <1>1. /\ crawl \in CrawlRow /\ site' = site /\ mode' = mode /\ known' = known /\ captured' = captured
        /\ mode.crawler # "json" /\ crawl.at \in Underway
        /\ \A k \in DOMAIN crawl.batch : ItemFollows(known, crawl.batch[k])
    BY DEF CrawlReplays, CrawlObeys, RobotsUnavailable, ReadRobots, ReadSitemaps, Underway
  <1>2. CASE crawl' = Failed
    BY <1>1, <1>2, FailureReplays
  <1>3. ASSUME crawl.at \in {"start", "sitemaps"},
               crawl' = [crawl EXCEPT !.at = "sitemaps"] \/ \E seeds : crawl' = Frontier(crawl, seeds),
               View(crawl') = IF crawl.at = "start" THEN Begun(View(crawl)) ELSE Frontier(View(crawl), Seeds)
        PROVE  CrawlReplays'
    <2>1. crawl'.batch = crawl.batch /\ crawl'.pages = crawl.pages
      BY <1>1, <1>3 DEF CrawlRow, Frontier
    <2>2. Moves(known, View(crawl), View(crawl'))
      <3>1. View(crawl).batch \in Seq(QueueRow) /\ View(crawl).at = crawl.at
        BY <1>1, ViewOf DEF View, ViewRow
      <3> QED
        BY <1>3, <3>1 DEF Moves
    <2> QED
      BY <1>1, <2>1, <2>2, StepReplays DEF CrawlReplays
  <1>4. CASE crawl.at = "start" /\ crawl' = IF mode.crawler = "builtin" /\ ~mode.validate THEN [crawl EXCEPT !.at = "sitemaps"]
                                            ELSE Frontier(crawl, {site.start})
    <2>1. View(crawl') = Begun(View(crawl))
      BY <1>1, <1>4, ViewMoves DEF Begun
    <2> QED
      BY <1>3, <1>4, <2>1
  <1>5. CASE crawl.at = "sitemaps" /\ crawl' = Frontier(crawl, Seeds)
    <2>1. View(crawl') = Frontier(View(crawl), Seeds)
      BY <1>1, <1>5, ViewMoves
    <2> QED
      BY <1>3, <1>5, <2>1
  <1> QED
    BY <1>2, <1>4, <1>5 DEF RobotsUnavailable, ReadRobots, ReadSitemaps

\* What is drawn depends on the queue and what was drawn before.
LEMMA DrawReplays ==
    ASSUME CrawlReplays, CrawlObeys', Draw
    PROVE  CrawlReplays'
  <1> DEFINE item == Head(crawl.queue)
             drawn == [url |-> item.url, depth |-> item.depth, at |-> item.url, hops |-> 0,
                       result |-> IF CanFetch(item.url) THEN Asking ELSE Nil]
             batch == IF Admitted(crawl, item) THEN Append(crawl.batch, drawn) ELSE crawl.batch
             seen == IF Admitted(crawl, item) THEN crawl.seen \cup {item.url} ELSE crawl.seen
  <1>1. /\ crawl \in CrawlRow /\ site' = site /\ mode' = mode /\ known' = known /\ captured' = captured
        /\ MayDraw(crawl) /\ crawl.at = "frontier" /\ mode.crawler # "json"
        /\ \A k \in DOMAIN crawl.batch : ItemFollows(known, crawl.batch[k])
        /\ crawl' = [crawl EXCEPT !.queue = Tail(crawl.queue), !.seen = seen, !.batch = batch]
    BY DEF CrawlReplays, CrawlObeys, Draw, MayDraw
  <1>2. crawl.batch \in Seq(ItemRow)
    BY <1>1 DEF CrawlRow
  <1>3. Admitted(crawl, item) => ItemFollows(known, drawn)
    <2>1. drawn.url = item.url /\ drawn.at = item.url /\ (CanFetch(item.url) => drawn.result = Asking)
          /\ (~CanFetch(item.url) => drawn.result = Nil)
      OBVIOUS
    <2>2. Chain(item.url, 0, [k \in {0} |-> item.url]) /\ [k \in {0} |-> item.url][0] = item.url
      BY DEF Chain
    <2> HIDE DEF drawn, item
    <2>3. Asking # Nil /\ Nil # Broken
      BY DEF Asking, Nil, Broken
    <2>4. CASE CanFetch(item.url)
      BY <2>1, <2>2, <2>4 DEF ItemFollows
    <2>5. CASE ~CanFetch(item.url) /\ mode.crawler # "tinyfish"
      BY <2>1, <2>3, <2>5 DEF ItemFollows, Outcome
    <2> QED
      BY <2>4, <2>5 DEF Admitted
  <1>4. \A k \in DOMAIN batch : ItemFollows(known, batch[k])
    <2> HIDE DEF drawn, item
    <2>1. CASE Admitted(crawl, item)
      <3>1. \A k \in DOMAIN batch : (k \in DOMAIN crawl.batch /\ batch[k] = crawl.batch[k]) \/ batch[k] = drawn
        BY <1>2, <2>1
      <3> QED
        BY <1>1, <1>3, <2>1, <3>1
    <2> QED
      BY <1>1, <2>1
  <1>5. View(crawl') = Drawn(View(crawl))
    <2>1. Head(View(crawl).queue) = item /\ View(crawl).seen = crawl.seen /\ View(crawl).queue = crawl.queue
      BY DEF View, ViewRow
    <2>2. Admitted(View(crawl), item) <=> Admitted(crawl, item)
      BY <1>1, ViewOf
    <2> DEFINE seenBatch == IF Admitted(crawl, item) THEN Append(View(crawl).batch, [url |-> item.url, depth |-> item.depth])
                            ELSE View(crawl).batch
    <2>3. Drawn(View(crawl)) = [View(crawl) EXCEPT !.queue = Tail(crawl.queue), !.seen = seen, !.batch = seenBatch]
      <3> HIDE DEF item
      <3> QED
        BY <2>1, <2>2 DEF Drawn
    <2>4. Drafts(batch) = seenBatch
      <3> DEFINE pair == [url |-> item.url, depth |-> item.depth]
      <3>1. drawn.url = pair.url /\ drawn.depth = pair.depth
        OBVIOUS
      <3>2. View(crawl).batch \in Seq(QueueRow) /\ Len(View(crawl).batch) = Len(crawl.batch)
            /\ \A k \in DOMAIN crawl.batch : View(crawl).batch[k] = [url |-> crawl.batch[k].url, depth |-> crawl.batch[k].depth]
        BY <1>1, ViewOf
      <3>3. CASE ~Admitted(crawl, item)
        BY <3>3 DEF View, ViewRow
      <3>4. CASE Admitted(crawl, item)
        <4> HIDE DEF drawn, item
        <4>1. batch = Append(crawl.batch, drawn) /\ seenBatch = Append(View(crawl).batch, pair)
          BY <3>4
        <4>2. DOMAIN batch = 1..Len(crawl.batch) + 1 /\ DOMAIN seenBatch = DOMAIN batch
          BY <1>2, <3>2, <4>1
        <4>3. ASSUME NEW k \in DOMAIN batch PROVE seenBatch[k] = [url |-> batch[k].url, depth |-> batch[k].depth]
          <5>1. CASE k = Len(crawl.batch) + 1
            <6>1. batch[k] = drawn /\ seenBatch[k] = pair
              BY <1>2, <3>2, <4>1, <5>1
            <6> QED
              BY <3>1, <6>1
          <5>2. CASE k \in DOMAIN crawl.batch
            <6>1. batch[k] = crawl.batch[k] /\ seenBatch[k] = View(crawl).batch[k]
              BY <1>2, <3>2, <4>1, <5>2
            <6> QED
              BY <3>2, <5>2, <6>1
          <5> QED
            BY <1>2, <4>2, <5>1, <5>2
        <4>4. seenBatch = [k \in DOMAIN seenBatch |-> seenBatch[k]]
          BY <3>2, <4>1
        <4> HIDE DEF batch, seenBatch
        <4> QED
          BY <4>2, <4>3, <4>4 DEF Drafts
      <3> QED
        BY <3>3, <3>4
    <2> HIDE DEF seen, batch, seenBatch
    <2> DEFINE b == Drafts(crawl.batch)
               q == Tail(crawl.queue)
               w == ViewRow(crawl.at, q, crawl.enqueued, seen, seenBatch, crawl.pages, crawl.kept)
    <2>5. /\ crawl'.at = crawl.at /\ crawl'.queue = q /\ crawl'.enqueued = crawl.enqueued /\ crawl'.seen = seen
          /\ crawl'.batch = batch /\ crawl'.pages = crawl.pages /\ crawl'.kept = crawl.kept
      BY <1>1 DEF CrawlRow
    <2>6. View(crawl') = w
      BY <2>4, <2>5 DEF View
    <2>7. [View(crawl) EXCEPT !.queue = q, !.seen = seen, !.batch = seenBatch] = w
      <3> HIDE DEF q, b
      <3>1. [ViewRow(crawl.at, crawl.queue, crawl.enqueued, crawl.seen, b, crawl.pages, crawl.kept) EXCEPT !.queue = q]
              = ViewRow(crawl.at, q, crawl.enqueued, crawl.seen, b, crawl.pages, crawl.kept)
        BY DEF ViewRow
      <3>2. [ViewRow(crawl.at, q, crawl.enqueued, crawl.seen, b, crawl.pages, crawl.kept) EXCEPT !.seen = seen]
              = ViewRow(crawl.at, q, crawl.enqueued, seen, b, crawl.pages, crawl.kept)
        BY DEF ViewRow
      <3>3. [ViewRow(crawl.at, q, crawl.enqueued, seen, b, crawl.pages, crawl.kept) EXCEPT !.batch = seenBatch] = w
        BY DEF ViewRow
      <3> QED
        BY Zenon, <3>1, <3>2, <3>3 DEF View, b
    <2> QED
      BY <2>3, <2>6, <2>7
  <1>6. Moves(known, View(crawl), View(crawl'))
    <2>1. View(crawl).batch \in Seq(QueueRow) /\ MayDraw(View(crawl))
      BY <1>1, ViewOf
    <2> QED
      BY Zenon, <1>5, <2>1 DEF Moves
  <1> HIDE DEF batch, seen
  <1>7. crawl'.batch = batch /\ crawl'.at = "frontier" /\ crawl'.pages = crawl.pages
    BY <1>1 DEF CrawlRow
  <1>8. Honest(crawl'.pages)
    BY <1>7 DEF CrawlReplays
  <1> QED
    BY <1>1, <1>4, <1>6, <1>7, <1>8, StepReplays DEF Underway

\* A batch is sent when it is full or nothing is left.
LEMMA SendReplays ==
    ASSUME CrawlReplays, CrawlObeys', SendBatch
    PROVE  CrawlReplays'
  <1>1. /\ crawl \in CrawlRow /\ site' = site /\ mode' = mode /\ known' = known /\ captured' = captured
        /\ MaySend(crawl) /\ crawl.at = "frontier" /\ mode.crawler # "json"
        /\ \A k \in DOMAIN crawl.batch : ItemFollows(known, crawl.batch[k])
        /\ crawl' = [crawl EXCEPT !.at = "fetching"]
    BY DEF CrawlReplays, CrawlObeys, SendBatch, MaySend
  <1>2. View(crawl') = [View(crawl) EXCEPT !.at = "fetching"]
    BY <1>1, ViewMoves
  <1>3. Moves(known, View(crawl), View(crawl'))
    <2>1. View(crawl).batch \in Seq(QueueRow) /\ MaySend(View(crawl))
      BY <1>1, ViewOf
    <2> QED
      BY Zenon, <1>2, <2>1 DEF Moves
  <1>4. crawl'.batch = crawl.batch /\ crawl'.pages = crawl.pages
    BY <1>1 DEF CrawlRow
  <1>5. Honest(crawl'.pages)
    BY <1>4 DEF CrawlReplays
  <1> QED
    BY <1>1, <1>3, <1>4, <1>5, StepReplays DEF Underway

\* The answers of a batch change nothing a later view depends on.
LEMMA AnswerReplays ==
    ASSUME CrawlReplays, CrawlObeys', site' = site, mode' = mode, known' = known, captured' = captured,
           crawl.at = "fetching", NEW batch, DOMAIN batch = DOMAIN crawl.batch,
           \A k \in DOMAIN batch : batch[k].url = crawl.batch[k].url /\ batch[k].depth = crawl.batch[k].depth,
           \A k \in DOMAIN batch : ItemFollows(known, batch[k]),
           NEW bytes, NEW A, crawl' = [crawl EXCEPT !.batch = batch, !.loaded = bytes, !.asked = A]
    PROVE  CrawlReplays'
  <1>1. crawl \in CrawlRow /\ mode.crawler # "json"
    BY DEF CrawlReplays, CrawlObeys
  <1>2. /\ crawl'.batch = batch /\ crawl'.at = crawl.at /\ crawl'.queue = crawl.queue /\ crawl'.enqueued = crawl.enqueued
        /\ crawl'.seen = crawl.seen /\ crawl'.pages = crawl.pages /\ crawl'.kept = crawl.kept
    BY <1>1 DEF CrawlRow
  <1>3. Drafts(batch) = Drafts(crawl.batch)
    BY DEF Drafts
  <1>4. View(crawl') = View(crawl)
    BY <1>2, <1>3 DEF View
  <1>5. Honest(crawl'.pages)
    BY <1>2 DEF CrawlReplays
  <1> QED
    BY <1>1, <1>2, <1>4, <1>5, StepReplays DEF Underway

\* One item of the batch is answered.
LEMMA ItemReplays ==
    ASSUME CrawlReplays, CrawlObeys', site' = site, mode' = mode, known' = known, captured' = captured,
           crawl.at = "fetching", NEW i \in DOMAIN crawl.batch, NEW y, ItemFollows(known, y),
           y.url = crawl.batch[i].url, y.depth = crawl.batch[i].depth,
           NEW bytes, NEW A, crawl' = WithItem(i, y, bytes, A)
    PROVE  CrawlReplays'
  <1> DEFINE batch == [crawl.batch EXCEPT ![i] = y]
  <1>1. \A k \in DOMAIN crawl.batch : ItemFollows(known, crawl.batch[k])
    BY DEF CrawlReplays
  <1>2. DOMAIN batch = DOMAIN crawl.batch /\ batch[i] = y /\ \A k \in DOMAIN batch : k # i => batch[k] = crawl.batch[k]
    OBVIOUS
  <1>3. crawl' = [crawl EXCEPT !.batch = batch, !.loaded = bytes, !.asked = A]
    BY DEF WithItem
  <1> HIDE DEF batch
  <1>4. \A k \in DOMAIN batch : batch[k].url = crawl.batch[k].url /\ batch[k].depth = crawl.batch[k].depth
    BY <1>2
  <1>5. \A k \in DOMAIN batch : ItemFollows(known, batch[k])
    BY <1>1, <1>2
  <1>6. PICK b : b = batch
    OBVIOUS
  <1>7. /\ DOMAIN b = DOMAIN crawl.batch /\ crawl' = [crawl EXCEPT !.batch = b, !.loaded = bytes, !.asked = A]
        /\ \A k \in DOMAIN b : b[k].url = crawl.batch[k].url /\ b[k].depth = crawl.batch[k].depth
        /\ \A k \in DOMAIN b : ItemFollows(known, b[k])
    BY <1>2, <1>3, <1>4, <1>5, <1>6
  <1> QED
    BY <1>7, AnswerReplays

\* A request follows the one chain of redirects of its item, or fails.
LEMMA GetReplays ==
    ASSUME CrawlReplays, CrawlObeys', NEW i \in 1..Concurrency, Get(i) \/ GetFails(i)
    PROVE  CrawlReplays'
  <1> DEFINE item == crawl.batch[i]
             size == Body(item)
             broken == [item EXCEPT !.result = Broken]
             answered == IF Overdrawn(size) \/ size > MaxPageBytes THEN broken
                         ELSE IF Doc(item.at).answer = "redirect" THEN Followed(item)
                         ELSE [item EXCEPT !.result = Response(known, item.url, item.at)]
  <1>1. /\ crawl \in CrawlRow /\ crawl.batch \in Seq(ItemRow) /\ i \in DOMAIN crawl.batch /\ crawl.at = "fetching"
        /\ site' = site /\ mode' = mode /\ known' = known /\ captured' = captured /\ mode.crawler = "builtin" /\ item.result = Asking
        /\ ItemFollows(known, item)
    BY DEF CrawlReplays, CrawlObeys, CrawlRow, Get, GetFails
  <1>2. item \in ItemRow
    BY <1>1
  <1>3. CanFetch(item.url) /\ \E h, f : Chain(item.url, h, f) /\ f[h] = item.at
    BY <1>1 DEF ItemFollows
  <1>4. ItemFollows(known, broken) /\ broken.url = item.url /\ broken.depth = item.depth
    <2>1. Broken # Asking
      BY DEF Broken, Asking
    <2> QED
      BY <1>2, <2>1 DEF ItemRow, ItemFollows
  <1>5. CASE crawl' = [crawl EXCEPT !.batch[i].result = Broken]
    <2>1. crawl' = WithItem(i, broken, crawl.loaded, crawl.asked)
      BY <1>1, <1>5 DEF CrawlRow, WithItem
    <2> HIDE DEF broken
    <2> QED
      BY Zenon, <1>1, <1>4, <2>1, ItemReplays
  <1>6. CASE crawl' = [crawl EXCEPT !.batch[i] = answered, !.loaded = Load(size), !.asked = crawl.asked \cup {item.at}]
    <2>1. ItemFollows(known, answered) /\ answered.url = item.url /\ answered.depth = item.depth
      <3>1. CASE answered = broken
        BY <1>4, <3>1
      <3>2. CASE Doc(item.at).answer = "redirect" /\ answered = Followed(item)
        <4>1. CASE Followed(item) = broken
          BY <1>4, <3>2, <4>1
        <4>2. CASE Followed(item) = [item EXCEPT !.at = Doc(item.at).to, !.hops = NextHop(@)]
          <5>1. /\ Followed(item).url = item.url /\ Followed(item).depth = item.depth
                /\ Followed(item).at = Doc(item.at).to /\ Followed(item).result = Asking
            BY <1>1, <1>2, <4>2 DEF ItemRow
          <5>2. PICK h, f : Chain(item.url, h, f) /\ f[h] = item.at
            BY <1>3
          <5> DEFINE g == [k \in 0..h + 1 |-> IF k = h + 1 THEN Doc(item.at).to ELSE f[k]]
          <5>3. h \in Nat
            BY <5>2 DEF Chain
          <5>4. g[h + 1] = Doc(item.at).to /\ \A k \in 0..h : g[k] = f[k]
            BY <5>3
          <5> HIDE DEF g, item
          <5>5. ASSUME NEW k \in 0..h PROVE Doc(g[k]).answer = "redirect" /\ g[k + 1] = Doc(g[k]).to
            <6>1. CASE k = h
              BY <3>2, <5>2, <5>3, <5>4, <6>1
            <6>2. CASE k # h
              <7>1. k \in 0..h - 1 /\ k + 1 \in 0..h
                BY <5>3, <6>2
              <7>2. Doc(f[k]).answer = "redirect" /\ f[k + 1] = Doc(f[k]).to
                BY <5>2, <7>1 DEF Chain
              <7> QED
                BY <5>4, <7>1, <7>2
            <6> QED
              BY <6>1, <6>2
          <5>6. Chain(item.url, h + 1, g)
            <6>1. h + 1 \in Nat /\ (h + 1) - 1 = h /\ 0 \in 0..h
              BY <5>3
            <6>2. g[0] = item.url
              BY <5>2, <5>4, <6>1 DEF Chain
            <6> QED
              BY <5>5, <6>1, <6>2 DEF Chain
          <5>7. ItemFollows(known, Followed(item))
            BY <1>3, <5>1, <5>4, <5>6 DEF ItemFollows
          <5> QED
            BY <3>2, <5>1, <5>7
        <4> QED
          BY <4>1, <4>2 DEF Followed
      <3>3. CASE Doc(item.at).answer # "redirect" /\ answered = [item EXCEPT !.result = Response(known, item.url, item.at)]
        <4>1. answered.url = item.url /\ answered.depth = item.depth /\ answered.at = item.at
              /\ answered.result = Response(known, item.url, item.at)
          BY <1>2, <3>3 DEF ItemRow
        <4>2. item.url \in URLs /\ item.at \in URLs
          BY <1>2 DEF ItemRow
        <4> HIDE DEF answered, item
        <4>3. answered.result # Broken => Outcome(known, item.url, answered.result)
          BY <1>1, <1>3, <3>3, <4>1, <4>2 DEF Outcome
        <4>4. answered.result # Asking
          <5>1. Nil # Asking /\ Broken # Asking /\ \A u, text, bytes, links : Page(u, text, bytes, links) # Asking
            BY DEF Nil, Asking, Broken, Page
          <5> QED
            BY <4>1, <5>1 DEF Response, Reused
        <4> QED
          BY <4>1, <4>3, <4>4 DEF ItemFollows
      <3> QED
        BY <3>1, <3>2, <3>3
    <2> HIDE DEF answered, size, item
    <2>2. crawl' = WithItem(i, answered, Load(size), crawl.asked \cup {item.at})
      BY <1>1, <1>6 DEF CrawlRow, WithItem
    <2> QED
      BY Zenon, <1>1, <2>1, <2>2, ItemReplays DEF item
  <1> QED
    BY <1>5, <1>6 DEF Get, GetFails

\* The call of TinyFish answers every item by its URL.
LEMMA FishReplays ==
    ASSUME CrawlReplays, CrawlObeys', FishFetch
    PROVE  CrawlReplays'
  <1> DEFINE batch == [i \in DOMAIN crawl.batch |-> [crawl.batch[i] EXCEPT !.result = FishResult(crawl.batch[i].url)]]
             A == crawl.asked \cup {crawl.batch[i].url : i \in DOMAIN crawl.batch}
  <1>1. /\ crawl \in CrawlRow /\ crawl.batch \in Seq(ItemRow) /\ crawl.at = "fetching"
        /\ site' = site /\ mode' = mode /\ known' = known /\ captured' = captured /\ mode.crawler = "tinyfish"
        /\ crawl' = [crawl EXCEPT !.asked = A, !.batch = batch]
    BY DEF CrawlReplays, CrawlObeys, CrawlRow, FishFetch
  <1>2. \A k \in DOMAIN batch : /\ batch[k].url = crawl.batch[k].url /\ batch[k].depth = crawl.batch[k].depth
                                /\ batch[k].result = FishResult(crawl.batch[k].url)
    <2>1. \A k \in DOMAIN crawl.batch : crawl.batch[k] \in ItemRow
      BY <1>1
    <2> QED
      BY <2>1 DEF ItemRow
  <1>3. DOMAIN batch = DOMAIN crawl.batch
    OBVIOUS
  <1> HIDE DEF batch, A
  <1>4. \A k \in DOMAIN batch : ItemFollows(known, batch[k])
    BY <1>1, <1>2 DEF ItemFollows, Outcome
  <1>5. crawl' = [crawl EXCEPT !.batch = batch, !.loaded = crawl.loaded, !.asked = A]
    BY <1>1 DEF CrawlRow
  <1>6. \A k \in DOMAIN batch : batch[k].url = crawl.batch[k].url /\ batch[k].depth = crawl.batch[k].depth
    BY <1>2
  <1>7. PICK b : b = batch
    OBVIOUS
  <1>8. PICK bytes, B : bytes = crawl.loaded /\ B = A
    OBVIOUS
  <1>9. /\ DOMAIN b = DOMAIN crawl.batch /\ crawl' = [crawl EXCEPT !.batch = b, !.loaded = bytes, !.asked = B]
        /\ \A k \in DOMAIN b : b[k].url = crawl.batch[k].url /\ b[k].depth = crawl.batch[k].depth
        /\ \A k \in DOMAIN b : ItemFollows(known, b[k])
    BY <1>3, <1>4, <1>5, <1>6, <1>7, <1>8
  <1>10. site' = site /\ mode' = mode /\ known' = known /\ captured' = captured /\ crawl.at = "fetching"
    BY <1>1
  <1> QED
    BY <1>9, <1>10, AnswerReplays

\* The ends of a capture that publish nothing the frontier found.
LEMMA EndsReplay ==
    ASSUME CrawlReplays, CrawlObeys', FishFails \/ EndValidation
    PROVE  CrawlReplays'
  <1>1. /\ site' = site /\ mode' = mode /\ known' = known /\ captured' = captured
        /\ crawl' = Failed \/ crawl' = [FreshCrawl EXCEPT !.at = "validated", !.asked = crawl.asked]
    BY DEF FishFails, EndValidation
  <1>2. CASE crawl' = Failed
    BY <1>1, <1>2, FailureReplays
  <1>3. CASE crawl' = [FreshCrawl EXCEPT !.at = "validated", !.asked = crawl.asked]
    <2>1. crawl'.at = "validated" /\ DOMAIN crawl'.batch = {} /\ crawl'.pages = <<>>
      BY <1>3 DEF FreshCrawl
    <2> QED
      BY <1>1, <2>1, HonestEmpty, StepReplays DEF Underway
  <1> QED
    BY <1>1, <1>2, <1>3

\* A JSON document is the same whatever was read before.
LEMMA GetJSONReplays ==
    ASSUME CrawlReplays, CrawlObeys', GetJSON
    PROVE  CrawlReplays'
  <1> DEFINE pages == [u \in {site.start} |-> Page(u, u, Doc(site.start).size, <<>>)]
  <1>1. /\ crawl \in CrawlRow /\ site' = site /\ mode' = mode /\ known' = known /\ mode.crawler = "json"
        /\ \A k \in DOMAIN crawl.batch : ItemFollows(known, crawl.batch[k])
        /\ \/ crawl' = Failed /\ captured' = captured
           \/ crawl' = [crawl EXCEPT !.at = "validated"] /\ captured' = captured
           \/ crawl' = [crawl EXCEPT !.at = "published", !.pages = pages] /\ captured' = captured \cup {Snapshot(pages)}
    BY DEF CrawlReplays, CrawlObeys, GetJSON
  <1>2. Publishes(known, pages)
    BY <1>1 DEF Publishes
  <1> HIDE DEF pages
  <1>3. crawl'.at \in {"failed", "validated", "published"} /\ \A k \in DOMAIN crawl'.batch : ItemFollows(known, crawl'.batch[k])
    <2>1. CASE crawl' = Failed
      BY <2>1 DEF Failed, FreshCrawl
    <2>2. CASE crawl' # Failed
      BY <1>1, <2>2 DEF CrawlRow
    <2> QED
      BY <2>1, <2>2
  <1>4. (\A k \in DOMAIN crawl.batch : ItemFollows(known, crawl.batch[k]))'
    BY <1>1, <1>3, SameReplay
  <1>5. \A x \in captured' : Honest(x.previous) /\ Publishes(x.previous, x.pages)
    <2>1. Snapshot(pages).previous = known /\ Snapshot(pages).pages = pages
      BY DEF Snapshot
    <2> QED
      BY <1>1, <1>2, <2>1 DEF CrawlReplays
  <1>6. (\A x \in captured : Honest(x.previous) /\ Publishes(x.previous, x.pages))'
    BY <1>1, <1>5, SameReplay
  <1>7. Honest(known)' /\ Honest(crawl.pages)'
    BY <1>1 DEF Honest, Incremental
  <1> QED
    BY <1>1, <1>3, <1>4, <1>6, <1>7 DEF CrawlReplays

\* A new capture is conditional on pages that would be read again.
LEMMA CaptureAgainReplays ==
    ASSUME CrawlReplays, CrawlObeys', CaptureAgain
    PROVE  CrawlReplays'
  <1>1. /\ site' = site /\ mode' = mode /\ captured' = captured /\ crawl' = FreshCrawl
        /\ known' \in {known, <<>>, crawl.pages}
    BY DEF CaptureAgain
  <1>2. crawl'.at = "start" /\ DOMAIN crawl'.batch = {} /\ crawl'.pages = <<>>
    BY <1>1 DEF FreshCrawl
  <1>3. Reached(known, View(crawl))'
    BY <1>1, BeginsAgain
  <1>4. Honest(known') /\ Honest(crawl'.pages)
    BY <1>1, <1>2, HonestEmpty DEF CrawlReplays
  <1>5. Honest(known)' /\ Honest(crawl.pages)'
    BY <1>1, <1>4 DEF Honest, Incremental
  <1>6. (\A x \in captured : Honest(x.previous) /\ Publishes(x.previous, x.pages))'
    BY <1>1, SameReplay DEF CrawlReplays
  <1> QED
    BY <1>2, <1>3, <1>5, <1>6 DEF CrawlReplays

\* A capture publishes the pages of the view the trace ends at.
LEMMA PublishReplays ==
    ASSUME CrawlReplays, CrawlObeys', Publish
    PROVE  CrawlReplays'
  <1>1. /\ crawl \in CrawlRow /\ site' = site /\ mode' = mode /\ known' = known
        /\ \A k \in DOMAIN crawl.batch : ItemFollows(known, crawl.batch[k])
        /\ MayEnd(crawl) /\ crawl.at = "frontier" /\ mode.crawler # "json"
    BY DEF CrawlReplays, CrawlObeys, Publish, MayEnd
  <1>2. CASE crawl' = Failed /\ captured' = captured
    BY <1>1, <1>2, FailureReplays
  <1>3. CASE crawl' = [crawl EXCEPT !.at = "published"] /\ captured' = captured \cup {Snapshot(crawl.pages)}
    <2>1. Reached(known, View(crawl))
      BY <1>1 DEF CrawlReplays
    <2> DEFINE v == [View(crawl) EXCEPT !.at = "published"]
    <2>2. Moves(known, View(crawl), v)
      <3>1. View(crawl).batch \in Seq(QueueRow) /\ MayEnd(View(crawl))
        BY <1>1, ViewOf
      <3> QED
        BY Zenon, <3>1 DEF Moves
    <2>3. v.at = "published" /\ v.pages = crawl.pages
      BY DEF View, ViewRow
    <2> HIDE DEF v
    <2>4. Reached(known, v)
      BY <2>1, <2>2, TraceGrows
    <2>5. Publishes(known, crawl.pages)
      BY <1>1, <2>3, <2>4 DEF Publishes
    <2>6. \A x \in captured' : Honest(x.previous) /\ Publishes(x.previous, x.pages)
      <3>1. Snapshot(crawl.pages).previous = known /\ Snapshot(crawl.pages).pages = crawl.pages
        BY DEF Snapshot
      <3> QED
        BY <1>3, <2>5, <3>1 DEF CrawlReplays
    <2>7. (\A x \in captured : Honest(x.previous) /\ Publishes(x.previous, x.pages))'
      BY <1>1, <2>6, SameReplay
    <2>8. crawl'.batch = crawl.batch /\ crawl'.at = "published" /\ crawl'.pages = crawl.pages
      BY <1>1, <1>3 DEF CrawlRow
    <2>9. (\A k \in DOMAIN crawl.batch : ItemFollows(known, crawl.batch[k]))'
      BY <1>1, <2>8, SameReplay
    <2>10. Honest(known)' /\ Honest(crawl.pages)'
      BY <1>1, <2>8 DEF CrawlReplays, Honest, Incremental
    <2> QED
      BY <1>1, <2>7, <2>8, <2>9, <2>10 DEF CrawlReplays
  <1> QED
    BY <1>2, <1>3 DEF Publish

\* Merging a result needs no more of a capture than its view.
LEMMA ViewMerges ==
    ASSUME NEW c \in CrawlRow, NEW url, NEW depth, NEW page
    PROVE  View(Merge(c, url, depth, page)) = Merge(View(c), url, depth, page)
  <1> DEFINE links == NewLinks(c, page, depth)
             kept == Kept(c, url, page)
             pages == [u \in DOMAIN c.pages \cup {page.url} |-> IF u = page.url THEN page ELSE c.pages[u]]
             enqueued == c.enqueued \cup ToSet(links)
             queue == c.queue \o [k \in DOMAIN links |-> [url |-> links[k], depth |-> depth + 1]]
             b == Drafts(c.batch)
  <1>1. /\ View(c).pages = c.pages /\ View(c).enqueued = c.enqueued /\ View(c).kept = c.kept /\ View(c).queue = c.queue
    BY DEF View, ViewRow
  <1>2. NewLinks(View(c), page, depth) = links /\ Kept(View(c), url, page) = kept
    BY <1>1 DEF NewLinks, Kept
  <1>3. Merge(c, url, depth, page) =
          IF page.url \in DOMAIN c.pages THEN [c EXCEPT !.kept = kept]
          ELSE [c EXCEPT !.kept = kept, !.pages = pages, !.enqueued = enqueued, !.queue = queue]
    BY Zenon DEF Merge
  <1>4. Merge(View(c), url, depth, page) =
          IF page.url \in DOMAIN c.pages THEN [View(c) EXCEPT !.kept = kept]
          ELSE [View(c) EXCEPT !.kept = kept, !.pages = pages, !.enqueued = enqueued, !.queue = queue]
    <2> HIDE DEF kept, links
    <2> QED
      BY Zenon, <1>1, <1>2 DEF Merge
  <1> HIDE DEF links, kept, pages, enqueued, queue, b
  <1>5. [View(c) EXCEPT !.kept = kept] = ViewRow(c.at, c.queue, c.enqueued, c.seen, b, c.pages, kept)
    <2>1. [ViewRow(c.at, c.queue, c.enqueued, c.seen, b, c.pages, c.kept) EXCEPT !.kept = kept]
            = ViewRow(c.at, c.queue, c.enqueued, c.seen, b, c.pages, kept)
      BY DEF ViewRow
    <2> QED
      BY Zenon, <2>1 DEF View, b
  <1>6. View([c EXCEPT !.kept = kept]) = ViewRow(c.at, c.queue, c.enqueued, c.seen, b, c.pages, kept)
    <2> DEFINE d == [c EXCEPT !.kept = kept]
    <2>1. /\ d.at = c.at /\ d.queue = c.queue /\ d.enqueued = c.enqueued /\ d.seen = c.seen
          /\ d.batch = c.batch /\ d.pages = c.pages /\ d.kept = kept
      BY DEF CrawlRow
    <2> HIDE DEF d
    <2>2. View(d) = ViewRow(c.at, c.queue, c.enqueued, c.seen, b, c.pages, kept)
      BY <2>1 DEF View, b
    <2> QED
      BY <2>2 DEF d
  <1>7. [View(c) EXCEPT !.kept = kept, !.pages = pages, !.enqueued = enqueued, !.queue = queue]
          = ViewRow(c.at, queue, enqueued, c.seen, b, pages, kept)
    <2>1. [ViewRow(c.at, c.queue, c.enqueued, c.seen, b, c.pages, kept) EXCEPT !.pages = pages]
            = ViewRow(c.at, c.queue, c.enqueued, c.seen, b, pages, kept)
      BY DEF ViewRow
    <2>2. [ViewRow(c.at, c.queue, c.enqueued, c.seen, b, pages, kept) EXCEPT !.enqueued = enqueued]
            = ViewRow(c.at, c.queue, enqueued, c.seen, b, pages, kept)
      BY DEF ViewRow
    <2>3. [ViewRow(c.at, c.queue, enqueued, c.seen, b, pages, kept) EXCEPT !.queue = queue]
            = ViewRow(c.at, queue, enqueued, c.seen, b, pages, kept)
      BY DEF ViewRow
    <2> QED
      BY Zenon, <1>5, <2>1, <2>2, <2>3
  <1>8. View([c EXCEPT !.kept = kept, !.pages = pages, !.enqueued = enqueued, !.queue = queue])
          = ViewRow(c.at, queue, enqueued, c.seen, b, pages, kept)
    <2> DEFINE d == [c EXCEPT !.kept = kept, !.pages = pages, !.enqueued = enqueued, !.queue = queue]
    <2>1. /\ d.at = c.at /\ d.queue = queue /\ d.enqueued = enqueued /\ d.seen = c.seen
          /\ d.batch = c.batch /\ d.pages = pages /\ d.kept = kept
      BY DEF CrawlRow
    <2> HIDE DEF d
    <2>2. View(d) = ViewRow(c.at, queue, enqueued, c.seen, b, pages, kept)
      BY <2>1 DEF View, b
    <2> QED
      BY <2>2 DEF d
  <1> QED
    BY Zenon, <1>3, <1>4, <1>5, <1>6, <1>7, <1>8

\* Taking the first result off a batch takes it off the view's.
LEMMA ViewTakes ==
    ASSUME NEW c \in CrawlRow, 1 \in DOMAIN c.batch
    PROVE  LET rest == [c EXCEPT !.batch = RemoveAt(c.batch, 1)]
           IN /\ rest \in CrawlRow /\ rest.batch = RemoveAt(c.batch, 1)
              /\ View(rest) = [View(c) EXCEPT !.batch = RemoveAt(View(c).batch, 1)]
  <1> DEFINE left == RemoveAt(c.batch, 1)
             rest == [c EXCEPT !.batch = left]
             b == Drafts(c.batch)
  <1>1. c.batch \in Seq(ItemRow)
    BY DEF CrawlRow
  <1>2. left \in Seq(ItemRow) /\ Len(c.batch) \in Nat /\ Len(left) = Len(c.batch) - 1
        /\ \A k \in 1..Len(c.batch) - 1 : left[k] = c.batch[k + 1] /\ k + 1 \in DOMAIN c.batch
    BY <1>1, FirstTaken
  <1>3. View(c).batch = b /\ b \in Seq(QueueRow) /\ Len(b) = Len(c.batch) /\ DOMAIN b = DOMAIN c.batch
        /\ \A k \in DOMAIN c.batch : b[k] = [url |-> c.batch[k].url, depth |-> c.batch[k].depth]
    <2>1. View(c).batch = b
      BY DEF View, ViewRow
    <2> QED
      BY <2>1, ViewOf
  <1> HIDE DEF left, b
  <1>4. RemoveAt(b, 1) \in Seq(QueueRow) /\ Len(RemoveAt(b, 1)) = Len(b) - 1
        /\ \A k \in 1..Len(b) - 1 : RemoveAt(b, 1)[k] = b[k + 1]
    BY <1>3, FirstTaken
  <1>5. Drafts(left) = RemoveAt(b, 1)
    <2>1. DOMAIN left = 1..Len(c.batch) - 1 /\ DOMAIN RemoveAt(b, 1) = 1..Len(c.batch) - 1
      BY <1>2, <1>3, <1>4
    <2>2. ASSUME NEW k \in DOMAIN left PROVE RemoveAt(b, 1)[k] = [url |-> left[k].url, depth |-> left[k].depth]
      BY <1>2, <1>3, <1>4, <2>1
    <2>3. RemoveAt(b, 1) = [k \in DOMAIN RemoveAt(b, 1) |-> RemoveAt(b, 1)[k]]
      BY <1>4
    <2> QED
      BY <2>1, <2>2, <2>3 DEF Drafts
  <1>6. rest \in CrawlRow /\ rest.at = c.at /\ rest.queue = c.queue /\ rest.enqueued = c.enqueued /\ rest.seen = c.seen
        /\ rest.batch = left /\ rest.pages = c.pages /\ rest.kept = c.kept
    BY <1>2 DEF CrawlRow
  <1> DEFINE w == ViewRow(c.at, c.queue, c.enqueued, c.seen, RemoveAt(b, 1), c.pages, c.kept)
  <1>7. View(rest) = w
    <2> HIDE DEF rest
    <2> QED
      BY <1>5, <1>6 DEF View
  <1>8. [View(c) EXCEPT !.batch = RemoveAt(View(c).batch, 1)] = w
    <2>1. PICK x : x = RemoveAt(b, 1)
      OBVIOUS
    <2>2. [ViewRow(c.at, c.queue, c.enqueued, c.seen, b, c.pages, c.kept) EXCEPT !.batch = x]
            = ViewRow(c.at, c.queue, c.enqueued, c.seen, x, c.pages, c.kept)
      BY DEF ViewRow
    <2>3. View(c) = ViewRow(c.at, c.queue, c.enqueued, c.seen, b, c.pages, c.kept)
      BY DEF View, b
    <2> QED
      BY Zenon, <1>3, <2>1, <2>2, <2>3
  <1> QED
    BY <1>6, <1>7, <1>8 DEF left

\* The first result is merged, which is the one its URL has.
LEMMA TakeReplays ==
    ASSUME CrawlAssumption, CrawlReplays, CrawlObeys', NEW i \in 1..Concurrency, Take(i)
    PROVE  CrawlReplays'
  <1> DEFINE item == crawl.batch[1]
             left == RemoveAt(crawl.batch, 1)
             rest == [crawl EXCEPT !.batch = left]
             v == View(crawl)
             viewRest == [v EXCEPT !.batch = RemoveAt(v.batch, 1)]
  <1>1. /\ crawl \in CrawlRow /\ crawl.batch \in Seq(ItemRow) /\ 1 \in DOMAIN crawl.batch /\ site \in Sites
        /\ site' = site /\ mode' = mode /\ known' = known /\ captured' = captured /\ mode.crawler # "json" /\ crawl.at = "fetching"
        /\ item.result # Asking /\ crawl' = NextBatch(AfterTake(1)) /\ ItemFollows(known, item)
        /\ \A k \in DOMAIN crawl.batch : ItemFollows(known, crawl.batch[k])
    BY DEF CrawlReplays, CrawlObeys, CrawlRow, Take, Takes
  <1>2. /\ Len(left) = Len(crawl.batch) - 1 /\ Len(crawl.batch) \in Nat /\ left \in Seq(ItemRow)
        /\ \A k \in 1..Len(crawl.batch) - 1 : left[k] = crawl.batch[k + 1] /\ k + 1 \in DOMAIN crawl.batch
    BY <1>1, FirstTaken
  <1>3. \A k \in DOMAIN left : ItemFollows(known, left[k])
    <2> HIDE DEF left
    <2> QED
      BY <1>1, <1>2
  <1>4. rest \in CrawlRow /\ rest.batch = left /\ View(rest) = viewRest /\ rest.pages = crawl.pages
    <2>1. rest \in CrawlRow /\ rest.batch = left /\ View(rest) = viewRest
      BY <1>1, ViewTakes
    <2>2. rest.pages = crawl.pages
      BY <1>1 DEF CrawlRow
    <2> QED
      BY <2>1, <2>2
  <1>5. v.batch \in Seq(QueueRow) /\ 1 \in DOMAIN v.batch /\ v.batch[1] = [url |-> item.url, depth |-> item.depth]
        /\ v.at = "fetching"
    <2>1. v.at = "fetching"
      BY <1>1 DEF View, ViewRow
    <2> QED
      BY <1>1, <2>1, ViewOf
  <1> HIDE DEF v, viewRest, left, rest
  <1>6. ASSUME NEW after \in CrawlRow, crawl' = NextBatch(after), after.batch = left, item.result # Broken,
               View(after) = IF item.result = Nil THEN viewRest ELSE Merge(viewRest, item.url, item.depth, item.result),
               Honest(after.pages)
        PROVE  CrawlReplays'
    <2>1. crawl'.batch = left /\ crawl'.pages = after.pages
      BY <1>6 DEF NextBatch, CrawlRow
    <2>2. View(crawl') = NextBatch(View(after))
      <3>1. View(after).at = after.at /\ (View(after).batch = <<>> <=> after.batch = <<>>)
        <4>1. View(after).at = after.at
          BY DEF View, ViewRow
        <4> QED
          BY <4>1, ViewOf
      <3>2. View([after EXCEPT !.at = "frontier"]) = [View(after) EXCEPT !.at = "frontier"]
        BY ViewMoves
      <3> QED
        BY Zenon, <1>6, <3>1, <3>2 DEF NextBatch
    <2>3. Outcome(known, item.url, item.result)
      BY <1>1, <1>6 DEF ItemFollows
    <2>4. v.batch[1].url = item.url /\ v.batch[1].depth = item.depth
      BY <1>5
    <2>5. View(crawl') = Merged(v, item.result)
      BY Zenon, <1>6, <2>2, <2>4 DEF Merged, viewRest
    <2>6. Moves(known, v, View(crawl'))
      BY Zenon, <1>5, <2>3, <2>4, <2>5 DEF Moves
    <2>7. \A k \in DOMAIN crawl'.batch : ItemFollows(known, crawl'.batch[k])
      BY <1>3, <2>1
    <2>8. Honest(crawl'.pages)
      BY <1>6, <2>1
    <2> QED
      BY <1>1, <2>6, <2>7, <2>8, StepReplays DEF v, Underway
  <1>7. CASE AfterTake(1) = Failed
    <2>1. crawl' = Failed
      BY <1>1, <1>7 DEF NextBatch, Failed
    <2> QED
      BY <1>1, <2>1, FailureReplays
  <1>8. CASE item.result = Nil /\ AfterTake(1) = rest
    <2>1. Nil # Broken
      BY DEF Nil, Broken
    <2>2. Honest(rest.pages)
      BY <1>4 DEF CrawlReplays
    <2> QED
      BY <1>1, <1>4, <1>6, <1>8, <2>1, <2>2
  <1>9. CASE item.result # Broken /\ item.result # Nil /\ AfterTake(1) = Merge(rest, item.url, item.depth, item.result)
    <2>0. item \in ItemRow
      BY <1>1
    <2>1. item.result \in PageRow /\ item.url \in URLs /\ item.depth \in Nat
      <3> HIDE DEF item
      <3> QED
        BY <1>1, <1>9, <2>0 DEF ItemRow
    <2>2. MaxLinks \in Nat /\ DiscoveredCap \in Nat
      BY DEF CrawlAssumption
    <2> DEFINE after == Merge(rest, item.url, item.depth, item.result)
    <2> HIDE DEF item
    <2>3. after \in CrawlRow /\ after.batch = rest.batch
      BY <1>4, <2>1, <2>2, MergeTyped
    <2>4. View(after) = Merge(viewRest, item.url, item.depth, item.result)
      BY <1>4, ViewMerges
    <2>5. Honest(after.pages)
      <3>1. after.pages = rest.pages \/ after.pages = [u \in DOMAIN rest.pages \cup {item.result.url} |->
                                                        IF u = item.result.url THEN item.result ELSE rest.pages[u]]
        <4> DEFINE page == item.result
                   more == [u \in DOMAIN rest.pages \cup {page.url} |-> IF u = page.url THEN page ELSE rest.pages[u]]
                   kept == Kept(rest, item.url, page)
                   links == NewLinks(rest, page, item.depth)
                   queue == rest.queue \o [k \in DOMAIN links |-> [url |-> links[k], depth |-> item.depth + 1]]
        <4>1. \/ after = [rest EXCEPT !.kept = kept]
              \/ after = [rest EXCEPT !.kept = kept, !.pages = more, !.enqueued = rest.enqueued \cup ToSet(links), !.queue = queue]
          BY Zenon DEF Merge
        <4> HIDE DEF more, kept, links, queue, after
        <4>2. after.pages = rest.pages \/ after.pages = more
          BY <1>4, <4>1 DEF CrawlRow
        <4> QED
          BY <4>2 DEF more
      <3>2. ASSUME Incremental, NamesAreServed(site)
            PROVE  Doc(item.result.text).to = item.result.url
                   /\ item.result = Page(item.result.url, item.result.text, Doc(item.result.text).size, Links(Doc(item.result.text)))
        <4>1. Asking \notin PageRow /\ Broken \notin PageRow
          BY DEF Asking, Broken, PageRow
        <4>2. Outcome(known, item.url, item.result)
          BY <1>1, <2>1, <4>1 DEF ItemFollows
        <4> QED
          BY <1>1, <2>1, <3>2, <4>2, OutcomeHonest DEF CrawlReplays
      <3> HIDE DEF after
      <3>3. Honest(rest.pages)
        BY <1>4 DEF CrawlReplays
      <3> QED
        BY <3>1, <3>2, <3>3 DEF Honest, Faithful, Doc
    <2> HIDE DEF after
    <2>6. crawl' = NextBatch(after)
      BY <1>1, <1>9 DEF after
    <2> QED
      BY <1>4, <1>6, <1>9, <2>3, <2>4, <2>5, <2>6
  <1> QED
    BY <1>7, <1>8, <1>9 DEF AfterTake, item, rest, left

\* Every step keeps the invariant.
LEMMA CrawlStepReplays ==
    ASSUME CrawlAssumption, CrawlReplays, [CrawlNext]_crawlVars
    PROVE  CrawlReplays'
  <1>1. CrawlObeys'
    BY CrawlStepObeys DEF CrawlReplays
  <1>2. CASE UNCHANGED crawlVars
    <2>1. site' = site /\ mode' = mode /\ known' = known /\ captured' = captured /\ crawl' = crawl
      BY <1>2 DEF crawlVars
    <2>2. View(crawl') = View(crawl)
      BY <2>1
    <2>3. crawl'.at \in Underway => crawl.at \in Underway
      BY <2>1
    <2> QED
      BY <1>1, <2>1, <2>2, <2>3, StepReplays DEF CrawlReplays
  <1> QED
    BY <1>1, <1>2, BeginReplays, DrawReplays, SendReplays, GetReplays, FishReplays, TakeReplays,
       EndsReplay, PublishReplays, GetJSONReplays, CaptureAgainReplays
    DEF CrawlNext, Crawl_

\* The invariant holds at the start.
LEMMA CrawlStartReplays ==
    ASSUME CrawlAssumption, CrawlInit
    PROVE  CrawlReplays
  <1>1. CrawlObeys /\ site \in Sites /\ known = site.known /\ crawl = FreshCrawl /\ captured = {}
    BY CrawlStartObeys DEF CrawlInit
  <1>2. crawl.at = "start" /\ DOMAIN crawl.batch = {} /\ crawl.pages = <<>>
    BY <1>1 DEF FreshCrawl
  <1>3. Reached(known, View(crawl))
    <2> DEFINE t == [k \in {0} |-> View(FreshCrawl)]
    <2>1. Trace(known, 0, t) /\ View(crawl) = t[0]
      BY <1>1 DEF Trace
    <2> QED
      BY <2>1 DEF Reached
  <1>4. Honest(known)
    BY <1>1 DEF CrawlAssumption, Honest
  <1> QED
    BY <1>1, <1>2, <1>3, <1>4, HonestEmpty DEF CrawlReplays

\* Two captures that are conditional on the same revision publish the same
\* pages, however their requests raced (materializeCrawl, tinyFishCrawl); those
\* of an unchanged site do, whatever revisions they follow, if no canonical
\* name is redirected (page, previousPages).  And a crawl asks for nothing that
\* robots.txt forbids (getWithHeaders, canFetch).
THEOREM CapturesAgree ==
    ASSUME CrawlAssumption
    PROVE  CrawlSpec => []CaptureIsSound
  <1>1. CrawlReplays => CaptureIsDeterministic
    <2> SUFFICES ASSUME CrawlReplays, NEW x \in captured, NEW y \in captured,
                        x.previous = y.previous \/ NamesAreServed(site)
                 PROVE  x.pages = y.pages
      BY DEF CaptureIsDeterministic
    <2>1. /\ Honest(x.previous) /\ Publishes(x.previous, x.pages)
          /\ Honest(y.previous) /\ Publishes(y.previous, y.pages) /\ site \in Sites
      BY DEF CrawlReplays, CrawlObeys
    <2>2. CASE mode.crawler = "json"
      BY <2>1, <2>2 DEF Publishes
    <2>3. CASE mode.crawler # "json"
      <3>1. PICK v : Reached(x.previous, v) /\ v.at = "published" /\ x.pages = v.pages
        BY <2>1, <2>3 DEF Publishes
      <3>2. PICK w : Reached(y.previous, w) /\ w.at = "published" /\ y.pages = w.pages
        BY <2>1, <2>3 DEF Publishes
      <3>3. CASE x.previous = y.previous
        BY <3>1, <3>2, <3>3, OnePublication
      <3>4. CASE NamesAreServed(site)
        <4>1. Reached(<<>>, v) /\ Reached(<<>>, w)
          BY <2>1, <2>3, <3>1, <3>2, <3>4, PublishedAgain
        <4> QED
          BY <3>1, <3>2, <4>1, OnePublication
      <3> QED
        BY <3>3, <3>4
    <2> QED
      BY <2>2, <2>3
  <1>2. CrawlReplays => CaptureIsSound
    BY <1>1, ObeysRobots DEF CrawlReplays, CaptureIsSound
  <1> QED
    BY <1>2, CrawlStartReplays, CrawlStepReplays, PTL DEF CrawlSpec
=============================================================================
