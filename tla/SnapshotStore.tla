---------------------------- MODULE SnapshotStore ----------------------------
(***************************************************************************)
(* The files of one source revision (internal/sourcefiles): a directory,   *)
(* a marker that says that it is complete, and an intent file that serves  *)
(* as lock and records how far a publication came.  Processes publish,     *)
(* replay and discard the snapshot; they may be killed at any step, an     *)
(* operation on files may fail, and the machine may lose power, whereupon  *)
(* a change that was not flushed may be found made or not made.            *)
(*                                                                         *)
(* A step is one change of the disk.  A change that is flushed at once is  *)
(* one step with its flush: losing power between the two leaves what       *)
(* losing it before or after them may leave.  Temporary directories,       *)
(* permissions, limits and symbolic links are left out.                    *)
(***************************************************************************)
EXTENDS Integers, FiniteSets

CONSTANTS
    Processes,
    Contents,     \* what a publisher may have fetched
    FilesOf,      \* the files of each content
    MaxOps,       \* bound: operations begun
    MaxFileFailures, \* bound: killed processes and failing file operations
    MaxPowerLosses   \* bound: losses of power

SnapshotAssumption ==
    /\ MaxOps \in Nat /\ MaxFileFailures \in Nat /\ MaxPowerLosses \in Nat
    /\ \A c \in Contents : FilesOf[c] # {}
    /\ Contents \cap {"absent", "empty", "torn"} = {}

Files == UNION {FilesOf[c] : c \in Contents}
Whole(c) == FilesOf[c] \X {c}

VARIABLES
    intentFile,\* content of the intent file; a missing one counts as empty
    dir,      \* the directory of the revision
    marker,   \* "absent", "empty", "torn" or the content it describes
    durable,  \* the three as they are known to survive a loss of power
    op,       \* the operation each process is in or has ended
    lock,     \* the processes that hold the lock on the intent file
    removal,  \* "none" since the last publication, "begun", or "done" for good
    disturbed,\* processes whose operation a removal overlapped or a failure misled
    ops, fileFailures, powerLosses

disk == <<intentFile, dir, marker>>
snapshotVars == <<intentFile, dir, marker, durable, op, lock, removal, disturbed, ops, fileFailures, powerLosses>>

Missing == [exists |-> FALSE, files |-> {}]
Holding(files) == [exists |-> TRUE, files |-> files]
Ended == {"idle", "ok", "refused", "failed", "discarded"}
Publishing == {"making", "moving", "sealed", "marking", "writing", "closing"}
Undoing == {"undoing", "emptying"}
Discarding == {"discarding", "truncating"}
Locked == {"checking", "setting", "clearing"} \cup Publishing \cup Undoing \cup Discarding
States == Ended \cup Locked \cup {"waiting", "matching", "loading"}
Intents == {"empty", "publishing", "blocked", "complete"}
NoContent == "none"

SnapshotInit ==
    /\ intentFile = "empty" /\ dir = Missing /\ marker = "absent"
    /\ durable = [intent |-> "empty", dir |-> Missing, marker |-> "absent"]
    /\ op = [p \in Processes |-> [at |-> "idle", content |-> NoContent, want |-> "empty"]]
    /\ lock = {} /\ removal = "none" /\ disturbed = {}
    /\ ops = 0 /\ fileFailures = 0 /\ powerLosses = 0

At(p, s) == op[p].at = s
Goes(p, s) == op' = [op EXCEPT ![p].at = s]
Leaves(p, s) == Goes(p, s) /\ lock' = lock \ {p}

(* fsync of the directory of snapshots: entries survive, their content need not. *)
FsyncDirectory(d, m) ==
    [durable EXCEPT
       !.dir = IF d.exists THEN IF @.exists THEN @ ELSE Holding({}) ELSE Missing,
       !.marker = IF m = "absent" THEN m ELSE IF @ = "absent" THEN "empty" ELSE @]

-----------------------------------------------------------------------------
(***************************************************************************)
(* StoreSnapshot and publishSnapshot.                                      *)
(***************************************************************************)
Loadable == dir.exists /\ marker \in Contents

Begin(p, s, c) ==
    /\ op[p].at \in Ended /\ ops < MaxOps
    /\ ops' = ops + 1
    /\ op' = [op EXCEPT ![p] = [at |-> s, content |-> c, want |-> "empty"]]
    /\ disturbed' = IF removal = "begun" THEN disturbed \cup {p} ELSE disturbed \ {p}
    /\ UNCHANGED <<disk, durable, lock, removal, fileFailures, powerLosses>>

(* LoadSnapshot finds a snapshot that Materialize then returns, or a broken marker. *)
Replay(p) ==
    \/ Loadable /\ Begin(p, "ok", marker)
    \/ dir.exists /\ marker = "torn" /\ Begin(p, "failed", NoContent)

StartStore(p) == \E c \in Contents : Begin(p, "waiting", c)
StartDiscard(p) == Begin(p, "waiting", NoContent)

(* Mutant: a shared lock. *)
Acquire_Shared(p) ==
    /\ At(p, "waiting") /\ op[p].content # NoContent
    /\ lock' = lock \cup {p}
    /\ Goes(p, "checking")
    /\ UNCHANGED <<disk, durable, removal, disturbed, ops, fileFailures, powerLosses>>

(* Opening the intent file, the exclusive flock, and the flush of a file just made. *)
Acquire(p) ==
    /\ At(p, "waiting") /\ lock = {}
    /\ lock' = {p}
    /\ IF op[p].content = NoContent
       THEN /\ Goes(p, "discarding") /\ removal' = "begun" /\ disturbed' = Processes
       ELSE Goes(p, "checking") /\ UNCHANGED <<removal, disturbed>>
    /\ UNCHANGED <<disk, durable, ops, fileFailures, powerLosses>>

(* The first half of setIntentState: the file is truncated before it is written. *)
Truncates(p, want) ==
    /\ intentFile' = "empty"
    /\ op' = [op EXCEPT ![p].at = "setting", ![p].want = want]
    /\ UNCHANGED lock

(* Mutant: the intent is believed before the marker is looked at. *)
Check_IntentFirst(p) ==
    /\ At(p, "checking")
    /\ \/ intentFile \in {"blocked", "complete"} /\ Leaves(p, "matching") /\ UNCHANGED intentFile
       \/ intentFile = "empty" /\ Truncates(p, IF dir.exists THEN "blocked" ELSE "publishing")
       \/ /\ intentFile = "publishing" /\ Goes(p, IF dir.exists THEN "clearing" ELSE "making")
          /\ UNCHANGED <<intentFile, lock>>
    /\ UNCHANGED <<dir, marker, durable, removal, disturbed, ops, fileFailures, powerLosses>>

(* Mutant: a directory left behind by an interrupted publication is not removed. *)
Check_NoRecovery(p) ==
    /\ At(p, "checking")
    /\ \/ marker # "absent" /\ Truncates(p, "complete")
       \/ marker = "absent" /\ dir.exists /\ Leaves(p, "matching") /\ UNCHANGED intentFile
       \/ marker = "absent" /\ ~dir.exists /\ Truncates(p, "publishing")
    /\ UNCHANGED <<dir, marker, durable, removal, disturbed, ops, fileFailures, powerLosses>>

Check(p) ==
    /\ At(p, "checking")
    /\ \/ marker # "absent" /\ Truncates(p, "complete")
       \/ /\ marker = "absent" /\ intentFile \in {"blocked", "complete"}
          /\ Leaves(p, "matching") /\ UNCHANGED intentFile
       \/ /\ marker = "absent" /\ intentFile = "empty"
          /\ Truncates(p, IF dir.exists THEN "blocked" ELSE "publishing")
       \/ /\ marker = "absent" /\ intentFile = "publishing"
          /\ Goes(p, IF dir.exists THEN "clearing" ELSE "making")
          /\ UNCHANGED <<intentFile, lock>>
    /\ UNCHANGED <<dir, marker, durable, removal, disturbed, ops, fileFailures, powerLosses>>

SetIntent(p) ==
    /\ At(p, "setting")
    /\ intentFile' = op[p].want
    /\ durable' = [durable EXCEPT !.intent = op[p].want]
    /\ IF op[p].want = "publishing" THEN Goes(p, "making") /\ UNCHANGED lock
                                    ELSE Leaves(p, "matching")
    /\ UNCHANGED <<dir, marker, removal, disturbed, ops, fileFailures, powerLosses>>

(* removeTree, one file at a time and the directory last. *)
RemovesFile == \E x \in dir.files : dir' = Holding(dir.files \ {x})
RemovesDirectory == dir.files = {} /\ dir' = Missing

Clear(p) ==
    /\ At(p, "clearing")
    /\ \/ RemovesFile /\ UNCHANGED <<op, durable>>
       \/ /\ RemovesDirectory /\ Goes(p, "making")
          /\ durable' = FsyncDirectory(Missing, marker)
    /\ UNCHANGED <<intentFile, marker, lock, removal, disturbed, ops, fileFailures, powerLosses>>

MakeDirectory(p) ==
    /\ At(p, "making")
    /\ dir' = Holding({})
    /\ durable' = FsyncDirectory(dir', marker)
    /\ Goes(p, "moving")
    /\ removal' = "none"
    /\ UNCHANGED <<intentFile, marker, lock, disturbed, ops, fileFailures, powerLosses>>

MoveFile(p) ==
    /\ At(p, "moving")
    /\ \E x \in Whole(op[p].content) \ dir.files : dir' = Holding(dir.files \cup {x})
    /\ UNCHANGED <<intentFile, marker, durable, op, lock, removal, disturbed, ops, fileFailures, powerLosses>>

(* Mutant: the files are not flushed before the marker is made. *)
Seal_NoFsync(p) ==
    /\ At(p, "moving") /\ Whole(op[p].content) \subseteq dir.files
    /\ Goes(p, "sealed")
    /\ UNCHANGED <<disk, durable, lock, removal, disturbed, ops, fileFailures, powerLosses>>

(* All children are moved: makeReadOnly and fsyncTree. *)
Seal(p) ==
    /\ At(p, "moving") /\ Whole(op[p].content) \subseteq dir.files
    /\ durable' = [durable EXCEPT !.dir = dir]
    /\ Goes(p, "sealed")
    /\ UNCHANGED <<disk, lock, removal, disturbed, ops, fileFailures, powerLosses>>

CreateMarker(p) ==
    /\ At(p, "sealed")
    /\ marker' = "empty"
    /\ Goes(p, "marking")
    /\ UNCHANGED <<intentFile, dir, durable, lock, removal, disturbed, ops, fileFailures, powerLosses>>

WriteMarker(p) ==
    /\ At(p, "marking")
    /\ marker' = op[p].content
    /\ Goes(p, "writing")
    /\ UNCHANGED <<intentFile, dir, durable, lock, removal, disturbed, ops, fileFailures, powerLosses>>

(* The marker and its entry are flushed and the intent file truncated. *)
SyncMarker(p) ==
    /\ At(p, "writing")
    /\ durable' = [durable EXCEPT !.marker = marker]
    /\ intentFile' = "empty"
    /\ Goes(p, "closing")
    /\ UNCHANGED <<dir, marker, lock, removal, disturbed, ops, fileFailures, powerLosses>>

Complete(p) ==
    /\ At(p, "closing")
    /\ intentFile' = "complete"
    /\ durable' = [durable EXCEPT !.intent = "complete"]
    /\ Leaves(p, "ok")
    /\ UNCHANGED <<dir, marker, removal, disturbed, ops, fileFailures, powerLosses>>

(* Mutant: whatever has a marker counts as the same snapshot. *)
Match_MarkerOnly(p) ==
    /\ At(p, "matching")
    /\ Goes(p, IF dir.exists /\ marker # "absent" THEN "loading" ELSE "refused")
    /\ UNCHANGED <<disk, durable, lock, removal, disturbed, ops, fileFailures, powerLosses>>

(* snapshotMatches, without the lock, after publication was refused. *)
Match(p) ==
    /\ At(p, "matching")
    /\ Goes(p, IF dir.exists /\ marker # "absent" /\ dir.files = Whole(op[p].content)
               THEN "loading" ELSE "refused")
    /\ UNCHANGED <<disk, durable, lock, removal, disturbed, ops, fileFailures, powerLosses>>

(* LoadSnapshot of what matched: its marker decides what is returned. *)
LoadMatched(p) ==
    /\ At(p, "loading")
    /\ op' = [op EXCEPT ![p].at = IF dir.exists /\ marker = "torn" THEN "failed" ELSE "ok",
                        ![p].content = IF Loadable THEN marker ELSE @]
    /\ UNCHANGED <<disk, durable, lock, removal, disturbed, ops, fileFailures, powerLosses>>

-----------------------------------------------------------------------------
(***************************************************************************)
(* Failing file operations and the cleanup of a failed publication.        *)
(***************************************************************************)
Fail(p) ==
    /\ fileFailures < MaxFileFailures /\ fileFailures' = fileFailures + 1
    /\ \/ /\ op[p].at \in {"waiting", "checking", "setting", "clearing", "making", "loading"}
                        \cup Discarding
          /\ Leaves(p, "failed")
          /\ intentFile' \in {intentFile} \cup (IF At(p, "truncating") THEN {"empty"} ELSE {})
          /\ UNCHANGED <<removal, disturbed>>
       \/ (* an intent file that cannot be read is reported as a snapshot that exists *)
          /\ op[p].at \in {"waiting", "checking"} /\ op[p].content # NoContent
          /\ Leaves(p, "matching")
          /\ disturbed' = disturbed \cup {p}
          /\ UNCHANGED <<intentFile, removal>>
       \/ /\ At(p, "matching") /\ Goes(p, "refused")
          /\ disturbed' = disturbed \cup {p}
          /\ UNCHANGED <<intentFile, lock, removal>>
       \/ /\ op[p].at \in Publishing \ {"making"} /\ Goes(p, "undoing")
          /\ removal' = "begun" /\ disturbed' = Processes
          /\ UNCHANGED <<intentFile, lock>>
    /\ UNCHANGED <<dir, marker, durable, ops, powerLosses>>

(* The deferred cleanup removes the marker, if it can, and then the directory. *)
UndoMarker(p) ==
    /\ At(p, "undoing")
    /\ \/ marker' = "absent" /\ UNCHANGED fileFailures
       \/ /\ marker # "absent" /\ fileFailures < MaxFileFailures
          /\ fileFailures' = fileFailures + 1 /\ UNCHANGED marker
    /\ Goes(p, "emptying")
    /\ UNCHANGED <<intentFile, dir, durable, lock, removal, disturbed, ops, powerLosses>>

UndoDirectory(p) ==
    /\ At(p, "emptying")
    /\ \/ RemovesFile /\ UNCHANGED <<op, lock, durable>>
       \/ /\ RemovesDirectory /\ Leaves(p, "failed")
          /\ durable' = FsyncDirectory(Missing, marker)
    /\ UNCHANGED <<intentFile, marker, removal, disturbed, ops, fileFailures, powerLosses>>

-----------------------------------------------------------------------------
(***************************************************************************)
(* DiscardSnapshot: the directory, then the marker, then the intent.       *)
(***************************************************************************)
DiscardDirectory(p) ==
    /\ At(p, "discarding") /\ dir.exists
    /\ RemovesFile \/ RemovesDirectory
    /\ UNCHANGED <<intentFile, marker, durable, op, lock, removal, disturbed, ops, fileFailures, powerLosses>>

DiscardMarker(p) ==
    /\ At(p, "discarding") /\ ~dir.exists
    /\ marker' = "absent"
    /\ Goes(p, "truncating")
    /\ UNCHANGED <<intentFile, dir, durable, lock, removal, disturbed, ops, fileFailures, powerLosses>>

(* Mutant: the intent is flushed, the directory of snapshots is not. *)
DiscardIntent_NoFsync(p) ==
    /\ At(p, "truncating")
    /\ intentFile' = "empty"
    /\ durable' = [durable EXCEPT !.intent = "empty"]
    /\ Leaves(p, "discarded")
    /\ removal' = "done"
    /\ UNCHANGED <<dir, marker, disturbed, ops, fileFailures, powerLosses>>

DiscardIntent(p) ==
    /\ At(p, "truncating")
    /\ intentFile' = "empty"
    /\ durable' = [FsyncDirectory(dir, marker) EXCEPT !.intent = "empty"]
    /\ Leaves(p, "discarded")
    /\ removal' = "done"
    /\ UNCHANGED <<dir, marker, disturbed, ops, fileFailures, powerLosses>>

-----------------------------------------------------------------------------
(* A killed process leaves the disk as it is; the system drops its lock. *)
Kill(p) ==
    /\ op[p].at \notin Ended
    /\ fileFailures < MaxFileFailures /\ fileFailures' = fileFailures + 1
    /\ Leaves(p, "idle")
    /\ UNCHANGED <<disk, durable, removal, disturbed, ops, powerLosses>>

Surviving(v, d) ==
    {x \in {Missing} : ~v.exists \/ ~d.exists}
    \cup {Holding(s) : s \in {t \in SUBSET (v.files \cup d.files) :
              /\ v.exists \/ d.exists
              /\ v.files \cap d.files \subseteq t}}

(* A file whose new content was not flushed may be empty or hold a part of it. *)
SurvivingMarker(v, d) ==
    IF v = d THEN {v}
    ELSE {v, d} \cup (IF v \in Contents THEN {"empty", "torn"} ELSE {})

LosePower ==
    /\ powerLosses < MaxPowerLosses /\ powerLosses' = powerLosses + 1
    /\ intentFile' \in {intentFile, durable.intent}
    /\ dir' \in Surviving(dir, durable.dir)
    /\ marker' \in SurvivingMarker(marker, durable.marker)
    /\ durable' = [intent |-> intentFile', dir |-> dir', marker |-> marker']
    /\ op' = [p \in Processes |-> [op[p] EXCEPT !.at = "idle"]]
    /\ lock' = {}
    /\ UNCHANGED <<removal, disturbed, ops, fileFailures>>

SnapshotStep(p) ==
    \/ Acquire(p) \/ Check(p) \/ SetIntent(p) \/ Clear(p) \/ MakeDirectory(p)
    \/ MoveFile(p) \/ Seal(p) \/ CreateMarker(p) \/ WriteMarker(p) \/ SyncMarker(p)
    \/ Complete(p) \/ Match(p) \/ LoadMatched(p) \/ UndoMarker(p) \/ UndoDirectory(p)
    \/ DiscardDirectory(p) \/ DiscardMarker(p) \/ DiscardIntent(p)

SnapshotNext ==
    \/ \E p \in Processes : Replay(p) \/ StartStore(p) \/ StartDiscard(p)
    \/ \E p \in Processes : SnapshotStep(p) \/ Fail(p) \/ Kill(p)
    \/ LosePower

SnapshotSpec == SnapshotInit /\ [][SnapshotNext]_snapshotVars

-----------------------------------------------------------------------------
(***************************************************************************)
(* Properties.                                                             *)
(***************************************************************************)
(* Types, and the lock: exactly the process inside the locked part of an
   operation holds it. *)
SnapshotTypeOK ==
    /\ intentFile \in Intents
    /\ dir \in [exists : BOOLEAN, files : SUBSET (Files \X Contents)]
    /\ marker \in {"absent", "empty", "torn"} \cup Contents
    /\ durable \in [intent : Intents,
                    dir : [exists : BOOLEAN, files : SUBSET (Files \X Contents)],
                    marker : {"absent", "empty", "torn"} \cup Contents]
    /\ op \in [Processes -> [at : States, content : Contents \cup {NoContent}, want : Intents]]
    /\ removal \in {"none", "begun", "done"} /\ disturbed \subseteq Processes
    /\ lock = {p \in Processes : op[p].at \in Locked} /\ Cardinality(lock) <= 1
    /\ ops \in 0..MaxOps /\ fileFailures \in 0..MaxFileFailures /\ powerLosses \in 0..MaxPowerLosses

(* publishSnapshot writes the marker last and recovers what others left: unless
   the snapshot is being removed, a marker with a fingerprint stands beside
   exactly the files of one publisher, whatever was killed or lost before. *)
MarkerMeansWhole ==
    marker \in Contents /\ removal # "begun" => dir = Holding(Whole(marker))

(* DiscardSnapshot flushes before it returns: a discarded snapshot does not come
   back, not even after a loss of power, until something is published anew. *)
DiscardedIsGone ==
    removal = "done" => dir = Missing /\ marker = "absent"

(* A marker means a whole snapshot, whatever was killed or lost before, and a
   discarded snapshot does not come back (publishSnapshot, DiscardSnapshot). *)
SnapshotIsSound ==
    SnapshotTypeOK /\ MarkerMeansWhole /\ DiscardedIsGone

(* A snapshot whose marker is flushed is immutable and survives every crash: only
   a discard, or the cleanup of the publication that made it, changes it. *)
PublishedIsImmutable ==
    [][durable.marker \in Contents /\ removal = "none" /\ removal' = "none"
       => UNCHANGED <<dir, marker>>]_snapshotVars

(* StoreSnapshot and the replay return only what is on the disk: when an operation
   that no removal overlapped ends well, the directory holds exactly the content it
   returns, be it its own, another publisher's or one found after a crash. *)
AcceptedIsStored ==
    [][\A p \in Processes :
         op'[p].at = "ok" /\ op'[p] # op[p] /\ p \notin disturbed'
         => dir' = Holding(Whole(op'[p].content)) /\ marker' # "absent"]_snapshotVars

(* Killed publishers do not use up a revision id: while no power was lost, a
   publication is refused only because a directory with a marker and another
   content is there, or because of a removal that did not end. *)
LeftoversYield ==
    [][\A p \in Processes :
         op'[p].at = "refused" /\ op[p].at # "refused" /\ p \notin disturbed' /\ powerLosses = 0
         => marker # "absent" /\ dir.exists /\ dir.files # Whole(op[p].content)]_snapshotVars

(* A flushed snapshot never changes, an operation that ends well returns what
   is on the disk, and what killed publishers left does not use up a revision
   (StoreSnapshot, LoadSnapshot, publishSnapshot). *)
SnapshotHistory ==
    PublishedIsImmutable /\ AcceptedIsStored /\ LeftoversYield
=============================================================================
