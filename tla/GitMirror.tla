------------------------------ MODULE GitMirror ------------------------------
(***************************************************************************)
(* Acquisition of a repository source (internal/sourcegit): the bare       *)
(* mirror that all captures of a source share, the lock around it, the     *)
(* fetch over a pinned address, and the snapshot of one commit that is     *)
(* stored for a revision.                                                  *)
(*                                                                         *)
(* A commit is its tree: entries with a path (a sequence of segments), a   *)
(* kind and a size, and the patterns of its .openwikiignore.  Workers may  *)
(* work on the same revision, or on an old one, at the same time: a lost   *)
(* lease does not stop a handler.  A killed worker takes its git command   *)
(* with it and leaves the mirror as it is.                                 *)
(***************************************************************************)
EXTENDS Naturals, Sequences, FiniteSets, FiniteSetsExt

CONSTANTS Gitters,       \* processes that execute source jobs
          Commits,       \* commits of the remote
          TreeOf,        \* the tree of each commit
          Ancestors,     \* the commits each commit was made from
          References,    \* what a source may select: [kind, commit]
          Filters,       \* include and exclude patterns of the source
          MaxFiles, MaxFileBytes, MaxTotalBytes,  \* sourcegit.Limits
          MaxRevisions,  \* bound: captures of the source
          MaxAttempts,   \* bound: executions begun
          MaxPushes,     \* bound: changes of the remote
          MaxGitKills       \* bound: processes killed

VARIABLES reference, \* SelectedRef of the source
          filter,    \* IncludePatterns and ExcludePatterns
          remote,    \* the commit of the branch at the remote
          mirror,    \* the mirror's directory: state, branch and objects
          mirrorLock,\* the holder of source.lock
          snapshot,  \* the stored snapshot of each revision
          gitter,    \* Materialize or a validation in each process
          revision,  \* the revision captured last
          attempts, pushes, gitKills,
          tips,      \* history: commits the branch had since a revision's first attempt
          reported   \* history: commits that attempts of a revision returned

gitVars == <<reference, filter, remote, mirror, mirrorLock, snapshot, gitter, revision,
             attempts, pushes, gitKills, tips, reported>>

Revisions == 1..MaxRevisions
NoCommit == "no commit"
NoSnapshot == [commit |-> NoCommit, files |-> {}]
Unlocked == "unlocked"
Away == [at |-> "away", revision |-> 0, commit |-> NoCommit, files |-> {}, seen |-> NoCommit]

\* A line of an ignore file, or an include or exclude pattern of the source.
PatternRow == [segments : Seq(STRING), directory : BOOLEAN, negated : BOOLEAN]

\* Commits know where they came from, paths and patterns are made of segments,
\* and nobody has the name of nobody.
GitAssumption ==
    /\ NoCommit \notin Commits /\ Unlocked \notin Gitters /\ MaxRevisions \in Nat
    /\ \A c \in Commits :
         /\ Ancestors[c] \subseteq Commits
         /\ TreeOf[c].ignore \in Seq(PatternRow)
         /\ \A e \in TreeOf[c].entries : e.path \in Seq(STRING)
    /\ \A x \in Filters : x.include \subseteq PatternRow /\ x.exclude \subseteq PatternRow

(* Patterns: newFilterPattern, matches, partition. *)

\* A pattern without a slash matches at any depth; a trailing one matches
\* everything below.
FilterPattern(raw) ==
    (IF Len(raw.segments) = 1 THEN <<"**">> ELSE <<>>) \o raw.segments
        \o (IF raw.directory THEN <<"**">> ELSE <<>>)

\* path.Match on one segment.
SegmentMatches(segment, value) == segment = "*" \/ segment = value

\* The states reachable without reading a segment: ** may match nothing.
Closure(pattern, states) ==
    {j \in 1..Len(pattern) + 1 : \E i \in states : i <= j /\ \A k \in i..j-1 : pattern[k] = "**"}

Follow(pattern, states, value) ==
    Closure(pattern,
        {i \in states : i <= Len(pattern) /\ pattern[i] = "**"}
        \cup {i + 1 : i \in {k \in states : k <= Len(pattern) /\ pattern[k] # "**"
                                              /\ SegmentMatches(pattern[k], value)}})

\* The states after each number of segments of the path.
After(pattern, path) ==
    LET after[k \in 0..Len(path)] ==
          IF k = 0 THEN Closure(pattern, {1}) ELSE Follow(pattern, after[k - 1], path[k])
    IN after

Matches(pattern, path) == Len(pattern) + 1 \in After(pattern, path)[Len(path)]

MatchesAny(raws, path) == \E raw \in raws : Matches(FilterPattern(raw), path)

\* The last pattern of the ignore file that matches decides.
Ignored_FirstWins(patterns, path) ==
    LET hits == {i \in DOMAIN patterns : Matches(FilterPattern(patterns[i]), path)}
    IN hits # {} /\ ~ patterns[Min(hits)].negated
Ignored(patterns, path) ==
    LET hits == {i \in DOMAIN patterns : Matches(FilterPattern(patterns[i]), path)}
    IN hits # {} /\ ~ patterns[Max(hits)].negated

Selects(commit, path) ==
    /\ filter.include = {} \/ MatchesAny(filter.include, path)
    /\ ~ MatchesAny(filter.exclude, path)
    /\ ~ Ignored(TreeOf[commit].ignore, path)

(* Materialize *)

To(p, at) == gitter' = [gitter EXCEPT ![p].at = at]
AtStage(p, at) == gitter[p].at = at

\* The process gives its result to the handler; retryable and other errors end
\* the attempt alike here, the job decides whether there is another one.
Return(p) == gitter' = [gitter EXCEPT ![p] = Away]
Unlock(p) == mirrorLock' = IF mirrorLock = p THEN Unlocked ELSE mirrorLock
ReturnError(p) ==
    /\ Return(p) /\ Unlock(p)
    /\ UNCHANGED <<reference, filter, remote, mirror, snapshot, revision, attempts, pushes, gitKills, tips, reported>>

Keep == UNCHANGED <<reference, filter, remote, snapshot, revision, attempts, pushes, gitKills, tips, reported>>

\* LoadSnapshot comes before the lock: a stored revision is returned again.
BeginMaterialize(p) ==
    /\ AtStage(p, "away") /\ attempts < MaxAttempts /\ revision > 0
    /\ attempts' = attempts + 1
    /\ tips' = [tips EXCEPT ![revision] = IF @ = {} THEN {remote} ELSE @]
    /\ \/ /\ snapshot[revision] # NoSnapshot
          /\ reported' = [reported EXCEPT ![revision] = @ \cup {snapshot[revision].commit}]
          /\ UNCHANGED gitter
       \/ /\ snapshot[revision] = NoSnapshot
          /\ gitter' = [gitter EXCEPT ![p] = [Away EXCEPT !.at = "lock", !.revision = revision]]
          /\ UNCHANGED reported
    /\ UNCHANGED <<reference, filter, remote, mirror, mirrorLock, snapshot, revision, pushes, gitKills>>

\* withSourceLock
LockMirror(p) ==
    /\ AtStage(p, "lock") /\ mirrorLock = Unlocked
    /\ mirrorLock' = p /\ To(p, "initialize")
    /\ Keep /\ UNCHANGED mirror

LockTimeout(p) == AtStage(p, "lock") /\ mirrorLock # Unlocked /\ ReturnError(p)

\* initializeMirror: git init only where there is no directory, which it makes
\* before what belongs in it.
CreateMirror(p) ==
    /\ AtStage(p, "initialize") /\ mirror.state = "absent"
    /\ mirror' = [mirror EXCEPT !.state = "partial"]
    /\ To(p, "creating")
    /\ Keep /\ UNCHANGED mirrorLock

CreatedMirror(p) ==
    /\ AtStage(p, "creating")
    /\ mirror' = [mirror EXCEPT !.state = "ready"]
    /\ To(p, "initialize")
    /\ Keep /\ UNCHANGED mirrorLock

\* The checks of the mirror's configuration refuse what a killed init left.
InspectMirror(p) ==
    /\ AtStage(p, "initialize") /\ mirror.state # "absent"
    /\ \/ /\ mirror.state = "ready" /\ To(p, "transport")
          /\ Keep /\ UNCHANGED <<mirror, mirrorLock>>
       \/ mirror.state = "partial" /\ ReturnError(p) /\ UNCHANGED mirror

\* withTransport: every address of the host must be allowed, or none is used.
Resolve(p) ==
    /\ AtStage(p, "transport")
    /\ \E answers \in SUBSET {"public", "private"} :
         \/ /\ answers = {"public"} /\ To(p, "fetch")
            /\ Keep /\ UNCHANGED <<mirror, mirrorLock>>
         \/ answers # {"public"} /\ ReturnError(p) /\ UNCHANGED mirror

\* git fetch reads the remote's branches and then replaces the mirror's.
StartFetch_Cached(p) ==
    /\ AtStage(p, "fetch")
    /\ gitter' = [gitter EXCEPT ![p].at = "fetching", ![p].seen = IF mirror.tip = NoCommit THEN remote ELSE mirror.tip]
    /\ Keep /\ UNCHANGED <<mirror, mirrorLock>>
StartFetch(p) ==
    /\ AtStage(p, "fetch")
    /\ gitter' = [gitter EXCEPT ![p].at = "fetching", ![p].seen = remote]
    /\ Keep /\ UNCHANGED <<mirror, mirrorLock>>

History(c) == IF c = NoCommit THEN {} ELSE {c} \cup Ancestors[c]

\* --force --prune: a branch the remote no longer has goes, its objects stay.
EndFetch(p) ==
    /\ AtStage(p, "fetching")
    /\ mirror' = [mirror EXCEPT !.tip = gitter[p].seen, !.objects = @ \cup History(gitter[p].seen)]
    /\ To(p, "resolve")
    /\ Keep /\ UNCHANGED mirrorLock

FailFetch(p) == AtStage(p, "fetching") /\ ReturnError(p) /\ UNCHANGED mirror

\* resolveCommit: the branch's commit, or the selected one if it was ever fetched.
Resolved == IF reference.kind = "BRANCH" THEN mirror.tip
            ELSE IF reference.commit \in mirror.objects THEN reference.commit ELSE NoCommit

ResolveCommit(p) ==
    /\ AtStage(p, "resolve")
    /\ \/ /\ Resolved # NoCommit
          /\ gitter' = [gitter EXCEPT ![p].at = "tree", ![p].commit = Resolved]
          /\ Keep /\ UNCHANGED <<mirror, mirrorLock>>
       \/ Resolved = NoCommit /\ ReturnError(p) /\ UNCHANGED mirror

\* tree and rejectLFSPointers judge every entry, also those a filter leaves out.
SafeTree(entries) ==
    /\ \A e \in entries : e.kind = "file"
    /\ Cardinality(entries) <= MaxFiles

Size(entries) == MapThenSumSet(LAMBDA e : e.size, entries)

\* materializeFiles: the ignore file itself is never among the files.
Selected(commit) == {e \in TreeOf[commit].entries : Selects(commit, e.path) /\ e.path # <<".openwikiignore">>}

WithinLimits(files) == (\A e \in files : e.size <= MaxFileBytes) /\ Size(files) <= MaxTotalBytes

ReadTree(p) ==
    LET commit == gitter[p].commit
    IN /\ AtStage(p, "tree")
       /\ IF SafeTree(TreeOf[commit].entries) /\ WithinLimits(Selected(commit))
          THEN /\ gitter' = [gitter EXCEPT ![p].at = "store", ![p].files = Selected(commit)]
               /\ Keep /\ UNCHANGED <<mirror, mirrorLock>>
          ELSE ReturnError(p) /\ UNCHANGED mirror

\* StoreSnapshot: a revision is stored once; the same files are accepted again,
\* whatever commit they are from, and others refused.
Storable(p) ==
    LET stored == snapshot[gitter[p].revision]
    IN stored = NoSnapshot \/ stored.files = gitter[p].files

\* The commit that is reported is read from what is stored.
StoreSnapshot(p) ==
    LET v == gitter[p].revision
        stored == IF snapshot[v] = NoSnapshot
                  THEN [commit |-> gitter[p].commit, files |-> gitter[p].files] ELSE snapshot[v]
    IN /\ AtStage(p, "store")
       /\ \/ /\ Storable(p)
             /\ snapshot' = [snapshot EXCEPT ![v] = stored]
             /\ reported' = [reported EXCEPT ![v] = @ \cup {stored.commit}]
             /\ Return(p) /\ Unlock(p)
             /\ UNCHANGED <<reference, filter, remote, mirror, revision, attempts, pushes, gitKills, tips>>
          \/ ~ Storable(p) /\ ReturnError(p) /\ UNCHANGED mirror

KillGitter(p) ==
    /\ gitKills < MaxGitKills /\ ~ AtStage(p, "away")
    /\ gitKills' = gitKills + 1
    /\ Return(p) /\ Unlock(p)
    /\ UNCHANGED <<reference, filter, remote, mirror, snapshot, revision, attempts, pushes, tips, reported>>

(* The source and the remote *)

\* A capture ended, in whatever way, and a later one made a new candidate.
Capture ==
    /\ revision < MaxRevisions
    /\ revision' = revision + 1
    /\ UNCHANGED <<reference, filter, remote, mirror, mirrorLock, snapshot, gitter, attempts, pushes, gitKills, tips, reported>>

\* The branch is moved, forwards or by force, or deleted.
Push(c) ==
    /\ pushes < MaxPushes /\ c # remote
    /\ pushes' = pushes + 1
    /\ remote' = c
    /\ tips' = [v \in Revisions |-> IF tips[v] = {} THEN {} ELSE tips[v] \cup {c}]
    /\ UNCHANGED <<reference, filter, mirror, mirrorLock, snapshot, gitter, revision, attempts, gitKills, reported>>

GitInit ==
    /\ reference \in References /\ filter \in Filters
    /\ remote \in Commits
    /\ mirror = [state |-> "absent", tip |-> NoCommit, objects |-> {}]
    /\ mirrorLock = Unlocked
    /\ snapshot = [v \in Revisions |-> NoSnapshot]
    /\ gitter = [p \in Gitters |-> Away]
    /\ revision = 0 /\ attempts = 0 /\ pushes = 0 /\ gitKills = 0
    /\ tips = [v \in Revisions |-> {}] /\ reported = [v \in Revisions |-> {}]

Materialize(p) ==
    \/ BeginMaterialize(p) \/ LockMirror(p) \/ LockTimeout(p)
    \/ CreateMirror(p) \/ CreatedMirror(p) \/ InspectMirror(p)
    \/ Resolve(p) \/ StartFetch(p) \/ EndFetch(p) \/ FailFetch(p)
    \/ ResolveCommit(p) \/ ReadTree(p) \/ StoreSnapshot(p)

GitNext ==
    \/ \E p \in Gitters : Materialize(p) \/ KillGitter(p)
    \/ \E c \in Commits \cup {NoCommit} : Push(c)
    \/ Capture

GitSpec == GitInit /\ [][GitNext]_gitVars

(* Properties *)

\* A pattern covers a path when the path's segments can be laid over the
\* pattern's in order, each on one that matches it, with every segment but **
\* used once.
Covers(pattern, path) ==
    \E lay \in [DOMAIN path -> DOMAIN pattern] :
        /\ \A i, j \in DOMAIN path : i < j => lay[i] < lay[j] \/ (lay[i] = lay[j] /\ pattern[lay[i]] = "**")
        /\ \A i \in DOMAIN path : pattern[lay[i]] = "**" \/ SegmentMatches(pattern[lay[i]], path[i])
        /\ \A k \in DOMAIN pattern : pattern[k] = "**" \/ \E i \in DOMAIN path : lay[i] = k

Wanted(commit, path) ==
    LET patterns == TreeOf[commit].ignore
        Hit(i) == Covers(FilterPattern(patterns[i]), path)
    IN /\ filter.include = {} \/ \E raw \in filter.include : Covers(FilterPattern(raw), path)
       /\ \A raw \in filter.exclude : ~ Covers(FilterPattern(raw), path)
       /\ \A i \in DOMAIN patterns :
            Hit(i) /\ ~ patterns[i].negated => \E j \in i+1..Len(patterns) : Hit(j) /\ patterns[j].negated
       /\ path # <<".openwikiignore">>

\* The snapshot stored for a revision is one commit's: the selected one, or one
\* the branch had since the revision's first attempt began, never a commit the
\* shared mirror had kept from an earlier capture.  Its files are the ones the
\* patterns describe, and every attempt that succeeded reported that commit,
\* whatever other attempts fetched meanwhile (sourcegit.Materialize).
SnapshotIsFaithful ==
    \A v \in Revisions :
        /\ reported[v] \subseteq {snapshot[v].commit}
        /\ snapshot[v] # NoSnapshot =>
             LET c == snapshot[v].commit
             IN /\ IF reference.kind = "BRANCH" THEN c \in tips[v] ELSE c = reference.commit
                /\ snapshot[v].files = {e \in TreeOf[c].entries : Wanted(c, e.path)}
                /\ \A e \in TreeOf[c].entries : e.kind = "file"
=============================================================================
