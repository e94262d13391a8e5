---------------------------- MODULE WikiArtifacts ----------------------------
(***************************************************************************)
(* The files of one documentation run: the accepted pages that page jobs   *)
(* save one by one (internal/artifacts/run.go) and the wiki that the        *)
(* finalize job publishes from them (internal/artifacts/wiki.go), as the    *)
(* handlers of internal/documentation/handlers.go use them.                 *)
(*                                                                         *)
(* A handler that lost its lease goes on working with files, for only the   *)
(* database looks at permits; a process may be killed at any step, and its  *)
(* locks are then free while its half-written files stay.  Every attempt    *)
(* generates a page anew, with any of Texts.  A page is three files that *)
(* are created in order and never changed.  Files are flushed before they   *)
(* are linked or renamed, as module SnapshotStore models for snapshots, so  *)
(* a loss of power is not repeated here.                                    *)
(***************************************************************************)
EXTENDS Naturals, Sequences, FiniteSets, SequencesExt

CONSTANTS Writers,   \* processes that execute the jobs of the run
          Slugs,     \* pages of the accepted plan
          Texts,  \* what a generation may produce for a page
          MaxKills,  \* bound: processes killed
          MaxLeases  \* bound: leases of the run's jobs

NoText == "missing"
Finalization == "finalization"
PageParts == 1..3   \* markdown, claims and metadata of a page, in this order
NoOne == "no one"
Retention == "retention"

ArtifactsAssumption ==
    IsFiniteSet(Slugs) /\ Slugs # {} /\ NoText \notin Texts /\ Writers \cap {NoOne, Retention} = {}

VARIABLES pageFile,   \* the files of each page
          pageRow,    \* documentation_pages: the content of a completed page
          runRow,     \* documentation_runs: open, published, retired or failed
          holder,     \* the worker that holds the lease of each job
          writer,     \* the handler in each process
          pageLock,   \* the exclusive lock of each page
          runLock,    \* holders of the run's lock: writers share it
          wikiLock,   \* the lock of the wiki version
          staging,    \* what each process has written into its staging directory
          bundle,     \* the published directory: its files
          kills, leases

artifactVars == <<pageFile, pageRow, runRow, holder, writer, pageLock, runLock, wikiLock, staging, bundle, kills, leases>>

Jobs == Slugs \cup {Finalization}
Nobody == [at |-> "idle", job |-> "none", slug |-> "none", content |-> NoText, read |-> <<>>, wrote |-> 0,
           pages |-> [s \in Slugs |-> NoText]]
NoFiles == [p \in PageParts |-> NoText]

ArtifactsInit ==
    /\ pageFile = [s \in Slugs |-> NoFiles]
    /\ pageRow = [s \in Slugs |-> NoText]
    /\ runRow = "open"
    /\ holder = [j \in Jobs |-> NoOne]
    /\ writer = [w \in Writers |-> Nobody]
    /\ pageLock = [s \in Slugs |-> NoOne]
    /\ runLock = {} /\ wikiLock = NoOne
    /\ staging = [w \in Writers |-> {}]
    /\ bundle = {}
    /\ kills = 0 /\ leases = 0

WriterAt(w, at) == writer[w].at = at
WriterTo(w, at) == writer' = [writer EXCEPT ![w].at = at]
HandlerEnds(w) == writer' = [writer EXCEPT ![w] = Nobody]
\* AssertPermit in the transaction of a store operation.
Permitted(w) == holder[writer[w].job] = w

FilesUnchanged == UNCHANGED <<pageFile, pageLock, runLock, wikiLock, staging, bundle, kills>>

-----------------------------------------------------------------------------
(***************************************************************************)
(* Jobs.  A job that was not settled is leased again, whatever its earlier *)
(* holder is doing.                                                        *)
(***************************************************************************)
Ready(j) ==
    IF j = Finalization THEN \A s \in Slugs : pageRow[s] # NoText ELSE pageRow[j] = NoText

StartHandler(w, j) ==
    /\ WriterAt(w, "idle") /\ runRow = "open" /\ Ready(j)
    /\ leases < MaxLeases /\ leases' = leases + 1
    /\ holder' = [holder EXCEPT ![j] = w]
    /\ writer' = [writer EXCEPT ![w] = [Nobody EXCEPT !.at = "loading", !.job = j,
                  !.slug = IF j = Finalization THEN CHOOSE s \in Slugs : TRUE ELSE j]]
    /\ UNCHANGED <<pageRow, runRow>> /\ FilesUnchanged

-----------------------------------------------------------------------------
(***************************************************************************)
(* Reading a page, without a lock.                                         *)
(***************************************************************************)

\* LoadPage: the metadata carries the digests of the two other files.
WholePage(parts) == parts[1] # NoText /\ \A p \in PageParts : parts[p] = parts[1]

\* GeneratePage completes what an earlier attempt saved, and generates the
\* page when LoadPage fails in any way.
AfterLoad(w, parts) ==
    IF WholePage(parts) THEN [writer[w] EXCEPT !.at = "completing", !.content = parts[1], !.read = <<>>]
    ELSE [writer[w] EXCEPT !.at = "generating", !.read = <<>>]

\* Finalize loads the pages one after the other, and fails the run when one
\* is not there.
AfterGather(w, parts) ==
    LET pages == [writer[w].pages EXCEPT ![writer[w].slug] = parts[1]]
        left == {s \in Slugs : pages[s] = NoText}
    IN  IF ~WholePage(parts) THEN [writer[w] EXCEPT !.at = "failing"]
        ELSE [writer[w] EXCEPT !.pages = pages, !.read = <<>>,
              !.at = IF left = {} THEN "publishing" ELSE "loading",
              !.slug = IF left = {} THEN @ ELSE CHOOSE s \in left : TRUE]

\* LoadPage reads the three files one after the other.
LoadPart(w) ==
    /\ WriterAt(w, "loading")
    /\ LET parts == Append(writer[w].read, pageFile[writer[w].slug][Len(writer[w].read) + 1]) IN
       writer' = [writer EXCEPT ![w] =
         IF Len(parts) < 3 THEN [@ EXCEPT !.read = parts]
         ELSE IF writer[w].job = Finalization THEN AfterGather(w, parts) ELSE AfterLoad(w, parts)]
    /\ UNCHANGED <<pageRow, runRow, holder, leases>> /\ FilesUnchanged

-----------------------------------------------------------------------------
(***************************************************************************)
(* Saving a page.                                                          *)
(***************************************************************************)

\* A generation and its validation; one that fails for good skips the page,
\* and a run with a skipped page is not published.
GenerateContent(w, c) ==
    /\ WriterAt(w, "generating")
    /\ writer' = [writer EXCEPT ![w].at = "saving", ![w].content = c]
    /\ UNCHANGED <<pageRow, runRow, holder, leases>> /\ FilesUnchanged

SkipContent(w) ==
    /\ WriterAt(w, "generating")
    /\ runRow' = IF Permitted(w) /\ runRow = "open" THEN "failed" ELSE runRow
    /\ HandlerEnds(w)
    /\ UNCHANGED <<pageRow, holder, leases>> /\ FilesUnchanged

\* Files that are there are taken for the ones to write.
Conflicts_Never(s, c) == FALSE
\* An existing file must be the one to write.
Conflicts(s, c) == \E p \in PageParts : pageFile[s][p] \notin {NoText, c}

\* SavePage up to the comparison: the shared lock of the run, the exclusive
\* lock of the page, and the leftovers of killed writers are removed.
BeginSave(w) ==
    LET s == writer[w].slug IN
    /\ WriterAt(w, "saving")
    /\ Retention \notin runLock /\ pageLock[s] = NoOne
    /\ IF Conflicts(s, writer[w].content)
       THEN HandlerEnds(w) /\ UNCHANGED <<pageLock, runLock>>
       ELSE /\ WriterTo(w, "creating")
            /\ pageLock' = [pageLock EXCEPT ![s] = w] /\ runLock' = runLock \cup {w}
    /\ UNCHANGED <<pageFile, pageRow, runRow, holder, wikiLock, staging, bundle, kills, leases>>

\* atomicCreate: the next file that is missing appears as a whole.
CreateFile(w) ==
    LET s == writer[w].slug
        absent == {p \in PageParts : pageFile[s][p] = NoText} IN
    /\ WriterAt(w, "creating") /\ absent # {}
    /\ pageFile' = [pageFile EXCEPT ![s][CHOOSE p \in absent : \A q \in absent : p <= q] = writer[w].content]
    /\ UNCHANGED <<pageRow, runRow, holder, writer, pageLock, runLock, wikiLock, staging, bundle, kills, leases>>

\* SavePage returns and its locks are released.
EndSave(w) ==
    LET s == writer[w].slug IN
    /\ WriterAt(w, "creating") /\ \A p \in PageParts : pageFile[s][p] # NoText
    /\ WriterTo(w, "completing")
    /\ pageLock' = [pageLock EXCEPT ![s] = NoOne] /\ runLock' = runLock \ {w}
    /\ UNCHANGED <<pageFile, pageRow, runRow, holder, wikiLock, staging, bundle, kills, leases>>

\* CompletePage, refused without a permit.
RecordPage(w) ==
    /\ WriterAt(w, "completing")
    /\ pageRow' = IF Permitted(w) /\ runRow = "open" /\ pageRow[writer[w].slug] = NoText
                  THEN [pageRow EXCEPT ![writer[w].slug] = writer[w].content] ELSE pageRow
    /\ HandlerEnds(w)
    /\ UNCHANGED <<runRow, holder, leases>> /\ FilesUnchanged

-----------------------------------------------------------------------------
(***************************************************************************)
(* Publishing the wiki.                                                    *)
(***************************************************************************)

\* writeBundle: the files of a bundle in the order they are written, the pages
\* first and what is derived from them at the end.
BundleFiles(pages) ==
    LET order == SetToSeq(Slugs)
    IN  Append([i \in 1..Len(order) |-> <<order[i], pages[order[i]]>>], <<"manifest", pages>>)

\* assertSameBundle compares the files of two directories.
SameBundle(files, pages) == files = ToSet(BundleFiles(pages))

\* validateWikiInputs, or a link to a page that does not exist: the bundle is
\* refused and the run fails.
RefuseBundle(w) ==
    /\ WriterAt(w, "publishing")
    /\ WriterTo(w, "failing")
    /\ UNCHANGED <<pageRow, runRow, holder, leases>> /\ FilesUnchanged

\* The lock is not waited for.
VersionLockFree_Always == TRUE
\* openVersionLock: one process at a time works on a version.
VersionLockFree == wikiLock = NoOne

\* cleanupWikiStaging removes every staging directory of the version.
CleanStaging == staging' = [w \in Writers |-> {}]

BeginPublish(w) ==
    /\ WriterAt(w, "publishing") /\ VersionLockFree
    /\ wikiLock' = w /\ CleanStaging
    /\ WriterTo(w, "bundling")
    /\ UNCHANGED <<pageFile, pageRow, runRow, holder, pageLock, runLock, bundle, kills, leases>>

\* writeBundleFile makes the directories a file needs, then the file.
WriteBundle(w) ==
    LET files == BundleFiles(writer[w].pages) IN
    /\ WriterAt(w, "bundling") /\ writer[w].wrote < Len(files)
    /\ staging' = [staging EXCEPT ![w] = @ \cup {files[writer[w].wrote + 1]}]
    /\ writer' = [writer EXCEPT ![w].wrote = @ + 1]
    /\ UNCHANGED <<pageFile, pageRow, runRow, holder, pageLock, runLock, wikiLock, bundle, kills, leases>>

\* Publish: an existing directory must hold the same files, else the staging
\* directory becomes the published one.  The lock is released at the end.
RenameBundle(w) ==
    /\ WriterAt(w, "bundling") /\ writer[w].wrote = Len(BundleFiles(writer[w].pages))
    /\ IF bundle = {}
       THEN bundle' = staging[w] /\ WriterTo(w, "recording")
       ELSE UNCHANGED bundle /\ WriterTo(w, IF SameBundle(bundle, writer[w].pages) THEN "recording" ELSE "failing")
    /\ staging' = [staging EXCEPT ![w] = {}]
    /\ wikiLock' = NoOne
    /\ UNCHANGED <<pageFile, pageRow, runRow, holder, pageLock, runLock, kills, leases>>

\* Store.Publish: with a permit, and with the pages the run completed.
RecordWiki(w) ==
    /\ WriterAt(w, "recording")
    /\ IF Permitted(w) /\ runRow = "open" /\ writer[w].pages = pageRow
       THEN runRow' = "published" /\ HandlerEnds(w)
       ELSE UNCHANGED runRow /\ WriterTo(w, "failing")
    /\ UNCHANGED <<pageRow, holder, leases>> /\ FilesUnchanged

\* failPublication, refused without a permit.
FailPublication(w) ==
    /\ WriterAt(w, "failing")
    /\ runRow' = IF Permitted(w) /\ runRow = "open" THEN "failed" ELSE runRow
    /\ HandlerEnds(w)
    /\ UNCHANGED <<pageRow, holder, leases>> /\ FilesUnchanged

\* The process dies: its locks are free, its files stay.
KillWriter(w) ==
    /\ ~WriterAt(w, "idle") /\ kills < MaxKills
    /\ kills' = kills + 1
    /\ HandlerEnds(w)
    /\ pageLock' = [s \in Slugs |-> IF pageLock[s] = w THEN NoOne ELSE pageLock[s]]
    /\ runLock' = runLock \ {w}
    /\ wikiLock' = IF wikiLock = w THEN NoOne ELSE wikiLock
    /\ UNCHANGED <<pageFile, pageRow, runRow, holder, staging, bundle, leases>>

-----------------------------------------------------------------------------
(***************************************************************************)
(* Retention, which deletes the pages of a failed run and the wiki of a    *)
(* run that is no longer needed.                                           *)
(***************************************************************************)

\* A published wiki is superseded, and staged for deletion.
RetireWiki ==
    /\ runRow = "published"
    /\ runRow' = "retired"
    /\ UNCHANGED <<pageRow, holder, writer, leases>> /\ FilesUnchanged

\* DiscardRun waits for the writers of the run and excludes new ones.
BeginDiscardRun ==
    /\ runRow = "failed" /\ runLock = {} /\ \E s \in Slugs : pageFile[s] # NoFiles
    /\ runLock' = {Retention}
    /\ UNCHANGED <<pageFile, pageRow, runRow, holder, writer, pageLock, wikiLock, staging, bundle, kills, leases>>

RemovePageFile(s, p) ==
    /\ Retention \in runLock /\ pageFile[s][p] # NoText
    /\ pageFile' = [pageFile EXCEPT ![s][p] = NoText]
    /\ UNCHANGED <<pageRow, runRow, holder, writer, pageLock, runLock, wikiLock, staging, bundle, kills, leases>>

EndDiscardRun ==
    /\ Retention \in runLock /\ \A s \in Slugs : pageFile[s] = NoFiles
    /\ runLock' = {}
    /\ UNCHANGED <<pageFile, pageRow, runRow, holder, writer, pageLock, wikiLock, staging, bundle, kills, leases>>

\* WikiStore.Discard under the lock of the version: staging directories and
\* then the published one, file by file.
BeginDiscardWiki ==
    /\ runRow = "retired" /\ bundle # {} /\ VersionLockFree
    /\ wikiLock' = Retention /\ CleanStaging
    /\ UNCHANGED <<pageFile, pageRow, runRow, holder, writer, pageLock, runLock, bundle, kills, leases>>

RemoveBundleFile ==
    /\ wikiLock = Retention /\ bundle # {}
    /\ \E file \in bundle : bundle' = bundle \ {file}
    /\ wikiLock' = IF Cardinality(bundle) = 1 THEN NoOne ELSE wikiLock
    /\ UNCHANGED <<pageFile, pageRow, runRow, holder, writer, pageLock, runLock, staging, kills, leases>>

-----------------------------------------------------------------------------
WriterStep(w) ==
    \/ LoadPart(w) \/ BeginSave(w) \/ CreateFile(w) \/ EndSave(w) \/ RecordPage(w)
    \/ BeginPublish(w) \/ WriteBundle(w) \/ RenameBundle(w) \/ RecordWiki(w) \/ FailPublication(w)
    \/ \E c \in Texts : GenerateContent(w, c)

ArtifactsNext ==
    \/ \E w \in Writers : WriterStep(w) \/ SkipContent(w) \/ RefuseBundle(w) \/ KillWriter(w)
    \/ \E w \in Writers, j \in Jobs : StartHandler(w, j)
    \/ \E s \in Slugs, p \in PageParts : RemovePageFile(s, p)
    \/ RetireWiki \/ BeginDiscardRun \/ EndDiscardRun \/ BeginDiscardWiki \/ RemoveBundleFile

ArtifactsSpec == ArtifactsInit /\ [][ArtifactsNext]_artifactVars

-----------------------------------------------------------------------------
\* What the database records of a page is what its files hold, although every
\* attempt generates another page, a killed attempt leaves some of its files
\* and an attempt without a lease goes on writing (SavePage, LoadPage,
\* CompletePage).
RecordedPageIsStored ==
    \A s \in Slugs : pageRow[s] # NoText /\ runRow \in {"open", "published"}
      => \A p \in PageParts : pageFile[s][p] = pageRow[s]

\* A published wiki is the whole bundle of the completed pages, although
\* finalizations of the same run prepare it in one directory at a time and
\* clean up after each other (WikiStore.Publish, cleanupWikiStaging).
PublishedWikiIsWhole == runRow = "published" => SameBundle(bundle, pageRow)

\* The files of a completed page are what its row records, and a published
\* wiki is the whole bundle of its pages, with killed attempts and attempts
\* that lost their lease among the writers (SavePage, WikiStore.Publish).
ArtifactsAreWhole == RecordedPageIsStored /\ PublishedWikiIsWhole
=============================================================================
