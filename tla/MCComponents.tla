----------------------------- MODULE MCComponents -----------------------------
(***************************************************************************)
(* Small instances of six components that share no state, checked in one   *)
(* run.  A behaviour is about one of them, named by "part": it moves by    *)
(* that component's next-state relation and the others stay as they began. *)
(* The providers have one model and one capability a probe can find, the   *)
(* snapshots two contents, the files of a run one page, and the mirror the *)
(* four commits below.                                                     *)
(***************************************************************************)
EXTENDS Naturals, Sequences, FiniteSets, TLC, Providers, SnapshotStore, WikiArtifacts, GitMirror,
        ProviderStream, DocumentationAgent

CONSTANTS p1, p2, one, two, f, g, w1, w2

VARIABLE part

(* Snapshots: two contents with a file in common and one only the first has. *)
FilesOfContent == (one :> {f, g}) @@ (two :> {f})

(* A repository whose second commit has an ignore file, whose third one      *)
(* rewrites the branch and has a symbolic link, and whose fourth one adds a  *)
(* file that a filter leaves out.                                            *)
File(path, size) == [path |-> path, kind |-> "file", size |-> size]
Pattern(segments, directory, negated) ==
    [segments |-> segments, directory |-> directory, negated |-> negated]
CommitTrees ==
    [c1 |-> [entries |-> {File(<<"a">>, 1), File(<<"d", "a">>, 1), File(<<"d", "b">>, 1)}, ignore |-> <<>>],
     c2 |-> [entries |-> {File(<<".openwikiignore">>, 1), File(<<"a">>, 1), File(<<"d", "a">>, 2),
                          File(<<"d", "e", "b">>, 1)},
             ignore |-> <<Pattern(<<"d">>, TRUE, FALSE), Pattern(<<"d", "**", "b">>, FALSE, TRUE),
                          Pattern(<<"a">>, FALSE, FALSE)>>],
     c3 |-> [entries |-> {File(<<"a">>, 1), [File(<<"s">>, 0) EXCEPT !.kind = "symlink"]}, ignore |-> <<>>],
     c4 |-> [entries |-> {File(<<"a">>, 1), File(<<"d", "a">>, 1), File(<<"d", "b">>, 1), File(<<"e", "a">>, 1)},
             ignore |-> <<>>]]
Everything == [include |-> {}, exclude |-> {}]
Some ==
    [include |-> {Pattern(<<"d", "*">>, FALSE, FALSE), Pattern(<<"b">>, FALSE, FALSE)},
     exclude |-> {Pattern(<<"**", "a">>, FALSE, FALSE)}]
Branch == [kind |-> "BRANCH", commit |-> "no commit"]
Selections == {Branch, [kind |-> "COMMIT", commit |-> "c1"]}
AncestorsOf == [c1 |-> {}, c2 |-> {"c1"}, c3 |-> {}, c4 |-> {"c1"}]

CommitNames == DOMAIN CommitTrees
FilterChoices == {Everything, Some}

(* The events a provider may stream: every branch of the parser. *)
Plain == [kind |-> "chunk", choices |-> 1, text |-> "none", call |-> FALSE, id |-> "none", name |-> "none",
          arguments |-> FALSE, finish |-> "none", usage |-> "none"]
Call == [Plain EXCEPT !.call = TRUE, !.arguments = TRUE]
Events ==
      {[Plain EXCEPT !.kind = "done", !.choices = 0], [Plain EXCEPT !.kind = "broken"],
       [Plain EXCEPT !.choices = 0, !.usage = "coherent"], [Plain EXCEPT !.usage = "coherent"],
       [Plain EXCEPT !.usage = "incoherent"], [Plain EXCEPT !.text = "some"],
       [Plain EXCEPT !.finish = "stop"], [Plain EXCEPT !.finish = "tool_calls"],
       [Plain EXCEPT !.finish = "tool_calls", !.usage = "coherent"],
       [Call EXCEPT !.id = "a", !.name = "granted", !.arguments = FALSE], Call,
       [Call EXCEPT !.id = "b", !.name = "other"],
       [Call EXCEPT !.text = "some", !.name = "granted"]}

(* Sources of a run: a website with and without an index (llms.txt), one     *)
(* with a page of the same content, one beside a repository, and one beside  *)
(* another website, whose page no index links.                               *)
Path(path, entry, source, lines) ==
    [path |-> path, parent |-> "", entry |-> entry, source |-> source, lines |-> lines,
     site |-> source, listed |-> FALSE, linked |-> FALSE, role |-> "plain"]
Root == [Path("", "directory", "WEBSITE", 0) EXCEPT !.parent = "none"]
Doc == [Path("doc", "file", "WEBSITE", 1) EXCEPT !.listed = TRUE]
Linked == [Doc EXCEPT !.linked = TRUE]
Other == [Doc EXCEPT !.path = "other"]
Manifest == Path("manifest", "file", "WEBSITE", 1)
Index == [Doc EXCEPT !.path = "index", !.role = "index"]
Elsewhere == [Doc EXCEPT !.path = "elsewhere", !.site = "another"]
Twin == [Doc EXCEPT !.path = "twin", !.role = "twin"]
Code == Path("code", "file", "REPOSITORY", 2)
Link == Path("link", "link", "REPOSITORY", 1)
Website == {Root, Doc, Other, Manifest}
Few(S) == {T \in SUBSET S : Cardinality(T) <= 2}
Documents == {Doc, Other, Twin, Code, Manifest, Linked, Elsewhere}

Captured == {Website, {Root, Doc, Twin, Index}, {Root, Linked, Other, Index}, {Root, Doc, Code, Link},
             {Root, Linked, Other, Index, Elsewhere}}
Proposals ==
    {[a |-> S] : S \in Few(Documents)}
    \cup {[a |-> S, b |-> T] : S \in Few({Doc, Other, Twin}), T \in Few({Doc, Other})}
Citations == {{<<x, 1>> : x \in S} : S \in Few(Documents)} \cup {{<<Doc, 0>>}, {<<Doc, 2>>}}

ASSUME ComponentsAssumption ==
    /\ SnapshotAssumption /\ ArtifactsAssumption /\ GitAssumption
    /\ ProvidersAssumption /\ StreamAssumption /\ AgentAssumption

-----------------------------------------------------------------------------
Parts == {"snapshots", "artifacts", "mirror", "provider", "stream", "agent"}

MCInit ==
    /\ part \in Parts
    /\ SnapshotInit /\ ArtifactsInit /\ GitInit
    /\ ProvidersInit /\ StreamInit /\ AgentInit
    /\ part # "mirror" => reference = Branch /\ filter = Everything /\ remote = "c1"
    /\ part # "agent" => tree = Website

\* The step is of one part and leaves the others alone.
In(p) ==
    /\ part = p /\ UNCHANGED part
    /\ p # "snapshots" => UNCHANGED snapshotVars
    /\ p # "artifacts" => UNCHANGED artifactVars
    /\ p # "mirror" => UNCHANGED gitVars
    /\ p # "provider" => UNCHANGED providerVars
    /\ p # "stream" => UNCHANGED streamVars
    /\ p # "agent" => UNCHANGED agentVars

MCNext ==
    \/ In("snapshots") /\ SnapshotNext
    \/ In("artifacts") /\ ArtifactsNext
    \/ In("mirror") /\ GitNext
    \/ In("provider") /\ ProvidersNext
    \/ In("stream") /\ StreamNext
    \/ In("agent") /\ AgentNext

allVars == <<part, snapshotVars, artifactVars, gitVars, providerVars, streamVars, agentVars>>

MCSpec == MCInit /\ [][MCNext]_allVars

\* Of the provider: three events from outside, an edit that states a model
\* complete only with the tools it has, and a second worker only beside a busy
\* one or after a loss.
Focus ==
    /\ losses' + edits' + Cardinality({i \in Captures : capture'[i] # NoCapture}) <= 3
    /\ edits' > edits /\ profile' # profile
         => profile'.complete = (\E c \in Needed : profile'.settings[c].value = "yes")
    /\ executor'[w2].at # "idle" => executor'[w1].at # "idle" \/ losses' > 0

=============================================================================
