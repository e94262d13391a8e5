-------------------------- MODULE DocumentationAgent --------------------------
(***************************************************************************)
(* How a run's plan and pages are produced (internal/capsuledoc and the     *)
(* generation loop of internal/documentation/handlers.go).  A planner and   *)
(* then one writer per page look at the captured sources through four       *)
(* tools with a budget and submit a plan or a page.  The model behind them  *)
(* is not trusted: it calls any tool on any path and submits anything.  A   *)
(* submission is refused with a correction a bounded number of times.       *)
(*                                                                         *)
(* A path of a snapshot is a record: whether it is a file, a directory or a *)
(* symbolic link, of which repository or website, its lines, and for a page *)
(* of a website what its manifest and its llms.txt say.  Prompts are left   *)
(* out, and the size of a result is one of a few.                           *)
(***************************************************************************)
EXTENDS Naturals, FiniteSets

CONSTANTS Trees,              \* the captured snapshots of a run, as sets of paths
          Plans,              \* what a planner may submit: seeds by slug
          Submissions,        \* what a writer may submit: sets of <<path, last line>>
          ResultSizes,        \* bytes of a tool's result
          MaxCalls,           \* SourceToolLimits
          MaxResultBytes,
          MaxTotalResultBytes,
          MaxFileLines,       \* MaxFileBytes, in lines
          MaxSeeds,           \* maximumPageSeedPaths
          ValidationAttempts  \* Options.ValidationAttempts

AgentAssumption ==
    /\ MaxCalls \in Nat \ {0} /\ ValidationAttempts \in Nat \ {0}
    /\ MaxTotalResultBytes \in Nat /\ ResultSizes \subseteq Nat
    /\ \A t \in Trees : \A x \in t :
         /\ x.entry \in {"file", "directory", "link"} /\ x.source \in {"REPOSITORY", "WEBSITE"} /\ x.lines \in Nat
         /\ x.listed => x.source = "WEBSITE"
    /\ \A seeds \in Plans : IsFiniteSet(DOMAIN seeds)

VARIABLES tree,    \* the captured snapshots
          agent,   \* the handler: its role, page and attempts
          tools,   \* sourceToolSession: calls and bytes used
          shown,   \* history: the files whose name or content a tool returned
          given,   \* history: bytes of results the session has handed out
          plan,    \* seeds of each planned page
          wikiPage \* what an accepted page cites, as <<path, last line>>

agentVars == <<tree, agent, tools, shown, given, plan, wikiPage>>

NoPlan == [s \in {} |-> {}]
PlanSlugs == UNION {DOMAIN seeds : seeds \in Plans}
Unwritten == [written |-> FALSE, cites |-> {}]
FreshTools == [calls |-> 0, bytes |-> 0]
Resting == [at |-> "idle", role |-> "none", slug |-> "none", try |-> 0, round |-> 0]

AgentInit ==
    /\ tree \in Trees
    /\ agent = Resting /\ tools = FreshTools
    /\ shown = {} /\ given = 0
    /\ plan = NoPlan /\ wikiPage = [s \in PlanSlugs |-> Unwritten]

-----------------------------------------------------------------------------
(***************************************************************************)
(* Snapshots.                                                              *)
(***************************************************************************)
SourceFiles == {x \in tree : x.entry = "file"}

\* snapshot.allows: any valid path of a repository, and of a website only the
\* pages its manifest lists.
Allows(x) == x.source = "REPOSITORY" \/ x.listed

\* loadWebsiteManifest: the documents of a website the documentation must
\* cover.  Those its llms.txt links when there are such, else every page but
\* the llms.txt itself and the markdown twin of another page.
Pages(site) == {x \in SourceFiles : x.source = "WEBSITE" /\ x.site = site /\ x.listed}
Indexed(site) == {x \in Pages(site) : x.linked}
RequiredOf(site) ==
    IF Indexed(site) # {} THEN Indexed(site)
    ELSE {x \in Pages(site) : Pages(site) = {x} \/ (x.role # "index" /\ x.role # "twin")}

\* requiredWebsiteSourcePaths: of every captured website.
RequiredDocuments == UNION {RequiredOf(x.site) : x \in tree}

-----------------------------------------------------------------------------
(***************************************************************************)
(* The four tools.  A call is counted before anything else; a result is     *)
(* handed out if it fits, and counts against the session even if not.       *)
(***************************************************************************)
InSession == agent.at = "inspecting"
Consumed == [tools EXCEPT !.calls = @ + 1]
MayCall == tools.calls < MaxCalls

\* The budget is looked at before the result is counted.
Finish_Before(names, size) ==
    IF size > MaxResultBytes \/ tools.bytes > MaxTotalResultBytes
    THEN tools' = [Consumed EXCEPT !.bytes = IF size > MaxResultBytes THEN @ ELSE @ + size] /\ UNCHANGED <<shown, given>>
    ELSE tools' = [Consumed EXCEPT !.bytes = @ + size] /\ shown' = shown \cup names /\ given' = given + size
\* finish: the limits of one result and of the session.
Finish(names, size) ==
    IF size > MaxResultBytes \/ tools.bytes + size > MaxTotalResultBytes
    THEN tools' = [Consumed EXCEPT !.bytes = IF size > MaxResultBytes THEN @ ELSE @ + size] /\ UNCHANGED <<shown, given>>
    ELSE tools' = [Consumed EXCEPT !.bytes = @ + size] /\ shown' = shown \cup names /\ given' = given + size

\* A path outside the snapshots, a wildcard or a wrong type: the tool
\* returns an error that shows nothing.
DenyCall ==
    /\ InSession /\ MayCall
    /\ tools' = Consumed
    /\ UNCHANGED <<tree, agent, shown, given, plan, wikiPage>>

\* Beyond the limit every call is denied; it is counted all the same, which
\* changes nothing else.
ToolStep == InSession /\ MayCall /\ UNCHANGED <<tree, agent, plan, wikiPage>>

Inside(directory) == {x \in tree : x.parent = directory}
Below(directory) == {x \in tree : x.parent = directory \/ \E d \in tree : d.path = x.parent /\ d.parent = directory}

\* list: the entries of a directory, without links and files not allowed.
List(directory, size) ==
    /\ ToolStep
    /\ Finish({x \in Inside(directory) : x.entry = "file" /\ Allows(x)}, size)

\* walk: what glob and grep visit, without links and files not allowed.
Walk(directory) == {x \in Below(directory) : x.entry = "file" /\ Allows(x)}

\* glob: any of the visited files may match.
Glob(matches, size) ==
    /\ ToolStep /\ matches \subseteq Walk("")
    /\ Finish(matches, size)

\* grep in a directory passes over large files; in a file it looks at the
\* file's own permission.
Grep(matches, size) ==
    /\ ToolStep
    /\ \A x \in matches : x.lines <= MaxFileLines
    /\ \/ \E d \in tree : d.entry = "directory" /\ matches \subseteq Walk(d.path)
       \/ \E x \in SourceFiles : Allows(x) /\ matches \subseteq {x}
    /\ Finish(matches, size)

\* read: a range of a regular file that is allowed and not too large.
Read(x, size) ==
    /\ ToolStep
    /\ x.entry = "file" /\ Allows(x) /\ x.lines <= MaxFileLines
    /\ Finish({x}, size)

-----------------------------------------------------------------------------
(***************************************************************************)
(* What is submitted.                                                      *)
(***************************************************************************)

\* assertEvidencePath: an allowed regular file, and lines it has; 0 stands
\* for a citation without lines.
AssertEvidencePath(x, end) ==
    x \in SourceFiles /\ Allows(x) /\ x.lines <= MaxFileLines /\ end <= x.lines

\* validatePlanCoverage: every required document is a seed of exactly one page.
ValidatePlanCoverage(seeds) ==
    /\ \A s \in DOMAIN seeds : Cardinality(seeds[s]) <= MaxSeeds
    /\ \A x \in RequiredDocuments : Cardinality({s \in DOMAIN seeds : x \in seeds[s]}) = 1

\* parsePlan: one page at least, with seeds that can be cited.
ParsePlan(seeds) ==
    DOMAIN seeds # {} /\ \A s \in DOMAIN seeds : \A x \in seeds[s] : AssertEvidencePath(x, 0)

\* Only some of the assigned documents need to be cited.
ValidateWebsiteSeedEvidence_Some(slug, citations) ==
    LET assigned == {x \in plan[slug] : x.source = "WEBSITE"}
    IN  assigned # {} => \E x \in assigned : \E c \in citations : c[1] = x
\* validateWebsiteSeedEvidence: every website document assigned to the page
\* is cited.
ValidateWebsiteSeedEvidence(slug, citations) ==
    \A x \in plan[slug] : x.source = "WEBSITE" => \E c \in citations : c[1] = x

\* parseSubmission.
ParseSubmission(slug, citations) ==
    /\ \A c \in citations : AssertEvidencePath(c[1], c[2])
    /\ ValidateWebsiteSeedEvidence(slug, citations)

-----------------------------------------------------------------------------
(***************************************************************************)
(* Attempts.                                                               *)
(***************************************************************************)
Inspecting(role, slug, try, round) ==
    [at |-> "inspecting", role |-> role, slug |-> slug, try |-> try, round |-> round]
NewTools == tools' = FreshTools /\ given' = 0 /\ shown' = {}

\* Plan: snapshots are resolved, and both models bound, before any call.
BeginPlan ==
    /\ agent = Resting /\ plan = NoPlan
    /\ agent' = Inspecting("planner", "none", 1, 1)
    /\ NewTools
    /\ UNCHANGED <<tree, plan, wikiPage>>

\* GeneratePage of the handler for a page of the accepted plan.
BeginPage(slug) ==
    /\ agent = Resting /\ slug \in DOMAIN plan /\ wikiPage[slug] = Unwritten
    /\ agent' = Inspecting("writer", slug, 1, 1)
    /\ NewTools
    /\ UNCHANGED <<tree, plan, wikiPage>>

\* runPlanner and runWriter: another attempt with new tools and a correction,
\* or a failure, after which the page or the run has failed.
Corrected ==
    IF agent.try < ValidationAttempts
    THEN agent' = [agent EXCEPT !.try = @ + 1] /\ NewTools
    ELSE agent' = [agent EXCEPT !.at = "failed"] /\ UNCHANGED <<tools, given, shown>>

SubmitPlan(seeds) ==
    /\ InSession /\ agent.role = "planner"
    /\ IF ParsePlan(seeds) /\ ValidatePlanCoverage(seeds)
       THEN plan' = seeds /\ agent' = Resting /\ UNCHANGED <<tools, given, shown>>
       ELSE Corrected /\ UNCHANGED plan
    /\ UNCHANGED <<tree, wikiPage>>

\* A submission that parses is validated again by ValidateConceptPage in the
\* handler, which asks the runtime for another one once.
SubmitPage(citations) ==
    /\ InSession /\ agent.role = "writer"
    /\ IF ParseSubmission(agent.slug, citations)
       THEN agent' = [agent EXCEPT !.at = "validating"] /\ wikiPage' = [wikiPage EXCEPT ![agent.slug] = [written |-> TRUE, cites |-> citations]]
            /\ UNCHANGED <<tools, given, shown>>
       ELSE Corrected /\ UNCHANGED wikiPage
    /\ UNCHANGED <<tree, plan>>

\* Only what ErrValidation refuses is asked for again; another error, of a
\* source that cannot be read, ends the page.
ValidatePage(outcome) ==
    /\ agent.at = "validating"
    /\ IF outcome = "valid" THEN agent' = Resting /\ UNCHANGED <<tools, given, shown, wikiPage>>
       ELSE /\ wikiPage' = [wikiPage EXCEPT ![agent.slug] = Unwritten]
            /\ IF outcome = "invalid" /\ agent.round = 1
               THEN agent' = Inspecting("writer", agent.slug, 1, 2) /\ NewTools
               ELSE agent' = [agent EXCEPT !.at = "failed"] /\ UNCHANGED <<tools, given, shown>>
    /\ UNCHANGED <<tree, plan>>

\* The capsule returns no output (InvocationError).
InvocationFails ==
    /\ InSession /\ Corrected
    /\ UNCHANGED <<tree, plan, wikiPage>>

\* The context or the lease ends, or a model cannot be bound: the job is
\* leased again.
EndAgent ==
    /\ agent.at \in {"inspecting", "validating"}
    /\ agent' = Resting
    /\ wikiPage' = IF agent.role = "writer" THEN [wikiPage EXCEPT ![agent.slug] = Unwritten] ELSE wikiPage
    /\ UNCHANGED <<tree, tools, shown, given, plan>>

-----------------------------------------------------------------------------

AgentNext ==
    \/ \E size \in ResultSizes, d \in tree : d.entry = "directory" /\ List(d.path, size)
    \/ \E size \in ResultSizes, matches \in SUBSET tree : Glob(matches, size) \/ Grep(matches, size)
    \/ \E size \in ResultSizes, x \in tree : Read(x, size)
    \/ \E seeds \in Plans : SubmitPlan(seeds)
    \/ \E citations \in Submissions : SubmitPage(citations)
    \/ \E slug \in PlanSlugs : BeginPage(slug)
    \/ \E outcome \in {"valid", "invalid", "error"} : ValidatePage(outcome)
    \/ DenyCall \/ BeginPlan \/ InvocationFails \/ EndAgent

AgentSpec == AgentInit /\ [][AgentNext]_agentVars

-----------------------------------------------------------------------------
\* In one session the tools show nothing but files a page may cite, and hand
\* out no more than the session's budget, whatever the model calls
\* (sourceToolSession, its limits and loadWebsiteManifest).
SessionIsBounded ==
    /\ given <= MaxTotalResultBytes
    /\ \A x \in shown : x.entry = "file" /\ (x.source = "WEBSITE" => x.listed)

\* When every page of the plan is written, the wiki covers the website: each
\* document that is required was assigned to one page, and a page cites it
\* with lines it has, although plan and pages come from different sessions
\* and are corrected separately (validatePlanCoverage, parseSubmission).
PageWritten(s) == wikiPage[s].written /\ agent.slug # s
WebsiteIsCovered ==
    plan # NoPlan /\ (\A s \in DOMAIN plan : PageWritten(s)) =>
      \A x \in RequiredDocuments :
        /\ \E s \in DOMAIN plan : {t \in DOMAIN plan : x \in plan[t]} = {s}
        /\ \E s \in DOMAIN plan : \E c \in wikiPage[s].cites : c[1] = x /\ c[2] <= x.lines

\* A finished wiki covers the website it was planned from, and each session
\* stays within its budget and its sources (validatePlanCoverage,
\* sourceToolSession).
WikiCoversWebsite == WebsiteIsCovered /\ SessionIsBounded
=============================================================================
