------------------------------ MODULE AgentAnswer ------------------------------
(***************************************************************************)
(* One answer of an agent over HTTP (internal/agents, internal/chattokens, *)
(* internal/api/compatibility.go) while operators change what it depends   *)
(* on and retention deletes old wikis (internal/retention).                *)
(*                                                                         *)
(* Every database transaction, every request to the model and every call   *)
(* of a tool is a step.  A capture fixes the agent's version, its model    *)
(* and the wiki of each of its knowledge bases, and reserves those wikis   *)
(* until the run is recorded.  Text is abstracted to the citations it      *)
(* carries.                                                                *)
(***************************************************************************)
EXTENDS FiniteSets, AnswerAlgorithms

CONSTANTS
    KBs,          \* knowledge bases
    Configurations, \* configurations an operator may give the agent
    Tokens,       \* chat tokens that allow the agent
    Requests,     \* requests of clients, each an execution
    MaxWiki,      \* bound: wiki versions of a knowledge base
    MaxChanges,   \* bound: changes by operators, publications and expiries
    MaxFaults,    \* bound: failing calls, lost answers and killed processes
    MaxToolCalls, \* limit of a tool-calling configuration
    ModelRetries, \* max_retries of the model profile
    ReservationTTL, \* executionReservationTTL, in ticks
    Margin        \* reservation time left when the execution times out

\* validateNormalizedConfiguration: some knowledge bases, and source evidence
\* only with tool calls.
ValidConfiguration(c) ==
    /\ c.members \in (SUBSET KBs) \ {{}}
    /\ c.mode \in {"SINGLE_PASS", "TOOL_CALLING"} /\ c.evidence \in {"WIKI_ONLY", "WIKI_AND_SOURCE"}
    /\ c.evidence = "WIKI_AND_SOURCE" => c.mode = "TOOL_CALLING"

ASSUME AnswerAssumption ==
    /\ \A c \in Configurations : ValidConfiguration(c)
    /\ MaxWiki \in Nat \ {0} /\ MaxChanges \in Nat /\ MaxFaults \in Nat
    /\ MaxToolCalls \in Nat \ {0} /\ ModelRetries \in Nat
    /\ ReservationTTL \in Nat /\ Margin \in 1..(ReservationTTL - 1)

VARIABLES
    kb,       \* rows of knowledge_bases
    wikis,    \* rows of wiki_versions, with their pages and claims
    files,    \* artifact directories of wikis
    intents,  \* rows of kind WIKI_VERSION in artifact_deletion_intents
    agent,    \* the row of agents with its current version
    model,    \* profile, endpoint and credential the agent's version names
    token,    \* rows of chat_access_tokens
    exec,     \* the execution of each request
    held,     \* agent_run_scope_reservations of each execution
    runs,     \* agent_runs with agent_run_knowledge_bases
    keeper,   \* the retention job
    changes, faults

vars == <<kb, wikis, files, intents, agent, model, token, exec, held, runs, keeper, changes, faults>>
world == <<kb, agent, model, token, changes>>
store == <<wikis, files, intents, keeper>>

NoWiki == 0
Wikis == KBs \X (1..MaxWiki)

ToolLimit(c) == IF c.mode = "TOOL_CALLING" THEN MaxToolCalls ELSE 0
NoCapture == [version |-> 0, resource |-> 0]
NoDraft == [status |-> "none", cites |-> {}]
NewExec == [at |-> "idle", token |-> "none", cap |-> NoCapture, handles |-> {}, minted |-> {},
            left |-> 0, turns |-> 0, tries |-> 0, draft |-> NoDraft, outcome |-> "none",
            shown |-> {}, public |-> {}, inScope |-> TRUE, tokenKept |-> TRUE]
Free == [wikis |-> {}, ttl |-> 0]
NoRun == [outcome |-> "none", wikis |-> {}, old |-> FALSE]

Init ==
    /\ kb = [k \in KBs |-> [lifecycle |-> "ACTIVE", access |-> "PUBLIC", published |-> 1]]
    /\ wikis = {<<k, 1>> : k \in KBs} /\ files = wikis /\ intents = {}
    /\ \E c \in Configurations :
         agent = [lifecycle |-> "ACTIVE", resource |-> 1, version |-> 1, config |-> c]
    /\ model = [revision |-> 1, usable |-> TRUE]
    /\ token = [t \in Tokens |-> "valid"]
    /\ exec = [r \in Requests |-> NewExec]
    /\ held = [r \in Requests |-> Free]
    /\ runs = [r \in Requests |-> NoRun]
    /\ keeper = [at |-> "idle", left |-> {}, cur |-> {}]
    /\ changes = 0 /\ faults = 0

-----------------------------------------------------------------------------
(***************************************************************************)
(* Readiness and freshness.                                                *)
(***************************************************************************)
Members == agent.config.members

\* evaluateModelReadiness: profile available, endpoint active and healthy,
\* configuration current, credential present, limits and capabilities known.
ModelReady == model.usable

\* evaluateKnowledgeBaseReadiness
KnowledgeReady(members) ==
    \A k \in members :
      kb[k].lifecycle = "ACTIVE" /\ kb[k].published # NoWiki /\ <<k, kb[k].published>> \in wikis

Ready(members) == ModelReady /\ KnowledgeReady(members)

CapturedWikis(c) == {<<k, c.kbs[k].wiki>> : k \in DOMAIN c.kbs}

\* Mutant: the policy of a knowledge base is not compared.
SecurityFresh_AnyAccess(c) ==
    /\ agent.lifecycle = "ACTIVE" /\ agent.version = c.version /\ agent.resource = c.resource
    /\ \A k \in DOMAIN c.kbs : kb[k].lifecycle = "ACTIVE" /\ kb[k].published # NoWiki
    /\ CapturedWikis(c) \subseteq wikis

\* assertFresh without the model: the agent is the captured one, its knowledge
\* bases are active under the captured policy and the captured wikis exist.
SecurityFresh(c) ==
    /\ agent.lifecycle = "ACTIVE" /\ agent.version = c.version /\ agent.resource = c.resource
    /\ \A k \in DOMAIN c.kbs :
         kb[k].lifecycle = "ACTIVE" /\ kb[k].access = c.kbs[k].access /\ kb[k].published # NoWiki
    /\ CapturedWikis(c) \subseteq wikis

ModelFresh(c) == model.usable /\ model.revision = c.model
Fresh(c) == SecurityFresh(c) /\ ModelFresh(c)

EffectiveAccess(c) ==
    IF \E k \in DOMAIN c.kbs : c.kbs[k].access = "RESTRICTED" THEN "RESTRICTED" ELSE "PUBLIC"

\* The execution's context: it times out Margin ticks before the reservation.
InTime(r) == held[r].ttl > Margin

At(r, pc) == exec[r].at = pc
Go(r, pc) == exec' = [exec EXCEPT ![r].at = pc]

\* Rows locked by transactions that are open between two steps: FOR SHARE of
\* a capture, FOR KEY SHARE of a settlement, FOR UPDATE of a deletion.
SharedBy(r) ==
    IF exec[r].at \in {"capturing", "recording"} THEN CapturedWikis(exec[r].cap) ELSE {}
WikiLocked(w) == \E r \in Requests : w \in SharedBy(r)
BaseShared(k) == \E r \in Requests : At(r, "capturing") /\ k \in DOMAIN exec[r].cap.kbs
BaseLocked(k) == \E w \in keeper.cur : w[1] = k

-----------------------------------------------------------------------------
(***************************************************************************)
(* Changes from outside an execution.                                      *)
(***************************************************************************)
Change == changes < MaxChanges /\ changes' = changes + 1
KeepsExec == UNCHANGED <<exec, held, runs, faults>>

\* Catalog.ReplaceConfiguration, committed: an active agent only takes a ready
\* configuration, and an equal one is refused.
ReplaceConfiguration(c) ==
    /\ Change
    /\ c # agent.config
    /\ agent.lifecycle = "ACTIVE" => Ready(c.members)
    /\ agent' = [agent EXCEPT !.config = c, !.version = @ + 1, !.resource = @ + 1]
    /\ UNCHANGED <<kb, model, token, store>> /\ KeepsExec

\* transitionAllowed: a draft was activated before the model starts.
TransitionAllowed(from, to) == <<from, to>> \in {<<"ACTIVE", "ARCHIVED">>, <<"ARCHIVED", "ACTIVE">>}

\* Catalog.SetLifecycle, committed.
SetLifecycle(to) ==
    /\ Change
    /\ TransitionAllowed(agent.lifecycle, to)
    /\ to = "ACTIVE" => Ready(Members)
    /\ agent' = [agent EXCEPT !.lifecycle = to, !.resource = @ + 1]
    /\ UNCHANGED <<kb, model, token, store>> /\ KeepsExec

\* Service.Revoke, and expires_at passing.
Revoke(t) ==
    /\ Change
    /\ token[t] = "valid"
    /\ token' = [token EXCEPT ![t] = "revoked"]
    /\ UNCHANGED <<kb, agent, model, store>> /\ KeepsExec

\* A documentation run publishes the next wiki of a knowledge base.
Publish(k) ==
    /\ Change
    /\ kb[k].lifecycle = "ACTIVE" /\ kb[k].published < MaxWiki
    /\ ~BaseShared(k) /\ ~BaseLocked(k)
    /\ kb' = [kb EXCEPT ![k].published = @ + 1]
    /\ wikis' = wikis \cup {<<k, kb[k].published + 1>>}
    /\ files' = files \cup {<<k, kb[k].published + 1>>}
    /\ UNCHANGED <<intents, keeper, agent, model, token>> /\ KeepsExec

\* An operator archives a knowledge base, or changes its access policy.
ChangeBase(k) ==
    /\ Change
    /\ ~BaseShared(k) /\ ~BaseLocked(k)
    /\ \/ kb[k].lifecycle = "ACTIVE" /\ kb' = [kb EXCEPT ![k].lifecycle = "ARCHIVED"]
       \/ \E a \in {"PUBLIC", "RESTRICTED"} \ {kb[k].access} : kb' = [kb EXCEPT ![k].access = a]
    /\ UNCHANGED <<agent, model, token, store>> /\ KeepsExec

\* The profile, the endpoint or the credential changes, or the endpoint's health.
ChangeModel ==
    /\ Change
    /\ \/ model' = [model EXCEPT !.revision = @ + 1]
       \/ model' = [model EXCEPT !.usable = ~@]
    /\ UNCHANGED <<kb, agent, token, store>> /\ KeepsExec

-----------------------------------------------------------------------------
(***************************************************************************)
(* The request up to its capture.                                          *)
(***************************************************************************)
Rest(r) == UNCHANGED <<world, store>> /\ UNCHANGED <<held, runs, faults>>

\* compatibilityHandler.completions, with the request decoded: an unknown,
\* expired or revoked token is refused (Service.Authenticate).
Authenticate(r, t) ==
    /\ At(r, "idle")
    /\ exec' = [exec EXCEPT ![r].at = IF token[t] = "valid" THEN "admitted" ELSE "refused", ![r].token = t]
    /\ Rest(r)

\* decodeCompatibilityRequest and normalizeCompatibilityRequest: a body that
\* is not a transcript ending with a user's message is refused.
DecodeCompletion(r) ==
    /\ At(r, "admitted")
    /\ Go(r, "decoded") \/ Go(r, "invalid")
    /\ Rest(r)

\* ResolveReadyScoped: the agent is in the token's scope, active and ready.
ResolveReadyScoped(r) ==
    /\ At(r, "decoded")
    /\ Go(r, IF agent.lifecycle = "ACTIVE" /\ Ready(Members) THEN "selected" ELSE "unavailable")
    /\ Rest(r)

\* loadCapturedKnowledgeBases: the published wiki and the policy of each
\* member, in the order of the memberships.
CapturedKnowledgeBases == [k \in Members |-> [wiki |-> kb[k].published, access |-> kb[k].access]]

\* loadCapturedModel: the versions of profile, endpoint and credential.
CapturedModel == model.revision

Captured ==
    [version |-> agent.version, resource |-> agent.resource, config |-> agent.config,
     model |-> CapturedModel, kbs |-> CapturedKnowledgeBases]

\* Capture up to its inserts: readiness again, then the rows FOR SHARE.
CaptureScope(r) ==
    /\ At(r, "selected")
    /\ ~\E k \in Members : BaseLocked(k)
    /\ IF agent.lifecycle = "ACTIVE" /\ Ready(Members)
       THEN exec' = [exec EXCEPT ![r].at = "capturing", ![r].cap = Captured]
       ELSE Go(r, "unavailable")
    /\ Rest(r)

\* Capture's inserts and commit: one reservation per knowledge base.
Reserve(r) ==
    /\ At(r, "capturing")
    /\ exec' = [exec EXCEPT ![r].at = "captured", ![r].left = ToolLimit(exec[r].cap.config)]
    /\ held' = [held EXCEPT ![r] = [wikis |-> CapturedWikis(exec[r].cap), ttl |-> ReservationTTL]]
    /\ UNCHANGED <<world, store, runs, faults>>

-----------------------------------------------------------------------------
(***************************************************************************)
(* Engine.Execute after the capture.                                       *)
(***************************************************************************)
\* validateCapture or the digest fails: the deferred release runs.
ReleaseCapture(r) ==
    /\ At(r, "captured")
    /\ faults < MaxFaults /\ faults' = faults + 1
    /\ held' = [held EXCEPT ![r] = Free]
    /\ Go(r, "unavailable")
    /\ UNCHANGED <<world, store, runs>>

\* What is left of an execution once it settles: its capture and its result.
Settling(x, outcome, shown) ==
    [NewExec EXCEPT !.at = "settling", !.token = x.token, !.cap = x.cap, !.outcome = outcome,
                    !.shown = shown]

\* Engine.fail: the run is settled as FAILED.
Fail(r) == exec' = [exec EXCEPT ![r] = Settling(exec[r], "FAILED", {})]

\* The grant allows the agent (scopedGrantAuthorizer), then AssertFresh and
\* NewScopeLedger: handles of sources only with access to source evidence.
Begin(r) ==
    /\ At(r, "captured") /\ InTime(r)
    /\ LET c == exec[r].cap IN
       IF Fresh(c)
       THEN exec' = [exec EXCEPT ![r].at = "retrieving",
              ![r].handles = IF c.config.evidence = "WIKI_AND_SOURCE"
                             THEN (DOMAIN c.kbs) \X {"source"} ELSE {}]
       ELSE Fail(r)
    /\ Rest(r)

\* ScopeLedger.allow for evidence of knowledge base k: a citation of the
\* captured wiki, or of a source of its run.
Allow(c, k, kinds) == {[kb |-> k, wiki |-> c.kbs[k].wiki, kind |-> x] : x \in kinds}

\* ToolRuntime.search: every hit gets handles to its page and its claim.
SearchHandles(c, hits) == hits \X {"page", "claim"}

\* What reading a hit mints: that of a claim its claim and sources, any other
\* its page, and several hits may be of either.
InitialKinds == {{"page"}, {"claim", "source"}, {"page", "claim", "source"}}

\* A single pass reads its hits at once, tools read them later.
InitialCitations(c, hits, kinds) ==
    IF c.config.mode = "TOOL_CALLING" THEN {} ELSE UNION {Allow(c, k, kinds) : k \in hits}

\* InitialEvidence: hits of the captured wikis; a single pass reads them, and
\* budgetInitial refuses a prompt that does not fit the context.
InitialEvidence(r) ==
    /\ At(r, "retrieving") /\ InTime(r)
    /\ LET c == exec[r].cap IN
       \E hits \in {{}, DOMAIN c.kbs}, kinds \in InitialKinds :
         \/ exec' = [exec EXCEPT ![r].at = "turn", ![r].handles = @ \cup SearchHandles(c, hits),
              ![r].minted = InitialCitations(c, hits, kinds)]
         \/ Fail(r)
    /\ Rest(r)

\* The head of the loop: maxTurns, and AssertFresh before the model is called.
BeginTurn(r) ==
    /\ At(r, "turn") /\ InTime(r)
    /\ IF exec[r].turns = ToolLimit(exec[r].cap.config) + 1 \/ ~Fresh(exec[r].cap)
       THEN Fail(r)
       ELSE exec' = [exec EXCEPT ![r].at = "calling", ![r].turns = @ + 1, ![r].tries = 0]
    /\ Rest(r)

\* OpenAIModel.call: admission may take a while, then BeforeRequest checks
\* freshness again and the request is sent.
SendRequest(r) ==
    /\ At(r, "calling") /\ InTime(r)
    /\ IF Fresh(exec[r].cap) THEN Go(r, "thinking") ELSE Fail(r)
    /\ Rest(r)

\* OpenAIModel.complete after a failed request: retryable failures are sent
\* again up to max_retries, a rate limit or any other failure is not.
ModelFails(r) ==
    /\ At(r, "thinking") \/ At(r, "calling")
    /\ faults < MaxFaults /\ faults' = faults + 1
    /\ \/ Fail(r)
       \/ At(r, "thinking") /\ exec[r].tries < ModelRetries
          /\ exec' = [exec EXCEPT ![r].at = "calling", ![r].tries = @ + 1]
    /\ UNCHANGED <<world, store, held, runs>>

\* Citation identifiers a draft may carry: minted ones, and one that is not.
Forged == [kb |-> "?", wiki |-> 0, kind |-> "page"]
Citations(minted) == {{}, {Forged}, minted, minted \cup {Forged}}

\* The model answers with a draft (parseAnswerDraft).
ModelDrafts(r) ==
    /\ At(r, "thinking") /\ InTime(r)
    /\ \E s \in {"answered", "refused"}, cites \in Citations(exec[r].minted) :
         /\ s = "refused" => cites = {}
         /\ exec' = [exec EXCEPT ![r].at = "drafted", ![r].draft = [status |-> s, cites |-> cites]]
    /\ Rest(r)

\* The answer is neither a valid draft nor valid tool calls, or mixes them
\* (openAICompletionMessage, parseAnswerDraft), or the payload does not fit.
ModelMisanswers(r) ==
    /\ At(r, "thinking") /\ InTime(r)
    /\ Fail(r)
    /\ Rest(r)

\* The model asks for tools; a single pass has none (parseOpenAIToolCalls).
ModelCallsTool(r) ==
    /\ At(r, "thinking") /\ InTime(r)
    /\ IF exec[r].cap.config.mode = "TOOL_CALLING" THEN Go(r, "dispatching") ELSE Fail(r)
    /\ Rest(r)

\* readWikiPage, getClaim, searchSource and readSource: what each needs in
\* the ledger, what it mints, and the handles it adds.
Tools == {"read_wiki_page", "get_claim", "search_source", "read_source"}
Needs(tool, k) ==
    CASE tool = "read_wiki_page" -> <<k, "page">>
      [] tool = "get_claim" -> <<k, "claim">>
      [] tool = "search_source" -> <<k, "source">>
      [] tool = "read_source" -> <<k, "path">>
Mints(tool) ==
    CASE tool = "read_wiki_page" -> {"page"}
      [] tool = "get_claim" -> {"claim", "source"}
      [] OTHER -> {"source"}

HasCalls(r) == exec[r].left > 0

\* After a call of a tool comes the next call of the same turn, before which
\* nothing is checked, or the next turn.
AfterCall == {"dispatching", "turn"}

\* ToolRuntime.search, one of its calls.
SearchWikis(r, hits, next) ==
    exec' = [exec EXCEPT ![r].at = next, ![r].left = @ - 1,
                         ![r].handles = @ \cup SearchHandles(exec[r].cap, hits)]

\* The other tools read one knowledge base through a handle.  Wiki pages and
\* claims are gone with their wiki; sources have handles only with source access.
ReadEvidence(r, tool, k, next) ==
    LET c == exec[r].cap IN
    /\ Needs(tool, k) \in exec[r].handles
    /\ <<k, c.kbs[k].wiki>> \in wikis
    /\ exec' = [exec EXCEPT ![r].at = next, ![r].left = @ - 1,
         ![r].minted = @ \cup Allow(c, k, Mints(tool)),
         ![r].handles = @ \cup (IF tool = "search_source" THEN {<<k, "path">>} ELSE {})]

\* ToolRuntime.Dispatch: the limit, then the tool, which may fail.
Dispatch(r) ==
    /\ At(r, "dispatching") /\ InTime(r)
    /\ \/ HasCalls(r) /\ \E next \in AfterCall :
            \/ \E hits \in {{}, DOMAIN exec[r].cap.kbs} : SearchWikis(r, hits, next)
            \/ \E tool \in Tools, k \in DOMAIN exec[r].cap.kbs : ReadEvidence(r, tool, k, next)
       \/ Fail(r)
    /\ Rest(r)

\* validateDraft: spans without a known citation are dropped, and a draft that
\* has none left does not answer.
ValidateDraft(d, minted) ==
    IF d.status = "refused" THEN [status |-> "REFUSED", cites |-> {}]
    ELSE IF d.cites \cap minted = {} THEN [status |-> "INSUFFICIENT", cites |-> {}]
    ELSE [status |-> "ANSWERED", cites |-> d.cites \cap minted]

\* presentExecutionResult: a restricted answer shows labels, not locators.
Present(access, cites) ==
    IF access = "RESTRICTED" THEN {[kb |-> x.kb, wiki |-> 0, kind |-> "label"] : x \in cites} ELSE cites

\* History: the agent and its knowledge bases are in use as they were captured.
ScopeStands(c) ==
    /\ agent.lifecycle = "ACTIVE" /\ agent.config = c.config
    /\ \A k \in c.config.members : kb[k].lifecycle = "ACTIVE"

\* AssertSecurityFresh, validateDraft and presentExecutionResult.
AcceptDraft(r) ==
    /\ At(r, "drafted") /\ InTime(r)
    /\ LET c == exec[r].cap
           v == ValidateDraft(exec[r].draft, exec[r].minted) IN
       IF SecurityFresh(c)
       THEN exec' = [exec EXCEPT ![r] =
              [Settling(exec[r], v.status, Present(EffectiveAccess(c), v.cites)) EXCEPT
                 !.public = {k \in KBs : kb[k].access = "PUBLIC"}, !.inScope = ScopeStands(c)]]
       ELSE Fail(r)
    /\ Rest(r)

\* The context ends first: the pending call fails and the run is FAILED.
TimeOut(r) ==
    /\ exec[r].at \in {"captured", "retrieving", "turn", "calling", "thinking", "dispatching", "drafted"}
    /\ ~InTime(r)
    /\ Fail(r)
    /\ Rest(r)

-----------------------------------------------------------------------------
(***************************************************************************)
(* Settlement and delivery.                                                *)
(***************************************************************************)
ReservationHolds(r) == held[r].wikis = CapturedWikis(exec[r].cap) /\ held[r].ttl > 0

\* RecordRun up to its inserts: lockRunScopeReservation locks the wikis and
\* wants the whole reservation unexpired.
LockRunScope(r) ==
    /\ At(r, "settling")
    /\ keeper.cur \cap CapturedWikis(exec[r].cap) = {}
    /\ IF CapturedWikis(exec[r].cap) \subseteq wikis /\ ReservationHolds(r)
       THEN Go(r, "recording") ELSE Go(r, "error")
    /\ Rest(r)

\* RecordRun's inserts and commit; the answer of the commit may be lost.
RecordRun(r) ==
    /\ At(r, "recording")
    /\ runs' = [runs EXCEPT ![r] = [outcome |-> exec[r].outcome, wikis |-> CapturedWikis(exec[r].cap), old |-> FALSE]]
    /\ held' = [held EXCEPT ![r] = Free]
    /\ \/ /\ exec' = [exec EXCEPT ![r].at = IF exec[r].outcome = "FAILED" THEN "error" ELSE "recorded",
                                  ![r].tokenKept = token[exec[r].token] = "valid"]
          /\ faults' = faults
       \/ /\ faults < MaxFaults /\ faults' = faults + 1
          /\ Go(r, "error")
    /\ UNCHANGED <<world, store>>

\* The settlement's own five seconds end, or its transaction fails.
SettlementFails(r) ==
    /\ At(r, "settling") \/ At(r, "recording")
    /\ faults < MaxFaults /\ faults' = faults + 1
    /\ Go(r, "error")
    /\ UNCHANGED <<world, store, held, runs>>

\* Mutant: the grant of the first authentication is used.
StillGranted_Cached(r) == TRUE
StillGranted(r) == token[exec[r].token] = "valid"

\* completions after Execute: the token is authenticated again before the
\* answer is written (also by writeBufferedStream).
Deliver(r) ==
    /\ At(r, "recorded")
    /\ Go(r, IF StillGranted(r) THEN "delivered" ELSE "refused")
    /\ Rest(r)

\* The process is killed: its open transactions roll back.
Kill(r) ==
    /\ exec[r].at \notin {"idle", "refused", "invalid", "unavailable", "error", "delivered"}
    /\ faults < MaxFaults /\ faults' = faults + 1
    /\ Go(r, "error")
    /\ UNCHANGED <<world, store, held, runs>>

-----------------------------------------------------------------------------
(***************************************************************************)
(* Time and retention.                                                     *)
(***************************************************************************)
Tick ==
    /\ \E r \in Requests : held[r].ttl > 0
    /\ held' = [r \in Requests |-> [held[r] EXCEPT !.ttl = IF @ > 0 THEN @ - 1 ELSE 0]]
    /\ UNCHANGED <<world, store, exec, runs, faults>>


\* Mutant: compares with a time that is not reached.
Expired_Never(r) == held[r].wikis # {} /\ held[r].ttl < 0
Expired(r) == held[r].wikis # {} /\ held[r].ttl = 0
Locks(r) == At(r, "recording")
Reserved(w) == \E r \in Requests : w \in held[r].wikis /\ held[r].ttl > 0
Retained(w) == \E r \in Requests : w \in runs[r].wikis
Published(w) == kb[w[1]].published = w[2]

\* deleteExpiredAgentRunReservations: SKIP LOCKED leaves those of a settlement.
CleanupExpired ==
    /\ keeper.at = "idle"
    /\ keeper' = [keeper EXCEPT !.at = "staging"]
    /\ held' = [r \in Requests |-> IF Expired(r) /\ ~Locks(r) THEN Free ELSE held[r]]
    /\ UNCHANGED <<world, wikis, files, intents, exec, runs, faults>>

\* A recorded run reaches the age at which retention deletes it.
Age(r) ==
    /\ runs[r].outcome # "none" /\ ~runs[r].old
    /\ exec[r].at \in {"refused", "error", "delivered"}
    /\ runs' = [runs EXCEPT ![r].old = TRUE]
    /\ UNCHANGED <<world, store, exec, held, faults>>

\* deleteAgentRuns
KeptRuns == [r \in Requests |-> IF runs[r].old THEN [NoRun EXCEPT !.outcome = "deleted"] ELSE runs[r]]

\* stageOldWikis, its query: old wikis that are not published and that neither
\* a run nor a reservation holds, as its snapshot shows them.
SelectOldWikis ==
    /\ keeper.at = "staging"
    /\ keeper' = [at |-> "selected", cur |-> {}, left |-> {w \in wikis :
         ~Published(w) /\ ~Reserved(w) /\ w \notin intents /\ \A r \in Requests : w \notin KeptRuns[r].wikis}]
    /\ UNCHANGED <<world, wikis, files, intents, exec, held, runs, faults>>

\* Its inserts and the commit of Apply's transaction: SKIP LOCKED passes over
\* rows of open transactions.  applyDeletionIntents then lists all intents.
StageOldWikis ==
    /\ keeper.at = "selected"
    /\ runs' = KeptRuns
    /\ intents' = intents \cup {w \in keeper.left : ~WikiLocked(w) /\ ~BaseShared(w[1])}
    /\ keeper' = [at |-> "deleting", left |-> intents', cur |-> {}]
    /\ UNCHANGED <<world, wikis, files, exec, held, faults>>

\* lockWikiDeletionEligibility deletes the expired reservations of one wiki.
WithoutExpired(w) ==
    [r \in Requests |-> IF held[r].ttl = 0 THEN [held[r] EXCEPT !.wikis = @ \ {w}] ELSE held[r]]

\* Mutant: what was staged is deleted without another look.
Eligible_Staged(w) == ~Published(w)
Eligible(w) == ~Published(w) /\ ~Reserved(w) /\ ~Retained(w)

\* Mutant: the intent is deleted before the directory.
FinalizeIntent_IntentFirst(w) ==
    /\ keeper.at = "deleting" /\ w \in keeper.left
    /\ ~WikiLocked(w) /\ ~BaseShared(w[1])
    /\ intents' = intents \ {w}
    /\ IF w \in wikis /\ Eligible(w)
       THEN files' = files \ {w} /\ keeper' = [keeper EXCEPT !.at = "discarded", !.cur = {w}]
       ELSE keeper' = [keeper EXCEPT !.left = @ \ {w}] /\ UNCHANGED files
    /\ UNCHANGED <<world, wikis, held, exec, runs, faults>>

\* finalizeIntent up to its commit: once the rows are locked and the wiki is
\* still eligible its directory is removed, else the intent is dropped.
FinalizeIntent(w) ==
    /\ keeper.at = "deleting" /\ w \in keeper.left
    /\ ~WikiLocked(w) /\ ~BaseShared(w[1])
    /\ IF w \in wikis /\ Eligible(w)
       THEN /\ files' = files \ {w}
            /\ keeper' = [keeper EXCEPT !.at = "discarded", !.cur = {w}]
            /\ UNCHANGED <<intents, held>>
       ELSE /\ intents' = intents \ {w}
            /\ keeper' = [keeper EXCEPT !.left = @ \ {w}]
            /\ held' = IF w \in wikis /\ ~Published(w) THEN WithoutExpired(w) ELSE held
            /\ UNCHANGED files
    /\ UNCHANGED <<world, wikis, exec, runs, faults>>

\* finalizeResource, deleteIntent and the commit.
FinalizeResource ==
    /\ keeper.at = "discarded"
    /\ \E w \in keeper.cur :
         /\ wikis' = wikis \ {w} /\ intents' = intents \ {w}
         /\ held' = WithoutExpired(w)
         /\ keeper' = [at |-> "deleting", left |-> keeper.left \ {w}, cur |-> {}]
    /\ UNCHANGED <<world, files, exec, runs, faults>>

\* The transaction of a deletion fails: the intent stays for the next run.
FinalizeFails ==
    /\ keeper.at = "discarded"
    /\ faults < MaxFaults /\ faults' = faults + 1
    /\ keeper' = [at |-> "deleting", left |-> keeper.left \ keeper.cur, cur |-> {}]
    /\ UNCHANGED <<world, wikis, files, intents, exec, held, runs>>

\* The job ends, or loses its permit and is abandoned.
EndRetention ==
    /\ \/ keeper.at = "deleting" /\ keeper.left = {} /\ faults' = faults
       \/ keeper.at # "idle" /\ faults < MaxFaults /\ faults' = faults + 1
    /\ keeper' = [at |-> "idle", left |-> {}, cur |-> {}]
    /\ UNCHANGED <<world, wikis, files, intents, exec, held, runs>>

-----------------------------------------------------------------------------
Step(r) ==
    \/ DecodeCompletion(r) \/ ResolveReadyScoped(r) \/ CaptureScope(r) \/ Reserve(r) \/ Begin(r) \/ InitialEvidence(r)
    \/ BeginTurn(r) \/ SendRequest(r) \/ ModelDrafts(r) \/ ModelMisanswers(r) \/ ModelCallsTool(r) \/ Dispatch(r)
    \/ AcceptDraft(r) \/ TimeOut(r) \/ LockRunScope(r) \/ RecordRun(r) \/ Deliver(r)
Fault(r) == ReleaseCapture(r) \/ ModelFails(r) \/ SettlementFails(r) \/ Kill(r)
Operator ==
    \/ \E c \in Configurations : ReplaceConfiguration(c)
    \/ \E to \in {"ACTIVE", "ARCHIVED"} : SetLifecycle(to)
    \/ \E t \in Tokens : Revoke(t)
    \/ \E k \in KBs : Publish(k) \/ ChangeBase(k)
    \/ ChangeModel
Retention == CleanupExpired \/ SelectOldWikis \/ StageOldWikis \/ (\E w \in keeper.left : FinalizeIntent(w)) \/ FinalizeResource \/ FinalizeFails \/ EndRetention

Next ==
    \/ \E r \in Requests : Step(r) \/ Fault(r) \/ Age(r) \/ \E t \in Tokens : Authenticate(r, t)
    \/ Operator
    \/ Tick
    \/ Retention

Spec == Init /\ [][Next]_vars

\* Fairness: a running process takes its steps, the clock runs, and retention
\* is scheduled again and again (RunScheduling) by a queue that settles jobs.
FairSpec ==
    /\ Spec
    /\ \A r \in Requests : WF_vars(Step(r))
    /\ WF_vars(Tick)
    /\ WF_vars(CleanupExpired) /\ WF_vars(SelectOldWikis) /\ WF_vars(StageOldWikis) /\ WF_vars(FinalizeResource) /\ WF_vars(EndRetention)
    /\ WF_vars(\E w \in keeper.left : FinalizeIntent(w))

-----------------------------------------------------------------------------
(***************************************************************************)
(* Properties.                                                             *)
(***************************************************************************)
\* The shape of every variable, the reservations being of stored wikis.
AnswerTypeOK ==
    /\ wikis \subseteq Wikis /\ files \subseteq Wikis /\ intents \subseteq wikis
    /\ \A k \in KBs : kb[k].published \in 1..MaxWiki
    /\ \A r \in Requests : held[r].ttl \in 0..ReservationTTL /\ held[r].wikis \subseteq Wikis
    /\ \A r \in Requests : exec[r].left \in 0..MaxToolCalls /\ exec[r].turns \in 0..MaxToolCalls + 1

\* lockWikiDeletionEligibility, Capture and RecordRun together: the published
\* wikis, those reserved by a running answer and those a recorded run refers
\* to are never deleted, neither their rows nor their files.
ScopeRetained ==
    \A w \in Wikis : Published(w) \/ Reserved(w) \/ Retained(w) => w \in wikis \cap files

\* finalizeIntent removes files before its commit: a row whose files are gone
\* keeps its intent, so that the next retention job finishes the deletion.
HalfDeletedIsStaged == wikis \ files \subseteq intents

\* The published wikis, those reserved by a running answer and those a recorded
\* run refers to are never deleted, and a deletion that stopped halfway is still
\* staged (lockWikiDeletionEligibility, Capture, RecordRun, finalizeIntent).
WikisAreRetained == ScopeRetained /\ HalfDeletedIsStaged

\* completions writes an answer only under a token that was still valid when
\* its run was recorded, and only an answer that was recorded.
DeliveredIsGranted ==
    \A r \in Requests : At(r, "delivered") =>
      /\ exec[r].tokenKept
      /\ runs[r].outcome \in {exec[r].outcome, "deleted"}

\* AssertSecurityFresh and presentExecutionResult: what an answer shows was
\* read in the captured wikis, and it shows the locators of a knowledge base
\* only if that was public, and all of them in the scope, when the draft was
\* accepted.
AnswerIsInScope ==
    \A r \in Requests : At(r, "delivered") =>
      /\ exec[r].inScope
      /\ \A x \in exec[r].shown :
           /\ x.kb \in DOMAIN exec[r].cap.kbs
           /\ x.kind # "label" => x.kb \in exec[r].public /\ x.wiki = exec[r].cap.kbs[x.kb].wiki

\* Whenever an execution has built its prompt (InitialEvidence, budgetInitial)
\* the algorithms it used keep what they promise: the prompt fits the context
\* and keeps the question, hits are merged fairly over the wikis, and a tool
\* result is cut at the last boundary that fits.
PromptIsSound == \A r \in Requests : At(r, "turn") => AlgorithmsMeetReference

\* Execute's deferred release, RecordRun, the expiry and its cleanup: no
\* reservation of an answer that ended holds a wiki for good.
ReservationsEnd == \A r \in Requests : held[r].wikis # {} ~> held[r].wikis = {}
=============================================================================
