-------------------------- MODULE AgentAnswerProofs --------------------------
(***************************************************************************)
(* Proofs about module AgentAnswer: for any number of knowledge bases,     *)
(* wikis, configurations, tokens and concurrent requests, and any length   *)
(* of reservations, no wiki that is published, reserved or referred to is  *)
(* deleted, an answer is delivered under a valid token only, and what it   *)
(* shows was read in its scope; and for any prompt, hits and tool result,  *)
(* the algorithms of AnswerAlgorithms keep what they promise.              *)
(***************************************************************************)
EXTENDS AgentAnswer, SequenceTheorems, WellFoundedInduction, TLAPS

Access == {"PUBLIC", "RESTRICTED"}
Lifecycle == {"ACTIVE", "ARCHIVED"}
Kinds == {"page", "claim", "source"}
Outcomes == {"none", "FAILED", "REFUSED", "INSUFFICIENT", "ANSWERED"}
Working == {"captured", "retrieving", "turn", "calling", "thinking", "dispatching", "drafted"}
Scoped == Working \cup {"capturing", "settling", "recording", "recorded"}
Ended == {"refused", "error", "delivered"}
Places == Scoped \cup Ended \cup {"idle", "admitted", "decoded", "invalid", "selected", "unavailable"}

Entry == [wiki : 1..MaxWiki, access : Access]
Entries == UNION {[m -> Entry] : m \in SUBSET KBs}
Capture == [version : Nat, resource : Nat, config : Configurations, model : Nat, kbs : Entries]
Citation == [kb : KBs, wiki : 1..MaxWiki, kind : Kinds]
Draft == [status : {"none", "answered", "refused"}, cites : SUBSET (Citation \cup {Forged})]
Handle == KBs \X {"page", "claim", "source", "path"}

\* The fields of an execution.
TokenField == Tokens \cup {"none"}
CapField == Capture \cup {NoCapture}
HandlesField == SUBSET Handle
MintedField == SUBSET Citation
LeftField == 0..MaxToolCalls
TurnsField == 0..(MaxToolCalls + 1)
ShownField == SUBSET [kb : KBs, wiki : 0..MaxWiki, kind : Kinds \cup {"label"}]
PublicField == SUBSET KBs

Execution ==
    [at : Places, token : TokenField, cap : CapField, handles : HandlesField, minted : MintedField,
     left : LeftField, turns : TurnsField, tries : Nat, draft : Draft, outcome : Outcomes,
     shown : ShownField, public : PublicField, inScope : BOOLEAN, tokenKept : BOOLEAN]

(***************************************************************************)
(* The inductive invariant.                                                *)
(***************************************************************************)
Types ==
    /\ kb \in [KBs -> [lifecycle : Lifecycle, access : Access, published : 1..MaxWiki]]
    /\ agent \in [lifecycle : Lifecycle, resource : Nat, version : Nat, config : Configurations]
    /\ model \in [revision : Nat, usable : BOOLEAN]
    /\ token \in [Tokens -> {"valid", "revoked"}]
    /\ wikis \subseteq Wikis /\ files \subseteq Wikis /\ intents \subseteq wikis
    /\ held \in [Requests -> [wikis : SUBSET Wikis, ttl : 0..ReservationTTL]]
    /\ runs \in [Requests -> [outcome : Outcomes \cup {"deleted"}, wikis : SUBSET Wikis, old : BOOLEAN]]
    /\ keeper \in [at : {"idle", "staging", "selected", "deleting", "discarded"},
                   left : SUBSET Wikis, cur : SUBSET Wikis]
    /\ exec \in [Requests -> Execution]

\* Retention: an unpublished wiki is older than the published one, hence never
\* published again; a deletion has a staged row without files in its hands.
Deletion ==
    /\ \A w \in wikis : w[2] <= kb[w[1]].published
    /\ keeper.at = "selected" => keeper.left \subseteq wikis
    /\ keeper.at \in {"deleting", "discarded"} => keeper.left \subseteq intents
    /\ keeper.cur \subseteq wikis /\ keeper.cur \cap files = {}
    /\ keeper.at # "discarded" => keeper.cur = {}
    /\ \A w \in keeper.cur : keeper.cur = {w}

\* What x captured: the agent's configuration of a version that may have been
\* replaced since, and the budget that goes with it.
CaptureFits(x) ==
    /\ x.cap \in Capture /\ DOMAIN x.cap.kbs = x.cap.config.members
    /\ x.cap.version <= agent.version
    /\ x.cap.version = agent.version => x.cap.config = agent.config
    /\ x.turns <= ToolLimit(x.cap.config) + 1 /\ x.left <= ToolLimit(x.cap.config)
    /\ x.token \in Tokens

\* The rows an open transaction of x has locked are as it read them.
LocksHold(x) ==
    /\ x.at = "capturing" => \A k \in DOMAIN x.cap.kbs : x.cap.kbs[k].wiki = kb[k].published
    /\ x.at = "recording" => CapturedWikis(x.cap) \subseteq wikis \cap files

\* Citations minted for x are of its captured wikis, and what is shown is a
\* label or was public when the draft was accepted.
Cited(x) ==
    /\ \A c \in x.minted : c.kb \in DOMAIN x.cap.kbs /\ c.wiki = x.cap.kbs[c.kb].wiki
    /\ \A c \in x.shown :
         /\ c.kb \in DOMAIN x.cap.kbs
         /\ c.kind # "label" => c.kb \in x.public /\ c.wiki = x.cap.kbs[c.kb].wiki
    /\ x.inScope

\* The recorded run is the one that is delivered.
Recorded(x, run) ==
    /\ x.at = "recorded" => run.outcome = x.outcome /\ (token[x.token] = "valid" => x.tokenKept)
    /\ x.at = "delivered" => run.outcome \in {x.outcome, "deleted"} /\ x.tokenKept
    /\ run.old => x.at \in Ended

\* Before its capture an execution has found and spent nothing.
Unstarted(x) == x.left = 0 /\ x.turns = 0 /\ x.minted = {} /\ x.shown = {}

Sound(x, run) ==
    /\ x.at \in {"admitted", "decoded", "selected"} => x.token \in Tokens
    /\ x.at \in {"idle", "admitted", "decoded", "selected"} => Unstarted(x)
    /\ x.at \in Scoped => CaptureFits(x)
    /\ LocksHold(x) /\ Cited(x) /\ Recorded(x, run)

AnswerInv ==
    /\ Types /\ Deletion /\ ScopeRetained /\ HalfDeletedIsStaged
    /\ \A r \in Requests : Sound(exec[r], runs[r])

-----------------------------------------------------------------------------
(***************************************************************************)
(* Steps that change the execution of one request only.                    *)
(***************************************************************************)
\* What the world does to an execution in a step of another: versions grow, a
\* revoked token stays revoked, and rows it has locked are left alone.
Steady ==
    /\ agent.version <= agent'.version /\ (agent.version = agent'.version => agent.config = agent'.config)
    /\ \A t \in Tokens : token'[t] = "valid" => token[t] = "valid"

LockedStay(x) ==
    /\ x.at = "capturing" => \A k \in DOMAIN x.cap.kbs : kb'[k].published = kb[k].published
    /\ x.at = "recording" => CapturedWikis(x.cap) \cap wikis \cap files \subseteq wikis' \cap files'

\* An execution stays sound while it does not move (SecurityFresh, SKIP LOCKED
\* and the row locks of Capture and RecordRun are what this rests on).
LEMMA SoundStays ==
    ASSUME Types, Types', Steady, NEW x \in Execution, NEW run, Sound(x, run), LockedStay(x)
    PROVE  Sound(x, run)'
<1>1. x.at \in Scoped => CaptureFits(x)'
  <2>1. agent.version \in Nat /\ agent'.version \in Nat
      BY DEF Types
  <2>2. ASSUME x.at \in Scoped, CaptureFits(x), x.cap.version \in Nat PROVE CaptureFits(x)'
      BY <2>1, <2>2 DEF CaptureFits, Steady, ToolLimit
  <2>3. CaptureFits(x) => x.cap.version \in Nat
      BY DEF CaptureFits, Capture
  <2> QED
      BY <2>2, <2>3 DEF Sound
<1>2. LocksHold(x)'
  <2>1. PICK W : W = CapturedWikis(x.cap)
      OBVIOUS
  <2>2. W = CapturedWikis(x.cap)'
      BY <2>1 DEF CapturedWikis
  <2>3. x.at = "recording" => W \subseteq wikis' \cap files'
      BY <2>1 DEF Sound, LocksHold, LockedStay
  <2>4. x.at = "capturing" => \A k \in DOMAIN x.cap.kbs : x.cap.kbs[k].wiki = kb'[k].published
      BY DEF Sound, LocksHold, LockedStay
  <2> QED
      BY <2>2, <2>3, <2>4 DEF LocksHold
<1>3. Cited(x)'
    BY DEF Sound, Cited
<1>4. x.at = "recorded" => x.token \in Tokens
    BY DEF Sound, CaptureFits, Scoped
<1>5. Recorded(x, run)'
    BY <1>4 DEF Sound, Recorded, Steady
<1> QED
    BY <1>1, <1>2, <1>3, <1>5 DEF Sound, Unstarted

\* Rest, with or without a fault: the execution of r becomes y.
Becomes(r, y) ==
    /\ exec' = [exec EXCEPT ![r] = y]
    /\ UNCHANGED <<kb, agent, model, token, wikis, files, intents, keeper, held, runs>>

\* A step of one execution (Engine.Execute between two transactions) keeps the
\* invariant if what the execution becomes is sound.
LEMMA ExecutionStep ==
    ASSUME AnswerInv, NEW r \in Requests, NEW y \in Execution, Becomes(r, y), Sound(y, runs[r])
    PROVE  AnswerInv'
<1>1. Types /\ Types'
    BY DEF AnswerInv, Becomes, Types
<1>2. Deletion'
    BY DEF AnswerInv, Becomes, Deletion
<1>3. ScopeRetained' /\ HalfDeletedIsStaged'
    BY DEF AnswerInv, Becomes, ScopeRetained, HalfDeletedIsStaged, Published, Reserved, Retained
<1>4. ASSUME NEW q \in Requests PROVE Sound(exec[q], runs[q])'
  <2>1. PICK x : x = exec'[q]
      OBVIOUS
  <2>2. PICK run : run = runs[q]
      OBVIOUS
  <2>3. x \in Execution /\ Sound(x, run)
      BY <2>1, <2>2, <1>1 DEF Becomes, Types, AnswerInv
  <2>4. Steady /\ LockedStay(x)
      BY <1>1 DEF Becomes, Steady, LockedStay, Types
  <2>5. Sound(x, run)'
      BY <2>3, <2>4, <1>1, SoundStays
  <2> QED
      BY <2>1, <2>2, <2>5 DEF Becomes
<1> QED
    BY <1>1, <1>2, <1>3, <1>4 DEF AnswerInv

\* A new execution is one (Engine.Execute before its first step).
LEMMA NewExecution ==
    /\ NewExec \in Execution
    /\ NewExec.at = "idle" /\ NewExec.token = "none" /\ NewExec.cap = NoCapture
    /\ NewExec.minted = {} /\ NewExec.shown = {} /\ NewExec.left = 0 /\ NewExec.turns = 0
    /\ NewExec.inScope /\ NewExec.tokenKept
<1>1. "idle" \in Places /\ "none" \in TokenField /\ NoCapture \in CapField
    BY DEF Places, TokenField, CapField
<1>2. {} \in HandlesField /\ {} \in MintedField /\ {} \in ShownField /\ {} \in PublicField
    BY DEF HandlesField, MintedField, ShownField, PublicField
<1>3. 0 \in LeftField /\ 0 \in TurnsField /\ NoDraft \in Draft /\ "none" \in Outcomes
    BY AnswerAssumption DEF LeftField, TurnsField, NoDraft, Draft, Outcomes, AnswerAssumption
<1>4. NewExec \in Execution
    BY <1>1, <1>2, <1>3 DEF NewExec, Execution
<1> QED
    BY <1>4 DEF NewExec

\* Settling keeps the token and the capture and drops the rest.
LEMMA SettlingExecution ==
    ASSUME NEW x \in Execution, NEW outcome \in Outcomes, NEW shown \in ShownField,
           NEW y, y = Settling(x, outcome, shown)
    PROVE  /\ y \in Execution
           /\ y.at = "settling" /\ y.token = x.token /\ y.cap = x.cap /\ y.outcome = outcome
           /\ y.shown = shown /\ y.minted = {} /\ y.left = 0 /\ y.turns = 0
           /\ y.inScope /\ y.tokenKept
<1>1. PICK n \in Execution :
        /\ n = NewExec
        /\ n.minted = {} /\ n.left = 0 /\ n.turns = 0 /\ n.inScope /\ n.tokenKept
    BY NewExecution
<1>2. "settling" \in Places /\ x.token \in TokenField /\ x.cap \in CapField
    BY DEF Places, Scoped, Execution
<1>3. y = [n EXCEPT !.at = "settling", !.token = x.token, !.cap = x.cap, !.outcome = outcome,
                    !.shown = shown]
    BY <1>1 DEF Settling
<1> QED
    BY <1>1, <1>2, <1>3 DEF Execution

\* Engine.fail and the other ways into a settlement start from an execution
\* with a capture and keep it.
LEMMA SettlingSound ==
    ASSUME Types, NEW x \in Execution, NEW run, x.at \in Working, Sound(x, run),
           NEW outcome \in Outcomes, NEW y, y = Settling(x, outcome, {})
    PROVE  y \in Execution /\ Sound(y, run)
<1>1. CaptureFits(x) /\ ~run.old
    BY DEF Sound, Recorded, Scoped, Working, Ended
<1>2. PICK nothing \in ShownField : nothing = {}
    BY DEF ShownField
<1>3. /\ y \in Execution
      /\ y.at = "settling" /\ y.token = x.token /\ y.cap = x.cap
      /\ y.shown = {} /\ y.minted = {} /\ y.left = 0 /\ y.turns = 0 /\ y.inScope
  <2>1. y = Settling(x, outcome, nothing)
      BY <1>2
  <2> QED
      BY <2>1, <1>2, SettlingExecution
<1>4. CaptureFits(y)
  <2>1. ToolLimit(x.cap.config) \in Nat
      BY AnswerAssumption DEF ToolLimit, AnswerAssumption
  <2> QED
      BY <1>1, <1>3, <2>1 DEF CaptureFits
<1>5. LocksHold(y) /\ Cited(y)
    BY <1>3 DEF LocksHold, Cited
<1>6. Recorded(y, run)
    BY <1>1, <1>3 DEF Recorded
<1> QED
    BY <1>3, <1>4, <1>5, <1>6 DEF Sound

\* A captured scope names knowledge bases and wikis of theirs.
LEMMA CaptureEntries ==
    ASSUME NEW c \in Capture
    PROVE  /\ DOMAIN c.kbs \subseteq KBs
           /\ \A k \in DOMAIN c.kbs : c.kbs[k] \in Entry
           /\ c.config \in Configurations /\ c.version \in Nat
<1>1. PICK m \in SUBSET KBs : c.kbs \in [m -> Entry]
    BY DEF Capture, Entries
<1> QED
    BY <1>1 DEF Capture

\* A step that only moves on, and not into a transaction or to a delivery.
LEMMA MoveSound ==
    ASSUME Types, NEW x \in Execution, NEW run, Sound(x, run), x.at \notin Ended,
           NEW pc \in Places \ {"idle", "capturing", "recording", "recorded", "delivered"},
           pc \in Scoped => x.at \in Scoped,
           pc \in {"admitted", "decoded", "selected"} => x.at \in {"admitted", "decoded"},
           NEW y, y = [x EXCEPT !.at = pc]
    PROVE  y \in Execution /\ Sound(y, run)
<1>1. /\ y \in Execution /\ y.at = pc /\ y.token = x.token /\ y.cap = x.cap
      /\ y.shown = x.shown /\ y.minted = x.minted /\ y.left = x.left /\ y.turns = x.turns
      /\ y.public = x.public /\ y.inScope = x.inScope
    BY DEF Execution
<1>2. pc \in Scoped => CaptureFits(y)
  <2>1. pc \in Scoped => CaptureFits(x)
      BY DEF Sound
  <2> QED
      BY <2>1, <1>1 DEF CaptureFits
<1>3. LocksHold(y) /\ (Cited(x) => Cited(y))
    BY <1>1 DEF LocksHold, Cited
<1>4. ~run.old
    BY DEF Sound, Recorded
<1>5. Recorded(y, run)
    BY <1>1, <1>4 DEF Recorded
<1>6. pc \in {"admitted", "decoded", "selected"} => y.token \in Tokens /\ Unstarted(y)
    BY <1>1 DEF Sound, Unstarted
<1> QED
    BY <1>1, <1>2, <1>3, <1>5, <1>6 DEF Sound

\* A step of the engine's loop keeps the capture; what it mints is of it.
LEMMA WorkSound ==
    ASSUME Types, NEW x \in Execution, NEW run, Sound(x, run), x.at \in Working,
           NEW y \in Execution, y.at \in Working, y.cap = x.cap, y.token = x.token,
           y.shown = x.shown, y.public = x.public, y.inScope = x.inScope,
           y.left <= ToolLimit(x.cap.config), y.turns <= ToolLimit(x.cap.config) + 1,
           \A c \in y.minted : c.kb \in DOMAIN x.cap.kbs /\ c.wiki = x.cap.kbs[c.kb].wiki
    PROVE  Sound(y, run)
<1>1. CaptureFits(x) /\ ~run.old /\ Cited(x)
    BY DEF Sound, Recorded, Scoped, Working, Ended
<1>2. CaptureFits(y)
    BY <1>1 DEF CaptureFits
<1>3. LocksHold(y) /\ Recorded(y, run)
    BY <1>1 DEF LocksHold, Recorded, Working
<1>4. Cited(y)
    BY <1>1 DEF Cited
<1>5. y.at \notin {"idle", "admitted", "decoded", "selected"}
    BY DEF Working
<1> QED
    BY <1>2, <1>3, <1>4, <1>5 DEF Sound

\* What the capture's wikis grant (ScopeLedger.allow).
LEMMA AllowSound ==
    ASSUME NEW c \in Capture, NEW k \in DOMAIN c.kbs, NEW kinds \in SUBSET Kinds
    PROVE  /\ Allow(c, k, kinds) \subseteq Citation
           /\ \A y \in Allow(c, k, kinds) : y.kb \in DOMAIN c.kbs /\ y.wiki = c.kbs[y.kb].wiki
<1>1. k \in KBs /\ c.kbs[k].wiki \in 1..MaxWiki
    BY CaptureEntries DEF Entry
<1> QED
    BY <1>1 DEF Allow, Citation

-----------------------------------------------------------------------------
(***************************************************************************)
(* The steps of an execution that leave the reservations alone.            *)
(***************************************************************************)
\* Engine.fail keeps the invariant.
LEMMA FailStep ==
    ASSUME AnswerInv, NEW r \in Requests, exec[r].at \in Working, Fail(r),
           UNCHANGED <<kb, agent, model, token, wikis, files, intents, keeper, held, runs>>
    PROVE  AnswerInv'
<1>1. PICK x \in Execution : x = exec[r]
    BY DEF AnswerInv, Types
<1>2. PICK run : run = runs[r]
    OBVIOUS
<1>3. PICK y : y = Settling(x, "FAILED", {})
    OBVIOUS
<1>4. Sound(x, run) /\ x.at \in Working /\ Types
    BY <1>1, <1>2 DEF AnswerInv
<1>5. PICK o \in Outcomes : o = "FAILED"
    BY DEF Outcomes
<1>6. y \in Execution /\ Sound(y, run)
    BY <1>3, <1>4, <1>5, SettlingSound
<1>7. Becomes(r, y)
    BY <1>1, <1>3 DEF Becomes, Fail
<1> QED
    BY <1>2, <1>6, <1>7, ExecutionStep

\* Go keeps the invariant.
LEMMA GoStep ==
    ASSUME AnswerInv, NEW r \in Requests, NEW pc, Go(r, pc),
           exec[r].at \notin Ended,
           pc \in Places \ {"idle", "capturing", "recording", "recorded", "delivered"},
           pc \in Scoped => exec[r].at \in Scoped,
           pc \in {"admitted", "decoded", "selected"} => exec[r].at \in {"admitted", "decoded"},
           UNCHANGED <<kb, agent, model, token, wikis, files, intents, keeper, held, runs>>
    PROVE  AnswerInv'
<1>1. PICK x \in Execution : x = exec[r]
    BY DEF AnswerInv, Types
<1>2. PICK run : run = runs[r]
    OBVIOUS
<1>3. PICK y : y = [x EXCEPT !.at = pc]
    OBVIOUS
<1>4. Sound(x, run) /\ Types
    BY <1>1, <1>2 DEF AnswerInv
<1>5. y \in Execution /\ Sound(y, run)
    BY <1>1, <1>3, <1>4, MoveSound
<1>6. Becomes(r, y)
    BY <1>1, <1>3 DEF Becomes, Go
<1> QED
    BY <1>2, <1>5, <1>6, ExecutionStep

\* A step of the engine's loop keeps the invariant.
LEMMA WorkStep ==
    ASSUME AnswerInv, NEW r \in Requests, NEW x, x = exec[r], x.at \in Working,
           NEW y \in Execution, exec' = [exec EXCEPT ![r] = y],
           UNCHANGED <<kb, agent, model, token, wikis, files, intents, keeper, held, runs>>,
           y.at \in Working, y.cap = x.cap, y.token = x.token,
           y.shown = x.shown, y.public = x.public, y.inScope = x.inScope,
           y.left <= ToolLimit(x.cap.config), y.turns <= ToolLimit(x.cap.config) + 1,
           \A c \in y.minted : c.kb \in DOMAIN x.cap.kbs /\ c.wiki = x.cap.kbs[c.kb].wiki
    PROVE  AnswerInv'
<1>1. PICK run : run = runs[r]
    OBVIOUS
<1>2. x \in Execution /\ Sound(x, run) /\ Types
    BY <1>1 DEF AnswerInv, Types
<1>3. Sound(y, run)
    BY <1>2, WorkSound
<1>4. Becomes(r, y)
    BY DEF Becomes
<1> QED
    BY <1>1, <1>3, <1>4, ExecutionStep

\* What a working execution has: a capture, and a budget within its limits.
LEMMA WorkingFacts ==
    ASSUME AnswerInv, NEW r \in Requests, NEW x, x = exec[r], x.at \in Working
    PROVE  /\ x \in Execution /\ CaptureFits(x) /\ Cited(x)
           /\ x.cap \in Capture /\ ToolLimit(x.cap.config) \in 0..MaxToolCalls
<1>1. x \in Execution /\ Sound(x, runs[r]) /\ x.at \in Scoped
    BY DEF AnswerInv, Types, Scoped
<1> QED
    BY <1>1, AnswerAssumption DEF Sound, CaptureFits, ToolLimit, AnswerAssumption

\* Authenticate admits valid tokens.
LEMMA AuthenticateStep ==
    ASSUME AnswerInv, NEW r \in Requests, NEW t \in Tokens, Authenticate(r, t)
    PROVE  AnswerInv'
<1>1. PICK x \in Execution : x = exec[r]
    BY DEF AnswerInv, Types
<1>2. PICK run : run = runs[r]
    OBVIOUS
<1>3. PICK pc \in {"admitted", "refused"} :
        exec' = [exec EXCEPT ![r].at = pc, ![r].token = t]
    BY DEF Authenticate
<1>4. PICK y : y = [x EXCEPT !.at = pc, !.token = t]
    OBVIOUS
<1>5. Sound(x, run) /\ x.at = "idle"
    BY <1>1, <1>2 DEF AnswerInv, Authenticate, At
<1>6. pc \in Places /\ t \in TokenField
    BY DEF Places, Ended, TokenField
<1>7. /\ y \in Execution /\ y.at = pc /\ y.token = t /\ y.cap = x.cap
      /\ y.shown = x.shown /\ y.minted = x.minted /\ y.left = x.left /\ y.turns = x.turns
      /\ y.public = x.public /\ y.inScope = x.inScope
    BY <1>1, <1>4, <1>6 DEF Execution
<1>8. LocksHold(y) /\ Cited(y)
    BY <1>5, <1>7 DEF LocksHold, Cited, Sound
<1>9. ~run.old
    BY <1>5 DEF Sound, Recorded, Ended
<1>10. Recorded(y, run)
    BY <1>7, <1>9 DEF Recorded
<1>11. pc \notin Scoped
    BY DEF Scoped, Working
<1>12. Sound(y, run)
    BY <1>5, <1>7, <1>8, <1>10, <1>11 DEF Sound, Unstarted
<1>13. Becomes(r, y)
    BY <1>1, <1>3, <1>4 DEF Becomes, Authenticate, Rest, world, store
<1> QED
    BY <1>2, <1>7, <1>12, <1>13, ExecutionStep

\* The steps that only move on.
LEMMA MovingSteps ==
    ASSUME AnswerInv, NEW r \in Requests,
           DecodeCompletion(r) \/ ResolveReadyScoped(r) \/ SendRequest(r) \/ ModelMisanswers(r)
             \/ ModelCallsTool(r) \/ TimeOut(r) \/ SettlementFails(r) \/ Kill(r)
    PROVE  AnswerInv'
<1>1. UNCHANGED <<kb, agent, model, token, wikis, files, intents, keeper, held, runs>>
    BY DEF DecodeCompletion, ResolveReadyScoped, SendRequest, ModelMisanswers, ModelCallsTool,
           TimeOut, SettlementFails, Kill, Rest, world, store
<1>2. exec[r].at \in Places
    BY DEF AnswerInv, Types, Execution
<1>3. CASE DecodeCompletion(r)
  <2>1. PICK pc \in {"decoded", "invalid"} : Go(r, pc)
      BY <1>3 DEF DecodeCompletion
  <2>2. exec[r].at = "admitted"
      BY <1>3 DEF DecodeCompletion, At
  <2> QED
      BY <2>1, <2>2, <1>1, GoStep DEF Places, Scoped, Working, Ended
<1>4. CASE ResolveReadyScoped(r)
  <2>1. PICK pc \in {"selected", "unavailable"} : Go(r, pc)
      BY <1>4 DEF ResolveReadyScoped
  <2>2. exec[r].at = "decoded"
      BY <1>4 DEF ResolveReadyScoped, At
  <2> QED
      BY <2>1, <2>2, <1>1, GoStep DEF Places, Scoped, Working, Ended
<1>5. CASE SendRequest(r) \/ ModelMisanswers(r) \/ ModelCallsTool(r) \/ TimeOut(r)
  <2>1. exec[r].at \in Working
      BY <1>5 DEF SendRequest, ModelMisanswers, ModelCallsTool, TimeOut, At, Working
  <2>2. Fail(r) \/ Go(r, "thinking") \/ Go(r, "dispatching")
      BY <1>5 DEF SendRequest, ModelMisanswers, ModelCallsTool, TimeOut
  <2>3. CASE Fail(r)
      BY <2>1, <2>3, <1>1, FailStep
  <2>4. CASE Go(r, "thinking") \/ Go(r, "dispatching")
    <3>1. PICK pc \in {"thinking", "dispatching"} : Go(r, pc)
        BY <2>4
    <3> QED
        BY <3>1, <2>1, <1>1, GoStep DEF Places, Scoped, Working, Ended
  <2> QED
      BY <2>2, <2>3, <2>4
<1>6. CASE SettlementFails(r) \/ Kill(r)
  <2>1. Go(r, "error")
      BY <1>6 DEF SettlementFails, Kill
  <2>2. exec[r].at \notin Ended
      BY <1>6 DEF SettlementFails, Kill, At, Ended
  <2>3. PICK pc : pc = "error"
      OBVIOUS
  <2> QED
      BY <2>1, <2>2, <2>3, <1>1, GoStep DEF Places, Scoped, Working, Ended
<1> QED
    BY <1>3, <1>4, <1>5, <1>6

\* Begin hands out handles of sources, of captured knowledge bases only.
LEMMA BeginStep ==
    ASSUME AnswerInv, NEW r \in Requests, Begin(r)
    PROVE  AnswerInv'
<1>1. UNCHANGED <<kb, agent, model, token, wikis, files, intents, keeper, held, runs>>
    BY DEF Begin, Rest, world, store
<1>2. PICK x : x = exec[r]
    OBVIOUS
<1>3. x.at = "captured"
    BY <1>2 DEF Begin, At
<1>4. /\ x \in Execution /\ CaptureFits(x) /\ Cited(x)
      /\ x.cap \in Capture /\ ToolLimit(x.cap.config) \in 0..MaxToolCalls
    BY <1>2, <1>3, WorkingFacts DEF Working
<1>5. CASE Fail(r)
    BY <1>1, <1>2, <1>3, <1>5, FailStep DEF Working
<1>6. CASE ~Fail(r)
  <2>1. PICK h : /\ exec' = [exec EXCEPT ![r].at = "retrieving", ![r].handles = h]
                 /\ h = IF x.cap.config.evidence = "WIKI_AND_SOURCE"
                        THEN (DOMAIN x.cap.kbs) \X {"source"} ELSE {}
      BY <1>2, <1>6 DEF Begin
  <2>2. h \in HandlesField
      BY <2>1, <1>4, CaptureEntries DEF HandlesField, Handle
  <2>3. PICK y : y = [x EXCEPT !.at = "retrieving", !.handles = h]
      OBVIOUS
  <2>4. "retrieving" \in Places
      BY DEF Places, Scoped, Working
  <2>5. /\ y \in Execution /\ y.at = "retrieving" /\ y.token = x.token /\ y.cap = x.cap
        /\ y.shown = x.shown /\ y.minted = x.minted /\ y.left = x.left /\ y.turns = x.turns
        /\ y.public = x.public /\ y.inScope = x.inScope
      BY <1>4, <2>2, <2>3, <2>4 DEF Execution
  <2>6. exec' = [exec EXCEPT ![r] = y]
      BY <1>2, <2>1, <2>3
  <2>7. /\ y.left <= ToolLimit(x.cap.config) /\ y.turns <= ToolLimit(x.cap.config) + 1
        /\ \A c \in y.minted : c.kb \in DOMAIN x.cap.kbs /\ c.wiki = x.cap.kbs[c.kb].wiki
      BY <1>4, <2>5 DEF CaptureFits, Cited
  <2>8. x.at \in Working /\ y.at \in Working
      BY <1>3, <2>5 DEF Working
  <2> QED
      BY <1>1, <1>2, <2>5, <2>6, <2>7, <2>8, WorkStep
<1> QED
    BY <1>5, <1>6

\* InitialEvidence mints citations of the captured wikis.
LEMMA InitialEvidenceStep ==
    ASSUME AnswerInv, NEW r \in Requests, InitialEvidence(r)
    PROVE  AnswerInv'
<1>1. UNCHANGED <<kb, agent, model, token, wikis, files, intents, keeper, held, runs>>
    BY DEF InitialEvidence, Rest, world, store
<1>2. PICK x : x = exec[r]
    OBVIOUS
<1>3. x.at = "retrieving"
    BY <1>2 DEF InitialEvidence, At
<1>4. /\ x \in Execution /\ CaptureFits(x) /\ Cited(x)
      /\ x.cap \in Capture /\ ToolLimit(x.cap.config) \in 0..MaxToolCalls
    BY <1>2, <1>3, WorkingFacts DEF Working
<1>5. CASE Fail(r)
    BY <1>1, <1>2, <1>3, <1>5, FailStep DEF Working
<1>6. CASE ~Fail(r)
  <2>1. PICK hits \in {{}, DOMAIN x.cap.kbs}, kinds \in InitialKinds :
          exec' = [exec EXCEPT ![r].at = "turn", ![r].handles = @ \cup SearchHandles(x.cap, hits),
                     ![r].minted = InitialCitations(x.cap, hits, kinds)]
      BY <1>2, <1>6 DEF InitialEvidence
  <2>h. PICK h : h = x.handles \cup SearchHandles(x.cap, hits)
      OBVIOUS
  <2>m. PICK m : m = InitialCitations(x.cap, hits, kinds)
      OBVIOUS
  <2>e. exec' = [exec EXCEPT ![r].at = "turn", ![r].handles = h, ![r].minted = m]
    <3>1. [exec EXCEPT ![r].at = "turn"][r].handles = x.handles
        BY <1>2, <1>4 DEF AnswerInv, Types, Execution
    <3> QED
        BY <2>1, <2>h, <2>m, <3>1
  <2>2. h \in HandlesField
      BY <2>1, <2>h, <1>4, CaptureEntries DEF HandlesField, Handle, SearchHandles, Execution
  <2>3. m \in MintedField /\ \A c \in m : c.kb \in DOMAIN x.cap.kbs /\ c.wiki = x.cap.kbs[c.kb].wiki
    <3>1. kinds \in SUBSET Kinds
        BY <2>1 DEF Kinds, InitialKinds
    <3>2. ASSUME NEW c \in m
          PROVE  c \in Citation /\ c.kb \in DOMAIN x.cap.kbs /\ c.wiki = x.cap.kbs[c.kb].wiki
      <4>1. PICK k \in hits : c \in Allow(x.cap, k, kinds)
          BY <2>1, <2>m, <3>2 DEF InitialCitations
      <4> QED
          BY <4>1, <2>1, <3>1, <1>4, AllowSound
    <3> QED
        BY <3>2 DEF MintedField
  <2>4. PICK y : y = [x EXCEPT !.at = "turn", !.handles = h, !.minted = m]
      OBVIOUS
  <2>5. "turn" \in Places
      BY DEF Places, Scoped, Working
  <2>6. /\ y \in Execution /\ y.at = "turn" /\ y.token = x.token /\ y.cap = x.cap
        /\ y.shown = x.shown /\ y.minted = m /\ y.left = x.left /\ y.turns = x.turns
        /\ y.public = x.public /\ y.inScope = x.inScope
      BY <1>4, <2>2, <2>3, <2>4, <2>5 DEF Execution
  <2>7. exec' = [exec EXCEPT ![r] = y]
      BY <1>2, <2>e, <2>4
  <2>8. /\ y.left <= ToolLimit(x.cap.config) /\ y.turns <= ToolLimit(x.cap.config) + 1
        /\ \A c \in y.minted : c.kb \in DOMAIN x.cap.kbs /\ c.wiki = x.cap.kbs[c.kb].wiki
      BY <1>4, <2>3, <2>6 DEF CaptureFits
  <2>9. x.at \in Working /\ y.at \in Working
      BY <1>3, <2>6 DEF Working
  <2> QED
      BY <1>1, <1>2, <2>6, <2>7, <2>8, <2>9, WorkStep
<1> QED
    BY <1>5, <1>6

\* BeginTurn counts turns up to the limit, ModelFails retries.
LEMMA ModelSteps ==
    ASSUME AnswerInv, NEW r \in Requests, BeginTurn(r) \/ ModelFails(r)
    PROVE  AnswerInv'
<1>1. UNCHANGED <<kb, agent, model, token, wikis, files, intents, keeper, held, runs>>
    BY DEF BeginTurn, ModelFails, Rest, world, store
<1>2. PICK x : x = exec[r]
    OBVIOUS
<1>3. x.at \in Working
    BY <1>2 DEF BeginTurn, ModelFails, At, Working
<1>4. /\ x \in Execution /\ CaptureFits(x) /\ Cited(x)
      /\ x.cap \in Capture /\ ToolLimit(x.cap.config) \in 0..MaxToolCalls
    BY <1>2, <1>3, WorkingFacts
<1>5. CASE Fail(r)
    BY <1>1, <1>2, <1>3, <1>5, FailStep
<1>6. CASE ~Fail(r)
  <2>1. x.turns \in Nat /\ x.tries \in Nat
      BY <1>4 DEF Execution, TurnsField
  <2>2. PICK y : exec' = [exec EXCEPT ![r] = y] /\ y = exec'[r]
      BY <1>2, <1>4, <1>6 DEF BeginTurn, ModelFails, AnswerInv, Types
  <2>3. x.turns # ToolLimit(x.cap.config) + 1 =>
          x.turns + 1 \in TurnsField /\ x.turns + 1 <= ToolLimit(x.cap.config) + 1
      BY <1>4, <2>1, AnswerAssumption DEF CaptureFits, TurnsField, AnswerAssumption
  <2>4. "calling" \in Places
      BY DEF Places, Scoped, Working
  <2>5. /\ y \in Execution /\ y.at = "calling" /\ y.token = x.token /\ y.cap = x.cap
        /\ y.shown = x.shown /\ y.minted = x.minted /\ y.left = x.left
        /\ y.public = x.public /\ y.inScope = x.inScope
        /\ y.turns = x.turns \/ y.turns <= ToolLimit(x.cap.config) + 1
    <3>1. CASE BeginTurn(r)
      <4>1. x.turns # ToolLimit(x.cap.config) + 1
          BY <1>2, <1>6, <3>1 DEF BeginTurn
      <4>2. y = [x EXCEPT !.at = "calling", !.turns = x.turns + 1, !.tries = 0]
        <5>1. [exec EXCEPT ![r].at = "calling"][r].turns = x.turns
            BY <1>2, <1>4 DEF AnswerInv, Types, Execution
        <5>2. exec' = [exec EXCEPT ![r].at = "calling", ![r].turns = @ + 1, ![r].tries = 0]
            BY <1>6, <3>1 DEF BeginTurn
        <5>3. exec' = [exec EXCEPT ![r].at = "calling", ![r].turns = x.turns + 1, ![r].tries = 0]
            BY <5>1, <5>2
        <5> QED
            BY <1>2, <2>2, <5>3 DEF AnswerInv, Types
      <4> QED
          BY <1>4, <4>1, <4>2, <2>3, <2>4 DEF Execution
    <3>2. CASE ModelFails(r)
      <4>1. y = [x EXCEPT !.at = "calling", !.tries = x.tries + 1]
          BY <1>2, <1>4, <1>6, <2>2, <3>2 DEF ModelFails, AnswerInv, Types, Execution
      <4>2. PICK n \in Nat : n = x.tries + 1
          BY <2>1
      <4>3. y = [x EXCEPT !.at = "calling", !.tries = n]
          BY <4>1, <4>2
      <4> QED
          BY <1>4, <4>3, <2>4 DEF Execution
    <3> QED
        BY <3>1, <3>2
  <2>6. /\ y.left <= ToolLimit(x.cap.config) /\ y.turns <= ToolLimit(x.cap.config) + 1
        /\ \A c \in y.minted : c.kb \in DOMAIN x.cap.kbs /\ c.wiki = x.cap.kbs[c.kb].wiki
      BY <1>4, <2>5 DEF CaptureFits, Cited
  <2>7. y.at \in Working /\ exec' = [exec EXCEPT ![r] = y]
      BY <2>2, <2>5 DEF Working
  <2> QED
      BY <1>1, <1>2, <1>3, <2>5, <2>6, <2>7, WorkStep
<1> QED
    BY <1>5, <1>6

\* A draft may cite what was minted and what was not.
LEMMA ModelDraftsStep ==
    ASSUME AnswerInv, NEW r \in Requests, ModelDrafts(r)
    PROVE  AnswerInv'
<1>1. UNCHANGED <<kb, agent, model, token, wikis, files, intents, keeper, held, runs>>
    BY DEF ModelDrafts, Rest, world, store
<1>2. PICK x : x = exec[r]
    OBVIOUS
<1>3. x.at = "thinking"
    BY <1>2 DEF ModelDrafts, At
<1>4. /\ x \in Execution /\ CaptureFits(x) /\ Cited(x)
      /\ x.cap \in Capture /\ ToolLimit(x.cap.config) \in 0..MaxToolCalls
    BY <1>2, <1>3, WorkingFacts DEF Working
<1>a. PICK s \in {"answered", "refused"}, cites \in Citations(x.minted) :
        exec' = [exec EXCEPT ![r].at = "drafted", ![r].draft = [status |-> s, cites |-> cites]]
    BY <1>2 DEF ModelDrafts
<1>5. PICK d : d = [status |-> s, cites |-> cites]
    OBVIOUS
<1>6. d \in Draft
  <2>1. x.minted \subseteq Citation
      BY <1>4 DEF Execution, MintedField
  <2>2. cites \subseteq Citation \cup {Forged}
      BY <1>a, <2>1 DEF Citations
  <2> QED
      BY <1>5, <2>2 DEF Draft
<1>7. PICK y : y = [x EXCEPT !.at = "drafted", !.draft = d]
    OBVIOUS
<1>8. "drafted" \in Places
    BY DEF Places, Scoped, Working
<1>9. /\ y \in Execution /\ y.at = "drafted" /\ y.token = x.token /\ y.cap = x.cap
      /\ y.shown = x.shown /\ y.minted = x.minted /\ y.left = x.left /\ y.turns = x.turns
      /\ y.public = x.public /\ y.inScope = x.inScope
    BY <1>4, <1>6, <1>7, <1>8 DEF Execution
<1>10. exec' = [exec EXCEPT ![r] = y]
    BY <1>2, <1>a, <1>5, <1>7
<1>11. /\ y.left <= ToolLimit(x.cap.config) /\ y.turns <= ToolLimit(x.cap.config) + 1
       /\ \A c \in y.minted : c.kb \in DOMAIN x.cap.kbs /\ c.wiki = x.cap.kbs[c.kb].wiki
    BY <1>4, <1>9 DEF CaptureFits, Cited
<1>12. x.at \in Working /\ y.at \in Working
    BY <1>3, <1>9 DEF Working
<1> QED
    BY <1>1, <1>2, <1>9, <1>10, <1>11, <1>12, WorkStep

\* Dispatch spends a call and mints citations of captured wikis only.
LEMMA DispatchStep ==
    ASSUME AnswerInv, NEW r \in Requests, Dispatch(r)
    PROVE  AnswerInv'
<1>1. UNCHANGED <<kb, agent, model, token, wikis, files, intents, keeper, held, runs>>
    BY DEF Dispatch, Rest, world, store
<1>2. PICK x : x = exec[r]
    OBVIOUS
<1>3. x.at = "dispatching"
    BY <1>2 DEF Dispatch, At
<1>4. /\ x \in Execution /\ CaptureFits(x) /\ Cited(x)
      /\ x.cap \in Capture /\ ToolLimit(x.cap.config) \in 0..MaxToolCalls
    BY <1>2, <1>3, WorkingFacts DEF Working
<1>5. CASE Fail(r)
    BY <1>1, <1>2, <1>3, <1>5, FailStep DEF Working
<1>6. CASE ~Fail(r)
  <2>0. PICK next \in {"dispatching", "turn"} :
          \/ \E hits \in {{}, DOMAIN x.cap.kbs} : SearchWikis(r, hits, next)
          \/ \E tool \in Tools, k \in DOMAIN x.cap.kbs : ReadEvidence(r, tool, k, next)
      BY <1>2, <1>6 DEF Dispatch, AfterCall
  <2>1. x.left > 0
      BY <1>2, <1>6 DEF Dispatch, HasCalls
  <2>2. PICK n \in LeftField : n = x.left - 1 /\ n <= ToolLimit(x.cap.config)
      BY <1>4, <2>1, AnswerAssumption DEF Execution, LeftField, CaptureFits, AnswerAssumption
  <2>3. /\ [exec EXCEPT ![r].at = next][r].left = x.left
        /\ [exec EXCEPT ![r].at = next, ![r].left = n][r].handles = x.handles
        /\ [exec EXCEPT ![r].at = next, ![r].left = n][r].minted = x.minted
      BY <1>2, <1>4 DEF AnswerInv, Types, Execution
  <2>4. PICK h \in HandlesField, m \in MintedField :
          /\ \/ exec' = [exec EXCEPT ![r].at = next, ![r].left = n, ![r].handles = h] /\ m = x.minted
             \/ exec' = [exec EXCEPT ![r].at = next, ![r].left = n, ![r].minted = m, ![r].handles = h]
          /\ \A c \in m : c.kb \in DOMAIN x.cap.kbs /\ c.wiki = x.cap.kbs[c.kb].wiki
    <3>1. x.handles \subseteq Handle /\ x.minted \subseteq Citation /\ DOMAIN x.cap.kbs \subseteq KBs
        BY <1>4, CaptureEntries DEF Execution, HandlesField, MintedField
    <3>2. \A c \in x.minted : c.kb \in DOMAIN x.cap.kbs /\ c.wiki = x.cap.kbs[c.kb].wiki
        BY <1>4 DEF Cited
    <3>3. CASE \E hits \in {{}, DOMAIN x.cap.kbs} : SearchWikis(r, hits, next)
      <4>1. PICK hits \in {{}, DOMAIN x.cap.kbs} :
              exec' = [exec EXCEPT ![r].at = next, ![r].left = @ - 1,
                                   ![r].handles = @ \cup SearchHandles(x.cap, hits)]
          BY <1>2, <3>3 DEF SearchWikis
      <4>2. PICK h : h = x.handles \cup SearchHandles(x.cap, hits)
          OBVIOUS
      <4>3. exec' = [exec EXCEPT ![r].at = next, ![r].left = n, ![r].handles = h]
          BY <2>2, <2>3, <4>1, <4>2
      <4>4. h \in HandlesField
          BY <3>1, <4>1, <4>2 DEF HandlesField, Handle, SearchHandles
      <4>5. x.minted \in MintedField
          BY <3>1 DEF MintedField
      <4> QED
          BY <3>2, <4>3, <4>4, <4>5
    <3>4. CASE \E tool \in Tools, k \in DOMAIN x.cap.kbs : ReadEvidence(r, tool, k, next)
      <4>1. PICK tool \in Tools, k \in DOMAIN x.cap.kbs :
              exec' = [exec EXCEPT ![r].at = next, ![r].left = @ - 1,
                    ![r].minted = @ \cup Allow(x.cap, k, Mints(tool)),
                    ![r].handles = @ \cup (IF tool = "search_source" THEN {<<k, "path">>} ELSE {})]
          BY <1>2, <3>4 DEF ReadEvidence
      <4>2. PICK kinds \in SUBSET Kinds : kinds = Mints(tool)
          BY DEF Mints, Kinds, Tools
      <4>3. PICK m : m = x.minted \cup Allow(x.cap, k, kinds)
          OBVIOUS
      <4>4. PICK h : h = x.handles \cup (IF tool = "search_source" THEN {<<k, "path">>} ELSE {})
          OBVIOUS
      <4>5. [exec EXCEPT ![r].at = next, ![r].left = n, ![r].minted = m][r].handles = x.handles
          BY <1>2, <1>4 DEF AnswerInv, Types, Execution
      <4>6. exec' = [exec EXCEPT ![r].at = next, ![r].left = n, ![r].minted = m, ![r].handles = h]
        <5>1. exec' = [exec EXCEPT ![r].at = next, ![r].left = n,
                    ![r].minted = @ \cup Allow(x.cap, k, kinds),
                    ![r].handles = @ \cup (IF tool = "search_source" THEN {<<k, "path">>} ELSE {})]
          <6>3. [exec EXCEPT ![r].at = next][r].left = x.left
              BY <2>3
          <6>1. exec' = [exec EXCEPT ![r].at = next, ![r].left = x.left - 1,
                    ![r].minted = @ \cup Allow(x.cap, k, Mints(tool)),
                    ![r].handles = @ \cup (IF tool = "search_source" THEN {<<k, "path">>} ELSE {})]
              BY <4>1, <6>3, ZenonT(60)
          <6>2. x.left - 1 = n /\ Mints(tool) = kinds
              BY <2>2, <4>2
          <6> QED
              BY <6>1, <6>2, Zenon
        <5>2. exec' = [exec EXCEPT ![r].at = next, ![r].left = n, ![r].minted = m,
                    ![r].handles = @ \cup (IF tool = "search_source" THEN {<<k, "path">>} ELSE {})]
            BY <2>3, <4>3, <5>1, Zenon
        <5> QED
            BY <4>4, <4>5, <5>2, Zenon
      <4>7. h \in HandlesField
          BY <3>1, <4>4 DEF HandlesField, Handle
      <4>8. m \in MintedField /\ \A c \in m : c.kb \in DOMAIN x.cap.kbs /\ c.wiki = x.cap.kbs[c.kb].wiki
          BY <1>4, <3>1, <3>2, <4>3, AllowSound DEF MintedField
      <4> QED
          BY <4>6, <4>7, <4>8
    <3> QED
        BY <2>0, <3>3, <3>4
  <2>5. next \in Places
      BY <2>0 DEF Places, Scoped, Working
  <2>6. PICK y : exec' = [exec EXCEPT ![r] = y] /\ y = exec'[r]
      BY <1>4, <2>4 DEF AnswerInv, Types
  <2>7. \/ y = [x EXCEPT !.at = next, !.left = n, !.handles = h] /\ m = x.minted
        \/ y = [x EXCEPT !.at = next, !.left = n, !.minted = m, !.handles = h]
      BY <1>2, <2>4, <2>6 DEF AnswerInv, Types
  <2>8. /\ y \in Execution /\ y.at = next /\ y.token = x.token /\ y.cap = x.cap
        /\ y.shown = x.shown /\ y.minted = m /\ y.left = n /\ y.turns = x.turns
        /\ y.public = x.public /\ y.inScope = x.inScope
    <3>1. CASE y = [x EXCEPT !.at = next, !.left = n, !.handles = h] /\ m = x.minted
        BY <1>4, <2>4, <2>5, <3>1 DEF Execution
    <3>2. CASE y = [x EXCEPT !.at = next, !.left = n, !.minted = m, !.handles = h]
        BY <1>4, <2>4, <2>5, <3>2 DEF Execution
    <3> QED
        BY <2>7, <3>1, <3>2
  <2>9. /\ y.left <= ToolLimit(x.cap.config) /\ y.turns <= ToolLimit(x.cap.config) + 1
        /\ \A c \in y.minted : c.kb \in DOMAIN x.cap.kbs /\ c.wiki = x.cap.kbs[c.kb].wiki
      BY <1>4, <2>2, <2>4, <2>8 DEF CaptureFits
  <2>10. x.at \in Working /\ y.at \in Working /\ exec' = [exec EXCEPT ![r] = y]
      BY <1>3, <2>0, <2>6, <2>8 DEF Working
  <2> QED
      BY <1>1, <1>2, <2>8, <2>9, <2>10, WorkStep
<1> QED
    BY <1>5, <1>6

\* validateDraft keeps minted citations, presentExecutionResult shows their
\* locators only if no captured knowledge base is restricted.
LEMMA ShownIsMinted ==
    ASSUME NEW c \in Capture, NEW minted \in MintedField, NEW d, NEW v, v = ValidateDraft(d, minted),
           NEW shown, shown = Present(EffectiveAccess(c), v.cites),
           \A y \in minted : y.kb \in DOMAIN c.kbs /\ y.wiki = c.kbs[y.kb].wiki
    PROVE  /\ v.status \in Outcomes /\ shown \in ShownField
           /\ \A y \in shown :
                /\ y.kb \in DOMAIN c.kbs
                /\ y.kind # "label" => c.kbs[y.kb].access = "PUBLIC" /\ y.wiki = c.kbs[y.kb].wiki
<1>1. v.cites \subseteq minted /\ v.status \in Outcomes
    BY DEF ValidateDraft, Outcomes
<1>2. v.cites \subseteq Citation /\ \A y \in v.cites : y.kb \in DOMAIN c.kbs /\ y.wiki = c.kbs[y.kb].wiki
    BY <1>1 DEF MintedField
<1>3. PICK cites : cites = v.cites
    OBVIOUS
<1>4. CASE EffectiveAccess(c) = "RESTRICTED"
  <2>1. shown = {[kb |-> y.kb, wiki |-> 0, kind |-> "label"] : y \in cites}
      BY <1>3, <1>4 DEF Present
  <2>2. 0 \in 0..MaxWiki
      BY AnswerAssumption DEF AnswerAssumption
  <2>3. \A y \in shown : y.kind = "label" /\ y.kb \in DOMAIN c.kbs
                         /\ y \in [kb : KBs, wiki : 0..MaxWiki, kind : Kinds \cup {"label"}]
    <3> SUFFICES ASSUME NEW z \in cites, NEW y, y = [kb |-> z.kb, wiki |-> 0, kind |-> "label"]
                 PROVE  y.kind = "label" /\ y.kb \in DOMAIN c.kbs
                        /\ y \in [kb : KBs, wiki : 0..MaxWiki, kind : Kinds \cup {"label"}]
        BY <2>1
    <3>1. z.kb \in KBs /\ z.kb \in DOMAIN c.kbs
        BY <1>2, <1>3 DEF Citation
    <3> QED
        BY <3>1, <2>2
  <2> QED
      BY <1>1, <2>3 DEF ShownField
<1>5. CASE EffectiveAccess(c) # "RESTRICTED"
  <2>1. shown = cites
      BY <1>3, <1>5 DEF Present
  <2>2. \A k \in DOMAIN c.kbs : c.kbs[k].access = "PUBLIC"
      BY <1>5, CaptureEntries DEF EffectiveAccess, Entry, Access
  <2>3. cites \subseteq [kb : KBs, wiki : 0..MaxWiki, kind : Kinds \cup {"label"}]
    <3>1. \A n \in 1..MaxWiki : n \in 0..MaxWiki
        BY AnswerAssumption DEF AnswerAssumption
    <3> QED
        BY <1>2, <1>3, <3>1 DEF Citation
  <2> QED
      BY <1>1, <1>2, <1>3, <2>1, <2>2, <2>3 DEF ShownField
<1> QED
    BY <1>4, <1>5

\* AcceptDraft: AssertSecurityFresh makes the captured version current, so the
\* captured configuration and policies are those in force.
LEMMA AcceptDraftStep ==
    ASSUME AnswerInv, NEW r \in Requests, AcceptDraft(r)
    PROVE  AnswerInv'
<1>1. UNCHANGED <<kb, agent, model, token, wikis, files, intents, keeper, held, runs>>
    BY DEF AcceptDraft, Rest, world, store
<1>2. PICK x : x = exec[r]
    OBVIOUS
<1>3. x.at = "drafted"
    BY <1>2 DEF AcceptDraft, At
<1>4. /\ x \in Execution /\ CaptureFits(x) /\ Cited(x)
      /\ x.cap \in Capture /\ ToolLimit(x.cap.config) \in 0..MaxToolCalls
    BY <1>2, <1>3, WorkingFacts DEF Working
<1>5. CASE ~SecurityFresh(x.cap)
  <2>1. Fail(r)
      BY <1>2, <1>5 DEF AcceptDraft
  <2> QED
      BY <1>1, <1>2, <1>3, <2>1, FailStep DEF Working
<1>6. CASE SecurityFresh(x.cap)
  <2>a. PICK v : v = ValidateDraft(x.draft, x.minted)
      OBVIOUS
  <2>b. PICK shown : shown = Present(EffectiveAccess(x.cap), v.cites)
      OBVIOUS
  <2>c. PICK public : public = {k \in KBs : kb[k].access = "PUBLIC"}
      OBVIOUS
  <2>d. PICK b \in BOOLEAN : b = ScopeStands(x.cap)
      BY Zenon DEF ScopeStands
  <2>e. PICK s : s = Settling(x, v.status, shown)
      OBVIOUS
  <2>1. /\ v = ValidateDraft(x.draft, x.minted)
        /\ shown = Present(EffectiveAccess(x.cap), v.cites)
        /\ public = {k \in KBs : kb[k].access = "PUBLIC"}
        /\ b = ScopeStands(x.cap)
        /\ s = Settling(x, v.status, shown)
      BY <2>a, <2>b, <2>c, <2>d, <2>e, Zenon
  <2>2. exec' = [exec EXCEPT ![r] = [s EXCEPT !.public = public, !.inScope = b]]
      BY <1>2, <1>6, <2>1 DEF AcceptDraft
  <2>3. x.minted \in MintedField
      BY <1>4 DEF Execution
  <2>4. /\ v.status \in Outcomes /\ shown \in ShownField
        /\ \A y \in shown :
             /\ y.kb \in DOMAIN x.cap.kbs
             /\ y.kind # "label" => x.cap.kbs[y.kb].access = "PUBLIC" /\ y.wiki = x.cap.kbs[y.kb].wiki
      BY <1>4, <2>1, <2>3, ShownIsMinted DEF Cited
  <2>5. /\ s \in Execution
        /\ s.at = "settling" /\ s.token = x.token /\ s.cap = x.cap
        /\ s.shown = shown /\ s.minted = {} /\ s.left = 0 /\ s.turns = 0
      BY <1>4, <2>1, <2>4, SettlingExecution
  <2>6. PICK y : y = [s EXCEPT !.public = public, !.inScope = b]
      OBVIOUS
  <2>7. public \in PublicField
      BY <2>1 DEF PublicField
  <2>8. /\ y \in Execution
        /\ y.at = "settling" /\ y.token = x.token /\ y.cap = x.cap
        /\ y.shown = shown /\ y.minted = {} /\ y.left = 0 /\ y.turns = 0
        /\ y.public = public /\ y.inScope = b
      BY <2>5, <2>6, <2>7 DEF Execution
  <2>9. DOMAIN x.cap.kbs = x.cap.config.members /\ x.cap.config = agent.config /\ DOMAIN x.cap.kbs \subseteq KBs
      BY <1>4, <1>6, CaptureEntries DEF CaptureFits, SecurityFresh
  <2>10. ScopeStands(x.cap)
      BY <1>6, <2>9 DEF SecurityFresh, ScopeStands
  <2>11. \A c \in shown : c.kind # "label" => c.kb \in public
      BY <1>6, <2>1, <2>4, <2>9 DEF SecurityFresh
  <2>12. Cited(y)
      BY <2>1, <2>4, <2>8, <2>10, <2>11 DEF Cited
  <2>13. PICK run : run = runs[r]
      OBVIOUS
  <2>14. ~run.old
      BY <1>2, <1>3, <2>13 DEF AnswerInv, Sound, Recorded, Ended
  <2>15. LocksHold(y) /\ Recorded(y, run)
      BY <2>8, <2>14 DEF LocksHold, Recorded
  <2>16. CaptureFits(y)
    <3>1. ToolLimit(x.cap.config) \in Nat
        BY <1>4, AnswerAssumption DEF AnswerAssumption
    <3> QED
        BY <1>4, <2>8, <3>1 DEF CaptureFits
  <2>17. Sound(y, run)
      BY <2>8, <2>12, <2>15, <2>16 DEF Sound
  <2>18. Becomes(r, y)
      BY <1>1, <2>2, <2>6 DEF Becomes
  <2> QED
      BY <2>8, <2>13, <2>17, <2>18, ExecutionStep
<1> QED
    BY <1>5, <1>6

\* Capture: readiness makes the captured wikis the published ones.
LEMMA CaptureScopeStep ==
    ASSUME AnswerInv, NEW r \in Requests, CaptureScope(r)
    PROVE  AnswerInv'
<1>1. UNCHANGED <<kb, agent, model, token, wikis, files, intents, keeper, held, runs>>
    BY DEF CaptureScope, Rest, world, store
<1>2. PICK x \in Execution : x = exec[r]
    BY DEF AnswerInv, Types
<1>3. x.at = "selected"
    BY <1>2 DEF CaptureScope, At
<1>4. PICK run : run = runs[r]
    OBVIOUS
<1>5. Sound(x, run) /\ Types
    BY <1>2, <1>4 DEF AnswerInv
<1>6. CASE Go(r, "unavailable")
  <2>1. PICK pc : pc = "unavailable"
      OBVIOUS
  <2> QED
      BY <2>1, <1>1, <1>2, <1>3, <1>6, GoStep DEF Places, Scoped, Working, Ended
<1>7. CASE ~Go(r, "unavailable")
  <2>1. PICK c : c = Captured /\ exec' = [exec EXCEPT ![r].at = "capturing", ![r].cap = c]
      BY <1>7 DEF CaptureScope
  <2>2. /\ agent.config \in Configurations /\ agent.version \in Nat /\ agent.resource \in Nat
        /\ model.revision \in Nat
      BY <1>5 DEF Types
  <2>3. Members \subseteq KBs
      BY <2>2, AnswerAssumption DEF Members, AnswerAssumption, ValidConfiguration
  <2>4. PICK f : f = CapturedKnowledgeBases
      OBVIOUS
  <2>5. /\ f \in [Members -> Entry] /\ \A k \in Members : f[k].wiki = kb[k].published
      BY <2>3, <2>4, <1>5 DEF CapturedKnowledgeBases, Types, Entry
  <2>6. f \in Entries
      BY <2>3, <2>5 DEF Entries
  <2>7. c = [version |-> agent.version, resource |-> agent.resource, config |-> agent.config,
             model |-> model.revision, kbs |-> f]
      BY <2>1, <2>4 DEF Captured, CapturedModel
  <2>8. /\ c \in Capture /\ c.kbs = f /\ c.config = agent.config /\ c.version = agent.version
        /\ DOMAIN c.kbs = c.config.members
      BY <2>2, <2>5, <2>6, <2>7 DEF Capture, Members
  <2>9. PICK y : y = [x EXCEPT !.at = "capturing", !.cap = c]
      OBVIOUS
  <2>10. "capturing" \in Places /\ c \in CapField
      BY <2>8 DEF Places, Scoped, CapField
  <2>11. /\ y \in Execution /\ y.at = "capturing" /\ y.token = x.token /\ y.cap = c
         /\ y.shown = x.shown /\ y.minted = x.minted /\ y.left = x.left /\ y.turns = x.turns
         /\ y.public = x.public /\ y.inScope = x.inScope
      BY <2>9, <2>10 DEF Execution
  <2>12. x.left = 0 /\ x.turns = 0 /\ x.minted = {} /\ x.shown = {}
      BY <1>3, <1>5 DEF Sound, Unstarted
  <2>13. CaptureFits(y)
    <3>1. ToolLimit(c.config) \in Nat
        BY AnswerAssumption DEF ToolLimit, AnswerAssumption
    <3>2. x.token \in Tokens
        BY <1>3, <1>5 DEF Sound
    <3> QED
        BY <2>2, <2>8, <2>11, <2>12, <3>1, <3>2 DEF CaptureFits
  <2>14. LocksHold(y)
      BY <2>5, <2>8, <2>11 DEF LocksHold, Members
  <2>15. Cited(y)
      BY <1>5, <2>11, <2>12 DEF Sound, Cited
  <2>16. Recorded(y, run)
      BY <1>3, <1>5, <2>11 DEF Sound, Recorded, Ended
  <2>17. Sound(y, run)
      BY <2>11, <2>13, <2>14, <2>15, <2>16 DEF Sound
  <2>18. Becomes(r, y)
      BY <1>1, <1>2, <2>1, <2>9 DEF Becomes
  <2> QED
      BY <1>4, <2>11, <2>17, <2>18, ExecutionStep
<1> QED
    BY <1>6, <1>7

\* RecordRun's locks: an unexpired reservation means that the wikis are there.
LEMMA LockRunScopeStep ==
    ASSUME AnswerInv, NEW r \in Requests, LockRunScope(r)
    PROVE  AnswerInv'
<1>1. UNCHANGED <<kb, agent, model, token, wikis, files, intents, keeper, held, runs>>
    BY DEF LockRunScope, Rest, world, store
<1>2. PICK x \in Execution : x = exec[r]
    BY DEF AnswerInv, Types
<1>3. x.at = "settling"
    BY <1>2 DEF LockRunScope, At
<1>4. PICK run : run = runs[r]
    OBVIOUS
<1>5. Sound(x, run) /\ Types
    BY <1>2, <1>4 DEF AnswerInv
<1>6. CASE Go(r, "error")
  <2>1. PICK pc : pc = "error"
      OBVIOUS
  <2> QED
      BY <2>1, <1>1, <1>2, <1>3, <1>6, GoStep DEF Places, Scoped, Working, Ended
<1>7. CASE ~Go(r, "error")
  <2>1. exec' = [exec EXCEPT ![r].at = "recording"] /\ ReservationHolds(r)
      BY <1>7 DEF LockRunScope, Go
  <2>2. CapturedWikis(x.cap) \subseteq wikis \cap files
    <3>1. CapturedWikis(x.cap) = held[r].wikis /\ held[r].ttl > 0
        BY <1>2, <2>1 DEF ReservationHolds
    <3>2. \A w \in held[r].wikis : w \in Wikis /\ Reserved(w)
        BY <3>1, <1>5 DEF Reserved, Types
    <3> QED
        BY <3>1, <3>2 DEF AnswerInv, ScopeRetained
  <2>3. PICK y : y = [x EXCEPT !.at = "recording"]
      OBVIOUS
  <2>4. "recording" \in Places
      BY DEF Places, Scoped
  <2>5. /\ y \in Execution /\ y.at = "recording" /\ y.token = x.token /\ y.cap = x.cap
        /\ y.shown = x.shown /\ y.minted = x.minted /\ y.left = x.left /\ y.turns = x.turns
        /\ y.public = x.public /\ y.inScope = x.inScope
      BY <2>3, <2>4 DEF Execution
  <2>6. CaptureFits(y)
    <3>1. CaptureFits(x)
        BY <1>3, <1>5 DEF Sound, Scoped
    <3> QED
        BY <2>5, <3>1 DEF CaptureFits
  <2>7. LocksHold(y) /\ Cited(y)
      BY <1>5, <2>2, <2>5 DEF Sound, LocksHold, Cited
  <2>8. Recorded(y, run)
      BY <1>3, <1>5, <2>5 DEF Sound, Recorded, Ended
  <2>9. Sound(y, run)
      BY <2>5, <2>6, <2>7, <2>8 DEF Sound
  <2>10. Becomes(r, y)
      BY <1>1, <1>2, <2>1, <2>3 DEF Becomes
  <2> QED
      BY <1>4, <2>5, <2>9, <2>10, ExecutionStep
<1> QED
    BY <1>6, <1>7

\* Deliver: the token that is valid now was valid when the run was recorded.
LEMMA DeliverStep ==
    ASSUME AnswerInv, NEW r \in Requests, Deliver(r)
    PROVE  AnswerInv'
<1>1. UNCHANGED <<kb, agent, model, token, wikis, files, intents, keeper, held, runs>>
    BY DEF Deliver, Rest, world, store
<1>2. PICK x \in Execution : x = exec[r]
    BY DEF AnswerInv, Types
<1>3. x.at = "recorded"
    BY <1>2 DEF Deliver, At
<1>4. PICK run : run = runs[r]
    OBVIOUS
<1>5. Sound(x, run) /\ Types
    BY <1>2, <1>4 DEF AnswerInv
<1>6. CASE ~StillGranted(r)
  <2>1. PICK pc : pc = "refused" /\ Go(r, pc)
      BY <1>6 DEF Deliver
  <2> QED
      BY <2>1, <1>1, <1>2, <1>3, GoStep DEF Places, Scoped, Working, Ended
<1>7. CASE StillGranted(r)
  <2>1. exec' = [exec EXCEPT ![r].at = "delivered"]
      BY <1>7 DEF Deliver, Go
  <2>2. x.tokenKept /\ run.outcome = x.outcome
      BY <1>2, <1>3, <1>5, <1>7 DEF StillGranted, Sound, Recorded
  <2>3. PICK y : y = [x EXCEPT !.at = "delivered"]
      OBVIOUS
  <2>4. "delivered" \in Places
      BY DEF Places, Ended
  <2>5. /\ y \in Execution /\ y.at = "delivered" /\ y.cap = x.cap
        /\ y.shown = x.shown /\ y.minted = x.minted /\ y.outcome = x.outcome
        /\ y.public = x.public /\ y.inScope = x.inScope /\ y.tokenKept = x.tokenKept
      BY <2>3, <2>4 DEF Execution
  <2>6. LocksHold(y) /\ Cited(y)
      BY <1>5, <2>5 DEF Sound, LocksHold, Cited
  <2>7. Recorded(y, run)
      BY <2>2, <2>5 DEF Recorded, Ended
  <2>8. y.at \notin Scoped
      BY <2>5 DEF Scoped, Working
  <2>9. Sound(y, run)
      BY <2>5, <2>6, <2>7, <2>8 DEF Sound
  <2>10. Becomes(r, y)
      BY <1>1, <1>2, <2>1, <2>3 DEF Becomes
  <2> QED
      BY <1>4, <2>5, <2>9, <2>10, ExecutionStep
<1> QED
    BY <1>6, <1>7

-----------------------------------------------------------------------------
(***************************************************************************)
(* Reservations and recorded runs.                                         *)
(***************************************************************************)
\* What Capture reserves are wikis of the captured knowledge bases.
LEMMA CapturedAreWikis ==
    ASSUME NEW c \in Capture
    PROVE  CapturedWikis(c) \subseteq Wikis
<1>1. ASSUME NEW k \in DOMAIN c.kbs PROVE <<k, c.kbs[k].wiki>> \in Wikis
  <2>1. k \in KBs /\ c.kbs[k].wiki \in 1..MaxWiki
      BY CaptureEntries DEF Entry
  <2> QED
      BY <2>1 DEF Wikis
<1> QED
    BY <1>1 DEF CapturedWikis

\* Every execution stays sound when one moves and its run may be recorded.
LEMMA OthersSound ==
    ASSUME AnswerInv, Types', NEW r \in Requests, NEW y \in Execution,
           exec' = [exec EXCEPT ![r] = y], UNCHANGED <<kb, agent, token, wikis, files>>,
           \A q \in Requests \ {r} : runs'[q] = runs[q],
           NEW ran, ran = runs'[r], Sound(y, ran)
    PROVE  \A q \in Requests : Sound(exec[q], runs[q])'
<1> SUFFICES ASSUME NEW q \in Requests PROVE Sound(exec[q], runs[q])'
    OBVIOUS
<1>1. PICK x : x = exec'[q]
    OBVIOUS
<1>2. PICK run : run = runs'[q]
    OBVIOUS
<1>3. x \in Execution /\ Types
    BY <1>1 DEF Types, AnswerInv
<1>4. Sound(x, run)
  <2>1. CASE q = r
      BY <2>1, <1>1, <1>2, <1>3 DEF Types
  <2>2. CASE q # r
    <3>1. x = exec[q] /\ run = runs[q]
        BY <2>2, <1>1, <1>2, <1>3 DEF Types
    <3> QED
        BY <3>1 DEF AnswerInv
  <2> QED
      BY <2>1, <2>2
<1>5. Steady /\ LockedStay(x)
    BY <1>3 DEF Steady, LockedStay, Types
<1>6. Sound(x, run)'
    BY <1>3, <1>4, <1>5, SoundStays
<1> QED
    BY <1>1, <1>2, <1>6

\* Capture's commit: what it reserves is published, and therefore there.
LEMMA ReserveStep ==
    ASSUME AnswerInv, NEW r \in Requests, Reserve(r)
    PROVE  AnswerInv'
<1>1. UNCHANGED <<kb, agent, model, token, wikis, files, intents, keeper, runs>>
    BY DEF Reserve, world, store
<1>2. PICK x \in Execution : x = exec[r]
    BY DEF AnswerInv, Types
<1>3. PICK run : run = runs[r]
    OBVIOUS
<1>4. Sound(x, run) /\ Types /\ x.at = "capturing"
    BY <1>2, <1>3 DEF AnswerInv, Reserve, At
<1>5. CaptureFits(x) /\ x.cap \in Capture /\ x.cap.config \in Configurations
    BY <1>4 DEF Sound, Scoped, CaptureFits, Capture
<1>6. PICK n : n = ToolLimit(x.cap.config)
    OBVIOUS
<1>7. n \in LeftField /\ n \in Nat
    BY <1>6, AnswerAssumption DEF ToolLimit, LeftField, AnswerAssumption
<1>8. PICK W : W = CapturedWikis(x.cap)
    OBVIOUS
<1>9. W \subseteq Wikis /\ \A w \in W : Published(w)
  <2>1. \A k \in DOMAIN x.cap.kbs : x.cap.kbs[k].wiki = kb[k].published
      BY <1>4 DEF Sound, LocksHold
  <2> QED
      BY <2>1, <1>5, <1>8, CapturedAreWikis DEF CapturedWikis, Published
<1>10. exec' = [exec EXCEPT ![r].at = "captured", ![r].left = n]
    BY <1>2, <1>6 DEF Reserve
<1>11. held' = [held EXCEPT ![r] = [wikis |-> W, ttl |-> ReservationTTL]]
    BY <1>2, <1>8 DEF Reserve
<1>12. PICK y : y = [x EXCEPT !.at = "captured", !.left = n]
    OBVIOUS
<1>13. "captured" \in Places
    BY DEF Places, Scoped, Working
<1>14. /\ y \in Execution /\ y.at = "captured" /\ y.token = x.token /\ y.cap = x.cap
       /\ y.shown = x.shown /\ y.minted = x.minted /\ y.left = n /\ y.turns = x.turns
       /\ y.public = x.public /\ y.inScope = x.inScope
    BY <1>7, <1>12, <1>13 DEF Execution
<1>15. CaptureFits(y)
    BY <1>5, <1>6, <1>7, <1>14 DEF CaptureFits
<1>16. LocksHold(y) /\ Cited(y)
    BY <1>4, <1>14 DEF Sound, LocksHold, Cited
<1>17. Recorded(y, run)
    BY <1>4, <1>14 DEF Sound, Recorded, Ended
<1>18. Sound(y, run)
    BY <1>14, <1>15, <1>16, <1>17 DEF Sound
<1>19. exec' = [exec EXCEPT ![r] = y]
    BY <1>2, <1>10, <1>12
<1>20. held' \in [Requests -> [wikis : SUBSET Wikis, ttl : 0..ReservationTTL]]
  <2>1. ReservationTTL \in 0..ReservationTTL
      BY AnswerAssumption DEF AnswerAssumption
  <2> QED
      BY <2>1, <1>4, <1>9, <1>11 DEF Types
<1>21. Types'
    BY <1>1, <1>4, <1>14, <1>19, <1>20 DEF Types
<1>22. ScopeRetained'
  <2> SUFFICES ASSUME NEW w \in Wikis, (Published(w) \/ Reserved(w) \/ Retained(w))'
               PROVE  w \in wikis \cap files
      BY <1>1 DEF ScopeRetained
  <2>1. Published(w) \/ Reserved(w) \/ Retained(w) \/ w \in W
      BY <1>1, <1>4, <1>11 DEF Published, Reserved, Retained, Types
  <2> QED
      BY <2>1, <1>9 DEF AnswerInv, ScopeRetained
<1>23. Deletion' /\ HalfDeletedIsStaged'
    BY <1>1 DEF AnswerInv, Deletion, HalfDeletedIsStaged
<1>24. \A q \in Requests : Sound(exec[q], runs[q])'
    BY <1>1, <1>3, <1>14, <1>18, <1>19, <1>21, OthersSound
<1> QED
    BY <1>21, <1>22, <1>23, <1>24 DEF AnswerInv

\* The deferred release gives a reservation up.
LEMMA ReleaseCaptureStep ==
    ASSUME AnswerInv, NEW r \in Requests, ReleaseCapture(r)
    PROVE  AnswerInv'
<1>1. UNCHANGED <<kb, agent, model, token, wikis, files, intents, keeper, runs>>
    BY DEF ReleaseCapture, world, store
<1>2. PICK x \in Execution : x = exec[r]
    BY DEF AnswerInv, Types
<1>3. PICK run : run = runs[r]
    OBVIOUS
<1>4. Sound(x, run) /\ Types /\ x.at = "captured"
    BY <1>2, <1>3 DEF AnswerInv, ReleaseCapture, At
<1>5. PICK pc : pc = "unavailable"
    OBVIOUS
<1>6. PICK y : y = [x EXCEPT !.at = pc]
    OBVIOUS
<1>7. y \in Execution /\ Sound(y, run)
    BY <1>4, <1>5, <1>6, MoveSound DEF Places, Scoped, Working, Ended
<1>8. exec' = [exec EXCEPT ![r] = y]
    BY <1>2, <1>5, <1>6 DEF ReleaseCapture, Go
<1>9. held' = [held EXCEPT ![r] = Free] /\ Free \in [wikis : SUBSET Wikis, ttl : 0..ReservationTTL]
    BY AnswerAssumption DEF ReleaseCapture, Free, AnswerAssumption
<1>10. Types'
    BY <1>1, <1>4, <1>7, <1>8, <1>9 DEF Types
<1>11. ScopeRetained'
  <2> SUFFICES ASSUME NEW w \in Wikis, (Published(w) \/ Reserved(w) \/ Retained(w))'
               PROVE  w \in wikis \cap files
      BY <1>1 DEF ScopeRetained
  <2>1. Published(w) \/ Reserved(w) \/ Retained(w)
      BY <1>1, <1>4, <1>9 DEF Published, Reserved, Retained, Types, Free
  <2> QED
      BY <2>1 DEF AnswerInv, ScopeRetained
<1>12. Deletion' /\ HalfDeletedIsStaged'
    BY <1>1 DEF AnswerInv, Deletion, HalfDeletedIsStaged
<1>13. \A q \in Requests : Sound(exec[q], runs[q])'
    BY <1>1, <1>3, <1>7, <1>8, <1>10, OthersSound
<1> QED
    BY <1>10, <1>11, <1>12, <1>13 DEF AnswerInv

\* RecordRun: the wikis it refers to were locked when they were found.
LEMMA RecordRunStep ==
    ASSUME AnswerInv, NEW r \in Requests, RecordRun(r)
    PROVE  AnswerInv'
<1>1. UNCHANGED <<kb, agent, model, token, wikis, files, intents, keeper>>
    BY DEF RecordRun, world, store
<1>2. PICK x \in Execution : x = exec[r]
    BY DEF AnswerInv, Types
<1>3. Sound(x, runs[r]) /\ Types /\ x.at = "recording"
    BY <1>2 DEF AnswerInv, RecordRun, At
<1>4. CaptureFits(x) /\ x.cap \in Capture /\ x.outcome \in Outcomes
    BY <1>3 DEF Sound, Scoped, CaptureFits, Execution
<1>5. PICK W : W = CapturedWikis(x.cap)
    OBVIOUS
<1>6. W \subseteq Wikis /\ W \subseteq wikis \cap files
    BY <1>3, <1>4, <1>5, CapturedAreWikis DEF Sound, LocksHold
<1>7. PICK run : run = [outcome |-> x.outcome, wikis |-> W, old |-> FALSE]
    OBVIOUS
<1>8. /\ run \in [outcome : Outcomes \cup {"deleted"}, wikis : SUBSET Wikis, old : BOOLEAN]
      /\ run.outcome = x.outcome /\ run.wikis = W /\ ~run.old
    BY <1>4, <1>6, <1>7
<1>9. runs' = [runs EXCEPT ![r] = run]
    BY <1>2, <1>5, <1>7 DEF RecordRun
<1>10. held' = [held EXCEPT ![r] = Free] /\ Free \in [wikis : SUBSET Wikis, ttl : 0..ReservationTTL]
    BY AnswerAssumption DEF RecordRun, Free, AnswerAssumption
<1>11. PICK b \in BOOLEAN : b = (token[x.token] = "valid")
    BY Zenon
<1>12. PICK y : /\ exec' = [exec EXCEPT ![r] = y]
                /\ \/ y = [x EXCEPT !.at = "error"]
                   \/ y = [x EXCEPT !.at = "error", !.tokenKept = b]
                   \/ y = [x EXCEPT !.at = "recorded", !.tokenKept = b]
  <2>1. CASE Go(r, "error")
      BY <1>2, <2>1 DEF Go
  <2>2. CASE exec' = [exec EXCEPT ![r].at = IF exec[r].outcome = "FAILED" THEN "error" ELSE "recorded",
                                  ![r].tokenKept = token[exec[r].token] = "valid"]
    <3>1. PICK pc \in {"error", "recorded"} : exec' = [exec EXCEPT ![r].at = pc, ![r].tokenKept = b]
        BY <1>2, <1>11, <2>2
    <3> QED
        BY <1>2, <3>1
  <2> QED
      BY <2>1, <2>2 DEF RecordRun
<1>13. "error" \in Places /\ "recorded" \in Places
    BY DEF Places, Scoped, Ended
<1>14. /\ y \in Execution /\ y.at \in {"error", "recorded"} /\ y.token = x.token /\ y.cap = x.cap
       /\ y.shown = x.shown /\ y.minted = x.minted /\ y.left = x.left /\ y.turns = x.turns
       /\ y.public = x.public /\ y.inScope = x.inScope /\ y.outcome = x.outcome
       /\ y.at = "recorded" => y.tokenKept = b
  <2>1. CASE y = [x EXCEPT !.at = "error"]
      BY <2>1, <1>13 DEF Execution
  <2>2. CASE y = [x EXCEPT !.at = "error", !.tokenKept = b]
      BY <2>2, <1>13 DEF Execution
  <2>3. CASE y = [x EXCEPT !.at = "recorded", !.tokenKept = b]
      BY <2>3, <1>13 DEF Execution
  <2> QED
      BY <2>1, <2>2, <2>3, <1>12
<1>15. CaptureFits(y)
    BY <1>4, <1>14 DEF CaptureFits
<1>16. LocksHold(y) /\ Cited(y)
    BY <1>3, <1>14 DEF Sound, LocksHold, Cited
<1>17. Recorded(y, run)
    BY <1>8, <1>11, <1>14 DEF Recorded
<1>18. Sound(y, run)
    BY <1>14, <1>15, <1>16, <1>17 DEF Sound
<1>19. exec' = [exec EXCEPT ![r] = y]
    BY <1>12
<1>20. Types'
    BY <1>1, <1>3, <1>8, <1>9, <1>10, <1>14, <1>19 DEF Types
<1>21. ScopeRetained'
  <2> SUFFICES ASSUME NEW w \in Wikis, (Published(w) \/ Reserved(w) \/ Retained(w))'
               PROVE  w \in wikis \cap files
      BY <1>1 DEF ScopeRetained
  <2>1. Published(w) \/ Reserved(w) \/ Retained(w) \/ w \in W
      BY <1>1, <1>3, <1>8, <1>9, <1>10 DEF Published, Reserved, Retained, Types, Free
  <2> QED
      BY <2>1, <1>6 DEF AnswerInv, ScopeRetained
<1>22. Deletion' /\ HalfDeletedIsStaged'
    BY <1>1 DEF AnswerInv, Deletion, HalfDeletedIsStaged
<1>23. run = runs'[r] /\ \A q \in Requests \ {r} : runs'[q] = runs[q]
    BY <1>3, <1>9 DEF Types
<1>24. \A q \in Requests : Sound(exec[q], runs[q])'
    BY <1>1, <1>14, <1>18, <1>19, <1>20, <1>23, OthersSound
<1> QED
    BY <1>20, <1>21, <1>22, <1>24 DEF AnswerInv

\* A run that is recorded ages only when its answer has ended.
LEMMA AgeStep ==
    ASSUME AnswerInv, NEW r \in Requests, Age(r)
    PROVE  AnswerInv'
<1>1. UNCHANGED <<kb, agent, model, token, wikis, files, intents, keeper, held, exec>>
    BY DEF Age, world, store
<1>2. PICK x \in Execution : x = exec[r]
    BY DEF AnswerInv, Types
<1>3. PICK run : run = runs[r]
    OBVIOUS
<1>4. PICK ran : ran = [run EXCEPT !.old = TRUE]
    OBVIOUS
<1>5. Sound(x, run) /\ Types /\ x.at \in Ended
    BY <1>2, <1>3 DEF AnswerInv, Age, Ended
<1>6. run \in [outcome : Outcomes \cup {"deleted"}, wikis : SUBSET Wikis, old : BOOLEAN]
    BY <1>3, <1>5 DEF Types
<1>7. /\ ran \in [outcome : Outcomes \cup {"deleted"}, wikis : SUBSET Wikis, old : BOOLEAN]
      /\ ran.outcome = run.outcome /\ ran.wikis = run.wikis
    BY <1>4, <1>6
<1>8. runs' = [runs EXCEPT ![r] = ran]
    BY <1>3, <1>4 DEF Age
<1>9. Types'
    BY <1>1, <1>5, <1>7, <1>8 DEF Types
<1>10. Recorded(x, ran)
    BY <1>5, <1>7 DEF Sound, Recorded, Ended
<1>11. Sound(x, ran)
    BY <1>5, <1>10 DEF Sound
<1>12. exec' = [exec EXCEPT ![r] = x]
    BY <1>1, <1>2, <1>5 DEF Types
<1>13. ran = runs'[r] /\ \A q \in Requests \ {r} : runs'[q] = runs[q]
    BY <1>5, <1>8 DEF Types
<1>14. \A q \in Requests : Sound(exec[q], runs[q])'
    BY <1>1, <1>9, <1>11, <1>12, <1>13, OthersSound
<1>15. ScopeRetained'
  <2> SUFFICES ASSUME NEW w \in Wikis, (Published(w) \/ Reserved(w) \/ Retained(w))'
               PROVE  w \in wikis \cap files
      BY <1>1 DEF ScopeRetained
  <2>1. Published(w) \/ Reserved(w) \/ Retained(w)
      BY <1>1, <1>3, <1>5, <1>7, <1>8 DEF Published, Reserved, Retained, Types
  <2> QED
      BY <2>1 DEF AnswerInv, ScopeRetained
<1>16. Deletion' /\ HalfDeletedIsStaged'
    BY <1>1 DEF AnswerInv, Deletion, HalfDeletedIsStaged
<1> QED
    BY <1>9, <1>14, <1>15, <1>16 DEF AnswerInv

-----------------------------------------------------------------------------
(***************************************************************************)
(* Operators, publications and the clock.                                  *)
(***************************************************************************)
\* Every execution stays sound in a step of the world around it.
LEMMA WorldSound ==
    ASSUME AnswerInv, Types', Steady, UNCHANGED <<exec, runs>>,
           \A q \in Requests : LockedStay(exec[q])
    PROVE  \A q \in Requests : Sound(exec[q], runs[q])'
<1> SUFFICES ASSUME NEW q \in Requests PROVE Sound(exec[q], runs[q])'
    OBVIOUS
<1>1. PICK x \in Execution : x = exec[q]
    BY DEF AnswerInv, Types
<1>2. PICK run : run = runs[q]
    OBVIOUS
<1>3. Sound(x, run) /\ LockedStay(x) /\ Types
    BY <1>1, <1>2 DEF AnswerInv
<1>4. Sound(x, run)'
    BY <1>3, SoundStays
<1> QED
    BY <1>1, <1>2, <1>4

\* Changes that publish and delete nothing.
LEMMA OperatorStep ==
    ASSUME AnswerInv, Types', Steady, UNCHANGED <<wikis, files, intents, keeper, held, runs, exec>>,
           \A k \in KBs : kb'[k].published = kb[k].published
    PROVE  AnswerInv'
<1>1. ASSUME NEW w \in Wikis
      PROVE  Published(w)' = Published(w) /\ Reserved(w)' = Reserved(w) /\ Retained(w)' = Retained(w)
    BY <1>1 DEF Published, Reserved, Retained, Wikis
<1>2. ScopeRetained' /\ HalfDeletedIsStaged'
    BY <1>1 DEF AnswerInv, ScopeRetained, HalfDeletedIsStaged
<1>3. Deletion'
  <2>1. \A w \in wikis : w[1] \in KBs
      BY DEF AnswerInv, Types, Wikis
  <2> QED
      BY <2>1 DEF AnswerInv, Deletion
<1>4. ASSUME NEW q \in Requests PROVE LockedStay(exec[q])
  <2>1. exec[q].at = "capturing" => DOMAIN exec[q].cap.kbs \subseteq KBs
    <3>1. exec[q].at = "capturing" => exec[q].cap \in Capture
        BY DEF AnswerInv, Sound, CaptureFits, Scoped
    <3> QED
        BY <3>1, CaptureEntries
  <2> QED
      BY <2>1 DEF LockedStay
<1>5. \A q \in Requests : Sound(exec[q], runs[q])'
    BY <1>4, WorldSound
<1> QED
    BY <1>2, <1>3, <1>5 DEF AnswerInv

\* Commands of operators keep the invariant (Catalog, Service.Revoke).
LEMMA CommandSteps ==
    ASSUME AnswerInv,
           \/ \E c \in Configurations : ReplaceConfiguration(c)
           \/ \E to \in {"ACTIVE", "ARCHIVED"} : SetLifecycle(to)
           \/ \E t \in Tokens : Revoke(t)
           \/ \E k \in KBs : ChangeBase(k)
           \/ ChangeModel
    PROVE  AnswerInv'
<1> USE DEF KeepsExec, store
<1>0. Types
    BY DEF AnswerInv
<1>a. PICK a \in [lifecycle : Lifecycle, resource : Nat, version : Nat, config : Configurations] : a = agent
    BY <1>0 DEF Types
<1>b. a.version + 1 \in Nat /\ a.resource + 1 \in Nat /\ a.version < a.version + 1
    OBVIOUS
<1>1. CASE \E c \in Configurations : ReplaceConfiguration(c)
  <2>1. PICK c \in Configurations : ReplaceConfiguration(c)
      BY <1>1
  <2>2. UNCHANGED <<kb, model, token, wikis, files, intents, keeper, held, runs, exec>>
      BY <2>1 DEF ReplaceConfiguration
  <2>3. PICK v \in Nat, u \in Nat : v = a.version + 1 /\ u = a.resource + 1
      BY <1>b
  <2>4. agent' = [a EXCEPT !.config = c, !.version = v, !.resource = u]
      BY <1>a, <2>1, <2>3 DEF ReplaceConfiguration
  <2>5. /\ agent' \in [lifecycle : Lifecycle, resource : Nat, version : Nat, config : Configurations]
        /\ agent'.version = v
      BY <1>a, <2>4
  <2>6. Types'
      BY <1>0, <2>2, <2>5 DEF Types
  <2>7. Steady
      BY <1>a, <1>b, <2>2, <2>3, <2>5 DEF Steady
  <2> QED
      BY <2>2, <2>6, <2>7, OperatorStep
<1>2. CASE \E to \in {"ACTIVE", "ARCHIVED"} : SetLifecycle(to)
  <2>1. PICK to \in {"ACTIVE", "ARCHIVED"} : SetLifecycle(to)
      BY <1>2
  <2>2. UNCHANGED <<kb, model, token, wikis, files, intents, keeper, held, runs, exec>>
      BY <2>1 DEF SetLifecycle
  <2>3. PICK u \in Nat : u = a.resource + 1
      BY <1>b
  <2>4. agent' = [a EXCEPT !.lifecycle = to, !.resource = u]
      BY <1>a, <2>1, <2>3 DEF SetLifecycle
  <2>5. /\ agent' \in [lifecycle : Lifecycle, resource : Nat, version : Nat, config : Configurations]
        /\ agent'.version = a.version /\ agent'.config = a.config
      BY <1>a, <2>4 DEF Lifecycle
  <2>6. Types'
      BY <1>0, <2>2, <2>5 DEF Types
  <2>7. Steady
      BY <1>a, <2>2, <2>5 DEF Steady
  <2> QED
      BY <2>2, <2>6, <2>7, OperatorStep
<1>3. CASE \E t \in Tokens : Revoke(t)
  <2>1. PICK t \in Tokens : Revoke(t)
      BY <1>3
  <2>2. Types' /\ UNCHANGED <<kb, wikis, files, intents, keeper, held, runs, exec>>
      BY <1>0, <2>1 DEF Revoke, Types
  <2>3. Steady
      BY <1>0, <2>1 DEF Revoke, Types, Steady
  <2> QED
      BY <2>2, <2>3, OperatorStep
<1>4. CASE \E k \in KBs : ChangeBase(k)
  <2>1. PICK k \in KBs : ChangeBase(k)
      BY <1>4
  <2>2. /\ kb' \in [KBs -> [lifecycle : Lifecycle, access : Access, published : 1..MaxWiki]]
        /\ \A b \in KBs : kb'[b].published = kb[b].published
    <3>1. CASE kb' = [kb EXCEPT ![k].lifecycle = "ARCHIVED"]
        BY <1>0, <3>1 DEF Types, Lifecycle
    <3>2. CASE \E policy \in {"PUBLIC", "RESTRICTED"} \ {kb[k].access} : kb' = [kb EXCEPT ![k].access = policy]
        BY <1>0, <3>2 DEF Types, Access
    <3> QED
        BY <2>1, <3>1, <3>2 DEF ChangeBase
  <2>3. UNCHANGED <<agent, model, token, wikis, files, intents, keeper, held, runs, exec>>
      BY <2>1 DEF ChangeBase
  <2>4. Types' /\ Steady
      BY <1>0, <2>2, <2>3 DEF Types, Steady
  <2> QED
      BY <2>2, <2>3, <2>4, OperatorStep
<1>5. CASE ChangeModel
  <2>1. model' \in [revision : Nat, usable : BOOLEAN]
    <3>1. PICK m \in [revision : Nat, usable : BOOLEAN] : m = model
        BY <1>0 DEF Types
    <3>2. CASE model' = [model EXCEPT !.revision = @ + 1]
        BY <3>1, <3>2
    <3>3. CASE model' = [model EXCEPT !.usable = ~@]
      <4>1. PICK b \in BOOLEAN : b = ~m.usable
          BY Zenon
      <4>2. model' = [m EXCEPT !.usable = b]
          BY <3>1, <3>3, <4>1
      <4> QED
          BY <3>1, <4>2
    <3> QED
        BY <1>5, <3>2, <3>3 DEF ChangeModel
  <2>2. UNCHANGED <<kb, agent, token, wikis, files, intents, keeper, held, runs, exec>>
      BY <1>5 DEF ChangeModel
  <2>3. Types' /\ Steady
      BY <1>0, <2>1, <2>2 DEF Types, Steady
  <2> QED
      BY <2>2, <2>3, OperatorStep
<1> QED
    BY <1>1, <1>2, <1>3, <1>4, <1>5

\* A publication replaces the published wiki, which stays stored; captures
\* that are open keep it from their knowledge bases.
LEMMA PublishStep ==
    ASSUME AnswerInv, NEW k \in KBs, Publish(k)
    PROVE  AnswerInv'
<1>0. Types
    BY DEF AnswerInv
<1>1. UNCHANGED <<intents, keeper, agent, model, token, exec, held, runs>>
    BY DEF Publish, KeepsExec
<1>2. PICK n : n = kb[k].published + 1
    OBVIOUS
<1>3. n \in 1..MaxWiki /\ kb[k].published < n
    BY <1>0, <1>2, AnswerAssumption DEF Publish, Types, AnswerAssumption
<1>4. /\ kb' \in [KBs -> [lifecycle : Lifecycle, access : Access, published : 1..MaxWiki]]
      /\ kb'[k].published = n /\ \A b \in KBs \ {k} : kb'[b] = kb[b]
    BY <1>0, <1>2, <1>3 DEF Publish, Types
<1>5. PICK new \in Wikis : new = <<k, n>>
    BY <1>3 DEF Wikis
<1>6. wikis' = wikis \cup {new} /\ files' = files \cup {new} /\ new[1] = k /\ new[2] = n
    BY <1>2, <1>5 DEF Publish
<1>7. new \notin wikis
    BY <1>0, <1>3, <1>6 DEF AnswerInv, Deletion, Types
<1>8. Types'
    BY <1>0, <1>1, <1>4, <1>6 DEF Types
<1>9. Steady
    BY <1>0, <1>1 DEF Steady, Types
<1>10. ASSUME NEW q \in Requests PROVE LockedStay(exec[q])
  <2>1. exec[q].at = "capturing" => exec[q].cap \in Capture
      BY DEF AnswerInv, Sound, CaptureFits, Scoped
  <2>2. exec[q].at = "capturing" => k \notin DOMAIN exec[q].cap.kbs
      BY DEF Publish, BaseShared, At
  <2>3. exec[q].at = "capturing" => \A b \in DOMAIN exec[q].cap.kbs : kb'[b].published = kb[b].published
      BY <2>1, <2>2, <1>4, CaptureEntries
  <2> QED
      BY <2>3, <1>6 DEF LockedStay
<1>11. \A q \in Requests : Sound(exec[q], runs[q])'
    BY <1>1, <1>8, <1>9, <1>10, WorldSound
<1>12. ASSUME NEW w \in Wikis, Published(w)' PROVE w \in wikis' \cap files'
  <2>1. w[1] \in KBs /\ w = <<w[1], w[2]>> /\ kb'[w[1]].published = w[2]
      BY <1>12 DEF Published, Wikis
  <2>2. CASE w[1] = k
      BY <2>1, <2>2, <1>4, <1>5, <1>6
  <2>3. CASE w[1] # k
    <3>1. Published(w)
        BY <2>1, <2>3, <1>4 DEF Published
    <3> QED
        BY <3>1, <1>6 DEF AnswerInv, ScopeRetained
  <2> QED
      BY <2>2, <2>3
<1>13. ScopeRetained'
  <2>1. \A w \in Wikis : Reserved(w)' = Reserved(w) /\ Retained(w)' = Retained(w)
      BY <1>1 DEF Reserved, Retained
  <2> QED
      BY <2>1, <1>6, <1>12 DEF AnswerInv, ScopeRetained
<1>14. HalfDeletedIsStaged'
    BY <1>1, <1>6 DEF AnswerInv, HalfDeletedIsStaged
<1>15. Deletion'
  <2>1. \A w \in wikis' : w[2] <= kb'[w[1]].published
    <3> SUFFICES ASSUME NEW w \in wikis' PROVE w[2] <= kb'[w[1]].published
        OBVIOUS
    <3>1. CASE w = new
        BY <3>1, <1>3, <1>4, <1>6
    <3>2. CASE w \in wikis
      <4>1. w[1] \in KBs /\ w[2] \in 1..MaxWiki /\ w[2] <= kb[w[1]].published
          BY <3>2, <1>0 DEF AnswerInv, Deletion, Types, Wikis
      <4>2. kb[w[1]].published <= kb'[w[1]].published /\ kb[w[1]].published \in Nat /\ kb'[w[1]].published \in Nat
          BY <4>1, <1>0, <1>3, <1>4, AnswerAssumption DEF Types, AnswerAssumption
      <4> QED
          BY <4>1, <4>2
    <3> QED
        BY <3>1, <3>2, <1>6
  <2>2. keeper.cur \cap files' = {}
      BY <1>6, <1>7 DEF AnswerInv, Deletion
  <2> QED
      BY <2>1, <2>2, <1>1, <1>6 DEF AnswerInv, Deletion
<1> QED
    BY <1>8, <1>11, <1>13, <1>14, <1>15 DEF AnswerInv

-----------------------------------------------------------------------------
(***************************************************************************)
(* The clock and retention.                                                *)
(***************************************************************************)
Holding == [wikis : SUBSET Wikis, ttl : 0..ReservationTTL]
Keeping == [at : {"idle", "staging", "selected", "deleting", "discarded"},
            left : SUBSET Wikis, cur : SUBSET Wikis]

\* Steps that delete nothing and at most give reservations up.
LEMMA NothingDeleted ==
    ASSUME AnswerInv, UNCHANGED <<kb, agent, model, token, wikis, files, exec, runs>>,
           held' \in [Requests -> Holding], keeper' \in Keeping, intents' \subseteq wikis,
           \A w \in Wikis : Reserved(w)' => Reserved(w),
           Deletion', HalfDeletedIsStaged'
    PROVE  AnswerInv'
<1>1. Types' /\ Types
    BY DEF AnswerInv, Types, Holding, Keeping
<1>2. ScopeRetained'
  <2>1. \A w \in Wikis : Published(w)' = Published(w) /\ Retained(w)' = Retained(w)
      BY DEF Published, Retained
  <2> QED
      BY <2>1 DEF AnswerInv, ScopeRetained
<1>3. Steady
    BY <1>1 DEF Steady, Types
<1>4. \A q \in Requests : LockedStay(exec[q])
    BY DEF LockedStay
<1>5. \A q \in Requests : Sound(exec[q], runs[q])'
    BY <1>1, <1>3, <1>4, WorldSound
<1> QED
    BY <1>1, <1>2, <1>5 DEF AnswerInv

\* Time only takes reservations away.
LEMMA TickStep ==
    ASSUME AnswerInv, Tick
    PROVE  AnswerInv'
<1>1. UNCHANGED <<kb, agent, model, token, wikis, files, intents, keeper, exec, runs>>
    BY DEF Tick, world, store
<1>2. Types
    BY DEF AnswerInv
<1>3. ASSUME NEW r \in Requests
      PROVE  held'[r] \in Holding /\ held'[r].wikis = held[r].wikis /\ (held'[r].ttl > 0 => held[r].ttl > 0)
  <2>1. PICK h \in Holding : h = held[r]
      BY <1>2 DEF Types, Holding
  <2>2. PICK t : t = IF h.ttl > 0 THEN h.ttl - 1 ELSE 0
      OBVIOUS
  <2>3. t \in 0..ReservationTTL /\ (t > 0 => h.ttl > 0)
      BY <2>1, <2>2, AnswerAssumption DEF Holding, AnswerAssumption
  <2>4. held'[r] = [h EXCEPT !.ttl = t]
      BY <2>1, <2>2 DEF Tick
  <2> QED
      BY <2>1, <2>3, <2>4 DEF Holding
<1>4. held' \in [Requests -> Holding]
  <2>1. held' = [r \in Requests |-> held'[r]]
      BY DEF Tick
  <2> QED
      BY <2>1, <1>3
<1>5. \A w \in Wikis : Reserved(w)' => Reserved(w)
    BY <1>3 DEF Reserved
<1>6. Deletion' /\ HalfDeletedIsStaged' /\ intents' \subseteq wikis /\ keeper' \in Keeping
    BY <1>1, <1>2 DEF AnswerInv, Deletion, HalfDeletedIsStaged, Types, Keeping
<1> QED
    BY <1>1, <1>4, <1>5, <1>6, NothingDeleted

\* deleteExpiredAgentRunReservations, the selection of old wikis, and the ends
\* of a retention job.
LEMMA KeeperMoves ==
    ASSUME AnswerInv, CleanupExpired \/ SelectOldWikis \/ FinalizeFails \/ EndRetention
    PROVE  AnswerInv'
<1>1. UNCHANGED <<kb, agent, model, token, wikis, files, intents, exec, runs>>
    BY DEF CleanupExpired, SelectOldWikis, FinalizeFails, EndRetention, world
<1>2. Types /\ Deletion /\ keeper \in Keeping
    BY DEF AnswerInv, Types, Keeping
<1>3. /\ held' \in [Requests -> Holding]
      /\ \A w \in Wikis : Reserved(w)' => Reserved(w)
  <2>1. CASE UNCHANGED held
      BY <2>1, <1>2 DEF Types, Holding, Reserved
  <2>2. CASE CleanupExpired
    <3>1. Free \in Holding /\ Free.wikis = {}
        BY AnswerAssumption DEF Free, Holding, AnswerAssumption
    <3>2. \A r \in Requests : held'[r] = Free \/ held'[r] = held[r]
        BY <2>2 DEF CleanupExpired
    <3>3. held' = [r \in Requests |-> held'[r]]
        BY <2>2 DEF CleanupExpired
    <3>4. \A r \in Requests : held[r] \in Holding
        BY <1>2 DEF Types, Holding
    <3> QED
        BY <3>1, <3>2, <3>3, <3>4 DEF Reserved
  <2> QED
      BY <2>1, <2>2 DEF SelectOldWikis, FinalizeFails, EndRetention
<1>4. keeper' \in Keeping /\ Deletion'
  <2>1. CASE CleanupExpired
      BY <2>1, <1>1, <1>2 DEF CleanupExpired, Deletion, Keeping
  <2>2. CASE SelectOldWikis
    <3>1. PICK L \in SUBSET wikis : keeper' = [at |-> "selected", cur |-> {}, left |-> L]
        BY <2>2 DEF SelectOldWikis
    <3>2. wikis \subseteq Wikis
        BY <1>2 DEF Types
    <3> QED
        BY <3>1, <3>2, <1>1, <1>2 DEF Deletion, Keeping
  <2>3. CASE FinalizeFails
      BY <2>3, <1>1, <1>2 DEF FinalizeFails, Deletion, Keeping
  <2>4. CASE EndRetention
      BY <2>4, <1>1, <1>2 DEF EndRetention, Deletion, Keeping
  <2> QED
      BY <2>1, <2>2, <2>3, <2>4
<1>5. HalfDeletedIsStaged' /\ intents' \subseteq wikis
    BY <1>1, <1>2 DEF AnswerInv, HalfDeletedIsStaged, Types
<1> QED
    BY <1>1, <1>3, <1>4, <1>5, NothingDeleted

\* deleteAgentRuns and the inserts of stageOldWikis: runs that are deleted are
\* of answers that ended, and what is staged is a row.
LEMMA StageStep ==
    ASSUME AnswerInv, StageOldWikis
    PROVE  AnswerInv'
<1>1. UNCHANGED <<kb, agent, model, token, wikis, files, exec, held>>
    BY DEF StageOldWikis, world
<1>2. Types /\ Deletion
    BY DEF AnswerInv
<1>3. PICK gone : gone = [NoRun EXCEPT !.outcome = "deleted"]
    OBVIOUS
<1>4. gone = [outcome |-> "deleted", wikis |-> {}, old |-> FALSE]
    BY <1>3 DEF NoRun
<1>5. ASSUME NEW q \in Requests
      PROVE  runs'[q] = IF runs[q].old THEN gone ELSE runs[q]
    BY <1>3 DEF StageOldWikis, KeptRuns
<1>6. runs' \in [Requests -> [outcome : Outcomes \cup {"deleted"}, wikis : SUBSET Wikis, old : BOOLEAN]]
  <2>1. runs' = [q \in Requests |-> runs'[q]]
      BY DEF StageOldWikis, KeptRuns
  <2>2. gone \in [outcome : Outcomes \cup {"deleted"}, wikis : SUBSET Wikis, old : BOOLEAN]
      BY <1>4
  <2> QED
      BY <2>1, <2>2, <1>2, <1>5 DEF Types
<1>7. /\ intents \subseteq intents' /\ intents' \subseteq wikis
      /\ keeper' = [at |-> "deleting", left |-> intents', cur |-> {}]
  <2>1. keeper.left \subseteq wikis
      BY <1>2 DEF StageOldWikis, Deletion
  <2> QED
      BY <2>1, <1>2 DEF StageOldWikis, Types
<1>8. Types'
    BY <1>1, <1>2, <1>6, <1>7 DEF Types
<1>9. Deletion'
    BY <1>1, <1>2, <1>7 DEF Deletion
<1>10. HalfDeletedIsStaged'
    BY <1>1, <1>7 DEF AnswerInv, HalfDeletedIsStaged
<1>11. ScopeRetained'
  <2>1. ASSUME NEW w \in Wikis, Retained(w)' PROVE Retained(w)
    <3>1. PICK q \in Requests : w \in runs'[q].wikis
        BY <2>1 DEF Retained
    <3> QED
        BY <3>1, <1>4, <1>5 DEF Retained
  <2>2. \A w \in Wikis : Published(w)' = Published(w) /\ Reserved(w)' = Reserved(w)
      BY <1>1 DEF Published, Reserved
  <2> QED
      BY <2>1, <2>2, <1>1 DEF AnswerInv, ScopeRetained
<1>12. ASSUME NEW q \in Requests PROVE Sound(exec[q], runs[q])'
  <2>1. PICK x \in Execution : x = exec[q]
      BY <1>2 DEF Types
  <2>2. PICK run : run = runs[q]
      OBVIOUS
  <2>3. PICK ran : ran = runs'[q]
      OBVIOUS
  <2>4. Sound(x, run)
      BY <2>1, <2>2 DEF AnswerInv
  <2>5. Recorded(x, ran)
    <3>1. CASE run.old
      <4>1. ran.outcome = "deleted" /\ ~ran.old
          BY <3>1, <2>2, <2>3, <1>4, <1>5
      <4>2. x.at # "recorded"
          BY <3>1, <2>4 DEF Sound, Recorded, Ended
      <4> QED
          BY <4>1, <4>2, <2>4 DEF Sound, Recorded
    <3>2. CASE ~run.old
      <4>1. ran = run
          BY <3>2, <2>2, <2>3, <1>5
      <4> QED
          BY <4>1, <2>4 DEF Sound
    <3> QED
        BY <3>1, <3>2
  <2>6. Sound(x, ran)
      BY <2>4, <2>5 DEF Sound
  <2>7. Steady /\ LockedStay(x)
      BY <1>1, <1>2 DEF Steady, LockedStay, Types
  <2>8. Sound(x, ran)'
      BY <1>2, <1>8, <2>6, <2>7, SoundStays
  <2> QED
      BY <2>1, <2>3, <2>8, <1>1
<1> QED
    BY <1>8, <1>9, <1>10, <1>11, <1>12 DEF AnswerInv

\* Giving expired reservations up changes nothing that is reserved.
LEMMA ExpiredAreFree ==
    ASSUME Types, NEW w, held' = WithoutExpired(w)
    PROVE  held' \in [Requests -> Holding] /\ \A v \in Wikis : Reserved(v)' => Reserved(v)
<1>1. ASSUME NEW r \in Requests
      PROVE  held'[r] \in Holding /\ held'[r].ttl = held[r].ttl /\ held'[r].wikis \subseteq held[r].wikis
  <2>1. PICK h \in Holding : h = held[r]
      BY DEF Types, Holding
  <2>2. held'[r] = h \/ held'[r] = [h EXCEPT !.wikis = h.wikis \ {w}]
      BY <2>1 DEF WithoutExpired
  <2> QED
      BY <2>1, <2>2 DEF Holding
<1>2. held' = [r \in Requests |-> held'[r]]
    BY DEF WithoutExpired
<1> QED
    BY <1>1, <1>2 DEF Reserved

\* finalizeIntent: files go only of a wiki that is not published, reserved,
\* referred to or locked, and an intent is dropped only with its files in place.
LEMMA FinalizeIntentStep ==
    ASSUME AnswerInv, NEW w \in keeper.left, FinalizeIntent(w)
    PROVE  AnswerInv'
<1>1. UNCHANGED <<kb, agent, model, token, wikis, exec, runs>>
    BY DEF FinalizeIntent, world
<1>2. Types /\ Deletion /\ keeper \in Keeping /\ w \in Wikis /\ keeper.at = "deleting"
    BY DEF AnswerInv, Types, Keeping, FinalizeIntent
<1>3. CASE w \in wikis /\ Eligible(w)
  <2>1. /\ files' = files \ {w} /\ UNCHANGED <<intents, held>>
        /\ keeper' = [keeper EXCEPT !.at = "discarded", !.cur = {w}]
      BY <1>3 DEF FinalizeIntent
  <2>2. /\ keeper' \in Keeping /\ keeper'.at = "discarded" /\ keeper'.cur = {w}
        /\ keeper'.left = keeper.left
      BY <2>1, <1>2 DEF Keeping
  <2>3. Types'
      BY <2>1, <2>2, <1>1, <1>2 DEF Types, Keeping
  <2>4. w \in intents
      BY <1>2 DEF Deletion
  <2>5. Deletion'
      BY <2>1, <2>2, <1>1, <1>2, <1>3 DEF Deletion
  <2>6. HalfDeletedIsStaged'
      BY <2>1, <2>4, <1>1 DEF AnswerInv, HalfDeletedIsStaged
  <2>7. ScopeRetained'
    <3>1. \A v \in Wikis : /\ Published(v)' = Published(v) /\ Reserved(v)' = Reserved(v)
                           /\ Retained(v)' = Retained(v)
        BY <2>1, <1>1 DEF Published, Reserved, Retained
    <3> QED
        BY <3>1, <2>1, <1>1, <1>3 DEF AnswerInv, ScopeRetained, Eligible
  <2>8. Steady
      BY <1>1, <1>2 DEF Steady, Types
  <2>9. ASSUME NEW q \in Requests PROVE LockedStay(exec[q])
    <3>1. PICK W : W = CapturedWikis(exec[q].cap)
        OBVIOUS
    <3>2. exec[q].at = "recording" => w \notin W
        BY <3>1 DEF FinalizeIntent, WikiLocked, SharedBy
    <3> QED
        BY <3>1, <3>2, <2>1, <1>1 DEF LockedStay
  <2>10. \A q \in Requests : Sound(exec[q], runs[q])'
      BY <2>3, <2>8, <2>9, <1>1, WorldSound
  <2> QED
      BY <2>3, <2>5, <2>6, <2>7, <2>10 DEF AnswerInv
<1>4. CASE ~(w \in wikis /\ Eligible(w))
  <2>1. /\ intents' = intents \ {w} /\ UNCHANGED files
        /\ keeper' = [keeper EXCEPT !.left = @ \ {w}]
        /\ held' = WithoutExpired(w) \/ held' = held
      BY <1>4 DEF FinalizeIntent
  <2>2. /\ keeper' \in Keeping /\ keeper'.at = keeper.at /\ keeper'.cur = keeper.cur
        /\ keeper'.left = keeper.left \ {w}
      BY <2>1, <1>2 DEF Keeping
  <2>3. Deletion'
      BY <2>1, <2>2, <1>1, <1>2 DEF Deletion
  <2>4. w \in wikis => w \in files
      BY <1>2, <1>4 DEF AnswerInv, ScopeRetained, Eligible
  <2>5. HalfDeletedIsStaged' /\ intents' \subseteq wikis
      BY <2>1, <2>4, <1>1, <1>2 DEF AnswerInv, HalfDeletedIsStaged, Types
  <2>6. held' \in [Requests -> Holding] /\ \A v \in Wikis : Reserved(v)' => Reserved(v)
    <3>1. CASE held' = held
        BY <3>1, <1>2 DEF Types, Holding, Reserved
    <3> QED
        BY <3>1, <2>1, <1>2, ExpiredAreFree
  <2> QED
      BY <2>1, <2>2, <2>3, <2>5, <2>6, <1>1, NothingDeleted
<1> QED
    BY <1>3, <1>4

\* finalizeResource deletes a row whose files are gone; nothing that is needed
\* has none.
LEMMA FinalizeResourceStep ==
    ASSUME AnswerInv, FinalizeResource
    PROVE  AnswerInv'
<1>1. UNCHANGED <<kb, agent, model, token, files, exec, runs>>
    BY DEF FinalizeResource, world
<1>2. Types /\ Deletion /\ keeper \in Keeping /\ keeper.at = "discarded"
    BY DEF AnswerInv, Types, Keeping, FinalizeResource
<1>3. PICK w \in keeper.cur :
        /\ wikis' = wikis \ {w} /\ intents' = intents \ {w}
        /\ held' = WithoutExpired(w)
        /\ keeper' = [at |-> "deleting", left |-> keeper.left \ {w}, cur |-> {}]
    BY DEF FinalizeResource
<1>4. w \notin files
    BY <1>2 DEF Deletion
<1>5. held' \in [Requests -> Holding] /\ \A v \in Wikis : Reserved(v)' => Reserved(v)
    BY <1>2, <1>3, ExpiredAreFree
<1>6. keeper' \in Keeping
    BY <1>2, <1>3 DEF Keeping
<1>7. Types'
    BY <1>1, <1>2, <1>3, <1>5, <1>6 DEF Types, Holding, Keeping
<1>8. Deletion'
    BY <1>1, <1>2, <1>3 DEF Deletion
<1>9. HalfDeletedIsStaged'
    BY <1>1, <1>3 DEF AnswerInv, HalfDeletedIsStaged
<1>10. ScopeRetained'
  <2>1. \A v \in Wikis : Published(v)' = Published(v) /\ Retained(v)' = Retained(v)
      BY <1>1 DEF Published, Retained
  <2> QED
      BY <2>1, <1>1, <1>3, <1>4, <1>5 DEF AnswerInv, ScopeRetained
<1>11. Steady
    BY <1>1, <1>2 DEF Steady, Types
<1>12. \A q \in Requests : LockedStay(exec[q])
    BY <1>1, <1>3, <1>4 DEF LockedStay
<1>13. \A q \in Requests : Sound(exec[q], runs[q])'
    BY <1>1, <1>7, <1>11, <1>12, WorldSound
<1> QED
    BY <1>7, <1>8, <1>9, <1>10, <1>13 DEF AnswerInv

-----------------------------------------------------------------------------
(***************************************************************************)
(* The theorems.                                                           *)
(***************************************************************************)
\* Nothing was asked, and each knowledge base has its first wiki.
LEMMA InitialAnswers == Init => AnswerInv
<1> SUFFICES ASSUME Init PROVE AnswerInv
    OBVIOUS
<1> USE DEF Init
<1>1. 1 \in 1..MaxWiki /\ 0 \in 0..ReservationTTL
    BY AnswerAssumption DEF AnswerAssumption
<1>2. \A k \in KBs : <<k, 1>> \in Wikis
    BY <1>1 DEF Wikis
<1>3. wikis \subseteq Wikis /\ files = wikis /\ intents = {}
    BY <1>2
<1>4. kb \in [KBs -> [lifecycle : Lifecycle, access : Access, published : 1..MaxWiki]]
    BY <1>1 DEF Lifecycle, Access
<1>5. agent \in [lifecycle : Lifecycle, resource : Nat, version : Nat, config : Configurations]
    BY DEF Lifecycle
<1>6. model \in [revision : Nat, usable : BOOLEAN] /\ token \in [Tokens -> {"valid", "revoked"}]
    OBVIOUS
<1>7. Free \in [wikis : SUBSET Wikis, ttl : 0..ReservationTTL] /\ Free.wikis = {}
    BY <1>1 DEF Free
<1>8. /\ NoRun \in [outcome : Outcomes \cup {"deleted"}, wikis : SUBSET Wikis, old : BOOLEAN]
      /\ NoRun.wikis = {} /\ ~NoRun.old
    BY DEF NoRun, Outcomes
<1>9. /\ keeper \in [at : {"idle", "staging", "selected", "deleting", "discarded"},
                     left : SUBSET Wikis, cur : SUBSET Wikis]
      /\ keeper.at = "idle" /\ keeper.cur = {}
    OBVIOUS
<1>10. \A r \in Requests : held[r] = Free /\ runs[r] = NoRun /\ exec[r] = NewExec
    OBVIOUS
<1>11. Types
  <2>1. held \in [Requests -> [wikis : SUBSET Wikis, ttl : 0..ReservationTTL]]
      BY <1>7
  <2>2. runs \in [Requests -> [outcome : Outcomes \cup {"deleted"}, wikis : SUBSET Wikis, old : BOOLEAN]]
      BY <1>8
  <2>3. exec \in [Requests -> Execution]
      BY NewExecution
  <2> QED
      BY <1>3, <1>4, <1>5, <1>6, <1>9, <2>1, <2>2, <2>3 DEF Types
<1>12. Deletion
  <2>1. \A w \in wikis : w[2] <= kb[w[1]].published
      OBVIOUS
  <2> QED
      BY <2>1, <1>9 DEF Deletion
<1>13. ScopeRetained
  <2> SUFFICES ASSUME NEW w \in Wikis, Published(w) \/ Reserved(w) \/ Retained(w)
               PROVE  w \in wikis /\ w \in files
      BY DEF ScopeRetained
  <2>1. Published(w)
      BY <1>7, <1>8, <1>10 DEF Reserved, Retained
  <2>2. w[1] \in KBs /\ w = <<w[1], w[2]>>
      BY DEF Wikis
  <2>3. w = <<w[1], 1>>
      BY <2>1, <2>2 DEF Published
  <2> QED
      BY <2>2, <2>3
<1>14. HalfDeletedIsStaged
    BY <1>3 DEF HalfDeletedIsStaged
<1>15. ASSUME NEW r \in Requests PROVE Sound(exec[r], runs[r])
  <2>1. PICK x : x = NewExec
      OBVIOUS
  <2>2. x.at = "idle" /\ x.minted = {} /\ x.shown = {} /\ x.left = 0 /\ x.turns = 0 /\ x.inScope
      BY <2>1, NewExecution
  <2>3. PICK run : run = NoRun
      OBVIOUS
  <2>4. LocksHold(x) /\ Cited(x) /\ Recorded(x, run) /\ Unstarted(x)
      BY <2>2, <2>3, <1>8 DEF LocksHold, Cited, Recorded, Unstarted
  <2>5. Sound(x, run)
      BY <2>2, <2>4 DEF Sound, Scoped, Working
  <2> QED
      BY <2>1, <2>3, <2>5, <1>10
<1> QED
    BY <1>11, <1>12, <1>13, <1>14, <1>15 DEF AnswerInv

\* A step of another component changes nothing here.
LEMMA StutterKeeps == ASSUME AnswerInv, UNCHANGED vars PROVE AnswerInv'
<1>1. UNCHANGED <<kb, agent, model, token, wikis, files, intents, keeper, held, runs, exec>>
    BY DEF vars
<1>2. Types' /\ Types
    BY <1>1 DEF AnswerInv, Types
<1>3. Steady
    BY <1>1, <1>2 DEF Steady, Types
<1> QED
    BY <1>1, <1>2, <1>3, OperatorStep

\* Every step keeps the invariant.
LEMMA NextKeeps == ASSUME AnswerInv, Next PROVE AnswerInv'
<1>1. CASE \E r \in Requests : Step(r)
    BY <1>1, MovingSteps, CaptureScopeStep, ReserveStep, BeginStep, InitialEvidenceStep, ModelSteps,
       ModelDraftsStep, DispatchStep, AcceptDraftStep, LockRunScopeStep, RecordRunStep, DeliverStep
       DEF Step
<1>2. CASE \E r \in Requests : Fault(r)
    BY <1>2, ReleaseCaptureStep, ModelSteps, MovingSteps DEF Fault
<1>3. CASE \E r \in Requests : Age(r) \/ \E t \in Tokens : Authenticate(r, t)
    BY <1>3, AgeStep, AuthenticateStep
<1>4. CASE Operator
    BY <1>4, CommandSteps, PublishStep DEF Operator
<1>5. CASE Tick
    BY <1>5, TickStep
<1>6. CASE Retention
    BY <1>6, KeeperMoves, StageStep, FinalizeIntentStep, FinalizeResourceStep DEF Retention
<1> QED
    BY <1>1, <1>2, <1>3, <1>4, <1>5, <1>6 DEF Next

\* The inductive invariant holds in every reachable state.
LEMMA AnswerInvariant == Spec => []AnswerInv
<1>1. AnswerInv /\ [Next]_vars => AnswerInv'
    BY NextKeeps, StutterKeeps
<1> QED
    BY <1>1, InitialAnswers, PTL DEF Spec

\* The rows and the budgets of executions have their types: tool calls and
\* turns stay within the limits of the captured configuration.
THEOREM AnswersTyped == Spec => []AnswerTypeOK
<1>1. AnswerInv => AnswerTypeOK
  <2> SUFFICES ASSUME Types PROVE AnswerTypeOK
      BY DEF AnswerInv
  <2>1. \A k \in KBs : kb[k].published \in 1..MaxWiki
      BY DEF Types
  <2>2. \A r \in Requests : held[r].ttl \in 0..ReservationTTL /\ held[r].wikis \subseteq Wikis
      BY DEF Types
  <2>3. \A r \in Requests : exec[r].left \in 0..MaxToolCalls /\ exec[r].turns \in 0..MaxToolCalls + 1
      BY DEF Types, Execution, LeftField, TurnsField
  <2> QED
      BY <2>1, <2>2, <2>3 DEF Types, AnswerTypeOK
<1> QED
    BY <1>1, AnswerInvariant, PTL

\* The published wikis, those reserved by a running answer and those a recorded
\* run refers to keep their rows and their files, and a deletion that stopped
\* halfway is still staged (lockWikiDeletionEligibility, Capture, RecordRun).
THEOREM WikisRetained == Spec => []WikisAreRetained
<1>1. AnswerInv => WikisAreRetained
    BY DEF AnswerInv, WikisAreRetained
<1> QED
    BY <1>1, AnswerInvariant, PTL

\* completions delivers only what was recorded, and only under a token that
\* was still valid when it was.
THEOREM Granted == Spec => []DeliveredIsGranted
<1>1. AnswerInv => DeliveredIsGranted
    BY DEF AnswerInv, Sound, Recorded, DeliveredIsGranted, At
<1> QED
    BY <1>1, AnswerInvariant, PTL

\* AssertSecurityFresh, validateDraft and presentExecutionResult: a delivered
\* answer was in scope when its draft was accepted, and shows nothing else.
THEOREM InScope == Spec => []AnswerIsInScope
<1>1. AnswerInv => AnswerIsInScope
    BY DEF AnswerInv, Sound, Cited, AnswerIsInScope, At
<1> QED
    BY <1>1, AnswerInvariant, PTL

-----------------------------------------------------------------------------
(***************************************************************************)
(* The algorithms.  Each is a loop, about which a fact is proved that      *)
(* holds after every iteration.                                            *)
(***************************************************************************)
\* A set of numbers that is not empty has a least one.
LEMMA LeastNatural ==
    ASSUME NEW T \in SUBSET Nat, T # {}
    PROVE  \E x \in T : \A y \in T : x <= y
  <1> DEFINE R == {ss \in Nat \X Nat : ss[1] < ss[2]}
  <1>1. IsWellFoundedOn(R, Nat)
    BY NatLessThanWellFounded, Zenon DEF OpToRel
  <1>2. \A x, y \in Nat : y < x => <<y, x>> \in R
    OBVIOUS
  <1> HIDE DEF R
  <1>3. PICK x \in T : \A y \in T : ~(<<y, x>> \in R)
    BY <1>1, WFMin, Zenon
  <1>4. \A y \in T : ~(y < x)
    BY <1>2, <1>3
  <1> QED
    BY <1>4

\* What a step makes of what a loop has.
Taken(step, x, i) == step[i][x]

\* What a loop has after i iterations, by what it had before the last of them.
Reached(step, start, g, i) == IF i = 0 THEN start ELSE Taken(step, g[i - 1], i)

\* A loop has a state after each iteration.
LEMMA LoopExists ==
    ASSUME NEW step, NEW start, NEW n \in Nat
    PROVE  \E g : g = [i \in 0..n |-> Reached(step, start, g, i)]
  <1> DEFINE Is(m, g) == g = [i \in 0..m |-> Reached(step, start, g, i)]
             T == {m \in Nat : ~ \E g : Is(m, g)}
  <1>1. SUFFICES ASSUME T # {} PROVE FALSE
    OBVIOUS
  <1>2. PICK x \in T : \A y \in T : x <= y
    <2>1. T \in SUBSET Nat
      OBVIOUS
    <2> HIDE DEF T
    <2> QED
      BY <1>1, <2>1, LeastNatural
  <1>3. x # 0
    <2> DEFINE g == [i \in 0..0 |-> start]
    <2>1. Is(0, g)
      BY DEF Reached
    <2> QED
      BY <2>1
  <1>4. PICK g : Is(x - 1, g)
    BY <1>2, <1>3
  <1> DEFINE h == [i \in 0..x |-> IF i < x THEN g[i] ELSE Taken(step, g[x - 1], x)]
  <1>5. ASSUME NEW i \in 0..x PROVE h[i] = Reached(step, start, h, i)
    <2>1. i \in Nat /\ x \in Nat
      OBVIOUS
    <2>2. CASE i = x
      BY <1>3, <2>1, <2>2 DEF Reached
    <2>3. CASE i < x
      <3>1. g[i] = Reached(step, start, g, i)
        BY <1>4, <2>1, <2>3
      <3>2. i # 0 => h[i - 1] = g[i - 1]
        BY <2>1, <2>3
      <3>3. h[i] = g[i]
        BY <2>3
      <3> HIDE DEF h
      <3> QED
        BY <3>1, <3>2, <3>3 DEF Reached
    <2> QED
      BY <2>1, <2>2, <2>3
  <1>6. Is(x, h)
    <2>1. h = [i \in 0..x |-> h[i]]
      OBVIOUS
    <2> HIDE DEF h
    <2> QED
      BY <1>5, <2>1, Zenon
  <1> QED
    BY <1>6

\* A loop starts with its start, and each iteration takes a step.
LEMMA LoopIs ==
    ASSUME NEW step, NEW start, NEW n \in Nat
    PROVE  /\ Loop(step, start, n)[0] = start
           /\ \A i \in 1..n : Loop(step, start, n)[i] = step[i][Loop(step, start, n)[i - 1]]
  <1> DEFINE Is(g) == g = [i \in 0..n |-> Reached(step, start, g, i)]
             loop == Loop(step, start, n)
  <1>1. loop = CHOOSE g : Is(g)
    BY Zenon DEF Loop, Reached, Taken
  <1>2. \E g : Is(g)
    BY LoopExists, Zenon
  <1> HIDE DEF Is
  <1>3. Is(CHOOSE g : Is(g))
    BY <1>2, Zenon
  <1>4. Is(loop)
    BY <1>1, <1>3, Zenon
  <1> HIDE DEF loop
  <1>5. loop = [i \in 0..n |-> Reached(step, start, loop, i)]
    BY <1>4, Zenon DEF Is
  <1> DEFINE F(i) == Reached(step, start, loop, i)
  <1> HIDE DEF F
  <1>6. loop = [i \in 0..n |-> F(i)]
    BY <1>5, Zenon DEF F
  <1>7. \A i \in 0..n : loop[i] = F(i)
    BY <1>6
  <1>8. loop[0] = start
    <2>1. 0 \in 0..n
      OBVIOUS
    <2> QED
      BY <1>7, <2>1, Zenon DEF F, Reached
  <1>9. ASSUME NEW i \in 1..n PROVE loop[i] = step[i][loop[i - 1]]
    <2>1. i \in 0..n /\ i # 0
      OBVIOUS
    <2> QED
      BY <1>7, <2>1, Zenon DEF F, Reached, Taken
  <1> QED
    BY <1>8, <1>9 DEF loop

\* What holds at the start of a loop and is kept by each of its steps holds
\* after all of them: Good is the set of the iterations after which it holds.
LEMMA LoopInduction ==
    ASSUME NEW n \in Nat, NEW Good, 0 \in Good, \A i \in 1..n : i - 1 \in Good => i \in Good
    PROVE  \A i \in 0..n : i \in Good
  <1> DEFINE T == (0..n) \ Good
  <1>1. SUFFICES ASSUME T # {} PROVE FALSE
    OBVIOUS
  <1>2. PICK x \in T : \A y \in T : x <= y
    <2>1. T \in SUBSET Nat
      OBVIOUS
    <2> HIDE DEF T
    <2> QED
      BY <1>1, <2>1, LeastNatural
  <1>3. x \in 1..n
    BY <1>2
  <1> QED
    BY <1>2, <1>3

-----------------------------------------------------------------------------
(***************************************************************************)
(* Sums.                                                                   *)
(***************************************************************************)
Numbers(n) == [1..n -> Nat]
Weights(n) == [1..n -> Nat \ {0}]
Orders(n) == [1..n -> 1..n]

Sums(f, n) == Loop([i \in 1..n |-> [sum \in Nat |-> sum + f[i]]], 0, n)

\* Each sum is the one before with the next number added.
LEMMA SumsAre ==
    ASSUME NEW n \in Nat, NEW f \in Numbers(n)
    PROVE  /\ Total(f, n) = Sums(f, n)[n]
           /\ Sums(f, n)[0] = 0
           /\ \A i \in 1..n : Sums(f, n)[i - 1] \in Nat => Sums(f, n)[i] = Sums(f, n)[i - 1] + f[i]
           /\ \A i \in 0..n : Sums(f, n)[i] \in Nat
  <1> DEFINE add == [i \in 1..n |-> [sum \in Nat |-> sum + f[i]]]
             s == Sums(f, n)
  <1>1. s = Loop(add, 0, n) /\ Total(f, n) = s[n]
    BY DEF Sums, Total
  <1>2. \A i \in 1..n : f[i] \in Nat /\ \A sum \in Nat : add[i][sum] = sum + f[i]
    BY DEF Numbers
  <1> HIDE DEF s, add
  <1>3. s[0] = 0 /\ \A i \in 1..n : s[i] = add[i][s[i - 1]]
    <2>1. Loop(add, 0, n)[0] = 0 /\ \A i \in 1..n : Loop(add, 0, n)[i] = add[i][Loop(add, 0, n)[i - 1]]
      BY LoopIs
    <2> QED
      BY <1>1, <2>1, Zenon
  <1>4. \A i \in 1..n : s[i - 1] \in Nat => s[i] = s[i - 1] + f[i]
    BY <1>2, <1>3, Zenon
  <1> DEFINE Good == {i \in 0..n : s[i] \in Nat}
  <1>5. \A i \in 0..n : i \in Good
    <2>1. 0 \in Good
      BY <1>3
    <2>2. \A i \in 1..n : i - 1 \in Good => i \in Good
      BY <1>2, <1>4
    <2> HIDE DEF Good
    <2> QED
      BY <2>1, <2>2, LoopInduction
  <1> QED
    BY <1>1, <1>3, <1>4, <1>5 DEF s

AgreeBut(f, h, n, p) == \A i \in 1..n : i # p => f[i] = h[i]

\* A sum grows by as much as one of its numbers.
LEMMA TotalChanges ==
    ASSUME NEW n \in Nat, NEW f \in Numbers(n), NEW h \in Numbers(n), NEW p \in 1..n,
           AgreeBut(f, h, n, p)
    PROVE  Total(h, n) + f[p] = Total(f, n) + h[p]
  <1> DEFINE F == Sums(f, n)
             H == Sums(h, n)
             Good == {i \in 0..n : IF i < p THEN F[i] = H[i] ELSE H[i] + f[p] = F[i] + h[p]}
  <1>1. /\ Total(f, n) = F[n] /\ F[0] = 0 /\ \A i \in 0..n : F[i] \in Nat
        /\ \A i \in 1..n : F[i - 1] \in Nat => F[i] = F[i - 1] + f[i]
    BY SumsAre
  <1>2. /\ Total(h, n) = H[n] /\ H[0] = 0 /\ \A i \in 0..n : H[i] \in Nat
        /\ \A i \in 1..n : H[i - 1] \in Nat => H[i] = H[i - 1] + h[i]
    BY SumsAre
  <1> HIDE DEF F, H
  <1>3. 0 \in Good
    BY <1>1, <1>2
  <1>4. ASSUME NEW i \in 1..n, i - 1 \in Good PROVE i \in Good
    <2>1. i - 1 \in 0..n /\ i \in 0..n /\ f[i] \in Nat /\ h[i] \in Nat /\ f[p] \in Nat /\ h[p] \in Nat
      BY DEF Numbers
    <2>2. F[i] = F[i - 1] + f[i] /\ H[i] = H[i - 1] + h[i] /\ F[i - 1] \in Nat /\ H[i - 1] \in Nat
      BY <1>1, <1>2, <2>1
    <2>3. CASE i < p
      <3>1. f[i] = h[i] /\ i - 1 < p
        BY <2>3 DEF AgreeBut
      <3> QED
        BY <1>4, <2>1, <2>2, <2>3, <3>1
    <2>4. CASE i = p
      BY <1>4, <2>1, <2>2, <2>4
    <2>5. CASE i > p
      <3>1. f[i] = h[i] /\ ~ (i < p) /\ ~ (i - 1 < p)
        BY <2>5 DEF AgreeBut
      <3>2. H[i - 1] + f[p] = F[i - 1] + h[p]
        BY <1>4, <3>1
      <3>3. H[i] + f[p] = F[i] + h[p]
        BY <2>1, <2>2, <3>1, <3>2
      <3> QED
        BY <2>1, <3>1, <3>3
    <2> QED
      BY <2>3, <2>4, <2>5
  <1>5. n \in Good
    <2> HIDE DEF Good
    <2>1. \A i \in 0..n : i \in Good
      BY <1>3, <1>4, LoopInduction
    <2> QED
      BY <2>1
  <1> QED
    BY <1>1, <1>2, <1>5

\* A sum is at most four times another one if its numbers are.
LEMMA TotalScales ==
    ASSUME NEW n \in Nat, NEW f \in Numbers(n), NEW h \in Numbers(n),
           \A i \in 1..n : f[i] <= 4 * h[i]
    PROVE  Total(f, n) <= 4 * Total(h, n) /\ Total(f, n) \in Nat /\ Total(h, n) \in Nat
  <1> DEFINE F == Sums(f, n)
             H == Sums(h, n)
             Good == {i \in 0..n : F[i] <= 4 * H[i]}
  <1>1. /\ Total(f, n) = F[n] /\ F[0] = 0 /\ \A i \in 0..n : F[i] \in Nat
        /\ \A i \in 1..n : F[i - 1] \in Nat => F[i] = F[i - 1] + f[i]
    BY SumsAre
  <1>2. /\ Total(h, n) = H[n] /\ H[0] = 0 /\ \A i \in 0..n : H[i] \in Nat
        /\ \A i \in 1..n : H[i - 1] \in Nat => H[i] = H[i - 1] + h[i]
    BY SumsAre
  <1> HIDE DEF F, H
  <1>3. 0 \in Good
    BY <1>1, <1>2
  <1>4. ASSUME NEW i \in 1..n, i - 1 \in Good PROVE i \in Good
    <2>1. i - 1 \in 0..n /\ i \in 0..n /\ f[i] \in Nat /\ h[i] \in Nat
      BY DEF Numbers
    <2>2. F[i] = F[i - 1] + f[i] /\ H[i] = H[i - 1] + h[i] /\ F[i - 1] \in Nat /\ H[i - 1] \in Nat
      BY <1>1, <1>2, <2>1
    <2> QED
      BY <1>4, <2>1, <2>2
  <1>5. n \in Good
    <2> HIDE DEF Good
    <2>1. \A i \in 0..n : i \in Good
      BY <1>3, <1>4, LoopInduction
    <2> QED
      BY <2>1
  <1> QED
    BY <1>1, <1>2, <1>5

-----------------------------------------------------------------------------
(***************************************************************************)
(* The prompt within its budget.  Item order[i] of n items is considered   *)
(* i-th, costs weight[order[i]], and is taken if it fits.                  *)
(***************************************************************************)
Spends(used, order, weight, capacity, n) ==
    \A i \in 1..n : used[i - 1] \in Nat =>
        used[i] = IF used[i - 1] + weight[order[i]] > capacity THEN used[i - 1] ELSE used[i - 1] + weight[order[i]]

Distinct(order, n) == \A i, j \in 1..n : order[i] = order[j] => i = j

Bought(used, order, k) == {order[i] : i \in {j \in 1..k : used[j] # used[j - 1]}}

\* What is used never exceeds the capacity and never falls, and what was not
\* taken does not fit at the end either.
LEMMA SpendingIs ==
    ASSUME NEW n \in Nat, NEW capacity \in Nat, NEW order \in Orders(n), NEW weight \in Weights(n),
           NEW used, used[0] \in Nat, used[0] <= capacity, Spends(used, order, weight, capacity, n)
    PROVE  /\ \A i \in 0..n : used[i] \in Nat /\ used[i] <= capacity /\ used[i] <= used[n]
           /\ \A i \in 1..n : used[i] = used[i - 1] => used[n] + weight[order[i]] > capacity
           /\ \A i \in 1..n : used[i] # used[i - 1] => used[i] = used[i - 1] + weight[order[i]]
  <1>0. \A i \in 1..n : weight[order[i]] \in Nat \ {0} /\ order[i] \in 1..n
    BY DEF Orders, Weights
  <1> DEFINE Good == {i \in 0..n : used[i] \in Nat /\ used[i] <= capacity}
  <1>1. \A i \in 0..n : i \in Good
    <2>1. 0 \in Good
      OBVIOUS
    <2>2. ASSUME NEW i \in 1..n, i - 1 \in Good PROVE i \in Good
      <3> DEFINE w == weight[order[i]]
      <3>1. w \in Nat \ {0}
        BY <1>0
      <3>2. used[i] = IF used[i - 1] + w > capacity THEN used[i - 1] ELSE used[i - 1] + w
        BY <2>2 DEF Spends
      <3> HIDE DEF w
      <3> QED
        BY <2>2, <3>1, <3>2
    <2> HIDE DEF Good
    <2> QED
      BY <2>1, <2>2, LoopInduction
  <1>2. \A i \in 0..n : used[i] \in Nat /\ used[i] <= capacity
    BY <1>1
  <1>3. ASSUME NEW i \in 1..n
        PROVE  /\ used[i - 1] \in Nat /\ used[i] \in Nat /\ weight[order[i]] \in Nat \ {0}
               /\ used[i] = IF used[i - 1] + weight[order[i]] > capacity THEN used[i - 1] ELSE used[i - 1] + weight[order[i]]
    <2>1. i - 1 \in 0..n /\ i \in 0..n
      OBVIOUS
    <2> QED
      BY <1>0, <1>2, <2>1 DEF Spends
  <1>4. \A i \in 1..n : used[i - 1] <= used[i]
    <2> TAKE i \in 1..n
    <2> DEFINE w == weight[order[i]]
    <2>1. used[i - 1] \in Nat /\ used[i] \in Nat /\ w \in Nat /\ used[i] = IF used[i - 1] + w > capacity THEN used[i - 1] ELSE used[i - 1] + w
      BY <1>3
    <2> HIDE DEF w
    <2> QED
      BY <2>1
  <1>5. \A i \in 0..n : used[i] <= used[n]
    <2> DEFINE Below == {m \in 0..n : \A i \in 0..m : used[i] <= used[m]}
    <2>1. 0 \in Below
      OBVIOUS
    <2>2. ASSUME NEW m \in 1..n, m - 1 \in Below PROVE m \in Below
      <3> SUFFICES ASSUME NEW i \in 0..m PROVE used[i] <= used[m]
        OBVIOUS
      <3>1. CASE i = m
        BY <1>2, <3>1
      <3>2. CASE i # m
        <4>1. i \in 0..m - 1 /\ i \in 0..n /\ m - 1 \in 0..n /\ m \in 0..n
          BY <3>2
        <4>2. used[i] <= used[m - 1]
          BY <2>2, <4>1
        <4>3. used[m - 1] <= used[m]
          BY <1>4
        <4> QED
          BY <1>2, <4>1, <4>2, <4>3
      <3> QED
        BY <3>1, <3>2
    <2> HIDE DEF Below
    <2>3. n \in Below
      <3>1. \A m \in 0..n : m \in Below
        BY <2>1, <2>2, LoopInduction
      <3> QED
        BY <3>1
    <2> QED
      BY <2>3 DEF Below
  <1>6. ASSUME NEW i \in 1..n
        PROVE  /\ used[i] = used[i - 1] => used[n] + weight[order[i]] > capacity
               /\ used[i] # used[i - 1] => used[i] = used[i - 1] + weight[order[i]]
    <2> DEFINE w == weight[order[i]]
    <2>1. used[i - 1] \in Nat /\ used[i] \in Nat /\ w \in Nat \ {0} /\ used[i] = IF used[i - 1] + w > capacity THEN used[i - 1] ELSE used[i - 1] + w
      BY <1>3
    <2>2. used[i] <= used[n] /\ used[n] \in Nat /\ i \in 0..n
      BY <1>2, <1>5
    <2> HIDE DEF w
    <2>3. /\ used[i] = used[i - 1] => used[n] + w > capacity
          /\ used[i] # used[i - 1] => used[i] = used[i - 1] + w
      BY <2>1, <2>2
    <2> QED
      BY <2>3 DEF w
  <1> QED
    BY <1>2, <1>5, <1>6

\* What is used is what was used at the start and the weight of what was taken,
\* when no item is considered twice.
LEMMA SpentIsTotal ==
    ASSUME NEW n \in Nat, NEW capacity \in Nat, NEW order \in Orders(n), NEW weight \in Weights(n),
           Distinct(order, n),
           NEW used, used[0] \in Nat, used[0] <= capacity, Spends(used, order, weight, capacity, n)
    PROVE  used[n] = used[0] + Total([p \in 1..n |-> IF p \in Bought(used, order, n) THEN weight[p] ELSE 0], n)
  <1> DEFINE kept(k) == [p \in 1..n |-> IF p \in Bought(used, order, k) THEN weight[p] ELSE 0]
             Good == {k \in 0..n : used[k] = used[0] + Total(kept(k), n)}
  <1>1. \A i \in 0..n : used[i] \in Nat
    BY SpendingIs
  <1>2. \A i \in 1..n : used[i] # used[i - 1] => used[i] = used[i - 1] + weight[order[i]]
    BY SpendingIs
  <1>3. \A k : kept(k) \in Numbers(n)
    BY DEF Numbers, Weights
  <1>4. \A k : Total(kept(k), n) \in Nat
    <2> TAKE k
    <2>1. \A i \in 1..n : kept(k)[i] <= 4 * kept(k)[i] /\ kept(k) \in Numbers(n)
      BY <1>3 DEF Weights
    <2> HIDE DEF kept
    <2> QED
      BY <1>3, <2>1, TotalScales
  <1>5. 0 \in Good
    <2>1. kept(0) = [p \in 1..n |-> 0]
      BY DEF Bought
    <2> DEFINE none == [p \in 1..n |-> 0]
               S == Sums(none, n)
               Zero == {i \in 0..n : S[i] = 0}
    <2>2. none \in Numbers(n) /\ \A i \in 1..n : none[i] = 0
      BY DEF Numbers
    <2> HIDE DEF none
    <2>3. Total(none, n) = S[n] /\ S[0] = 0 /\ \A i \in 1..n : S[i - 1] \in Nat => S[i] = S[i - 1] + none[i]
      BY <2>2, SumsAre
    <2> HIDE DEF S
    <2>4. 0 \in Zero /\ \A i \in 1..n : i - 1 \in Zero => i \in Zero
      <3>1. 0 \in Zero
        BY <2>3
      <3>2. ASSUME NEW i \in 1..n, i - 1 \in Zero PROVE i \in Zero
        <4>1. S[i - 1] = 0 /\ none[i] = 0
          BY <2>2, <3>2
        <4>2. S[i] = S[i - 1] + none[i]
          BY <2>3, <4>1
        <4> QED
          BY <4>1, <4>2
      <3> QED
        BY <3>1, <3>2
    <2> HIDE DEF Zero
    <2>5. \A i \in 0..n : i \in Zero
      BY <2>4, LoopInduction
    <2>6. n \in Zero
      BY <2>5
    <2>7. Total(none, n) = 0
      BY <2>3, <2>6 DEF Zero
    <2>8. kept(0) = none
      BY <2>1 DEF none
    <2> HIDE DEF kept
    <2> QED
      BY <2>7, <2>8
  <1>6. ASSUME NEW k \in 1..n, k - 1 \in Good PROVE k \in Good
    <2> DEFINE p == order[k]
    <2>0. p \in 1..n /\ k - 1 \in 0..n /\ k \in 0..n
      BY DEF Orders
    <2>1. CASE used[k] = used[k - 1]
      <3>1. {j \in 1..k : used[j] # used[j - 1]} = {j \in 1..k - 1 : used[j] # used[j - 1]}
        <4>1. \A j \in 1..k : used[j] # used[j - 1] => j \in 1..k - 1
          BY <2>1
        <4> QED
          BY <4>1
      <3>2. Bought(used, order, k) = Bought(used, order, k - 1)
        BY <3>1 DEF Bought
      <3>3. kept(k) = kept(k - 1)
        BY <3>2
      <3> HIDE DEF kept
      <3> QED
        BY <1>6, <2>0, <2>1, <3>3
    <2>2. CASE used[k] # used[k - 1]
      <3>1. p \notin Bought(used, order, k - 1)
        <4>1. \A j \in 1..k - 1 : order[j] # p
          BY DEF Distinct
        <4> HIDE DEF p
        <4> QED
          BY <4>1 DEF Bought
      <3>2. Bought(used, order, k) = Bought(used, order, k - 1) \cup {p}
        <4>1. {j \in 1..k : used[j] # used[j - 1]} = {j \in 1..k - 1 : used[j] # used[j - 1]} \cup {k}
          <5>1. \A j : j \in 1..k <=> j \in 1..k - 1 \/ j = k
            OBVIOUS
          <5> QED
            BY <2>2, <5>1, Zenon
        <4> QED
          BY <4>1 DEF Bought
      <3>3. \A i \in 1..n : i # p => kept(k)[i] = kept(k - 1)[i]
        BY <3>2
      <3>4. kept(k)[p] = weight[p] /\ kept(k - 1)[p] = 0 /\ weight[p] \in Nat
        BY <2>0, <3>1, <3>2 DEF Weights
      <3> HIDE DEF kept
      <3>5. Total(kept(k), n) + kept(k - 1)[p] = Total(kept(k - 1), n) + kept(k)[p]
        <4> DEFINE f == kept(k - 1)
                   h == kept(k)
        <4>1. f \in Numbers(n) /\ h \in Numbers(n) /\ AgreeBut(f, h, n, p)
          BY <1>3, <3>3 DEF AgreeBut
        <4> HIDE DEF f, h, p
        <4>2. Total(h, n) + f[p] = Total(f, n) + h[p]
          BY <2>0, <4>1, TotalChanges
        <4> QED
          BY <4>2 DEF f, h
      <3>6. used[k] = used[k - 1] + weight[p]
        BY <1>2, <2>2
      <3>7. used[k - 1] = used[0] + Total(kept(k - 1), n)
        BY <1>6
      <3>8. Total(kept(k), n) \in Nat /\ Total(kept(k - 1), n) \in Nat
        BY <1>4
      <3> HIDE DEF p
      <3> QED
        <4> DEFINE a == Total(kept(k), n)
                   b == Total(kept(k - 1), n)
                   w == weight[p]
        <4>1. a \in Nat /\ b \in Nat /\ w \in Nat /\ used[0] \in Nat
          BY <3>4, <3>8
        <4>2. a + 0 = b + w
          BY <3>4, <3>5
        <4>3. used[k] = used[0] + b + w
          BY <3>6, <3>7
        <4> HIDE DEF a, b, w
        <4>4. used[k] = used[0] + a
          BY <4>1, <4>2, <4>3
        <4> QED
          BY <2>0, <4>4 DEF a
    <2> QED
      BY <2>1, <2>2
  <1>7. n \in Good
    <2> HIDE DEF Good
    <2>1. \A k \in 0..n : k \in Good
      BY <1>5, <1>6, LoopInduction
    <2> QED
      BY <2>1
  <1> QED
    BY <1>7

\* What a text costs is at least one token, and four bytes of it at most are
\* one.
LEMMA CostIs ==
    ASSUME NEW bytes \in Nat
    PROVE  Cost(bytes) \in Nat \ {0} /\ bytes <= 4 * Cost(bytes)
  BY DEF Cost, EstimateTokens

\* So does an item, a message costing its role and its content.
LEMMA ItemIs ==
    ASSUME NEW messages \in Seq(Message), NEW evidence \in Seq(Nat),
           NEW p \in 1..Len(messages) + Len(evidence)
    PROVE  /\ ItemCost(messages, evidence, p) \in Nat \ {0}
           /\ ItemBytes(messages, evidence, p) \in Nat
           /\ ItemBytes(messages, evidence, p) <= 4 * ItemCost(messages, evidence, p)
  <1>0. Len(messages) \in Nat /\ Len(evidence) \in Nat
    OBVIOUS
  <1>1. CASE p <= Len(messages)
    <2>1. messages[p] \in Message
      BY <1>0, <1>1
    <2> DEFINE a == RoleBytes(messages[p])
               b == messages[p].bytes
    <2>2. a \in Nat /\ b \in Nat
      BY <2>1 DEF Message, RoleBytes
    <2>3. ItemCost(messages, evidence, p) = Cost(a) + Cost(b) /\ ItemBytes(messages, evidence, p) = a + b
      BY <1>1 DEF ItemCost, ItemBytes
    <2> HIDE DEF a, b
    <2>4. Cost(a) \in Nat \ {0} /\ a <= 4 * Cost(a) /\ Cost(b) \in Nat \ {0} /\ b <= 4 * Cost(b)
      BY <2>2, CostIs
    <2> QED
      BY <2>2, <2>3, <2>4
  <1>2. CASE ~ (p <= Len(messages))
    <2> DEFINE a == evidence[p - Len(messages)]
    <2>1. p - Len(messages) \in 1..Len(evidence)
      BY <1>0, <1>2
    <2>2. a \in Nat
      BY <2>1
    <2>3. ItemCost(messages, evidence, p) = Cost(a) /\ ItemBytes(messages, evidence, p) = a
      BY <1>2 DEF ItemCost, ItemBytes
    <2> HIDE DEF a
    <2>4. Cost(a) \in Nat \ {0} /\ a <= 4 * Cost(a)
      BY <2>2, CostIs
    <2> QED
      BY <2>2, <2>3, <2>4
  <1> QED
    BY <1>1, <1>2

\* Every item is considered once, and the user's message first.
LEMMA ConsideredOnce ==
    ASSUME NEW m \in Nat, NEW n \in Nat, m <= n, NEW u \in 1..m
    PROVE  /\ \A i \in 1..n : Considered(u, m, i) \in 1..n
           /\ \A i, j \in 1..n : Considered(u, m, i) = Considered(u, m, j) => i = j
           /\ \A p \in 1..n : \E i \in 1..n : Considered(u, m, i) = p
           /\ Considered(u, m, 1) = u
  <1>1. ASSUME NEW i \in 1..n
        PROVE  /\ i = 1 => Considered(u, m, i) = u
               /\ i # 1 /\ i <= m - u + 1 => Considered(u, m, i) = m + 2 - i
               /\ i > m - u + 1 /\ i <= m => Considered(u, m, i) = m + 1 - i
               /\ i > m => Considered(u, m, i) = i
    BY DEF Considered
  <1>2. ASSUME NEW i \in 1..n PROVE Considered(u, m, i) \in 1..n
    BY <1>1
  <1>3. ASSUME NEW i \in 1..n, NEW j \in 1..n, Considered(u, m, i) = Considered(u, m, j) PROVE i = j
    <2> DEFINE a == Considered(u, m, i)
               b == Considered(u, m, j)
    <2>1. /\ i = 1 => a = u
          /\ i # 1 /\ i <= m - u + 1 => a = m + 2 - i
          /\ i > m - u + 1 /\ i <= m => a = m + 1 - i
          /\ i > m => a = i
      BY <1>1
    <2>2. /\ j = 1 => b = u
          /\ j # 1 /\ j <= m - u + 1 => b = m + 2 - j
          /\ j > m - u + 1 /\ j <= m => b = m + 1 - j
          /\ j > m => b = j
      BY <1>1
    <2>3. a = b
      BY <1>3
    <2> HIDE DEF a, b
    <2> QED
      BY <2>1, <2>2, <2>3
  <1>4. ASSUME NEW p \in 1..n PROVE \E i \in 1..n : Considered(u, m, i) = p
    <2>1. CASE p = u
      BY <1>1, <2>1
    <2>2. CASE p > u /\ p <= m
      <3>1. m + 2 - p \in 1..n /\ m + 2 - p # 1 /\ m + 2 - p <= m - u + 1 /\ m + 2 - (m + 2 - p) = p
        BY <2>2
      <3> QED
        BY <1>1, <3>1
    <2>3. CASE p < u
      <3>1. m + 1 - p \in 1..n /\ m + 1 - p > m - u + 1 /\ m + 1 - p <= m /\ m + 1 - (m + 1 - p) = p
        BY <2>3
      <3> QED
        BY <1>1, <3>1
    <2>4. CASE p > m
      BY <1>1, <2>4
    <2> QED
      BY <2>1, <2>2, <2>3, <2>4
  <1>5. Considered(u, m, 1) = u
    BY DEF Considered
  <1> QED
    BY <1>2, <1>3, <1>4, <1>5

\* budgetInitial: the prompt fits the context and is what it is reported to
\* cost, it keeps the question, and nothing is dropped that would fit.
THEOREM BudgetFits ==
    ASSUME NEW available \in Nat, NEW system \in Nat, NEW messages \in Seq(Message), NEW evidence \in Seq(Nat)
    PROVE  BudgetSound(available, system, messages, evidence)
  <1> DEFINE n == Len(messages)
             count == n + Len(evidence)
             u == CHOOSE p \in 1..n : IsLastUser(messages, p)
             cost(i) == ItemCost(messages, evidence, Considered(u, n, i))
             take == [i \in 1..count |-> [used \in Nat |-> IF used + cost(i) > available THEN used ELSE used + cost(i)]]
             used == Loop(take, Cost(system), count)
             weight == [p \in 1..count |-> ItemCost(messages, evidence, p)]
             order == [i \in 1..count |-> Considered(u, n, i)]
             b == BudgetInitial(available, system, messages, evidence)
             sent == [used |-> used[count], selected |-> {Considered(u, n, i) : i \in {j \in 1..count : used[j] # used[j - 1]}}]
             Refused == \/ Cost(system) >= available
                        \/ ~ \E p \in 1..n : IsLastUser(messages, p)
                        \/ Cost(system) + cost(1) > available
             items == 1..count
             costs == [p \in items |-> IF p \in b.selected THEN ItemCost(messages, evidence, p) ELSE 0]
             bytes == [p \in items |-> IF p \in b.selected THEN ItemBytes(messages, evidence, p) ELSE 0]
  <1>0. n \in Nat /\ Len(evidence) \in Nat /\ count \in Nat /\ n <= count
    OBVIOUS
  <1>1. b = IF Refused THEN NothingFits ELSE sent
    BY Zenon DEF BudgetInitial
  <1>2. ASSUME NEW p \in items, NEW q \in items, IsLastUser(messages, p), IsLastUser(messages, q) PROVE p = q
    BY <1>0, <1>2 DEF IsLastUser
  <1>3. ASSUME NEW p \in items PROVE weight[p] \in Nat \ {0} /\ weight[p] = ItemCost(messages, evidence, p)
    BY ItemIs
  <1>4. Cost(system) \in Nat \ {0} /\ system <= 4 * Cost(system)
    BY CostIs
  <1>5. ASSUME NEW p \in 1..n, IsLastUser(messages, p) PROVE u = p /\ u \in 1..n /\ IsLastUser(messages, u)
    <2>1. u \in 1..n /\ IsLastUser(messages, u)
      BY <1>5, Zenon
    <2> HIDE DEF u
    <2> QED
      BY <1>0, <1>2, <1>5, <2>1
  <1>6. CASE Refused
    <2>1. b = NothingFits
      BY <1>1, <1>6
    <2>2. ASSUME NEW p \in items, IsLastUser(messages, p)
          PROVE  Cost(system) + ItemCost(messages, evidence, p) > available
      <3>1. p \in 1..n
        BY <2>2 DEF IsLastUser
      <3>2. u = p /\ u \in 1..n
        BY <1>5, <2>2, <3>1
      <3>3. Cost(system) >= available \/ Cost(system) + cost(1) > available
        BY <1>6, <2>2, <3>1
      <3> HIDE DEF u
      <3>4. Considered(u, n, 1) = u
        BY <1>0, <3>2 DEF Considered
      <3>5. cost(1) = ItemCost(messages, evidence, p)
        BY <3>2, <3>4
      <3> DEFINE c == ItemCost(messages, evidence, p)
      <3>6. c \in Nat \ {0}
        BY ItemIs
      <3>7. Cost(system) >= available \/ Cost(system) + c > available
        BY <3>3, <3>5
      <3> HIDE DEF c
      <3>8. Cost(system) + c > available
        BY <1>4, <3>6, <3>7
      <3> QED
        BY <3>8 DEF c
    <2> HIDE DEF b
    <2> QED
      BY <2>1, <2>2 DEF BudgetSound, b
  <1>7. CASE ~ Refused
    <2>1. b = sent
      BY <1>1, <1>7, Zenon
    <2>2. PICK q \in 1..n : IsLastUser(messages, q)
      BY <1>7
    <2>3. u \in 1..n /\ IsLastUser(messages, u)
      BY <1>5, <2>2
    <2>4. Cost(system) + cost(1) <= available /\ Cost(system) <= available
      <3>1. ~ (Cost(system) + cost(1) > available) /\ ~ (Cost(system) >= available)
        BY <1>7
      <3> DEFINE c == cost(1)
      <3>2. c \in Nat
        <4> HIDE DEF u
        <4>1. Considered(u, n, 1) = u /\ u \in items
          BY <1>0, <2>3 DEF Considered
        <4> QED
          BY <4>1, ItemIs
      <3>3. ~ (Cost(system) + c > available)
        BY <3>1
      <3> HIDE DEF c
      <3>4. Cost(system) + c <= available /\ Cost(system) <= available
        BY <1>4, <3>1, <3>2, <3>3
      <3> QED
        BY <3>4 DEF c
    <2> HIDE DEF u
    <2>5. /\ \A i \in 1..count : Considered(u, n, i) \in 1..count
          /\ \A i, j \in 1..count : Considered(u, n, i) = Considered(u, n, j) => i = j
          /\ \A p \in 1..count : \E i \in 1..count : Considered(u, n, i) = p
          /\ Considered(u, n, 1) = u
      <3> HIDE DEF n, count
      <3> QED
        BY <1>0, <2>3, ConsideredOnce
    <2>6. order \in Orders(count) /\ weight \in Weights(count)
      BY <1>3, <2>5 DEF Orders, Weights
    <2>7. Distinct(order, count)
      BY <2>5 DEF Distinct
    <2>8. \A i \in 1..count : \A x \in Nat : take[i][x] = IF x + cost(i) > available THEN x ELSE x + cost(i)
      OBVIOUS
    <2>9. \A i \in 1..count : cost(i) = weight[order[i]]
      BY <1>3, <2>5
    <2> HIDE DEF take
    <2>10. used[0] = Cost(system) /\ \A i \in 1..count : used[i] = take[i][used[i - 1]]
      BY <1>0, LoopIs
    <2> HIDE DEF used
    <2>11. Spends(used, order, weight, available, count)
      <3>1. ASSUME NEW i \in 1..count, used[i - 1] \in Nat
            PROVE  used[i] = IF used[i - 1] + weight[order[i]] > available THEN used[i - 1]
                             ELSE used[i - 1] + weight[order[i]]
        <4> DEFINE c == cost(i)
        <4>1. c = weight[order[i]] /\ used[i] = take[i][used[i - 1]]
          BY <2>9, <2>10
        <4>2. \A x \in Nat : take[i][x] = IF x + c > available THEN x ELSE x + c
          BY <2>8
        <4> HIDE DEF c
        <4>3. used[i] = IF used[i - 1] + c > available THEN used[i - 1] ELSE used[i - 1] + c
          BY <3>1, <4>1, <4>2, Zenon
        <4> QED
          BY <4>1, <4>3, Zenon
      <3> QED
        BY <3>1, Zenon DEF Spends
    <2>12. sent.used = used[count] /\ sent.selected = Bought(used, order, count)
      <3>1. Bought(used, order, count) = {Considered(u, n, i) : i \in {j \in 1..count : used[j] # used[j - 1]}}
        BY DEF Bought
      <3> QED
        BY <3>1
    <2> HIDE DEF sent, order, weight, b, count, cost
    <2>13. /\ \A i \in 0..count : used[i] \in Nat /\ used[i] <= available /\ used[i] <= used[count]
           /\ \A i \in 1..count : used[i] = used[i - 1] => used[count] + weight[order[i]] > available
           /\ \A i \in 1..count : used[i] # used[i - 1] => used[i] = used[i - 1] + weight[order[i]]
      <3>1. used[0] \in Nat /\ used[0] <= available
        BY <1>4, <2>4, <2>10
      <3> QED
        BY <1>0, <2>6, <2>11, <3>1, SpendingIs
    <2>14. b.used \in Nat \ {0} /\ b.used <= available /\ b.used = used[count]
      <3>1. used[0] \in Nat \ {0} /\ 0 \in 0..count /\ count \in 0..count
        BY <1>0, <1>4, <2>10
      <3>2. used[0] <= used[count] /\ used[count] \in Nat /\ used[count] <= available
        BY <2>13, <3>1
      <3> QED
        BY <2>1, <2>12, <3>1, <3>2
    <2>15. b # NothingFits
      BY <2>14 DEF NothingFits
    <2>16. b.selected = Bought(used, order, count)
      BY <2>1, <2>12
    <2>17. costs = [p \in 1..count |-> IF p \in Bought(used, order, count) THEN weight[p] ELSE 0]
      BY <1>3, <2>16
    <2>18. used[count] = used[0] + Total(costs, count)
      <3> DEFINE f == [p \in 1..count |-> IF p \in Bought(used, order, count) THEN weight[p] ELSE 0]
      <3>1. used[0] \in Nat /\ used[0] <= available
        BY <1>4, <2>4, <2>10
      <3>2. used[count] = used[0] + Total(f, count)
        BY <1>0, <2>6, <2>7, <2>11, <3>1, SpentIsTotal
      <3>3. costs = f
        BY <2>17
      <3> HIDE DEF costs, f
      <3> QED
        BY <3>2, <3>3
    <2>19. costs \in Numbers(count) /\ bytes \in Numbers(count) /\ \A i \in 1..count : bytes[i] <= 4 * costs[i]
      <3>1. ASSUME NEW p \in items
            PROVE  /\ weight[p] \in Nat \ {0} /\ ItemBytes(messages, evidence, p) \in Nat
                   /\ weight[p] = ItemCost(messages, evidence, p) /\ ItemBytes(messages, evidence, p) <= 4 * weight[p]
        BY <1>3, ItemIs DEF count
      <3>2. costs \in Numbers(count) /\ bytes \in Numbers(count)
        BY <3>1 DEF Numbers
      <3>3. ASSUME NEW p \in items PROVE bytes[p] <= 4 * costs[p]
        <4>1. CASE p \in b.selected
          BY <3>1, <4>1
        <4>2. CASE p \notin b.selected
          BY <4>2
        <4> QED
          BY <4>1, <4>2
      <3> QED
        BY <3>2, <3>3
    <2>20. Total(bytes, count) <= 4 * Total(costs, count) /\ Total(bytes, count) \in Nat /\ Total(costs, count) \in Nat
      <3> HIDE DEF costs, bytes
      <3> QED
        BY <1>0, <2>19, TotalScales
    <2>21. system + Total(bytes, count) <= 4 * available
      <3> HIDE DEF costs, bytes
      <3> QED
        BY <1>4, <2>10, <2>14, <2>18, <2>20
    <2>22. u \in b.selected
      <3>1. 1 \in 1..count /\ 0 \in 0..count /\ 1 \in 0..count
        BY <1>0, <2>3
      <3>2. order[1] = u
        BY <2>5, <3>1 DEF order
      <3>3. weight[u] = cost(1)
        BY <2>9, <3>1, <3>2
      <3>4. weight[u] \in Nat \ {0}
        BY <1>0, <1>3, <2>3
      <3> DEFINE w == weight[u]
      <3>5. used[1] = IF used[0] + w > available THEN used[0] ELSE used[0] + w
        BY <2>13, <2>11, <3>1, <3>2 DEF Spends
      <3>6. used[0] = Cost(system) /\ Cost(system) + w <= available /\ w \in Nat \ {0}
        BY <2>4, <2>10, <3>3, <3>4
      <3> HIDE DEF w
      <3>7. used[1] # used[0]
        BY <1>4, <3>5, <3>6
      <3>8. u = order[1] /\ 1 \in {j \in 1..count : used[j] # used[j - 1]}
        BY <3>1, <3>2, <3>7
      <3> QED
        BY <2>16, <3>8 DEF Bought
    <2>23. ASSUME NEW p \in items \ b.selected PROVE b.used + ItemCost(messages, evidence, p) > available
      <3>1. PICK i \in 1..count : Considered(u, n, i) = p
        BY <2>5
      <3>2. order[i] = p
        BY <3>1 DEF order
      <3>3. used[i] = used[i - 1]
        <4>1. p \notin Bought(used, order, count)
          BY <2>16
        <4> QED
          BY <3>2, <4>1, Zenon DEF Bought
      <3>4. used[count] + weight[p] > available
        BY <2>13, <3>2, <3>3
      <3>5. weight[p] = ItemCost(messages, evidence, p)
        BY <1>3
      <3> QED
        BY <2>14, <3>4, <3>5
    <2>24. b.selected \subseteq items
      <3>1. \A i \in 1..count : order[i] \in 1..count
        BY <2>6 DEF Orders
      <3> QED
        BY <2>16, <3>1 DEF Bought
    <2>25. ASSUME NEW p \in items, IsLastUser(messages, p) PROVE p \in b.selected
      BY <1>0, <1>2, <2>3, <2>22, <2>25
    <2>26. b.used = Cost(system) + Total(costs, count)
      BY <2>10, <2>14, <2>18
    <2> HIDE DEF costs, bytes
    <2> QED
      BY <2>14, <2>15, <2>21, <2>23, <2>24, <2>25, <2>26, Zenon DEF BudgetSound, b, count, n, costs, bytes
  <1> QED
    BY <1>6, <1>7

-----------------------------------------------------------------------------
(***************************************************************************)
(* The search for the last boundary that fits.  After i iterations it lies *)
(* between low, which fits, and high, beyond which the next does not.      *)
(***************************************************************************)
\* fit are those of n boundaries that fit.
Searches(n, fit, low, high, i) ==
    /\ low \in 1..n /\ high \in 1..n /\ low <= high
    /\ low < high => high - low < n - i
    /\ low \in fit
    /\ high < n => high + 1 \notin fit

\* An iteration of the search keeps this.
LEMMA SearchGoesOn ==
    ASSUME NEW n \in Nat, NEW fit, NEW low \in Nat, NEW high \in Nat, NEW i \in 1..n, low < high,
           Searches(n, fit, low, high, i - 1)
    PROVE  LET mid == low + ((high - low + 1) \div 2)
           IN  /\ mid \in 1..n
               /\ mid \in fit => Searches(n, fit, mid, high, i)
               /\ mid \notin fit => mid - 1 \in 1..n /\ Searches(n, fit, low, mid - 1, i)
  <1> DEFINE mid == low + ((high - low + 1) \div 2)
  <1>1. mid \in Nat /\ low < mid /\ mid <= high
    OBVIOUS
  <1>2. low \in 1..n /\ high \in 1..n /\ high - low < n - (i - 1) /\ low \in fit /\ (high < n => high + 1 \notin fit)
    BY DEF Searches
  <1> HIDE DEF mid
  <1>3. mid \in 1..n /\ mid - 1 \in 1..n /\ high - mid < n - i /\ (mid - 1) - low < n - i /\ low <= mid - 1 /\ (mid - 1) + 1 = mid
    BY <1>1, <1>2
  <1>4. ASSUME mid \in fit PROVE Searches(n, fit, mid, high, i)
    BY <1>1, <1>2, <1>3, <1>4 DEF Searches
  <1>5. ASSUME mid \notin fit PROVE Searches(n, fit, low, mid - 1, i)
    BY <1>1, <1>2, <1>3, <1>5 DEF Searches
  <1> QED
    BY <1>3, <1>4, <1>5 DEF mid

\* TruncateResult: a tool's result is cut at a boundary that fits when the next
\* one does not, the last that fits if longer texts never fit better.
THEOREM TruncationLongest ==
    ASSUME NEW fits \in Seq(BOOLEAN), fits # <<>>
    PROVE  TruncationSound(fits)
  <1> DEFINE n == Len(fits)
             middle(low, high) == low + ((high - low + 1) \div 2)
             narrow == [i \in 1..n |-> [between \in (1..n) \X (1..n) |->
                 CASE between[1] >= between[2] -> between
                   [] between[1] < between[2] /\ fits[middle(between[1], between[2])] ->
                        <<middle(between[1], between[2]), between[2]>>
                   [] OTHER -> <<between[1], middle(between[1], between[2]) - 1>>]]
             after == Loop(narrow, <<1, n>>, n)
             best == TruncateResult(fits)
             fit == {k \in 1..n : fits[k]}
  <1>0. n \in Nat \ {0} /\ DOMAIN fits = 1..n
    OBVIOUS
  <1>4. \A k \in 1..n : k \in fit <=> fits[k]
    OBVIOUS
  <1>1. best = IF fits[1] THEN after[n][1] ELSE 0
    BY Zenon DEF TruncateResult
  <1>2. CASE ~fits[1]
    <2>1. best = 0
      BY <1>1, <1>2
    <2> HIDE DEF best
    <2> QED
      BY <1>2, <2>1 DEF TruncationSound, best
  <1>3. CASE fits[1]
    <2>1. ASSUME NEW i \in 1..n, NEW low \in 1..n, NEW high \in 1..n
          PROVE  narrow[i][<<low, high>>] =
                   IF low >= high THEN <<low, high>>
                   ELSE IF fits[middle(low, high)] THEN <<middle(low, high), high>> ELSE <<low, middle(low, high) - 1>>
      <3> DEFINE pair == <<low, high>>
                 mid == middle(low, high)
      <3>1. pair \in (1..n) \X (1..n) /\ pair[1] = low /\ pair[2] = high
        OBVIOUS
      <3>2. narrow[i][pair] = CASE pair[1] >= pair[2] -> pair
                                [] pair[1] < pair[2] /\ fits[middle(pair[1], pair[2])] -> <<middle(pair[1], pair[2]), pair[2]>>
                                [] OTHER -> <<pair[1], middle(pair[1], pair[2]) - 1>>
        <4> HIDE DEF pair
        <4> QED
          BY <3>1, Zenon
      <3>3. narrow[i][pair] = CASE low >= high -> pair
                                [] low < high /\ fits[mid] -> <<mid, high>>
                                [] OTHER -> <<low, mid - 1>>
        <4> HIDE DEF narrow, pair
        <4> QED
          BY <3>1, <3>2, Zenon
      <3> HIDE DEF narrow, mid
      <3>4. CASE low >= high
        <4>1. ~ (low < high)
          BY <3>4
        <4> QED
          BY <3>3, <3>4, <4>1, Zenon
      <3>5. CASE low < high
        <4>1. ~ (low >= high)
          BY <3>5
        <4>2. narrow[i][pair] = CASE fits[mid] -> <<mid, high>> [] OTHER -> <<low, mid - 1>>
          BY <3>3, <3>5, <4>1, Zenon
        <4>3. narrow[i][pair] = IF fits[mid] THEN <<mid, high>> ELSE <<low, mid - 1>>
          BY <4>2, Zenon
        <4> QED
          BY <4>1, <4>3, Zenon DEF mid
      <3> QED
        BY <3>4, <3>5
    <2> HIDE DEF narrow
    <2>2. after[0] = <<1, n>> /\ \A i \in 1..n : after[i] = narrow[i][after[i - 1]]
      BY <1>0, LoopIs
    <2> HIDE DEF after
    <2> DEFINE Good == {i \in 0..n : \E low, high \in 1..n : after[i] = <<low, high>> /\ Searches(n, fit, low, high, i)}
    <2> HIDE DEF fit
    <2>9. ASSUME NEW i \in 0..n, NEW low \in 1..n, NEW high \in 1..n, after[i] = <<low, high>>,
                 Searches(n, fit, low, high, i)
          PROVE  i \in Good
      <3> HIDE DEF n
      <3> QED
        BY <2>9
    <2> HIDE DEF Good
    <2>3. 0 \in Good
      <3>1. Searches(n, fit, 1, n, 0) /\ 1 \in 1..n /\ n \in 1..n
        <4>1. 1 \in fit
          BY <1>0, <1>3, <1>4
        <4> HIDE DEF n
        <4> QED
          BY <1>0, <4>1 DEF Searches
      <3> QED
        BY <1>0, <2>2, <2>9, <3>1
    <2>4. ASSUME NEW i \in 1..n, i - 1 \in Good PROVE i \in Good
      <3>1. PICK low \in 1..n, high \in 1..n : after[i - 1] = <<low, high>> /\ Searches(n, fit, low, high, i - 1)
        BY <2>4 DEF Good
      <3>0. i \in 0..n
        OBVIOUS
      <3>2. after[i] = IF low >= high THEN <<low, high>>
                       ELSE IF fits[middle(low, high)] THEN <<middle(low, high), high>> ELSE <<low, middle(low, high) - 1>>
        <4>1. after[i] = narrow[i][<<low, high>>]
          BY <2>2, <3>1, Zenon
        <4> QED
          BY <2>1, <4>1, Zenon
      <3>3. CASE low >= high
        <4>1. Searches(n, fit, low, high, i)
          BY <3>1, <3>3 DEF Searches
        <4>2. after[i] = <<low, high>>
          BY <3>2, <3>3, Zenon
        <4> QED
          BY <2>9, <3>0, <4>1, <4>2
      <3>4. CASE low < high
        <4> DEFINE mid == middle(low, high)
        <4>1. /\ mid \in 1..n
              /\ mid \in fit => Searches(n, fit, mid, high, i)
              /\ mid \notin fit => mid - 1 \in 1..n /\ Searches(n, fit, low, mid - 1, i)
          <5> HIDE DEF n
          <5>1. low \in Nat /\ high \in Nat /\ n \in Nat
            BY <1>0
          <5> QED
            BY <3>1, <3>4, <5>1, SearchGoesOn
        <4>5. ~ (low >= high)
          BY <3>4
        <4>6. after[i] = IF fits[mid] THEN <<mid, high>> ELSE <<low, mid - 1>>
          BY <3>2, <4>5, Zenon
        <4> HIDE DEF mid
        <4>2. CASE fits[mid]
          <5>1. after[i] = <<mid, high>>
            BY <4>2, <4>6, Zenon
          <5>2. Searches(n, fit, mid, high, i)
            BY <1>4, <4>1, <4>2
          <5> QED
            BY <2>9, <3>0, <4>1, <5>1, <5>2
        <4>3. CASE ~fits[mid]
          <5>1. after[i] = <<low, mid - 1>>
            BY <4>3, <4>6, Zenon
          <5>2. Searches(n, fit, low, mid - 1, i) /\ mid - 1 \in 1..n
            BY <1>4, <4>1, <4>3
          <5> QED
            BY <2>9, <3>0, <5>1, <5>2
        <4> QED
          BY <4>2, <4>3
      <3> QED
        BY <3>3, <3>4
    <2>5. n \in Good
      <3>1. \A i \in 0..n : i \in Good
        BY <1>0, <2>3, <2>4, LoopInduction
      <3> QED
        BY <1>0, <3>1
    <2>6. /\ best \in 1..n /\ fits[best]
          /\ best < n => ~fits[best + 1]
      <3>1. PICK low \in 1..n, high \in 1..n : after[n] = <<low, high>> /\ Searches(n, fit, low, high, n)
        BY <2>5 DEF Good
      <3>2. best = low
        BY <1>1, <1>3, <3>1
      <3>3. low = high /\ low \in fit /\ (high < n => high + 1 \notin fit)
        <4> HIDE DEF n
        <4> QED
          BY <1>0, <3>1 DEF Searches
      <3>4. fits[low] /\ (low < n => ~fits[low + 1])
        <4>1. low < n => low + 1 \in 1..n
          BY <1>0
        <4> QED
          BY <1>4, <3>3, <4>1
      <3> HIDE DEF best
      <3> QED
        BY <3>2, <3>4
    <2>7. (\A i, j \in 1..n : i < j /\ fits[j] => fits[i]) => \A i \in best + 1..n : ~fits[i]
      <3> HIDE DEF best
      <3> SUFFICES ASSUME \A i, j \in 1..n : i < j /\ fits[j] => fits[i], NEW i \in best + 1..n, fits[i]
                   PROVE  FALSE
        OBVIOUS
      <3>1. best + 1 \in 1..n /\ i \in 1..n /\ ~fits[best + 1]
        BY <1>0, <2>6
      <3>2. CASE i = best + 1
        BY <3>1, <3>2
      <3>3. CASE best + 1 < i
        BY <3>1, <3>3
      <3> QED
        BY <2>6, <3>2, <3>3
    <2> HIDE DEF best
    <2>8. best # 0
      BY <2>6
    <2> QED
      BY <2>6, <2>7, <2>8, Zenon DEF TruncationSound, best
  <1> QED
    BY <1>2, <1>3

-----------------------------------------------------------------------------
(***************************************************************************)
(* The merge of hits, after the groups up to g of a round: what is merged  *)
(* is in order, what is not comes after it and the limit is reached, and   *)
(* every round that found a hit added one.                                 *)
(***************************************************************************)
Hits == Nat \X Nat

Upto(hit, rank, g) == hit[2] < rank \/ (hit[2] = rank /\ hit[1] <= g)

After(merged, hit) == \A i \in 1..Len(merged) : Precedes(merged[i], hit)

InMerge(merged, hit) == \E i \in 1..Len(merged) : merged[i] = hit

Ordered(merged) == \A i, j \in 1..Len(merged) : i < j => Precedes(merged[i], merged[j])

Stored(merged, sizes, rank, g) == \A i \in 1..Len(merged) : Exists(sizes, merged[i]) /\ Upto(merged[i], rank, g)

Covered(merged, sizes, limit, rank, g) ==
    \A h \in 1..Len(sizes) : \A q \in 1..sizes[h] :
      Upto(<<h, q>>, rank, g) => InMerge(merged, <<h, q>>) \/ (Len(merged) = limit /\ After(merged, <<h, q>>))

Advanced(merged, sizes, rank, g) ==
    /\ \A h \in 1..Len(sizes) : sizes[h] >= rank - 1 => Len(merged) >= rank - 1
    /\ \A h \in 1..g : sizes[h] >= rank => Len(merged) >= rank

MergedUpto(merged, sizes, limit, rank, g) ==
    /\ merged \in Seq(Hits) /\ Len(merged) <= limit
    /\ Stored(merged, sizes, rank, g) /\ Ordered(merged)
    /\ Covered(merged, sizes, limit, rank, g) /\ Advanced(merged, sizes, rank, g)

\* What is merged before a group has its turn precedes the hit of that group.
LEMMA UptoNext ==
    ASSUME NEW hit \in Hits, NEW rank \in Nat, NEW g \in Nat, Upto(hit, rank, g - 1)
    PROVE  Upto(hit, rank, g) /\ Precedes(hit, <<g, rank>>)
  <1>1. hit[1] \in Nat /\ hit[2] \in Nat
    BY DEF Hits
  <1>2. hit[2] < rank \/ (hit[2] = rank /\ hit[1] <= g /\ hit[1] < g)
    BY <1>1 DEF Upto
  <1>3. <<g, rank>>[1] = g /\ <<g, rank>>[2] = rank
    OBVIOUS
  <1> QED
    BY <1>2, <1>3, Zenon DEF Upto, Precedes

\* What is merged before a round precedes every hit of that round or a later one.
LEMMA UptoRound ==
    ASSUME NEW hit \in Hits, hit[1] >= 1, NEW rank \in Nat, NEW h \in Nat, NEW q \in Nat,
           Upto(hit, rank, 0), rank <= q
    PROVE  Precedes(hit, <<h, q>>)
  <1>1. hit[1] \in Nat /\ hit[2] \in Nat
    BY DEF Hits
  <1>2. hit[2] < q
    BY <1>1 DEF Upto
  <1>3. <<h, q>>[2] = q
    OBVIOUS
  <1> QED
    BY <1>2, <1>3, Zenon DEF Precedes

\* The next group of a round adds its hit of that rank, unless it has none or
\* the limit is reached.
LEMMA MergeAdds ==
    ASSUME NEW sizes \in Seq(Nat), NEW limit \in Nat, NEW rank \in 1..limit, NEW g \in 1..Len(sizes), NEW merged,
           MergedUpto(merged, sizes, limit, rank, g - 1), rank <= sizes[g], Len(merged) < limit
    PROVE  MergedUpto(Append(merged, <<g, rank>>), sizes, limit, rank, g)
  <1> DEFINE more == Append(merged, <<g, rank>>)
             n == Len(merged)
  <1>0. Len(sizes) \in Nat /\ sizes[g] \in Nat /\ merged \in Seq(Hits) /\ n \in Nat /\ g \in Nat /\ rank \in Nat
    BY DEF MergedUpto
  <1>1. /\ more \in Seq(Hits) /\ Len(more) = n + 1 /\ more[n + 1] = <<g, rank>>
        /\ \A i \in 1..n : more[i] = merged[i] /\ merged[i] \in Hits
    BY <1>0, SMTT(40) DEF Hits
  <1> HIDE DEF more
  <1>2. \A i \in 1..n : Upto(merged[i], rank, g - 1) /\ Exists(sizes, merged[i])
    BY DEF MergedUpto, Stored
  <1>3. \A i \in 1..n : Upto(merged[i], rank, g) /\ Precedes(merged[i], <<g, rank>>)
    BY <1>0, <1>1, <1>2, UptoNext
  <1>4. Exists(sizes, <<g, rank>>) /\ Upto(<<g, rank>>, rank, g)
    BY <1>0 DEF Exists, Upto
  <1>5. Stored(more, sizes, rank, g)
    <2> SUFFICES ASSUME NEW i \in 1..n + 1 PROVE Exists(sizes, more[i]) /\ Upto(more[i], rank, g)
      BY <1>1 DEF Stored
    <2>1. CASE i = n + 1
      BY <1>1, <1>4, <2>1
    <2>2. CASE i \in 1..n
      BY <1>1, <1>2, <1>3, <2>2
    <2> QED
      BY <1>0, <2>1, <2>2, SMTT(40)
  <1>6. Ordered(more)
    <2> SUFFICES ASSUME NEW i \in 1..n + 1, NEW j \in 1..n + 1, i < j PROVE Precedes(more[i], more[j])
      BY <1>1 DEF Ordered
    <2>1. CASE j = n + 1
      <3>1. i \in 1..n
        BY <1>0, <2>1
      <3> QED
        BY <1>1, <1>3, <2>1, <3>1
    <2>2. CASE j \in 1..n
      <3>1. i \in 1..n
        BY <1>0, <2>2
      <3>2. Precedes(merged[i], merged[j])
        BY <2>2, <3>1 DEF MergedUpto, Ordered
      <3> QED
        BY <1>1, <2>2, <3>1, <3>2
    <2> QED
      BY <1>0, <2>1, <2>2
  <1>7. Covered(more, sizes, limit, rank, g)
    <2> SUFFICES ASSUME NEW h \in 1..Len(sizes), NEW q \in 1..sizes[h], Upto(<<h, q>>, rank, g)
                 PROVE  InMerge(more, <<h, q>>)
      BY DEF Covered
    <2>1. CASE Upto(<<h, q>>, rank, g - 1)
      <3>1. InMerge(merged, <<h, q>>)
        BY <1>0, <2>1, SMTT(40) DEF MergedUpto, Covered
      <3>2. PICK i \in 1..n : merged[i] = <<h, q>>
        BY <3>1, Zenon DEF InMerge
      <3>3. i \in 1..Len(more) /\ more[i] = <<h, q>>
        <4>1. more[i] = merged[i]
          BY <1>1, Zenon
        <4>2. Len(more) = n + 1
          BY <1>1
        <4>3. i \in 1..Len(more)
          BY <1>0, <4>2
        <4> QED
          BY <3>2, <4>1, <4>3, Zenon
      <3> QED
        BY <3>3, Zenon DEF InMerge
    <2>2. CASE ~Upto(<<h, q>>, rank, g - 1)
      <3>1. h = g /\ q = rank
        BY <1>0, <2>2 DEF Upto
      <3>2. n + 1 \in 1..Len(more) /\ more[n + 1] = <<h, q>>
        BY <1>0, <1>1, <3>1
      <3> QED
        BY <3>2, Zenon DEF InMerge
    <2> QED
      BY <2>1, <2>2
  <1>8. Advanced(more, sizes, rank, g)
    <2>1. \A h \in 1..Len(sizes) : sizes[h] >= rank - 1 => n >= rank - 1
      BY DEF MergedUpto, Advanced
    <2>2. n >= rank - 1
      BY <1>0, <2>1
    <2> QED
      BY <1>0, <1>1, <2>2 DEF Advanced
  <1> QED
    BY <1>0, <1>1, <1>5, <1>6, <1>7, <1>8 DEF MergedUpto, more

\* A group without a hit of that rank, or after the limit, adds nothing.
LEMMA MergeSkips ==
    ASSUME NEW sizes \in Seq(Nat), NEW limit \in Nat, NEW rank \in 1..limit, NEW g \in 1..Len(sizes), NEW merged,
           MergedUpto(merged, sizes, limit, rank, g - 1), ~ (rank <= sizes[g] /\ Len(merged) < limit)
    PROVE  MergedUpto(merged, sizes, limit, rank, g)
  <1> DEFINE n == Len(merged)
  <1>0. Len(sizes) \in Nat /\ sizes[g] \in Nat /\ merged \in Seq(Hits) /\ n \in Nat /\ g \in Nat /\ rank \in Nat /\ n <= limit
    BY DEF MergedUpto
  <1>1. \A i \in 1..n : merged[i] \in Hits
    BY <1>0
  <1>2. \A i \in 1..n : Upto(merged[i], rank, g - 1) /\ Exists(sizes, merged[i])
    BY DEF MergedUpto, Stored
  <1>3. \A i \in 1..n : Upto(merged[i], rank, g) /\ Precedes(merged[i], <<g, rank>>)
    BY <1>0, <1>1, <1>2, UptoNext
  <1>4. Stored(merged, sizes, rank, g)
    BY <1>2, <1>3 DEF Stored
  <1>5. Covered(merged, sizes, limit, rank, g)
    <2> SUFFICES ASSUME NEW h \in 1..Len(sizes), NEW q \in 1..sizes[h], Upto(<<h, q>>, rank, g)
                 PROVE  InMerge(merged, <<h, q>>) \/ (n = limit /\ After(merged, <<h, q>>))
      BY DEF Covered
    <2>1. CASE Upto(<<h, q>>, rank, g - 1)
      BY <1>0, <2>1 DEF MergedUpto, Covered
    <2>2. CASE ~Upto(<<h, q>>, rank, g - 1)
      <3>1. h = g /\ q = rank
        BY <1>0, <2>2 DEF Upto
      <3>2. n = limit
        BY <1>0, <3>1
      <3> QED
        BY <1>3, <3>1, <3>2 DEF After
    <2> QED
      BY <2>1, <2>2
  <1>6. Advanced(merged, sizes, rank, g)
    <2>1. /\ \A h \in 1..Len(sizes) : sizes[h] >= rank - 1 => n >= rank - 1
          /\ \A h \in 1..g - 1 : sizes[h] >= rank => n >= rank
      BY DEF MergedUpto, Advanced
    <2>2. sizes[g] >= rank => n >= rank
      BY <1>0
    <2>3. ASSUME NEW h \in 1..g, sizes[h] >= rank PROVE n >= rank
      <3>1. h = g \/ h \in 1..g - 1
        BY <1>0
      <3> QED
        BY <2>1, <2>2, <2>3, <3>1
    <2> QED
      BY <2>1, <2>3 DEF Advanced
  <1> QED
    BY <1>0, <1>4, <1>5, <1>6 DEF MergedUpto

\* A round that went through all groups is where the next one starts.
LEMMA MergeRound ==
    ASSUME NEW sizes \in Seq(Nat), NEW limit \in Nat, NEW rank \in 1..limit, NEW merged,
           MergedUpto(merged, sizes, limit, rank, Len(sizes))
    PROVE  MergedUpto(merged, sizes, limit, rank + 1, 0)
  <1> DEFINE n == Len(merged)
  <1>0. Len(sizes) \in Nat /\ merged \in Seq(Hits) /\ n \in Nat /\ n <= limit /\ rank \in Nat /\ rank + 1 - 1 = rank
    BY DEF MergedUpto
  <1>1. \A i \in 1..n : merged[i] \in Hits
    BY <1>0
  <1>2. Stored(merged, sizes, rank + 1, 0)
    <2>1. \A i \in 1..n : Exists(sizes, merged[i]) /\ Upto(merged[i], rank, Len(sizes))
      BY DEF MergedUpto, Stored
    <2>2. \A i \in 1..n : Upto(merged[i], rank + 1, 0)
      <3> SUFFICES ASSUME NEW i \in 1..n PROVE Upto(merged[i], rank + 1, 0)
        OBVIOUS
      <3>1. merged[i] \in Hits /\ Upto(merged[i], rank, Len(sizes))
        BY <1>1, <2>1
      <3>2. merged[i][2] \in Nat /\ merged[i][2] <= rank
        BY <1>0, <3>1 DEF Upto, Hits
      <3>3. merged[i][2] < rank + 1
        BY <1>0, <3>2
      <3> QED
        BY <3>3, Zenon DEF Upto
    <2> QED
      BY <2>1, <2>2 DEF Stored
  <1>3. Covered(merged, sizes, limit, rank + 1, 0)
    <2> SUFFICES ASSUME NEW h \in 1..Len(sizes), NEW q \in 1..sizes[h], Upto(<<h, q>>, rank + 1, 0)
                 PROVE  InMerge(merged, <<h, q>>) \/ (n = limit /\ After(merged, <<h, q>>))
      BY DEF Covered
    <2>1. sizes[h] \in Nat
      BY <1>0
    <2>2. Upto(<<h, q>>, rank, Len(sizes))
      BY <1>0, <2>1 DEF Upto
    <2> QED
      BY <2>2 DEF MergedUpto, Covered
  <1>4. Advanced(merged, sizes, rank + 1, 0)
    <2>1. \A h \in 1..Len(sizes) : sizes[h] >= rank => n >= rank
      BY DEF MergedUpto, Advanced
    <2> QED
      BY <1>0, <2>1 DEF Advanced
  <1> QED
    BY <1>0, <1>2, <1>3, <1>4 DEF MergedUpto

\* Before the first round nothing is merged.
LEMMA MergeStarts ==
    ASSUME NEW sizes \in Seq(Nat), NEW limit \in Nat
    PROVE  MergedUpto(<<>>, sizes, limit, 1, 0)
  <1>1. <<>> \in Seq(Hits) /\ Len(<<>>) = 0
    OBVIOUS
  <1>2. Stored(<<>>, sizes, 1, 0) /\ Ordered(<<>>)
    BY <1>1 DEF Stored, Ordered
  <1>3. Covered(<<>>, sizes, limit, 1, 0)
    <2> SUFFICES ASSUME NEW h \in 1..Len(sizes), NEW q \in 1..sizes[h], Upto(<<h, q>>, 1, 0)
                 PROVE  FALSE
      BY DEF Covered
    <2>1. sizes[h] \in Nat
      OBVIOUS
    <2> QED
      BY <2>1 DEF Upto
  <1>4. Advanced(<<>>, sizes, 1, 0)
    BY <1>1 DEF Advanced
  <1> QED
    BY <1>1, <1>2, <1>3, <1>4 DEF MergedUpto

\* FairMerge: hits are merged in rounds over the wikis, so that none that was
\* left out precedes one that was merged.
THEOREM MergeFair ==
    ASSUME NEW sizes \in Seq(Nat), NEW limit \in Nat
    PROVE  MergeSound(sizes, limit)
  <1> DEFINE G == Len(sizes)
             add(rank) == [g \in 1..G |-> [merged \in Seq(Hits) |->
                 IF rank <= sizes[g] /\ Len(merged) < limit THEN Append(merged, <<g, rank>>) ELSE merged]]
             round == [rank \in 1..limit |-> [merged \in Seq(Hits) |-> Loop(add(rank), merged, G)[G]]]
             rounds == Loop(round, <<>>, limit)
             m == FairMerge(sizes, limit)
  <1>0. G \in Nat
    OBVIOUS
  <1>1. m = rounds[limit]
    BY Zenon DEF FairMerge, Hits
  <1>2. ASSUME NEW rank \in 1..limit, NEW merged, MergedUpto(merged, sizes, limit, rank, 0)
        PROVE  MergedUpto(Loop(add(rank), merged, G)[G], sizes, limit, rank, G)
    <2> DEFINE step == add(rank)
               after == Loop(step, merged, G)
               Good == {g \in 0..G : MergedUpto(after[g], sizes, limit, rank, g)}
    <2>1. \A g \in 1..G : \A x \in Seq(Hits) :
            step[g][x] = IF rank <= sizes[g] /\ Len(x) < limit THEN Append(x, <<g, rank>>) ELSE x
      OBVIOUS
    <2> HIDE DEF step
    <2>2. after[0] = merged /\ \A g \in 1..G : after[g] = step[g][after[g - 1]]
      BY <1>0, LoopIs
    <2> HIDE DEF after, G
    <2>3. 0 \in Good
      BY <1>0, <1>2, <2>2
    <2>4. ASSUME NEW g \in 1..G, g - 1 \in Good PROVE g \in Good
      <3> DEFINE x == after[g - 1]
      <3>1. MergedUpto(x, sizes, limit, rank, g - 1)
        BY <2>4
      <3>2. x \in Seq(Hits)
        BY <3>1 DEF MergedUpto
      <3>3. after[g] = IF rank <= sizes[g] /\ Len(x) < limit THEN Append(x, <<g, rank>>) ELSE x
        <4>1. after[g] = step[g][x]
          BY <2>2
        <4> HIDE DEF x
        <4> QED
          BY <2>1, <3>2, <4>1, Zenon
      <3> HIDE DEF x
      <3>4. MergedUpto(after[g], sizes, limit, rank, g)
        <4>1. CASE rank <= sizes[g] /\ Len(x) < limit
          <5>1. MergedUpto(Append(x, <<g, rank>>), sizes, limit, rank, g)
            BY <3>1, <4>1, MergeAdds DEF G
          <5> QED
            BY <3>3, <4>1, <5>1, Zenon
        <4>2. CASE ~ (rank <= sizes[g] /\ Len(x) < limit)
          <5>1. MergedUpto(x, sizes, limit, rank, g)
            BY <3>1, <4>2, MergeSkips DEF G
          <5> QED
            BY <3>3, <4>2, <5>1, Zenon
        <4> QED
          BY <4>1, <4>2
      <3> QED
        BY <1>0, <3>4
    <2>5. G \in Good
      <3> HIDE DEF Good
      <3>1. \A g \in 0..G : g \in Good
        BY <1>0, <2>3, <2>4, LoopInduction
      <3> QED
        BY <1>0, <3>1
    <2> QED
      BY <2>5 DEF step, after
  <1> DEFINE Good == {k \in 0..limit : MergedUpto(rounds[k], sizes, limit, k + 1, 0)}
  <1>3. limit \in Good
    <2>1. \A k \in 1..limit : \A x \in Seq(Hits) : round[k][x] = Loop(add(k), x, G)[G]
      OBVIOUS
    <2> HIDE DEF round
    <2>2. rounds[0] = <<>> /\ \A k \in 1..limit : rounds[k] = round[k][rounds[k - 1]]
      BY LoopIs
    <2> HIDE DEF rounds
    <2>3. 0 \in Good
      BY <2>2, MergeStarts
    <2>4. ASSUME NEW k \in 1..limit, k - 1 \in Good PROVE k \in Good
      <3>1. MergedUpto(rounds[k - 1], sizes, limit, k, 0)
        BY <2>4
      <3>2. rounds[k - 1] \in Seq(Hits)
        BY <3>1 DEF MergedUpto
      <3>3. rounds[k] = Loop(add(k), rounds[k - 1], G)[G]
        BY <2>1, <2>2, <3>2, Zenon
      <3> HIDE DEF add
      <3>4. MergedUpto(rounds[k], sizes, limit, k, G)
        BY <1>2, <3>1, <3>3, Zenon
      <3>5. MergedUpto(rounds[k], sizes, limit, k + 1, 0)
        BY <3>4, MergeRound
      <3> QED
        BY <3>5
    <2> HIDE DEF Good
    <2>5. \A k \in 0..limit : k \in Good
      BY <2>3, <2>4, LoopInduction
    <2> QED
      BY <2>5
  <1>4. MergedUpto(m, sizes, limit, limit + 1, 0)
    BY <1>1, <1>3
  <1> HIDE DEF m, G
  <1>5. /\ m \in Seq(Hits) /\ Len(m) \in Nat /\ Len(m) <= limit /\ limit + 1 - 1 = limit
        /\ \A i \in 1..Len(m) : Exists(sizes, m[i]) /\ Upto(m[i], limit + 1, 0) /\ m[i] \in Hits
        /\ \A i, j \in 1..Len(m) : i < j => Precedes(m[i], m[j])
    BY <1>4 DEF MergedUpto, Stored, Ordered
  <1>6. ASSUME NEW h \in 1..Len(sizes), NEW q \in 1..sizes[h]
        PROVE  InMerge(m, <<h, q>>) \/ (Len(m) = limit /\ After(m, <<h, q>>))
    <2>0. sizes[h] \in Nat
      OBVIOUS
    <2>1. CASE q <= limit
      <3>1. Upto(<<h, q>>, limit + 1, 0)
        BY <2>0, <2>1 DEF Upto
      <3> QED
        BY <1>4, <3>1 DEF MergedUpto, Covered
    <2>2. CASE q > limit
      <3>1. sizes[h] >= limit
        BY <2>0, <2>2
      <3>2. Len(m) >= limit
        BY <1>4, <1>5, <3>1 DEF MergedUpto, Advanced
      <3>3. \A i \in 1..Len(m) : Precedes(m[i], <<h, q>>)
        <4> SUFFICES ASSUME NEW i \in 1..Len(m) PROVE Precedes(m[i], <<h, q>>)
          OBVIOUS
        <4>1. Exists(sizes, m[i]) /\ Upto(m[i], limit + 1, 0) /\ m[i] \in Hits
          BY <1>5
        <4>2. m[i][1] >= 1
          BY <4>1 DEF Exists
        <4>3. h \in Nat /\ q \in Nat /\ limit + 1 \in Nat /\ limit + 1 <= q
          BY <2>0, <2>2
        <4> QED
          BY <4>1, <4>2, <4>3, UptoRound
      <3>4. Len(m) = limit
        BY <1>5, <3>2
      <3> QED
        BY <3>3, <3>4, Zenon DEF After
    <2> QED
      BY <2>0, <2>1, <2>2
  <1> QED
    BY <1>5, <1>6, Zenon DEF MergeSound, InMerge, After, m

-----------------------------------------------------------------------------
\* A function on 1..k with values in T is a sequence of them.
LEMMA SamplesAreSequences ==
    ASSUME NEW S, NEW T, S \subseteq T, NEW n \in Nat, NEW s \in SampleSequences(S, n)
    PROVE  s \in Seq(T)
  <1>1. PICK k \in 0..n : s \in [1..k -> S]
    BY DEF SampleSequences
  <1> QED
    BY <1>1

\* What the algorithms promise for all inputs they promise for the sample.
LEMMA AlgorithmsSound == AlgorithmsMeetReference
  <1>0. MaxSample \in Nat \ {0}
    BY SampleAssumption
  <1>1. ASSUME NEW available \in 0..3 * MaxSample, NEW system \in SampleBytes,
               NEW messages \in SampleSequences(SampleMessages, 3), NEW evidence \in SampleSequences(SampleBytes, 2)
        PROVE  BudgetSound(available, system, messages, evidence)
    <2>1. SampleBytes \subseteq Nat /\ SampleMessages \subseteq Message
      BY <1>0 DEF SampleBytes, SampleMessages, Message
    <2>2. available \in Nat /\ system \in Nat
      BY <1>0, <2>1
    <2>3. messages \in Seq(Message) /\ evidence \in Seq(Nat)
      BY <2>1, SamplesAreSequences
    <2> QED
      BY <2>2, <2>3, BudgetFits
  <1>2. ASSUME NEW sizes \in SampleSequences(0..3, 3), NEW limit \in 0..MaxSample
        PROVE  MergeSound(sizes, limit)
    <2>1. 0..3 \subseteq Nat /\ limit \in Nat
      BY <1>0
    <2>2. sizes \in Seq(Nat)
      BY <2>1, SamplesAreSequences
    <2> QED
      BY <2>1, <2>2, MergeFair
  <1>3. ASSUME NEW n \in 1..MaxSample, NEW fits \in [1..n -> BOOLEAN]
        PROVE  TruncationSound(fits)
    <2>1. fits \in Seq(BOOLEAN) /\ Len(fits) # 0
      BY <1>0
    <2> QED
      BY <2>1, TruncationLongest
  <1> QED
    BY <1>1, <1>2, <1>3, Zenon DEF AlgorithmsMeetReference

\* Whenever an execution has built its prompt, the algorithms it used keep what
\* they promise, of all inputs and so of those that are tried.
THEOREM PromptSound == Spec => []PromptIsSound
  <1>1. PromptIsSound
    BY AlgorithmsSound DEF PromptIsSound
  <1>2. Init => PromptIsSound
    BY <1>1
  <1>3. PromptIsSound /\ [Next]_vars => PromptIsSound'
    BY AlgorithmsSound DEF PromptIsSound
  <1> QED
    BY <1>2, <1>3, PTL DEF Spec
=============================================================================
