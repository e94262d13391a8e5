-------------------------------- MODULE Discord --------------------------------
(***************************************************************************)
(* A Discord connection (internal/discord): operators configure it and its *)
(* bindings, worker jobs refresh the stored directory, supervisors of      *)
(* several processes keep one gateway open, and a question from the guild  *)
(* is authorized, executed, delivered in several messages and remembered.  *)
(*                                                                         *)
(* There is one connection, one guild with one text channel and one user.  *)
(* Every transaction, request to Discord and message is a step.  The       *)
(* answer itself is AgentAnswer's; here it succeeds or fails.              *)
(***************************************************************************)
EXTENDS Integers, FiniteSets, Sequences

CONSTANTS
    Processes,     \* processes that run a supervisor
    Bindings,      \* identifiers of bindings
    Settings,      \* configurations an operator may give a binding
    MaxStimuli,    \* bound: commands, changes in the guild and questions
    MaxFaults,     \* bound: failing calls, killed processes, lost permits
    Messages,      \* messages an answer is split into
    MaxTurns,      \* ContextOptions.MaxMessages, in pairs
    RateRequests,  \* RatePolicy.Requests
    MaxAttempts,   \* attempts of a connection job
    Nobody         \* no binding, process or run

Permissions == {"read", "post", "thread"}

\* ValidateBindingConfiguration: a reply policy, some triggers, an allowlist.
ValidBindingConfiguration(c) ==
    /\ c.reply \in {"SAME_CHANNEL", "THREAD"}
    /\ c.triggers \in SUBSET {"MENTION", "SLASH_COMMAND"} \ {{}}
    /\ c.restricted \in BOOLEAN

ASSUME DiscordAssumption ==
    /\ \A c \in Settings : ValidBindingConfiguration(c)
    /\ MaxStimuli \in Nat /\ MaxFaults \in Nat /\ MaxAttempts \in Nat \ {0}
    /\ Messages \in Nat \ {0} /\ MaxTurns \in Nat \ {0} /\ RateRequests \in Nat \ {0}
    /\ Nobody \notin Bindings \cup Processes \cup (Processes \X {"main", "old"})

VARIABLES
    conn,      \* the row of discord_connections
    secret,    \* current version of the bot token's credential
    binding,   \* rows of channel_bindings
    guild,     \* the guild as Discord has it
    directory, \* the stored copy of the guild
    agent,     \* resource version and effective access of the bound agent
    replicas,  \* processes that are deployed
    gateway,   \* the gateway runs: each process has one, and one it gave up
    scan,      \* what each process's Reconcile found: the capture to run next
    owner,     \* the run that holds the advisory lock of the connection
    leaked,    \* sessions that stay open and that no run will close
    lost,      \* history: the lock's database session was lost
    job,       \* the job of type REFRESH_DISCORD
    ask,       \* the question that is being answered
    talk,      \* discord_conversation_messages, in pairs
    rate,      \* rate_limit_buckets of the current window
    done,      \* history: questions that were delivered in full
    stimuli, faults

vars == <<replicas, conn, secret, binding, guild, directory, agent, gateway, scan, owner, leaked, lost,
          job, ask, talk, rate, done, stimuli, faults>>
config == <<conn, secret, binding, agent>>
outside == <<replicas, guild, directory>>
chat == <<ask, talk, rate, done>>
service == <<gateway, scan, owner, leaked, lost>>

Slots == Processes \X {"main", "old"}
Channel == [open |-> FALSE, permissions |-> Permissions]
Draft == [config |-> CHOOSE c \in Settings : TRUE, enabled |-> FALSE, health |-> "DRAFT", version |-> 0, deleted |-> FALSE]
NoJob == [at |-> "none", action |-> "none", version |-> 0, cred |-> 0, binding |-> Nobody,
          bversion |-> 0, attempts |-> 0, seen |-> <<>>, slash |-> {}]
NoCapture == [version |-> 0, cred |-> 0]
NoGateway == [at |-> "none", cap |-> NoCapture, stop |-> FALSE]
NoAsk == [at |-> "idle", proc |-> Nobody, live |-> FALSE, cap |-> NoCapture, id |-> 0, trigger |-> "MENTION",
          roles |-> {}, binding |-> Nobody, bound |-> Draft, agent |-> 0, access |-> "PUBLIC", channel |-> Channel,
          left |-> 0, late |-> [stored |-> 0, live |-> 0]]

Init ==
    /\ conn = [lifecycle |-> "ENABLED", state |-> "CONNECTING", version |-> 1, cred |-> 1]
    /\ secret = 1
    /\ \E b \in Bindings, c \in Settings :
         binding = [x \in Bindings |-> IF x = b
                      THEN [config |-> c, enabled |-> TRUE, health |-> "HEALTHY", version |-> 1, deleted |-> FALSE]
                      ELSE Draft]
    /\ guild = [channel |-> Channel, roles |-> {"member"}]
    /\ directory = [channel |-> Channel, fresh |-> TRUE]
    /\ agent = [version |-> 1, access |-> "RESTRICTED"]
    /\ replicas \in (SUBSET Processes) \ {{}}
    /\ gateway = [g \in Slots |-> NoGateway]
    /\ scan = [p \in Processes |-> <<>>]
    /\ owner = Nobody /\ leaked = {} /\ lost = FALSE /\ job = NoJob /\ ask = NoAsk /\ talk = {}
    /\ rate = 0 /\ done = {} /\ stimuli = 0 /\ faults = 0

Stimulus == stimuli < MaxStimuli /\ stimuli' = stimuli + 1
Fault == faults < MaxFaults /\ faults' = faults + 1
Exists(b) == binding[b].version > 0 /\ ~binding[b].deleted
Capture == [version |-> conn.version, cred |-> conn.cred]

-----------------------------------------------------------------------------
(***************************************************************************)
(* The policy of a binding.                                                *)
(***************************************************************************)
\* requiredReplyPermissions
RequiredReply(c) == IF c.reply = "THREAD" THEN {"post", "thread"} ELSE {"post"}

\* ValidateBindingPolicy: the bot may read and reply, and a restricted agent
\* neither replies to everyone nor lacks an allowlist.
BindingPolicy(c, access, channel) ==
    /\ RequiredReply(c) \cup {"read"} \subseteq channel.permissions
    /\ access = "RESTRICTED" => ~channel.open /\ c.restricted

\* validateBindingPolicyTx: over the stored directory, which must be fresh.
PolicyHolds(c) == directory.fresh /\ BindingPolicy(c, agent.access, directory.channel)

\* BindingPermits, for the one allowed role.
Permits(c, access, roles) == access = "RESTRICTED" \/ c.restricted => c.restricted /\ "member" \in roles

\* uq_channel_binding_triggers_enabled_route
RouteFree(b, c) ==
    \A x \in Bindings \ {b} : binding[x].enabled => binding[x].config.triggers \cap c.triggers = {}

\* AuthorizeInvocation's query: enabled routes of the trigger win over others.
Routes(trigger) == {b \in Bindings : Exists(b) /\ trigger \in binding[b].config.triggers}
Winner(trigger) ==
    LET on == {b \in Routes(trigger) : binding[b].enabled} IN
    IF on # {} THEN on ELSE Routes(trigger)

-----------------------------------------------------------------------------
(***************************************************************************)
(* Commands of operators, each a transaction.                              *)
(***************************************************************************)
Command == Stimulus /\ UNCHANGED <<outside, service, ask, rate, done, faults>>

\* requestConnectionJob, for "validate" and "refresh".
RequestConnectionJob(action) ==
    /\ Command
    /\ job.at = "none"
    /\ job' = [NoJob EXCEPT !.at = "queued", !.action = action, !.version = conn.version, !.cred = conn.cred]
    /\ UNCHANGED <<config, talk>>

\* UpdateConnection: renames, enables or disables.
UpdateConnection(lifecycle) ==
    /\ Command
    /\ conn' = [conn EXCEPT !.lifecycle = lifecycle, !.version = @ + 1,
                  !.state = IF lifecycle = "DISABLED" THEN "DISABLED"
                            ELSE IF @ = "DISABLED" THEN "CONNECTING" ELSE @]
    /\ UNCHANGED <<secret, binding, agent, job, talk>>

\* RotateConnectionToken: the connection takes the credential's current version.
RotateConnectionToken ==
    /\ Command
    /\ conn' = [conn EXCEPT !.cred = secret, !.state = "CONNECTING", !.version = @ + 1]
    /\ UNCHANGED <<secret, binding, agent, job, talk>>

\* Credentials: the secret behind the connection is replaced.
RotateSecret ==
    /\ Command
    /\ secret' = secret + 1
    /\ UNCHANGED <<conn, binding, agent, job, talk>>

\* scheduleRegistrationTx and RequestTestMessage enqueue a job of the binding.
BindingJob(action, b, version) ==
    [NoJob EXCEPT !.at = "queued", !.action = action, !.version = conn.version, !.cred = conn.cred,
                  !.binding = b, !.bversion = version]
Slash(c) == "SLASH_COMMAND" \in c.triggers
Register(b, c, version) ==
    IF Slash(c) THEN job.at = "none" /\ job' = BindingJob("register_command", b, version) ELSE UNCHANGED job

\* CreateBinding: a draft, or enabled when its policy holds.
CreateBinding(b, c) ==
    /\ Command
    /\ binding[b].version = 0
    /\ PolicyHolds(c) /\ RouteFree(b, c)
    /\ binding' = [binding EXCEPT ![b] =
         [config |-> c, enabled |-> TRUE, health |-> "HEALTHY", version |-> 1, deleted |-> FALSE]]
    /\ Register(b, c, 1)
    /\ UNCHANGED <<conn, secret, agent, talk>>

\* UpdateBinding: replaces configuration and triggers, and enables on demand.
UpdateBinding(b, c, enable) ==
    /\ Command
    /\ Exists(b)
    /\ enable => PolicyHolds(c) /\ RouteFree(b, c)
    /\ binding' = [binding EXCEPT ![b] =
         [binding[b] EXCEPT !.config = c, !.version = @ + 1, !.enabled = enable,
                            !.health = IF enable THEN "HEALTHY" ELSE "DRAFT"]]
    /\ IF enable THEN Register(b, c, binding[b].version + 1) ELSE UNCHANGED job
    /\ UNCHANGED <<conn, secret, agent, talk>>

\* DeleteBinding
DeleteBinding(b) ==
    /\ Command
    /\ Exists(b)
    /\ binding' = [binding EXCEPT ![b] =
         [binding[b] EXCEPT !.enabled = FALSE, !.health = "DRAFT", !.deleted = TRUE, !.version = @ + 1]]
    /\ UNCHANGED <<conn, secret, agent, job, talk>>

\* ValidateBinding: health only, a disabled binding stays disabled.
ValidateBinding(b) ==
    /\ Command
    /\ Exists(b) /\ PolicyHolds(binding[b].config)
    /\ binding' = [binding EXCEPT ![b].health = "HEALTHY", ![b].version = @ + 1]
    /\ UNCHANGED <<conn, secret, agent, job, talk>>

\* RequestTestMessage
RequestTestMessage(b) ==
    /\ Command
    /\ Exists(b) /\ PolicyHolds(binding[b].config) /\ job.at = "none"
    /\ job' = BindingJob("test_message", b, binding[b].version)
    /\ UNCHANGED <<config, talk>>

\* The agent, its knowledge bases or their access policy change.
ChangeAgent ==
    /\ Command
    /\ \/ agent' = [agent EXCEPT !.version = @ + 1]
       \/ agent' = [agent EXCEPT !.access = IF @ = "PUBLIC" THEN "RESTRICTED" ELSE "PUBLIC"]
    /\ UNCHANGED <<conn, secret, binding, job, talk>>

\* In Discord: the channel is opened, the bot or the user loses permissions.
ChangeGuild ==
    /\ Stimulus
    /\ \/ guild' = [guild EXCEPT !.channel.open = ~@]
       \/ guild' = [guild EXCEPT !.channel.permissions = IF @ = {"read"} THEN Permissions ELSE {"read"}]
       \/ guild' = [guild EXCEPT !.roles = IF @ = {} THEN {"member"} ELSE {}]
    /\ UNCHANGED <<replicas, config, directory, service, job, chat, faults>>

-----------------------------------------------------------------------------
(***************************************************************************)
(* The worker job (handler.go, execution_store.go, terminal.go).           *)
(***************************************************************************)
JobStep == UNCHANGED <<replicas, secret, guild, agent, service, chat, stimuli>>
Only(at) == job' = [job EXCEPT !.at = at] /\ UNCHANGED <<conn, binding, directory, faults>> /\ JobStep

\* assertExecutionCapture: connection, credential and binding are as captured.
CaptureHolds ==
    /\ conn.version = job.version /\ conn.cred = job.cred
    /\ job.binding # Nobody => Exists(job.binding) /\ binding[job.binding].version = job.bversion

Unhealthy(x) == [x EXCEPT !.enabled = FALSE, !.health = "UNHEALTHY", !.version = @ + 1]
Disable(bs) == binding' = [b \in Bindings |-> IF b \in bs THEN Unhealthy(binding[b]) ELSE binding[b]]

\* The queue claims the job.
ClaimJob ==
    /\ job.at = "queued"
    /\ job' = [job EXCEPT !.at = "claimed", !.attempts = @ + 1]
    /\ UNCHANGED <<conn, binding, directory, faults>> /\ JobStep

\* AssertExecution, then leasedToken reads the captured version of the secret.
LeaseToken ==
    /\ job.at = "claimed"
    /\ Only(IF ~CaptureHolds THEN "failed" ELSE IF secret # job.cred THEN "refused" ELSE "identify")

\* RESTClient.ValidateToken
ValidateToken ==
    /\ job.at = "identify"
    /\ Only(IF job.action = "refresh" THEN "snapshot" ELSE "acting")

\* RESTClient.RefreshServers: the guild as Discord has it now.
RefreshServers ==
    /\ job.at = "snapshot"
    /\ IF ~CaptureHolds THEN Only("failed") ELSE IF secret # job.cred THEN Only("refused")
       ELSE /\ job' = [job EXCEPT !.at = "acting", !.seen = <<guild.channel>>]
            /\ UNCHANGED <<conn, binding, directory, faults>> /\ JobStep

\* Any request to Discord is limited or not answered ("failing"), or its
\* answer is one that another attempt would get too ("refused").
DiscordFails ==
    /\ job.at \in {"identify", "snapshot", "registering"} \/ (job.at = "acting" /\ job.binding # Nobody)
    /\ Fault
    /\ \E at \in IF job.action = "refresh" /\ job.at = "registering" THEN {"unregistered"} ELSE {"failing", "refused"} :
         job' = [job EXCEPT !.at = at]
    /\ UNCHANGED <<conn, binding, directory>> /\ JobStep

\* CompleteIdentity
CompleteIdentity ==
    /\ job.at = "acting" /\ job.action = "validate"
    /\ IF ~CaptureHolds THEN Only("failed")
       ELSE /\ conn' = [conn EXCEPT !.state = "CONNECTING"]
            /\ job' = NoJob
            /\ UNCHANGED <<binding, directory, faults>> /\ JobStep

\* CompleteRefresh: the directory is replaced, and every binding whose policy
\* it no longer meets is disabled.  The handler then lists the slash bindings.
CompleteRefresh ==
    /\ job.at = "acting" /\ job.action = "refresh"
    /\ IF ~CaptureHolds THEN Only("failed")
       ELSE LET channel == job.seen[1]
                broken == {b \in Bindings : Exists(b) /\ ~BindingPolicy(binding[b].config, agent.access, channel)} IN
            /\ directory' = [channel |-> channel, fresh |-> TRUE]
            /\ Disable(broken)
            /\ job' = [job EXCEPT !.at = "registering", !.slash =
                 {<<b, binding'[b].version>> : b \in {x \in Bindings : binding'[x].enabled /\ Slash(binding'[x].config)}}]
            /\ UNCHANGED <<conn, faults>> /\ JobStep

\* RegisterAskCommand after a refresh, once for the server; no slash binding,
\* no request.
RegisterServer ==
    /\ job.at = "registering"
    /\ IF job.slash = {} \/ (CaptureHolds /\ secret = job.cred)
       THEN job' = NoJob /\ UNCHANGED <<conn, binding, directory, faults>> /\ JobStep
       ELSE Only(IF ~CaptureHolds THEN "failed" ELSE "refused")

\* FailCommandRegistration: only bindings that are still as they were listed.
StillListed == {b \in Bindings : <<b, binding[b].version>> \in job.slash /\ binding[b].enabled}
FailCommandRegistration ==
    /\ job.at = "unregistered"
    /\ IF ~CaptureHolds THEN Only("failed")
       ELSE /\ Disable(StillListed)
            /\ job' = NoJob
            /\ UNCHANGED <<conn, directory, faults>> /\ JobStep

\* RegisterAskCommand or SendTestMessage for one binding.
ActOnBinding ==
    /\ job.at = "acting" /\ job.binding # Nobody
    /\ IF CaptureHolds /\ secret = job.cred
       THEN job' = NoJob /\ UNCHANGED <<conn, binding, directory, faults>> /\ JobStep
       ELSE Only(IF ~CaptureHolds THEN "failed" ELSE "refused")

\* handleExecutionFailure: FailExecution, or FailCommandRegistration of the one
\* binding: a failed registration disables the binding and does not degrade the
\* connection.  What was refused ends the job.
FailExecution ==
    /\ job.at \in {"failing", "refused"}
    /\ IF ~CaptureHolds THEN Only("failed")
       ELSE /\ conn' = IF job.action = "register_command" THEN conn ELSE [conn EXCEPT !.state = "DEGRADED"]
            /\ Disable({b \in {job.binding} \cap Bindings :
                 job.action = "register_command" => binding[b].enabled /\ Slash(binding[b].config)})
            /\ job' = [job EXCEPT !.at = IF @ = "failing" THEN "failed" ELSE "rejected"]
            /\ UNCHANGED <<directory, faults>> /\ JobStep

\* Mutant: the captured versions are not compared.
TerminalApplies_Always == TRUE

\* TerminalCallback does nothing when the capture is stale.
TerminalApplies == CaptureHolds

AttemptLimit == IF job.binding = Nobody THEN MaxAttempts ELSE 1

\* TerminalCallback of a job that failed for good or was cancelled.
TerminalCallback ==
    /\ conn' = IF TerminalApplies /\ (job.binding = Nobody \/ job.action = "test_message")
               THEN [conn EXCEPT !.state = "DEGRADED"] ELSE conn
    /\ Disable({b \in {job.binding} \cap Bindings : TerminalApplies /\ binding[b].health # "UNHEALTHY"})
    /\ job' = NoJob

\* The runner settles a failed attempt: another attempt, also after an error of
\* no class such as a stale capture, or the terminal state.
SettleJob ==
    /\ job.at \in {"failed", "rejected"}
    /\ IF job.at = "failed" /\ job.attempts < AttemptLimit
       THEN job' = [job EXCEPT !.at = "queued", !.seen = <<>>, !.slash = {}] /\ UNCHANGED <<conn, binding>>
       ELSE TerminalCallback
    /\ UNCHANGED <<directory, faults>> /\ JobStep

\* An operator cancels the queued job.
CancelJob ==
    /\ Stimulus
    /\ job.at = "queued"
    /\ TerminalCallback
    /\ UNCHANGED <<secret, agent, outside, service, chat, faults>>

\* The lease expires: what the handler still writes is refused.
LosePermit ==
    /\ job.at \notin {"none", "queued", "failed"}
    /\ Fault
    /\ job' = [job EXCEPT !.at = "failed"]
    /\ UNCHANGED <<conn, binding, directory>> /\ JobStep

-----------------------------------------------------------------------------
(***************************************************************************)
(* The supervisors (supervisor.go, store.go).  A run is starting (no lock  *)
(* yet), owned, opening, open, closing (its lock is still held) or ended.  *)
(***************************************************************************)
ServiceStep == UNCHANGED <<secret, binding, agent, outside, job, talk, rate, done, stimuli>>
Main(p) == <<p, "main">>
Old(p) == <<p, "old">>

\* Store.state: refused when the connection is no longer as captured.
Fenced(cap) == Capture = cap
Report(cap, state) == conn' = IF Fenced(cap) THEN [conn EXCEPT !.state = state] ELSE conn

\* EnabledConnections: <<>> when there is nothing to run.
Unavailable == conn.lifecycle = "ENABLED" /\ conn.cred # secret
Desired == IF conn.lifecycle = "ENABLED" /\ conn.cred = secret THEN <<Capture>> ELSE <<>>
EndQuestions(p) == ask' = IF ask.proc = p THEN [ask EXCEPT !.live = FALSE] ELSE ask

\* Mutant: the supervisor takes a run that failed for one that runs.
Reconcile_KeepsEnded(p) ==
    /\ p \in replicas /\ scan[p] = <<>> /\ gateway[Main(p)].at # "ended"
    /\ Desired # (IF gateway[Main(p)].at = "none" THEN <<>> ELSE <<gateway[Main(p)].cap>>)
    /\ scan' = [scan EXCEPT ![p] = <<Desired>>]
    /\ gateway' = [gateway EXCEPT ![Main(p)].stop = TRUE]
    /\ EndQuestions(p)
    /\ UNCHANGED <<conn, owner, leaked, lost, faults>> /\ ServiceStep

\* Reconcile, first half: a run that ended or is not the one desired is
\* cancelled, and the supervisor waits in stop with the captures it has read.
Reconcile(p) ==
    LET run == gateway[Main(p)] IN
    /\ p \in replicas /\ scan[p] = <<>>
    /\ \/ run.at = "none" /\ Desired # <<>>
       \/ run.at = "ended"
       \/ run.at \notin {"none", "ended"} /\ Desired # <<run.cap>>
       \/ Unavailable /\ conn.state # "DEGRADED"
    /\ conn' = IF Unavailable THEN [conn EXCEPT !.state = "DEGRADED"] ELSE conn
    /\ scan' = [scan EXCEPT ![p] = <<Desired>>]
    /\ gateway' = [gateway EXCEPT ![Main(p)].stop = TRUE]
    /\ EndQuestions(p)
    /\ UNCHANGED <<owner, leaked, lost, faults>> /\ ServiceStep

\* Reconcile, second half: the run is done, and the next one starts.
StartRun(p) ==
    /\ scan[p] # <<>>
    /\ gateway[Main(p)].at \in {"none", "ended"}
    /\ gateway' = [gateway EXCEPT ![Main(p)] =
         IF scan[p][1] = <<>> THEN NoGateway ELSE [at |-> "starting", cap |-> scan[p][1][1], stop |-> FALSE]]
    /\ scan' = [scan EXCEPT ![p] = <<>>]
    /\ UNCHANGED <<conn, owner, leaked, lost, ask, faults>> /\ ServiceStep

\* Mutant: the lock of a run that was given up is released.
AbandonRun_ReleasesLock(p) ==
    /\ scan[p] # <<>> /\ gateway[Old(p)].at = "none"
    /\ gateway[Main(p)].at \notin {"none", "ended"}
    /\ Fault
    /\ gateway' = [gateway EXCEPT ![Old(p)] = gateway[Main(p)], ![Main(p)] = NoGateway]
    /\ owner' = IF owner = Main(p) THEN Nobody ELSE owner
    /\ UNCHANGED <<conn, scan, leaked, lost, ask>> /\ ServiceStep

\* stop waits 5 seconds and goes on; the run it gave up ends by itself.
AbandonRun(p) ==
    /\ scan[p] # <<>> /\ gateway[Old(p)].at = "none"
    /\ gateway[Main(p)].at \notin {"none", "ended"}
    /\ Fault
    /\ gateway' = [gateway EXCEPT ![Old(p)] = gateway[Main(p)], ![Main(p)] = NoGateway]
    /\ owner' = IF owner = Main(p) THEN Old(p) ELSE owner
    /\ UNCHANGED <<conn, scan, leaked, lost, ask>> /\ ServiceStep

RunAt(g, from) == gateway[g].at = from
RunTo(g, at) == gateway' = [gateway EXCEPT ![g] = IF <<at, g[2]>> = <<"ended", "old">> THEN NoGateway ELSE [@ EXCEPT !.at = at]]

\* AcquireOwnership: pg_try_advisory_lock does not wait.
AcquireOwnership(g) ==
    /\ RunAt(g, "starting")
    /\ IF gateway[g].stop
       THEN RunTo(g, "ended") /\ Report(gateway[g].cap, "DEGRADED") /\ UNCHANGED owner
       ELSE IF owner = Nobody THEN RunTo(g, "owned") /\ owner' = g /\ UNCHANGED conn
       ELSE RunTo(g, "ended") /\ UNCHANGED <<conn, owner>>
    /\ UNCHANGED <<scan, leaked, lost, ask, faults>> /\ ServiceStep

\* Connecting
ReportConnecting(g) ==
    /\ RunAt(g, "owned")
    /\ IF gateway[g].stop \/ ~Fenced(gateway[g].cap)
       THEN RunTo(g, "closing") /\ UNCHANGED conn
       ELSE RunTo(g, "opening") /\ Report(gateway[g].cap, "CONNECTING")
    /\ UNCHANGED <<scan, owner, leaked, lost, ask, faults>> /\ ServiceStep

\* discordGateway.Run opens the session.  Close may have come between the
\* store of the session and Open: then no one closes it.
OpenSession(g) ==
    /\ RunAt(g, "opening")
    /\ IF gateway[g].stop
       THEN RunTo(g, "closing") /\ leaked' \in {leaked, leaked \cup {<<g[1], gateway[g].cap>>}}
       ELSE RunTo(g, "open") /\ UNCHANGED leaked
    /\ UNCHANGED <<conn, scan, owner, lost, ask, faults>> /\ ServiceStep

\* Open fails: reported unless the run was cancelled.
OpenFails(g) ==
    /\ RunAt(g, "opening")
    /\ Fault
    /\ RunTo(g, "closing")
    /\ IF gateway[g].stop THEN UNCHANGED conn ELSE Report(gateway[g].cap, "DEGRADED")
    /\ UNCHANGED <<scan, owner, leaked, lost, ask>> /\ ServiceStep

\* The READY event of a session that opened or connected again.
GatewayReady(g) ==
    /\ RunAt(g, "open")
    /\ conn.state # "READY" /\ Fenced(gateway[g].cap)
    /\ Report(gateway[g].cap, "READY")
    /\ UNCHANGED <<service, ask, faults>> /\ ServiceStep

\* discordGateway.Close, by stop and by Run.
CloseSession(g) ==
    /\ RunAt(g, "open") /\ gateway[g].stop
    /\ RunTo(g, "closing")
    /\ UNCHANGED <<conn, scan, owner, leaked, lost, ask, faults>> /\ ServiceStep

\* Ownership.Close
ReleaseOwnership(g) ==
    /\ RunAt(g, "closing")
    /\ RunTo(g, "ended")
    /\ owner' = IF owner = g THEN Nobody ELSE owner
    /\ UNCHANGED <<conn, scan, leaked, lost, ask, faults>> /\ ServiceStep

\* A process dies; its sessions and its database session go with it.
KillProcess(p) ==
    /\ p \in replicas
    /\ Fault
    /\ gateway' = [g \in Slots |-> IF g[1] = p THEN NoGateway ELSE gateway[g]]
    /\ scan' = [scan EXCEPT ![p] = <<>>]
    /\ owner' = IF owner \in {Main(p), Old(p)} THEN Nobody ELSE owner
    /\ leaked' = {s \in leaked : s[1] # p}
    /\ ask' = IF ask.proc = p THEN NoAsk ELSE ask
    /\ UNCHANGED <<conn, lost>> /\ ServiceStep

\* PostgreSQL ends the session that holds the lock; the gateway is not told.
LoseLock ==
    /\ owner # Nobody
    /\ Fault
    /\ owner' = Nobody /\ lost' = TRUE
    /\ UNCHANGED <<conn, gateway, scan, leaked, ask>> /\ ServiceStep

-----------------------------------------------------------------------------
(***************************************************************************)
(* A question (supervisor.go, answer_handler.go, invocations.go,           *)
(* delivery.go, context.go).  Its steps run under the context of the       *)
(* gateway run that received it, except the messages themselves.           *)
(***************************************************************************)
AskStep == UNCHANGED <<secret, binding, agent, outside, service, job, stimuli>>
AskTo(at) == ask' = [ask EXCEPT !.at = at] /\ UNCHANGED <<conn, talk, rate, done, faults>> /\ AskStep
AskAt(at) == ask.at = at /\ ask.live
EndAsk == ask' = NoAsk /\ UNCHANGED <<conn, talk, rate, done, faults>> /\ AskStep

\* dispatchGatewayMessage and dispatchGatewayInteraction: the event marks the
\* connection READY, and is dropped when the session's capture is stale.
Receive(p, trigger) ==
    LET run == gateway[Main(p)] IN
    /\ Stimulus
    /\ ask.at = "idle" /\ run.at = "open" /\ Fenced(run.cap)
    /\ Report(run.cap, "READY")
    /\ ask' = [NoAsk EXCEPT !.at = "received", !.proc = p, !.live = ~run.stop, !.cap = run.cap,
                 !.id = stimuli', !.trigger = trigger, !.roles = guild.roles]
    /\ UNCHANGED <<talk, rate, done, faults>>
    /\ UNCHANGED <<secret, binding, agent, outside, service, job>>

\* The same for a leaked session: its run is cancelled, nothing is answered.
LeakedEvent ==
    /\ Stimulus
    /\ \E s \in leaked : Fenced(s[2]) /\ Report(s[2], "READY")
    /\ UNCHANGED <<secret, binding, agent, outside, service, job, chat, faults>>

\* The route, the connection and the binding as AuthorizeInvocation wants them.
Serves(b, trigger, cap) ==
    /\ b \in Winner(trigger)
    /\ binding[b].enabled /\ binding[b].health = "HEALTHY"
    /\ conn.lifecycle = "ENABLED" /\ conn.state = "READY" /\ Capture = cap

\* AuthorizeInvocation captures what every later check compares with.
AuthorizeInvocation ==
    /\ AskAt("received")
    /\ LET ok == {b \in Winner(ask.trigger) : /\ Serves(b, ask.trigger, ask.cap)
                                              /\ Permits(binding[b].config, agent.access, ask.roles)
                                              /\ PolicyHolds(binding[b].config)} IN
       IF ok = {} THEN EndAsk
       ELSE \E b \in ok :
         /\ ask' = [ask EXCEPT !.at = "rate", !.binding = b, !.bound = binding[b], !.agent = agent.version,
                      !.access = agent.access, !.channel = directory.channel]
         /\ UNCHANGED <<conn, talk, rate, done, faults>> /\ AskStep

\* ConsumeRate counts the question, and then compares.
ConsumeRate ==
    /\ AskAt("rate")
    /\ rate' = rate + 1
    /\ ask' = IF rate' <= RateRequests THEN [ask EXCEPT !.at = "place"] ELSE NoAsk
    /\ UNCHANGED <<conn, talk, done, faults>> /\ AskStep

\* A new window.
RateWindow ==
    /\ rate > 0
    /\ rate' = 0
    /\ UNCHANGED <<conn, ask, talk, done, faults>> /\ AskStep

\* messageDestination, interactionDestination: a thread is started by Discord.
Place ==
    /\ AskAt("place")
    /\ AskTo("execute")

\* Mutant: only the access of the agent is compared, not its version.
InvocationHolds_AnyVersion == agent.access = ask.access

\* Invocation.Authorize: the scope the engine captured is the invocation's.
InvocationHolds == agent.version = ask.agent /\ agent.access = ask.access

\* LoadContext, and the engine answers (AgentAnswer).
Execute ==
    /\ AskAt("execute")
    /\ IF ~InvocationHolds THEN EndAsk
       ELSE /\ ask' = [ask EXCEPT !.at = "check", !.left = Messages]
            /\ UNCHANGED <<conn, talk, rate, done, faults>> /\ AskStep

\* assertDeliveryDatabaseState
DeliveryStateHolds ==
    /\ Serves(ask.binding, ask.trigger, ask.cap)
    /\ binding[ask.binding] = ask.bound
    /\ InvocationHolds

\* What an operator and the agent's owner allow at this moment, whatever the
\* checks compare: the binding serves, and the answer of this version of the
\* agent may be read by those the binding lets read it.
StoredAuthority ==
    /\ Exists(ask.binding) /\ binding[ask.binding].enabled
    /\ binding[ask.binding].config = ask.bound.config
    /\ conn.lifecycle = "ENABLED" /\ agent.version = ask.agent
    /\ agent.access = "RESTRICTED" => ask.access = "RESTRICTED"

\* What the guild allows at this moment.
LiveAuthority ==
    /\ ask.access = "RESTRICTED" => ~guild.channel.open
    /\ ask.access = "RESTRICTED" \/ ask.bound.config.restricted => "member" \in guild.roles

\* History: messages sent since a step of the question last met each authority.
LateAfterCheck ==
    [stored |-> IF StoredAuthority THEN 0 ELSE ask.late.stored,
     live |-> IF LiveAuthority THEN 0 ELSE ask.late.live]
LateAfterMessage ==
    [stored |-> IF StoredAuthority THEN 0 ELSE ask.late.stored + 1,
     live |-> IF LiveAuthority THEN 0 ELSE ask.late.live + 1]

\* A check is passed.
Checked(at) ==
    /\ ask' = [ask EXCEPT !.at = at, !.late = LateAfterCheck]
    /\ UNCHANGED <<conn, talk, rate, done, faults>> /\ AskStep

\* ReauthorizeDelivery, first: the stored state, and the secret as captured.
CheckStored ==
    /\ AskAt("check")
    /\ IF DeliveryStateHolds /\ secret = ask.cap.cred THEN Checked("live") ELSE EndAsk

\* sameCapturedChannelSecurity, over the permissions the binding needs.
SameSecurity ==
    LET needed == RequiredReply(ask.bound.config) \cup {"read"} IN
    /\ guild.channel.open = ask.channel.open
    /\ guild.channel.permissions \cap needed = ask.channel.permissions \cap needed

\* Mutant: the guild as it was stored at the invocation stands for the answer.
RefreshDelivery_Stored ==
    /\ AskAt("live")
    /\ IF Permits(ask.bound.config, ask.access, ask.roles) /\ BindingPolicy(ask.bound.config, ask.access, ask.channel)
       THEN Checked("recheck") ELSE EndAsk

\* RefreshDelivery and the comparison with what Discord answers.
RefreshDelivery ==
    /\ AskAt("live")
    /\ IF /\ guild.roles = ask.roles
          /\ Permits(ask.bound.config, ask.access, guild.roles)
          /\ SameSecurity
          /\ BindingPolicy(ask.bound.config, ask.access, guild.channel)
       THEN Checked("recheck") ELSE EndAsk

\* ReauthorizeDelivery, last: the stored state once more.
CheckAgain ==
    /\ AskAt("recheck")
    /\ IF DeliveryStateHolds THEN Checked("send") ELSE EndAsk

Notifies == ask.trigger = "SLASH_COMMAND" /\ ask.bound.config.reply = "THREAD"

\* Mutant: the turn is stored once the first message is out.
AfterMessage_StoresEarly(left) == IF left = Messages - 1 THEN "append" ELSE "check"

\* deliverReply, deliverChannel, deliverInteraction: every message is
\* authorized anew; a slash command that answers in a thread also says so.
AfterMessage(left) == IF left = 0 /\ ~Notifies THEN "append" ELSE "check"

\* One message is sent; it does not depend on the run's context.
SendMessage ==
    /\ ask.at = "send" /\ ask.left > 0
    /\ ask' = [ask EXCEPT !.left = @ - 1, !.at = AfterMessage(ask.left - 1),
                 !.late = LateAfterMessage]
    /\ done' = IF ask.left = 1 THEN done \cup {ask.id} ELSE done
    /\ UNCHANGED <<conn, talk, rate, faults>> /\ AskStep

\* followupContent: the note that the answer is in the thread.
SendNote ==
    /\ ask.at = "send" /\ ask.left = 0
    /\ ask' = [ask EXCEPT !.at = "append", !.late = LateAfterMessage]
    /\ UNCHANGED <<conn, talk, rate, done, faults>> /\ AskStep

\* A request to Discord or the answer fails, or the run was cancelled.
AskFails ==
    \/ /\ ask.at \in {"place", "execute", "live", "send"}
       /\ Fault
       /\ ask' = NoAsk /\ UNCHANGED <<conn, talk, rate, done>> /\ AskStep
    \/ ask.at \notin {"idle", "send"} /\ ~ask.live /\ EndAsk

\* pruneContext keeps the newest turns of the conversation.
PruneContext(turns, key) ==
    {t \in turns : t.key = key => Cardinality({n \in turns : n.key = key /\ n.id >= t.id}) <= MaxTurns}

\* AppendContext
AppendContext ==
    LET key == <<ask.binding, ask.agent>> IN
    /\ AskAt("append")
    /\ talk' = PruneContext(talk \cup {[key |-> key, id |-> ask.id]}, key)
    /\ ask' = NoAsk
    /\ UNCHANGED <<conn, rate, done, faults>> /\ AskStep

\* A conversation expires: LoadContext no longer sees it, AppendContext and
\* retention's deleteDiscordContext remove it.
ExpireContext(key) ==
    /\ talk' = {t \in talk : t.key # key}
    /\ UNCHANGED <<conn, ask, rate, done, faults>> /\ AskStep

-----------------------------------------------------------------------------
Operators ==
    \/ \E a \in {"validate", "refresh"} : RequestConnectionJob(a)
    \/ \E l \in {"ENABLED", "DISABLED"} : UpdateConnection(l)
    \/ RotateConnectionToken \/ RotateSecret \/ ChangeAgent \/ ChangeGuild \/ CancelJob
    \/ \E b \in Bindings : \/ DeleteBinding(b) \/ ValidateBinding(b) \/ RequestTestMessage(b)
                           \/ \E c \in Settings : \/ CreateBinding(b, c)
                                                  \/ \E e \in BOOLEAN : UpdateBinding(b, c, e)

Worker ==
    \/ ClaimJob \/ LeaseToken \/ ValidateToken \/ RefreshServers \/ DiscordFails \/ CompleteIdentity
    \/ CompleteRefresh \/ RegisterServer \/ FailCommandRegistration \/ ActOnBinding \/ FailExecution
    \/ SettleJob \/ LosePermit

RunStep(g) ==
    \/ AcquireOwnership(g) \/ ReportConnecting(g) \/ OpenSession(g) \/ CloseSession(g) \/ ReleaseOwnership(g)

Supervisors ==
    \/ \E p \in Processes : Reconcile(p) \/ StartRun(p) \/ AbandonRun(p) \/ KillProcess(p)
    \/ \E g \in Slots : RunStep(g) \/ OpenFails(g) \/ GatewayReady(g)
    \/ LoseLock

Question ==
    \/ \E p \in Processes, t \in {"MENTION", "SLASH_COMMAND"} : Receive(p, t)
    \/ LeakedEvent
    \/ AuthorizeInvocation \/ ConsumeRate \/ RateWindow \/ Place \/ Execute \/ CheckStored \/ RefreshDelivery
    \/ CheckAgain \/ SendMessage \/ SendNote \/ AskFails \/ AppendContext
    \/ \E t \in talk : ExpireContext(t.key)

Next == Operators \/ Worker \/ Supervisors \/ Question

\* Every supervisor ticks and its runs go on; a session that closes or a lock
\* that is released does so because the deferred calls run.
Fairness ==
    /\ \A p \in Processes : WF_vars(Reconcile(p)) /\ WF_vars(StartRun(p))
    /\ \A g \in Slots : WF_vars(RunStep(g))

Spec == Init /\ [][Next]_vars /\ Fairness

-----------------------------------------------------------------------------
(***************************************************************************)
(* Properties.                                                             *)
(***************************************************************************)
\* At most one message of an answer is sent after the operator or the agent's
\* owner has withdrawn what it rests on, and at most one after the guild has: the
\* checks that ReauthorizeDelivery makes before each message notice it, also
\* when it was granted again and withdrawn once more in between.
LateMessages == ask.late.stored <= 1 /\ ask.late.live <= 1

OpenRuns == {g \in Slots : gateway[g].at = "open"}

\* At most one session of the connection is open, over all processes and over
\* the runs a supervisor gave up, as long as PostgreSQL keeps the lock's
\* session.  (A leaked session is not counted: its run's context is cancelled,
\* so that it answers nothing.)
OneGateway == ~lost => Cardinality(OpenRuns) <= 1

\* A connection that stays enabled with a valid token ends up with an open
\* session of its present version in some process, whatever was restarted,
\* abandoned or killed before.
EnabledServed ==
    <>[](Desired # <<>> => \E g \in OpenRuns : gateway[g].cap = Capture /\ ~gateway[g].stop)

\* A job whose capture is outdated changes neither the connection nor the
\* binding it is about: what the operator did after the job was requested
\* stands (assertExecutionCapture, TerminalCallback).
OperatorChangeStands ==
    [][stimuli' = stimuli /\ job.at # "none" /\ job' # job =>
         /\ conn.version # job.version => conn' = conn
         /\ job.binding # Nobody /\ binding[job.binding].version # job.bversion =>
              binding'[job.binding] = binding[job.binding]]_vars

\* Every turn a later question is given as context was delivered in full, and
\* a conversation stays within its bound (deliverReply before AppendContext,
\* pruneContext).
ContextIsDelivered ==
    \A t \in talk : t.id \in done /\ Cardinality({n \in talk : n.key = t.key}) <= MaxTurns

=============================================================================
