----------------------------- MODULE DiscordProofs -----------------------------
(***************************************************************************)
(* Proofs about module Discord: for any number of processes, bindings,     *)
(* commands, faults and messages, one gateway is open while PostgreSQL     *)
(* keeps the lock, an answer that lost its authority sends at most one     *)
(* more message, what is remembered was delivered, and an outdated job     *)
(* changes nothing an operator did.                                        *)
(***************************************************************************)
EXTENDS Discord, FiniteSetTheorems, WellFoundedInduction, TLAPS

ChannelRow == [open : BOOLEAN, permissions : SUBSET Permissions]
CaptureRow == [version : Nat, cred : Nat]
ConnRow == [lifecycle : {"ENABLED", "DISABLED"}, state : {"CONNECTING", "READY", "DEGRADED", "DISABLED"},
            version : Nat, cred : Nat]
Access == {"PUBLIC", "RESTRICTED"}
\* A draft that was never configured has some configuration too.
Configurations == Settings \cup {Draft.config}
BindingRow == [config : Configurations, enabled : BOOLEAN, health : {"DRAFT", "HEALTHY", "UNHEALTHY"},
               version : Nat, deleted : BOOLEAN]
JobAts == {"none", "queued", "claimed", "identify", "snapshot", "acting", "registering", "unregistered",
           "failing", "refused", "failed", "rejected"}
JobRow == [at : JobAts, action : {"none", "validate", "refresh", "register_command", "test_message"},
           version : Nat, cred : Nat, binding : Bindings \cup {Nobody}, bversion : Nat, attempts : Nat,
           seen : Seq(ChannelRow), slash : SUBSET (Bindings \X Nat)]
RunAts == {"none", "starting", "owned", "opening", "open", "closing", "ended"}
RunRow == [at : RunAts, cap : CaptureRow, stop : BOOLEAN]
AskAts == {"idle", "received", "rate", "place", "execute", "check", "live", "recheck", "send", "append"}
AskRow == [at : AskAts, proc : Processes \cup {Nobody}, live : BOOLEAN, cap : CaptureRow, id : Nat,
           trigger : {"MENTION", "SLASH_COMMAND"}, roles : SUBSET {"member"}, binding : Bindings \cup {Nobody},
           bound : BindingRow, agent : Nat, access : Access, channel : ChannelRow, left : 0..Messages,
           late : [stored : Nat, live : Nat]]

(***************************************************************************)
(* Types.                                                                  *)
(***************************************************************************)
ConfigOK ==
    /\ conn \in ConnRow
    /\ secret \in Nat
    /\ binding \in [Bindings -> BindingRow]
    /\ agent \in [version : Nat, access : Access]
    /\ guild \in [channel : ChannelRow, roles : SUBSET {"member"}]
    /\ directory \in [channel : ChannelRow, fresh : BOOLEAN]
    /\ stimuli \in Nat

\* A refresh that is about to be completed has seen the guild.
JobOK ==
    /\ job \in JobRow
    /\ job.at = "acting" /\ job.action = "refresh" => job.seen # <<>>

ServiceOK ==
    /\ gateway \in [Slots -> RunRow]
    /\ scan \in [Processes -> Seq(Seq(CaptureRow))]
    /\ lost \in BOOLEAN

(***************************************************************************)
(* The inductive invariant.  A run past its start holds the lock, also     *)
(* when it was given up.  A message is sent right after the checks: the    *)
(* refreshed guild and then the stored state have met what they stand for  *)
(* since the last message was out.  A question that has no message left,   *)
(* or is about to be remembered, was delivered.                            *)
(***************************************************************************)
Holding == {"owned", "opening", "open", "closing"}
LockHeld == ~lost => \A g \in Slots : gateway[g].at \in Holding => owner = g

Begun == {"check", "live", "recheck", "send"}
AskHeld ==
    /\ ask \in AskRow
    /\ ask.late.stored <= 1 /\ ask.late.live <= 1
    /\ ask.at \in {"recheck", "send"} => ask.late.live = 0
    /\ ask.at = "send" => ask.late.stored = 0
    /\ ask.at \in Begun /\ ask.left = 0 => ask.id \in done
    /\ ask.at = "append" => ask.id \in done

TalkHeld ==
    /\ IsFiniteSet(talk)
    /\ \A t \in talk : t.id \in Nat
    /\ ContextIsDelivered

DiscordInv == ConfigOK /\ JobOK /\ ServiceOK /\ LockHeld /\ AskHeld /\ TalkHeld

-----------------------------------------------------------------------------
(* The values rows start from. *)

LEMMA DraftRow == Draft \in BindingRow /\ Draft.config \in Configurations
  BY DEF Draft, BindingRow, Configurations

LEMMA ChannelIsRow == Channel \in ChannelRow
  BY DEF Channel, ChannelRow, Permissions

LEMMA NoCaptureRow == NoCapture \in CaptureRow
  BY DEF NoCapture, CaptureRow

LEMMA NoJobRow == NoJob \in JobRow /\ NoJob.at = "none"
  BY DEF NoJob, JobRow, JobAts

LEMMA NoRunRow == NoGateway \in RunRow /\ NoGateway.at = "none"
  BY NoCaptureRow DEF NoGateway, RunRow, RunAts

LEMMA NoAskRow == NoAsk \in AskRow /\ NoAsk.at = "idle" /\ NoAsk.late = [stored |-> 0, live |-> 0]
  BY DraftRow, ChannelIsRow, NoCaptureRow, DiscordAssumption DEF NoAsk, AskRow, AskAts, Access

LEMMA InitInv == Init => DiscordInv
  <1> SUFFICES ASSUME Init PROVE DiscordInv
    OBVIOUS
  <1>1. ConfigOK
    <2>1. binding \in [Bindings -> BindingRow]
      BY DraftRow DEF Init, BindingRow, Configurations
    <2> QED
      BY <2>1, ChannelIsRow DEF Init, ConfigOK, ConnRow, Access
  <1>2. JobOK
    BY NoJobRow DEF Init, JobOK
  <1>3. ServiceOK /\ LockHeld
    <2>1. \A g \in Slots : gateway[g] = NoGateway
      BY DEF Init
    <2>2. gateway \in [Slots -> RunRow]
      BY <2>1, NoRunRow DEF Init
    <2>3. scan \in [Processes -> Seq(Seq(CaptureRow))]
      BY DEF Init
    <2> QED
      BY <2>1, <2>2, <2>3, NoRunRow DEF Init, ServiceOK, LockHeld, Holding
  <1>4. AskHeld
    BY NoAskRow DEF Init, AskHeld, Begun
  <1>5. TalkHeld
    BY FS_EmptySet DEF Init, TalkHeld, ContextIsDelivered
  <1> QED
    BY <1>1, <1>2, <1>3, <1>4, <1>5 DEF DiscordInv

-----------------------------------------------------------------------------
(* Steps that leave a part alone. *)

LEMMA ServiceFrame ==
    ASSUME ServiceOK, LockHeld, UNCHANGED service
    PROVE  ServiceOK' /\ LockHeld'
  BY DEF ServiceOK, LockHeld, service

LEMMA ChatFrame ==
    ASSUME AskHeld, TalkHeld, UNCHANGED <<ask, talk, done>>
    PROVE  AskHeld' /\ TalkHeld'
  BY DEF AskHeld, TalkHeld, ContextIsDelivered

LEMMA ConfigFrame ==
    ASSUME ConfigOK, UNCHANGED <<conn, secret, binding, agent, guild, directory>>, stimuli' \in Nat
    PROVE  ConfigOK'
  BY DEF ConfigOK

LEMMA JobFrame == ASSUME JobOK, UNCHANGED job PROVE JobOK'
  BY DEF JobOK

\* A step of an operator or of the worker touches neither a run nor a question.
LEMMA RowsStep ==
    ASSUME DiscordInv, UNCHANGED service, UNCHANGED <<ask, talk, done>>, ConfigOK', JobOK'
    PROVE  DiscordInv'
  BY ServiceFrame, ChatFrame DEF DiscordInv

-----------------------------------------------------------------------------
(* Commands of operators. *)

LEMMA StimulusStep ==
    ASSUME ConfigOK, Stimulus
    PROVE  stimuli' \in Nat /\ stimuli' # stimuli
  BY DEF ConfigOK, Stimulus

LEMMA ConnectionJobRow ==
    ASSUME ConfigOK, NEW a \in {"validate", "refresh"}
    PROVE  LET j == [NoJob EXCEPT !.at = "queued", !.action = a, !.version = conn.version, !.cred = conn.cred]
           IN  j \in JobRow /\ j.at = "queued"
  BY NoJobRow DEF ConfigOK, ConnRow, JobRow, JobAts

LEMMA BindingJobRow ==
    ASSUME ConfigOK, NEW a \in {"register_command", "test_message"}, NEW b \in Bindings, NEW v \in Nat
    PROVE  BindingJob(a, b, v) \in JobRow /\ BindingJob(a, b, v).at = "queued"
  BY NoJobRow DEF ConfigOK, ConnRow, JobRow, JobAts, BindingJob

LEMMA RegisterOK ==
    ASSUME ConfigOK, JobOK, NEW b \in Bindings, NEW c, NEW v \in Nat, Register(b, c, v)
    PROVE  JobOK'
  BY BindingJobRow DEF JobOK, Register

LEMMA CommandStep ==
    ASSUME DiscordInv, Command, UNCHANGED talk, ConfigOK', JobOK'
    PROVE  DiscordInv'
  BY RowsStep DEF Command

\* TerminalCallback keeps the types.
LEMMA DisableOK ==
    ASSUME ConfigOK, NEW bs, Disable(bs)
    PROVE  binding' \in [Bindings -> BindingRow]
  <1>1. \A x \in BindingRow, n \in Nat :
            [x EXCEPT !.enabled = FALSE, !.health = "UNHEALTHY", !.version = n] \in BindingRow
    BY DEF BindingRow
  <1>2. \A b \in Bindings : binding[b] \in BindingRow /\ binding[b].version + 1 \in Nat
    BY DEF ConfigOK, BindingRow
  <1>3. \A b \in Bindings : Unhealthy(binding[b]) \in BindingRow
    BY <1>1, <1>2 DEF Unhealthy
  <1> QED
    BY <1>2, <1>3 DEF Disable

LEMMA CallbackOK ==
    ASSUME ConfigOK, TerminalCallback, UNCHANGED <<secret, agent, guild, directory>>, stimuli' \in Nat
    PROVE  ConfigOK' /\ JobOK'
  <1>1. binding' \in [Bindings -> BindingRow]
    BY DisableOK DEF TerminalCallback
  <1>2. conn' \in ConnRow
    BY DEF TerminalCallback, ConfigOK, ConnRow
  <1> QED
    BY <1>1, <1>2, NoJobRow DEF TerminalCallback, ConfigOK, JobOK

LEMMA OperatorStep ==
    ASSUME DiscordInv, Operators
    PROVE  DiscordInv' /\ stimuli' # stimuli
  <1> USE DEF DiscordInv
  <1>1. ASSUME NEW a \in {"validate", "refresh"}, RequestConnectionJob(a)
        PROVE  DiscordInv' /\ stimuli' # stimuli
    <2>1. Command /\ Stimulus /\ UNCHANGED talk
      BY <1>1 DEF RequestConnectionJob, Command
    <2>2. ConfigOK'
      BY <1>1, <2>1, StimulusStep, ConfigFrame DEF RequestConnectionJob, Command, outside, config
    <2>3. JobOK'
      BY <1>1, ConnectionJobRow DEF RequestConnectionJob, JobOK
    <2> QED
      BY <2>1, <2>2, <2>3, StimulusStep, CommandStep
  <1>2. ASSUME NEW l \in {"ENABLED", "DISABLED"}, UpdateConnection(l)
        PROVE  DiscordInv' /\ stimuli' # stimuli
    <2>1. Command /\ Stimulus /\ UNCHANGED talk
      BY <1>2 DEF UpdateConnection, Command
    <2>0. conn' \in ConnRow
      <3>1. \A n \in Nat : [conn EXCEPT !.lifecycle = l, !.version = n,
                  !.state = IF l = "DISABLED" THEN "DISABLED"
                            ELSE IF @ = "DISABLED" THEN "CONNECTING" ELSE @] \in ConnRow
        BY DEF ConfigOK, ConnRow
      <3>2. conn.version + 1 \in Nat
        BY DEF ConfigOK, ConnRow
      <3> QED
        BY <1>2, <3>1, <3>2 DEF UpdateConnection
    <2>2. ConfigOK'
      BY <1>2, <2>0, <2>1, StimulusStep DEF UpdateConnection, Command, outside, ConfigOK
    <2>3. JobOK'
      BY <1>2, JobFrame DEF UpdateConnection
    <2> QED
      BY <2>1, <2>2, <2>3, StimulusStep, CommandStep
  <1>3. ASSUME RotateConnectionToken PROVE DiscordInv' /\ stimuli' # stimuli
    <2>1. Command /\ Stimulus /\ UNCHANGED talk
      BY <1>3 DEF RotateConnectionToken, Command
    <2>0. conn' \in ConnRow
      <3>1. \A n \in Nat : [conn EXCEPT !.cred = secret, !.state = "CONNECTING", !.version = n] \in ConnRow
        BY DEF ConfigOK, ConnRow
      <3>2. conn.version + 1 \in Nat
        BY DEF ConfigOK, ConnRow
      <3> QED
        BY <1>3, <3>1, <3>2 DEF RotateConnectionToken
    <2>2. ConfigOK'
      BY <1>3, <2>0, <2>1, StimulusStep DEF RotateConnectionToken, Command, outside, ConfigOK
    <2>3. JobOK'
      BY <1>3, JobFrame DEF RotateConnectionToken
    <2> QED
      BY <2>1, <2>2, <2>3, StimulusStep, CommandStep
  <1>4. ASSUME RotateSecret PROVE DiscordInv' /\ stimuli' # stimuli
    <2>1. Command /\ Stimulus /\ UNCHANGED talk
      BY <1>4 DEF RotateSecret, Command
    <2>2. ConfigOK'
      BY <1>4, <2>1, StimulusStep DEF RotateSecret, Command, outside, ConfigOK
    <2>3. JobOK'
      BY <1>4, JobFrame DEF RotateSecret
    <2> QED
      BY <2>1, <2>2, <2>3, StimulusStep, CommandStep
  <1>5. ASSUME ChangeAgent PROVE DiscordInv' /\ stimuli' # stimuli
    <2>1. Command /\ Stimulus /\ UNCHANGED talk
      BY <1>5 DEF ChangeAgent, Command
    <2>2. ConfigOK'
      BY <1>5, <2>1, StimulusStep DEF ChangeAgent, Command, outside, ConfigOK, Access
    <2>3. JobOK'
      BY <1>5, JobFrame DEF ChangeAgent
    <2> QED
      BY <2>1, <2>2, <2>3, StimulusStep, CommandStep
  <1>6. ASSUME ChangeGuild PROVE DiscordInv' /\ stimuli' # stimuli
    <2>1. Stimulus /\ UNCHANGED <<service, ask, talk, done, job, conn, secret, binding, agent, directory>>
      BY <1>6 DEF ChangeGuild, config, chat
    <2>2. guild' \in [channel : ChannelRow, roles : SUBSET {"member"}]
      <3>1. guild.channel \in ChannelRow /\ guild.roles \in SUBSET {"member"}
        BY DEF ConfigOK
      <3>2. \A c \in ChannelRow : [guild EXCEPT !.channel = c] \in [channel : ChannelRow, roles : SUBSET {"member"}]
        BY DEF ConfigOK
      <3>3. [guild.channel EXCEPT !.open = ~@] \in ChannelRow
        BY <3>1 DEF ChannelRow
      <3>4. [guild.channel EXCEPT !.permissions = IF @ = {"read"} THEN Permissions ELSE {"read"}] \in ChannelRow
        BY <3>1 DEF ChannelRow, Permissions
      <3>5. [guild EXCEPT !.roles = IF @ = {} THEN {"member"} ELSE {}] \in [channel : ChannelRow, roles : SUBSET {"member"}]
        BY DEF ConfigOK
      <3> QED
        BY <1>6, <3>2, <3>3, <3>4, <3>5 DEF ChangeGuild
    <2>3. ConfigOK'
      BY <2>1, <2>2, StimulusStep DEF ConfigOK
    <2> QED
      BY <2>1, <2>3, StimulusStep, JobFrame, RowsStep
  <1>7. ASSUME NEW b \in Bindings, DeleteBinding(b) PROVE DiscordInv' /\ stimuli' # stimuli
    <2>1. Command /\ Stimulus /\ UNCHANGED talk
      BY <1>7 DEF DeleteBinding, Command
    <2>2. binding' \in [Bindings -> BindingRow]
      <3>1. \A x \in BindingRow, n \in Nat :
              [x EXCEPT !.enabled = FALSE, !.health = "DRAFT", !.deleted = TRUE, !.version = n] \in BindingRow
        BY DEF BindingRow
      <3>2. binding[b] \in BindingRow /\ binding[b].version + 1 \in Nat
        BY DEF ConfigOK, BindingRow
      <3> DEFINE row == [binding[b] EXCEPT !.enabled = FALSE, !.health = "DRAFT", !.deleted = TRUE, !.version = @ + 1]
      <3>3. row \in BindingRow
        BY <3>1, <3>2
      <3>4. binding' = [binding EXCEPT ![b] = row]
        BY <1>7 DEF DeleteBinding
      <3> HIDE DEF row
      <3> QED
        BY <3>3, <3>4 DEF ConfigOK
    <2>3. ConfigOK'
      BY <1>7, <2>1, <2>2, StimulusStep DEF DeleteBinding, Command, outside, ConfigOK
    <2> QED
      BY <1>7, <2>1, <2>3, StimulusStep, JobFrame, CommandStep DEF DeleteBinding
  <1>8. ASSUME NEW b \in Bindings, ValidateBinding(b) PROVE DiscordInv' /\ stimuli' # stimuli
    <2>1. Command /\ Stimulus /\ UNCHANGED talk
      BY <1>8 DEF ValidateBinding, Command
    <2>2. binding' \in [Bindings -> BindingRow]
      BY <1>8 DEF ValidateBinding, ConfigOK, BindingRow
    <2>3. ConfigOK'
      BY <1>8, <2>1, <2>2, StimulusStep DEF ValidateBinding, Command, outside, ConfigOK
    <2> QED
      BY <1>8, <2>1, <2>3, StimulusStep, JobFrame, CommandStep DEF ValidateBinding
  <1>9. ASSUME NEW b \in Bindings, RequestTestMessage(b) PROVE DiscordInv' /\ stimuli' # stimuli
    <2>1. Command /\ Stimulus /\ UNCHANGED talk
      BY <1>9 DEF RequestTestMessage, Command
    <2>2. ConfigOK'
      BY <1>9, <2>1, StimulusStep, ConfigFrame DEF RequestTestMessage, Command, outside, config
    <2>3. binding[b].version \in Nat
      BY DEF ConfigOK, BindingRow
    <2>4. JobOK'
      BY <1>9, <2>3, BindingJobRow DEF RequestTestMessage, JobOK
    <2> QED
      BY <2>1, <2>2, <2>4, StimulusStep, CommandStep
  <1>10. ASSUME NEW b \in Bindings, NEW c \in Settings, CreateBinding(b, c)
         PROVE  DiscordInv' /\ stimuli' # stimuli
    <2>1. Command /\ Stimulus /\ UNCHANGED talk
      BY <1>10 DEF CreateBinding, Command
    <2>2. binding' \in [Bindings -> BindingRow]
      BY <1>10 DEF CreateBinding, ConfigOK, BindingRow, Configurations
    <2>3. ConfigOK'
      BY <1>10, <2>1, <2>2, StimulusStep DEF CreateBinding, Command, outside, ConfigOK
    <2>4. JobOK'
      BY <1>10, RegisterOK DEF CreateBinding
    <2> QED
      BY <2>1, <2>3, <2>4, StimulusStep, CommandStep
  <1>11. ASSUME NEW b \in Bindings, NEW c \in Settings, NEW e \in BOOLEAN, UpdateBinding(b, c, e)
         PROVE  DiscordInv' /\ stimuli' # stimuli
    <2>1. Command /\ Stimulus /\ UNCHANGED talk
      BY <1>11 DEF UpdateBinding, Command
    <2>2. binding' \in [Bindings -> BindingRow]
      <3>1. \A x \in BindingRow, n \in Nat :
              [x EXCEPT !.config = c, !.version = n, !.enabled = e,
                        !.health = IF e THEN "HEALTHY" ELSE "DRAFT"] \in BindingRow
        BY DEF BindingRow, Configurations
      <3>2. binding[b] \in BindingRow /\ binding[b].version + 1 \in Nat
        BY DEF ConfigOK, BindingRow
      <3> DEFINE row == [binding[b] EXCEPT !.config = c, !.version = @ + 1, !.enabled = e,
                                           !.health = IF e THEN "HEALTHY" ELSE "DRAFT"]
      <3>3. row \in BindingRow
        BY <3>1, <3>2
      <3>4. binding' = [binding EXCEPT ![b] = row]
        BY <1>11 DEF UpdateBinding
      <3> HIDE DEF row
      <3> QED
        BY <3>3, <3>4 DEF ConfigOK
    <2>3. ConfigOK'
      BY <1>11, <2>1, <2>2, StimulusStep DEF UpdateBinding, Command, outside, ConfigOK
    <2>4. binding[b].version + 1 \in Nat
      BY DEF ConfigOK, BindingRow
    <2>5. JobOK'
      BY <1>11, <2>4, RegisterOK, JobFrame DEF UpdateBinding
    <2> QED
      BY <2>1, <2>3, <2>5, StimulusStep, CommandStep
  <1>12. ASSUME CancelJob PROVE DiscordInv' /\ stimuli' # stimuli
    <2>1. Stimulus /\ UNCHANGED <<service, ask, talk, done, secret, agent, guild, directory>>
      BY <1>12 DEF CancelJob, outside, chat
    <2>2. ConfigOK' /\ JobOK'
      BY <1>12, <2>1, StimulusStep, CallbackOK DEF CancelJob
    <2> QED
      BY <2>1, <2>2, StimulusStep, RowsStep
  <1> QED
    BY <1>1, <1>2, <1>3, <1>4, <1>5, <1>6, <1>7, <1>8, <1>9, <1>10, <1>11, <1>12 DEF Operators

-----------------------------------------------------------------------------
(* The worker's job. *)

\* The handler moves on, and nothing else does.
LEMMA OnlyOK ==
    ASSUME DiscordInv, NEW at \in JobAts, Only(at), at = "acting" => job.action # "refresh" \/ job.seen # <<>>
    PROVE  DiscordInv'
  <1>1. ConfigOK' /\ UNCHANGED <<service, ask, talk, done>>
    BY ConfigFrame DEF Only, JobStep, DiscordInv, ConfigOK, chat
  <1>2. JobOK'
    BY DEF Only, DiscordInv, JobOK, JobRow
  <1> QED
    BY <1>1, <1>2, RowsStep

\* The handler has ended, or a row was changed that its type allows.
LEMMA WorkerOK ==
    ASSUME DiscordInv, JobStep, JobOK', conn' \in ConnRow, binding' \in [Bindings -> BindingRow],
           directory' \in [channel : ChannelRow, fresh : BOOLEAN]
    PROVE  DiscordInv'
  <1>1. ConfigOK' /\ UNCHANGED <<service, ask, talk, done>>
    BY DEF JobStep, DiscordInv, ConfigOK, chat
  <1> QED
    BY <1>1, RowsStep

LEMMA RowTypes ==
    ASSUME DiscordInv
    PROVE  /\ conn \in ConnRow /\ binding \in [Bindings -> BindingRow]
           /\ directory \in [channel : ChannelRow, fresh : BOOLEAN] /\ guild.channel \in ChannelRow
           /\ job \in JobRow /\ job.at \in JobAts
           /\ \A s \in {"CONNECTING", "READY", "DEGRADED"} : [conn EXCEPT !.state = s] \in ConnRow
  BY DEF DiscordInv, ConfigOK, ConnRow, JobOK, JobRow

LEMMA NoJobOK == ASSUME job' = NoJob PROVE JobOK'
  BY NoJobRow DEF JobOK

LEMMA ClaimStep == ASSUME DiscordInv, ClaimJob PROVE DiscordInv'
  <1>1. \A n \in Nat : [job EXCEPT !.at = "claimed", !.attempts = n] \in JobRow
    BY RowTypes DEF JobRow, JobAts
  <1>2. job.attempts + 1 \in Nat
    BY RowTypes DEF JobRow
  <1>3. job' \in JobRow /\ job'.at = "claimed"
    BY <1>1, <1>2, RowTypes DEF ClaimJob, JobRow
  <1>4. JobOK'
    BY <1>3 DEF JobOK
  <1> QED
    BY <1>4, RowTypes, WorkerOK DEF ClaimJob

LEMMA LeaseTokenStep == ASSUME DiscordInv, LeaseToken PROVE DiscordInv'
  BY OnlyOK DEF LeaseToken, JobAts

LEMMA ValidateTokenStep == ASSUME DiscordInv, ValidateToken PROVE DiscordInv'
  BY OnlyOK DEF ValidateToken, JobAts

LEMMA RefreshServersStep == ASSUME DiscordInv, RefreshServers PROVE DiscordInv'
  <1>1. CASE Only("failed") \/ Only("refused")
    BY <1>1, OnlyOK DEF JobAts
  <1>2. CASE /\ job' = [job EXCEPT !.at = "acting", !.seen = <<guild.channel>>]
             /\ UNCHANGED <<conn, binding, directory, faults>> /\ JobStep
    <2>1. <<guild.channel>> \in Seq(ChannelRow) /\ <<guild.channel>> # <<>>
      BY RowTypes
    <2>2. \A s \in Seq(ChannelRow) : [job EXCEPT !.at = "acting", !.seen = s] \in JobRow
                                     /\ [job EXCEPT !.at = "acting", !.seen = s].seen = s
      BY RowTypes DEF JobRow, JobAts
    <2>3. JobOK'
      BY <1>2, <2>1, <2>2 DEF JobOK
    <2> QED
      BY <1>2, <2>3, RowTypes, WorkerOK
  <1> QED
    BY <1>1, <1>2 DEF RefreshServers

LEMMA DiscordFailsStep == ASSUME DiscordInv, DiscordFails PROVE DiscordInv'
  <1>1. PICK at \in {"unregistered", "failing", "refused"} : job' = [job EXCEPT !.at = at]
    BY DEF DiscordFails
  <1>2. JobOK'
    BY <1>1, RowTypes DEF JobOK, JobRow, JobAts
  <1> QED
    BY <1>2, RowTypes, WorkerOK DEF DiscordFails

LEMMA CompleteIdentityStep == ASSUME DiscordInv, CompleteIdentity PROVE DiscordInv'
  <1>1. CASE Only("failed")
    BY <1>1, OnlyOK DEF JobAts
  <1>2. CASE /\ conn' = [conn EXCEPT !.state = "CONNECTING"] /\ job' = NoJob
             /\ UNCHANGED <<binding, directory, faults>> /\ JobStep
    BY <1>2, NoJobOK, RowTypes, WorkerOK
  <1> QED
    BY <1>1, <1>2 DEF CompleteIdentity

LEMMA CompleteRefreshStep == ASSUME DiscordInv, CompleteRefresh PROVE DiscordInv'
  <1>1. CASE Only("failed")
    BY <1>1, OnlyOK DEF JobAts
  <1>2. CASE ~Only("failed")
    <2> DEFINE channel == job.seen[1]
               listed == {<<b, binding'[b].version>> : b \in {x \in Bindings : binding'[x].enabled /\ Slash(binding'[x].config)}}
    <2>1. /\ directory' = [channel |-> channel, fresh |-> TRUE]
          /\ \E bs : Disable(bs)
          /\ job' = [job EXCEPT !.at = "registering", !.slash = listed]
          /\ UNCHANGED conn /\ JobStep
      BY <1>2 DEF CompleteRefresh
    <2>2. channel \in ChannelRow
      BY RowTypes DEF CompleteRefresh, DiscordInv, JobOK, JobRow
    <2>3. binding' \in [Bindings -> BindingRow]
      BY <2>1, DisableOK DEF DiscordInv
    <2>4. listed \in SUBSET (Bindings \X Nat)
      BY <2>3 DEF BindingRow
    <2>5. JobOK'
      <3> HIDE DEF listed
      <3>1. \A s \in SUBSET (Bindings \X Nat) : [job EXCEPT !.at = "registering", !.slash = s] \in JobRow
                                               /\ [job EXCEPT !.at = "registering", !.slash = s].at = "registering"
        BY RowTypes DEF JobRow, JobAts
      <3> QED
        BY <2>1, <2>4, <3>1 DEF JobOK
    <2>6. directory' \in [channel : ChannelRow, fresh : BOOLEAN]
      BY <2>1, <2>2
    <2> QED
      BY <2>1, <2>3, <2>5, <2>6, RowTypes, WorkerOK
  <1> QED
    BY <1>1, <1>2

LEMMA RegisterServerStep == ASSUME DiscordInv, RegisterServer PROVE DiscordInv'
  <1>1. CASE Only("failed") \/ Only("refused")
    BY <1>1, OnlyOK DEF JobAts
  <1>2. CASE job' = NoJob /\ UNCHANGED <<conn, binding, directory, faults>> /\ JobStep
    BY <1>2, NoJobOK, RowTypes, WorkerOK
  <1> QED
    BY <1>1, <1>2 DEF RegisterServer

LEMMA FailCommandStep == ASSUME DiscordInv, FailCommandRegistration PROVE DiscordInv'
  <1>1. CASE Only("failed")
    BY <1>1, OnlyOK DEF JobAts
  <1>2. CASE Disable(StillListed) /\ job' = NoJob /\ UNCHANGED <<conn, directory, faults>> /\ JobStep
    <2>1. binding' \in [Bindings -> BindingRow]
      BY <1>2, DisableOK DEF DiscordInv
    <2> QED
      BY <1>2, <2>1, NoJobOK, RowTypes, WorkerOK
  <1> QED
    BY <1>1, <1>2 DEF FailCommandRegistration

LEMMA ActOnBindingStep == ASSUME DiscordInv, ActOnBinding PROVE DiscordInv'
  <1>1. CASE Only("failed") \/ Only("refused")
    BY <1>1, OnlyOK DEF JobAts
  <1>2. CASE job' = NoJob /\ UNCHANGED <<conn, binding, directory, faults>> /\ JobStep
    BY <1>2, NoJobOK, RowTypes, WorkerOK
  <1> QED
    BY <1>1, <1>2 DEF ActOnBinding

LEMMA FailExecutionStep == ASSUME DiscordInv, FailExecution PROVE DiscordInv'
  <1>1. CASE Only("failed")
    BY <1>1, OnlyOK DEF JobAts
  <1>2. CASE ~Only("failed")
    <2>1. /\ conn' \in {conn, [conn EXCEPT !.state = "DEGRADED"]}
          /\ \E bs : Disable(bs)
          /\ job' = [job EXCEPT !.at = IF @ = "failing" THEN "failed" ELSE "rejected"]
          /\ UNCHANGED directory /\ JobStep
      BY <1>2 DEF FailExecution
    <2>2. binding' \in [Bindings -> BindingRow]
      BY <2>1, DisableOK DEF DiscordInv
    <2>3. JobOK'
      BY <2>1, RowTypes DEF JobOK, JobRow, JobAts
    <2> QED
      BY <2>1, <2>2, <2>3, RowTypes, WorkerOK
  <1> QED
    BY <1>1, <1>2

LEMMA SettleJobStep == ASSUME DiscordInv, SettleJob PROVE DiscordInv'
  <1>1. CASE TerminalCallback
    <2>1. ConfigOK' /\ JobOK' /\ UNCHANGED <<service, ask, talk, done>>
      BY <1>1, CallbackOK DEF SettleJob, JobStep, DiscordInv, ConfigOK, chat
    <2> QED
      BY <2>1, RowsStep
  <1>2. CASE job' = [job EXCEPT !.at = "queued", !.seen = <<>>, !.slash = {}] /\ UNCHANGED <<conn, binding>>
    <2>1. \A s \in Seq(ChannelRow), l \in SUBSET (Bindings \X Nat) :
            /\ [job EXCEPT !.at = "queued", !.seen = s, !.slash = l] \in JobRow
            /\ [job EXCEPT !.at = "queued", !.seen = s, !.slash = l].at = "queued"
      BY RowTypes DEF JobRow, JobAts
    <2>2. <<>> \in Seq(ChannelRow) /\ {} \in SUBSET (Bindings \X Nat)
      OBVIOUS
    <2>3. JobOK'
      BY <1>2, <2>1, <2>2 DEF JobOK
    <2> QED
      BY <1>2, <2>3, RowTypes, WorkerOK DEF SettleJob
  <1> QED
    BY <1>1, <1>2 DEF SettleJob

LEMMA LosePermitStep == ASSUME DiscordInv, LosePermit PROVE DiscordInv'
  <1>1. JobOK'
    BY RowTypes DEF LosePermit, JobOK, JobRow, JobAts
  <1> QED
    BY <1>1, RowTypes, WorkerOK DEF LosePermit

LEMMA WorkerStep == ASSUME DiscordInv, Worker PROVE DiscordInv'
  BY ClaimStep, LeaseTokenStep, ValidateTokenStep, RefreshServersStep, DiscordFailsStep, CompleteIdentityStep,
     CompleteRefreshStep, RegisterServerStep, FailCommandStep, ActOnBindingStep, FailExecutionStep,
     SettleJobStep, LosePermitStep DEF Worker

-----------------------------------------------------------------------------
(* The supervisors. *)

\* A step of a supervisor touches the connection's state, the runs, the lock
\* and whether the question goes on.
LEMMA ServiceStepOK ==
    ASSUME DiscordInv, ServiceStep, conn' \in ConnRow, ServiceOK', LockHeld', AskHeld'
    PROVE  DiscordInv'
  <1>1. ConfigOK'
    BY DEF ServiceStep, outside, DiscordInv, ConfigOK
  <1>2. JobOK' /\ TalkHeld'
    BY DEF ServiceStep, DiscordInv, JobOK, TalkHeld, ContextIsDelivered
  <1> QED
    BY <1>1, <1>2 DEF DiscordInv

LEMMA ReportOK ==
    ASSUME DiscordInv, NEW cap, NEW s \in {"CONNECTING", "READY", "DEGRADED"}, Report(cap, s)
    PROVE  conn' \in ConnRow
  BY RowTypes DEF Report

LEMMA AskStays == ASSUME AskHeld, UNCHANGED <<ask, done>> PROVE AskHeld'
  BY DEF AskHeld

LEMMA AskEnds == ASSUME ask' = NoAsk PROVE AskHeld'
  BY NoAskRow DEF AskHeld, Begun

LEMMA MainSlot == \A p \in Processes : Main(p) \in Slots /\ Old(p) \in Slots /\ Main(p) # Old(p)
  BY DEF Main, Old, Slots

LEMMA NobodyOutside == Nobody \notin Slots /\ Nobody \notin Processes
  BY DiscordAssumption DEF Slots

LEMMA CaptureTypes ==
    ASSUME DiscordInv
    PROVE  Capture \in CaptureRow /\ Desired \in Seq(CaptureRow)
  <1>1. Capture \in CaptureRow
    BY DEF DiscordInv, ConfigOK, ConnRow, Capture, CaptureRow
  <1>2. <<Capture>> \in Seq(CaptureRow) /\ <<>> \in Seq(CaptureRow)
    BY <1>1
  <1> QED
    BY <1>1, <1>2 DEF Desired

LEMMA ReconcileStep == ASSUME DiscordInv, NEW p \in Processes, Reconcile(p) PROVE DiscordInv'
  <1>1. /\ conn' \in {conn, [conn EXCEPT !.state = "DEGRADED"]}
        /\ scan' = [scan EXCEPT ![p] = <<Desired>>]
        /\ gateway' = [gateway EXCEPT ![Main(p)].stop = TRUE]
        /\ EndQuestions(p) /\ UNCHANGED <<owner, lost, done>> /\ ServiceStep
    BY DEF Reconcile, ServiceStep
  <1>2. conn' \in ConnRow
    BY <1>1, RowTypes
  <1>3. gateway' \in [Slots -> RunRow] /\ \A g \in Slots : gateway'[g].at = gateway[g].at
    BY <1>1, MainSlot DEF DiscordInv, ServiceOK, RunRow
  <1>4. <<Desired>> \in Seq(Seq(CaptureRow))
    BY CaptureTypes
  <1>5. ServiceOK'
    BY <1>1, <1>3, <1>4 DEF DiscordInv, ServiceOK
  <1>6. LockHeld'
    BY <1>1, <1>3 DEF DiscordInv, LockHeld
  <1>7. AskHeld'
    BY <1>1 DEF EndQuestions, DiscordInv, AskHeld, AskRow
  <1> QED
    BY <1>1, <1>2, <1>5, <1>6, <1>7, ServiceStepOK

LEMMA StartRunStep == ASSUME DiscordInv, NEW p \in Processes, StartRun(p) PROVE DiscordInv'
  <1> DEFINE row == IF scan[p][1] = <<>> THEN NoGateway
                    ELSE [at |-> "starting", cap |-> scan[p][1][1], stop |-> FALSE]
  <1>1. row \in RunRow /\ row.at \in {"none", "starting"}
    <2>1. scan[p] \in Seq(Seq(CaptureRow)) /\ scan[p] # <<>>
      BY DEF StartRun, DiscordInv, ServiceOK
    <2>2. scan[p][1] \in Seq(CaptureRow)
      BY <2>1
    <2>3. scan[p][1] # <<>> => scan[p][1][1] \in CaptureRow
      BY <2>2
    <2> QED
      BY <2>3, NoRunRow DEF RunRow, RunAts
  <1>2. gateway' = [gateway EXCEPT ![Main(p)] = row] /\ scan' = [scan EXCEPT ![p] = <<>>]
        /\ UNCHANGED <<conn, owner, lost, ask, done>> /\ ServiceStep
    BY DEF StartRun, ServiceStep
  <1> HIDE DEF row
  <1>3. gateway' \in [Slots -> RunRow]
        /\ \A g \in Slots : gateway'[g] = gateway[g] \/ gateway'[g].at \in {"none", "starting"}
    BY <1>1, <1>2, MainSlot DEF DiscordInv, ServiceOK
  <1>4. <<>> \in Seq(Seq(CaptureRow))
    OBVIOUS
  <1>5. ServiceOK'
    BY <1>2, <1>3, <1>4 DEF DiscordInv, ServiceOK
  <1>6. LockHeld'
    BY <1>2, <1>3 DEF DiscordInv, LockHeld, Holding
  <1>7. AskHeld'
    BY <1>2, AskStays DEF DiscordInv
  <1> QED
    BY <1>2, <1>5, <1>6, <1>7, RowTypes, ServiceStepOK

\* The run that is given up takes its lock along.
LEMMA AbandonRunStep == ASSUME DiscordInv, NEW p \in Processes, AbandonRun(p) PROVE DiscordInv'
  <1>1. /\ gateway' = [gateway EXCEPT ![Old(p)] = gateway[Main(p)], ![Main(p)] = NoGateway]
        /\ gateway[Old(p)].at = "none"
        /\ owner' = IF owner = Main(p) THEN Old(p) ELSE owner
        /\ UNCHANGED <<conn, scan, lost, ask, done>> /\ ServiceStep
    BY DEF AbandonRun, ServiceStep
  <1>2. /\ gateway' \in [Slots -> RunRow]
        /\ gateway'[Old(p)] = gateway[Main(p)] /\ gateway'[Main(p)] = NoGateway
        /\ \A g \in Slots \ {Old(p), Main(p)} : gateway'[g] = gateway[g]
    BY <1>1, MainSlot, NoRunRow DEF DiscordInv, ServiceOK
  <1>3. ServiceOK'
    BY <1>1, <1>2 DEF DiscordInv, ServiceOK
  <1>4. LockHeld'
    <2> SUFFICES ASSUME ~lost, NEW g \in Slots, gateway'[g].at \in Holding PROVE owner' = g
      BY <1>1 DEF LockHeld
    <2>1. \A h \in Slots : gateway[h].at \in Holding => owner = h
      BY DEF DiscordInv, LockHeld
    <2>2. g # Main(p)
      BY <1>2, NoRunRow DEF Holding
    <2>3. CASE g = Old(p)
      BY <1>1, <1>2, <2>1, <2>3, MainSlot
    <2>4. CASE g # Old(p)
      BY <1>1, <1>2, <2>1, <2>2, <2>4, MainSlot
    <2> QED
      BY <2>3, <2>4
  <1>5. AskHeld'
    BY <1>1, AskStays DEF DiscordInv
  <1> QED
    BY <1>1, <1>3, <1>4, <1>5, RowTypes, ServiceStepOK

LEMMA KillProcessStep == ASSUME DiscordInv, NEW p \in Processes, KillProcess(p) PROVE DiscordInv'
  <1>1. /\ gateway' = [g \in Slots |-> IF g[1] = p THEN NoGateway ELSE gateway[g]]
        /\ scan' = [scan EXCEPT ![p] = <<>>]
        /\ owner' = IF owner \in {Main(p), Old(p)} THEN Nobody ELSE owner
        /\ ask' = (IF ask.proc = p THEN NoAsk ELSE ask)
        /\ UNCHANGED <<conn, lost, done>> /\ ServiceStep
    BY DEF KillProcess, ServiceStep
  <1>2. gateway' \in [Slots -> RunRow] /\ scan' \in [Processes -> Seq(Seq(CaptureRow))]
    BY <1>1, NoRunRow DEF DiscordInv, ServiceOK
  <1>3. ServiceOK'
    BY <1>1, <1>2 DEF DiscordInv, ServiceOK
  <1>4. LockHeld'
    <2> SUFFICES ASSUME ~lost, NEW g \in Slots, gateway'[g].at \in Holding PROVE owner' = g
      BY <1>1 DEF LockHeld
    <2>1. g[1] # p
      BY <1>1, NoRunRow DEF Holding
    <2>2. owner = g
      BY <1>1, <2>1 DEF DiscordInv, LockHeld
    <2>3. g \notin {Main(p), Old(p)}
      BY <2>1 DEF Main, Old
    <2> QED
      BY <1>1, <2>2, <2>3
  <1>5. AskHeld'
    BY <1>1, AskStays, AskEnds DEF DiscordInv
  <1> QED
    BY <1>1, <1>3, <1>4, <1>5, RowTypes, ServiceStepOK

LEMMA LoseLockStep == ASSUME DiscordInv, LoseLock PROVE DiscordInv'
  <1>1. lost' = TRUE /\ UNCHANGED <<conn, gateway, scan, ask, done>> /\ ServiceStep
    BY DEF LoseLock, ServiceStep
  <1>2. ServiceOK' /\ LockHeld'
    BY <1>1 DEF DiscordInv, ServiceOK, LockHeld
  <1> QED
    BY <1>1, <1>2, AskStays, RowTypes, ServiceStepOK DEF DiscordInv

\* What becomes of a run that goes on or ends.
LEMMA RunToRow ==
    ASSUME DiscordInv, NEW g \in Slots, NEW at \in RunAts, RunTo(g, at)
    PROVE  /\ gateway' \in [Slots -> RunRow]
           /\ gateway'[g].at \in {at, "none"}
           /\ \A h \in Slots \ {g} : gateway'[h] = gateway[h]
  <1>1. gateway[g] \in RunRow
    BY DEF DiscordInv, ServiceOK
  <1>2. [gateway[g] EXCEPT !.at = at] \in RunRow /\ [gateway[g] EXCEPT !.at = at].at = at
    BY <1>1 DEF RunRow
  <1> DEFINE row == IF <<at, g[2]>> = <<"ended", "old">> THEN NoGateway ELSE [gateway[g] EXCEPT !.at = at]
  <1>3. row \in RunRow /\ row.at \in {at, "none"}
    BY <1>2, NoRunRow
  <1>4. gateway' = [gateway EXCEPT ![g] = row]
    BY DEF RunTo
  <1> HIDE DEF row
  <1> QED
    BY <1>3, <1>4 DEF DiscordInv, ServiceOK

\* The lock stays where it is while its run goes on.
LEMMA RunGoesOn ==
    ASSUME DiscordInv, NEW g \in Slots, NEW at \in RunAts, RunTo(g, at), ServiceStep,
           at \in Holding => gateway[g].at \in Holding,
           UNCHANGED <<scan, owner, lost, ask>>, conn' \in ConnRow
    PROVE  DiscordInv'
  <1>1. ServiceOK'
    BY RunToRow DEF DiscordInv, ServiceOK
  <1>2. LockHeld'
    BY RunToRow DEF DiscordInv, LockHeld, Holding
  <1> QED
    BY <1>1, <1>2, AskStays, ServiceStepOK DEF DiscordInv, ServiceStep

LEMMA AcquireStep == ASSUME DiscordInv, NEW g \in Slots, AcquireOwnership(g) PROVE DiscordInv'
  <1>0. UNCHANGED <<scan, lost, ask, done>> /\ ServiceStep
    BY DEF AcquireOwnership, ServiceStep
  <1>1. CASE RunTo(g, "ended") /\ Report(gateway[g].cap, "DEGRADED") /\ UNCHANGED owner
    BY <1>0, <1>1, ReportOK, RunGoesOn DEF RunAts, Holding
  <1>2. CASE owner = Nobody /\ RunTo(g, "owned") /\ owner' = g /\ UNCHANGED conn
    <2>1. ServiceOK'
      BY <1>0, <1>2, RunToRow DEF DiscordInv, ServiceOK, RunAts
    <2>2. LockHeld'
      <3>1. ~lost => \A h \in Slots : gateway[h].at \notin Holding
        BY <1>2, NobodyOutside DEF DiscordInv, LockHeld
      <3>2. \A h \in Slots \ {g} : gateway'[h] = gateway[h]
        BY <1>2, RunToRow DEF RunAts
      <3> QED
        BY <1>0, <1>2, <3>1, <3>2 DEF LockHeld
    <2> QED
      BY <1>0, <1>2, <2>1, <2>2, AskStays, RowTypes, ServiceStepOK DEF DiscordInv
  <1>3. CASE RunTo(g, "ended") /\ UNCHANGED <<conn, owner>>
    BY <1>0, <1>3, RowTypes, RunGoesOn DEF RunAts, Holding
  <1> QED
    BY <1>1, <1>2, <1>3 DEF AcquireOwnership

LEMMA ConnectingStep == ASSUME DiscordInv, NEW g \in Slots, ReportConnecting(g) PROVE DiscordInv'
  <1>0. UNCHANGED <<scan, owner, lost, ask>> /\ ServiceStep /\ gateway[g].at \in Holding
    BY DEF ReportConnecting, RunAt, Holding
  <1>1. CASE RunTo(g, "closing") /\ UNCHANGED conn
    BY <1>0, <1>1, RowTypes, RunGoesOn DEF RunAts
  <1>2. CASE RunTo(g, "opening") /\ Report(gateway[g].cap, "CONNECTING")
    BY <1>0, <1>2, ReportOK, RunGoesOn DEF RunAts
  <1> QED
    BY <1>1, <1>2 DEF ReportConnecting

LEMMA OpenStep == ASSUME DiscordInv, NEW g \in Slots, OpenSession(g) PROVE DiscordInv'
  <1>0. UNCHANGED <<conn, scan, owner, lost, ask>> /\ ServiceStep /\ gateway[g].at \in Holding
        /\ (RunTo(g, "closing") \/ RunTo(g, "open"))
    BY DEF OpenSession, RunAt, Holding
  <1> QED
    BY <1>0, RowTypes, RunGoesOn DEF RunAts

LEMMA OpenFailsStep == ASSUME DiscordInv, NEW g \in Slots, OpenFails(g) PROVE DiscordInv'
  <1>0. UNCHANGED <<scan, owner, lost, ask>> /\ ServiceStep /\ gateway[g].at \in Holding /\ RunTo(g, "closing")
        /\ (UNCHANGED conn \/ Report(gateway[g].cap, "DEGRADED"))
    BY DEF OpenFails, RunAt, Holding
  <1>1. conn' \in ConnRow
    BY <1>0, RowTypes, ReportOK
  <1> QED
    BY <1>0, <1>1, RunGoesOn DEF RunAts

LEMMA ReadyStep == ASSUME DiscordInv, NEW g \in Slots, GatewayReady(g) PROVE DiscordInv'
  <1>1. conn' \in ConnRow /\ ServiceStep /\ UNCHANGED service /\ UNCHANGED <<ask, done>>
    BY ReportOK DEF GatewayReady, ServiceStep
  <1> QED
    BY <1>1, ServiceFrame, AskStays, ServiceStepOK DEF DiscordInv

LEMMA CloseStep == ASSUME DiscordInv, NEW g \in Slots, CloseSession(g) PROVE DiscordInv'
  <1>0. UNCHANGED <<conn, scan, owner, lost, ask>> /\ ServiceStep /\ gateway[g].at \in Holding /\ RunTo(g, "closing")
    BY DEF CloseSession, RunAt, Holding
  <1> QED
    BY <1>0, RowTypes, RunGoesOn DEF RunAts

LEMMA ReleaseStep == ASSUME DiscordInv, NEW g \in Slots, ReleaseOwnership(g) PROVE DiscordInv'
  <1>0. UNCHANGED <<conn, scan, lost, ask, done>> /\ ServiceStep /\ RunTo(g, "ended")
        /\ owner' = (IF owner = g THEN Nobody ELSE owner)
    BY DEF ReleaseOwnership, ServiceStep
  <1>1. ServiceOK'
    BY <1>0, RunToRow DEF DiscordInv, ServiceOK, RunAts
  <1>2. LockHeld'
    <2>1. gateway'[g].at \notin Holding /\ \A h \in Slots \ {g} : gateway'[h] = gateway[h]
      BY <1>0, RunToRow DEF RunAts, Holding
    <2> QED
      BY <1>0, <2>1 DEF DiscordInv, LockHeld
  <1> QED
    BY <1>0, <1>1, <1>2, AskStays, RowTypes, ServiceStepOK DEF DiscordInv

LEMMA SupervisorStep == ASSUME DiscordInv, Supervisors PROVE DiscordInv'
  BY ReconcileStep, StartRunStep, AbandonRunStep, KillProcessStep, LoseLockStep, AcquireStep, ConnectingStep,
     OpenStep, OpenFailsStep, ReadyStep, CloseStep, ReleaseStep DEF Supervisors, RunStep

-----------------------------------------------------------------------------
(* The question. *)

\* A nonempty set of naturals has a least element.
LEMMA LeastId ==
    ASSUME NEW T \in SUBSET Nat, T # {}
    PROVE  \E x \in T : \A y \in T : x <= y
  <1> DEFINE R == {ss \in Nat \X Nat : ss[1] < ss[2]}
  <1>1. IsWellFoundedOn(R, Nat)
    BY NatLessThanWellFounded, Zenon DEF OpToRel
  <1>2. \A x, y \in Nat : y < x => <<y, x>> \in R
    OBVIOUS
  <1> HIDE DEF R
  <1>3. PICK x \in T : \A y \in T : ~(<<y, x>> \in R)
    BY <1>1, WFMin, Zenon
  <1>4. \A y \in T : ~(y < x)
    BY <1>2, <1>3
  <1> QED
    BY <1>4

\* What pruneContext keeps of the conversation is within its bound: the oldest
\* turn it keeps has no more than that many at or after it.
LEMMA PrunedBound ==
    ASSUME NEW turns, IsFiniteSet(turns), \A t \in turns : t.id \in Nat, NEW key
    PROVE  Cardinality({n \in PruneContext(turns, key) : n.key = key}) <= MaxTurns
  <1> DEFINE kept == {n \in PruneContext(turns, key) : n.key = key}
             ids == {n.id : n \in kept}
             from(t) == {n \in turns : n.key = key /\ n.id >= t.id}
  <1>0. MaxTurns \in Nat
    BY DiscordAssumption
  <1>1. kept \in SUBSET turns /\ \A t \in kept : Cardinality(from(t)) <= MaxTurns
    BY DEF PruneContext
  <1>2. CASE kept = {}
    BY <1>0, <1>2, FS_EmptySet
  <1>3. CASE kept # {}
    <2>1. ids \in SUBSET Nat /\ ids # {}
      BY <1>1, <1>3
    <2>2. PICK t \in kept : \A y \in ids : t.id <= y
      BY <2>1, LeastId
    <2>3. kept \in SUBSET from(t)
      BY <1>1, <2>2
    <2>4. IsFiniteSet(from(t))
      BY FS_Subset
    <2>5. IsFiniteSet(kept) /\ Cardinality(kept) <= Cardinality(from(t))
      BY <2>3, <2>4, FS_Subset
    <2>6. Cardinality(kept) \in Nat /\ Cardinality(from(t)) \in Nat /\ Cardinality(from(t)) <= MaxTurns
      BY <1>1, <2>4, <2>5, FS_CardinalityType
    <2> QED
      BY <1>0, <2>5, <2>6
  <1> QED
    BY <1>2, <1>3

\* A step of the question touches the connection's state, itself and what is
\* remembered.
LEMMA AskStepOK ==
    ASSUME DiscordInv, AskStep, conn' \in ConnRow, AskHeld', TalkHeld'
    PROVE  DiscordInv'
  <1>1. ConfigOK'
    BY DEF AskStep, outside, DiscordInv, ConfigOK
  <1>2. JobOK' /\ ServiceOK' /\ LockHeld'
    BY ServiceFrame, JobFrame DEF AskStep, DiscordInv
  <1> QED
    BY <1>1, <1>2 DEF DiscordInv

LEMMA TalkStays ==
    ASSUME TalkHeld, UNCHANGED talk, done \subseteq done'
    PROVE  TalkHeld'
  BY DEF TalkHeld, ContextIsDelivered

LEMMA EndAskOK == ASSUME DiscordInv, EndAsk PROVE DiscordInv'
  BY AskEnds, TalkStays, RowTypes, AskStepOK DEF EndAsk, DiscordInv

\* The question moves on.
LEMMA AskToOK ==
    ASSUME DiscordInv, NEW at \in AskAts, AskTo(at), at \notin {"recheck", "send"},
           at \in Begun => ask.at \in Begun, at = "append" => ask.at \in Begun /\ ask.left = 0
    PROVE  DiscordInv'
  <1>1. AskHeld'
    BY DEF AskTo, DiscordInv, AskHeld, AskRow, Begun
  <1> QED
    BY <1>1, TalkStays, RowTypes, AskStepOK DEF AskTo, DiscordInv

\* An event reports the connection, and counts.
LEMMA EventOK ==
    ASSUME DiscordInv, Stimulus, NEW cap, Report(cap, "READY"), AskHeld',
           UNCHANGED <<secret, binding, agent, outside, service, job, talk, done>>
    PROVE  DiscordInv'
  <1>1. ConfigOK'
    BY ReportOK, StimulusStep DEF outside, DiscordInv, ConfigOK
  <1>2. JobOK' /\ ServiceOK' /\ LockHeld' /\ TalkHeld'
    BY ServiceFrame, JobFrame, TalkStays DEF DiscordInv
  <1> QED
    BY <1>1, <1>2 DEF DiscordInv

LEMMA ReceiveStep ==
    ASSUME DiscordInv, NEW p \in Processes, NEW t \in {"MENTION", "SLASH_COMMAND"}, Receive(p, t)
    PROVE  DiscordInv'
  <1> DEFINE run == gateway[Main(p)]
  <1>1. run \in RunRow /\ run.cap \in CaptureRow /\ run.stop \in BOOLEAN /\ guild.roles \in SUBSET {"member"}
    BY MainSlot DEF DiscordInv, ServiceOK, RunRow, ConfigOK
  <1>2. /\ Stimulus /\ Report(run.cap, "READY")
        /\ ask' = [NoAsk EXCEPT !.at = "received", !.proc = p, !.live = ~run.stop, !.cap = run.cap,
                 !.id = stimuli', !.trigger = t, !.roles = guild.roles]
        /\ UNCHANGED <<secret, binding, agent, outside, service, job, talk, done>>
    BY DEF Receive
  <1>3. stimuli' \in Nat
    BY <1>2, StimulusStep DEF DiscordInv
  <1> HIDE DEF run
  <1>4. ask' \in AskRow /\ ask'.at = "received" /\ ask'.late = [stored |-> 0, live |-> 0]
    BY <1>1, <1>2, <1>3, NoAskRow DEF AskRow, AskAts
  <1>5. AskHeld'
    BY <1>4 DEF AskHeld, Begun
  <1> QED
    BY <1>2, <1>5, EventOK

LEMMA LeakedStep == ASSUME DiscordInv, LeakedEvent PROVE DiscordInv'
  <1>1. PICK s \in leaked : Report(s[2], "READY")
    BY DEF LeakedEvent
  <1>2. Stimulus /\ UNCHANGED <<secret, binding, agent, outside, service, job, talk, done, ask>>
    BY DEF LeakedEvent, chat
  <1>3. AskHeld'
    BY <1>2, AskStays DEF DiscordInv
  <1> QED
    BY <1>1, <1>2, <1>3, EventOK

LEMMA AuthorizeStep == ASSUME DiscordInv, AuthorizeInvocation PROVE DiscordInv'
  <1>1. CASE EndAsk
    BY <1>1, EndAskOK
  <1>2. CASE ~EndAsk
    <2>1. PICK b \in Bindings :
            /\ ask' = [ask EXCEPT !.at = "rate", !.binding = b, !.bound = binding[b], !.agent = agent.version,
                         !.access = agent.access, !.channel = directory.channel]
            /\ UNCHANGED <<conn, talk, rate, done, faults>> /\ AskStep
      BY <1>2 DEF AuthorizeInvocation, Winner, Routes
    <2>2. binding[b] \in BindingRow /\ agent.version \in Nat /\ agent.access \in Access
          /\ directory.channel \in ChannelRow
      BY DEF DiscordInv, ConfigOK
    <2>3. ask' \in AskRow /\ ask'.at = "rate" /\ ask'.late = ask.late
      BY <2>1, <2>2 DEF DiscordInv, AskHeld, AskRow, AskAts
    <2>4. AskHeld'
      BY <2>3 DEF DiscordInv, AskHeld, Begun
    <2> QED
      BY <2>1, <2>4, TalkStays, RowTypes, AskStepOK DEF DiscordInv
  <1> QED
    BY <1>1, <1>2

LEMMA ConsumeRateStep == ASSUME DiscordInv, ConsumeRate PROVE DiscordInv'
  <1>1. CASE ask' = NoAsk
    BY <1>1, AskEnds, TalkStays, RowTypes, AskStepOK DEF ConsumeRate, DiscordInv
  <1>2. CASE ask' = [ask EXCEPT !.at = "place"]
    <2>1. AskHeld'
      BY <1>2 DEF DiscordInv, AskHeld, AskRow, AskAts, Begun
    <2> QED
      BY <2>1, TalkStays, RowTypes, AskStepOK DEF ConsumeRate, DiscordInv
  <1> QED
    BY <1>1, <1>2 DEF ConsumeRate

LEMMA RateWindowStep == ASSUME DiscordInv, RateWindow PROVE DiscordInv'
  BY AskStays, TalkStays, RowTypes, AskStepOK DEF RateWindow, DiscordInv

LEMMA PlaceStep == ASSUME DiscordInv, Place PROVE DiscordInv'
  BY AskToOK DEF Place, AskAts, Begun

LEMMA ExecuteStep == ASSUME DiscordInv, Execute PROVE DiscordInv'
  <1>1. CASE EndAsk
    BY <1>1, EndAskOK
  <1>2. CASE /\ ask' = [ask EXCEPT !.at = "check", !.left = Messages]
             /\ UNCHANGED <<conn, talk, rate, done, faults>> /\ AskStep
    <2>1. \A l \in 0..Messages : /\ [ask EXCEPT !.at = "check", !.left = l] \in AskRow
                                 /\ [ask EXCEPT !.at = "check", !.left = l].at = "check"
                                 /\ [ask EXCEPT !.at = "check", !.left = l].left = l
                                 /\ [ask EXCEPT !.at = "check", !.left = l].late = ask.late
      BY DEF DiscordInv, AskHeld, AskRow, AskAts
    <2>2. Messages \in 0..Messages /\ Messages # 0
      BY DiscordAssumption
    <2>3. AskHeld'
      BY <1>2, <2>1, <2>2 DEF DiscordInv, AskHeld
    <2> QED
      BY <1>2, <2>3, TalkStays, RowTypes, AskStepOK DEF DiscordInv
  <1> QED
    BY <1>1, <1>2 DEF Execute

-----------------------------------------------------------------------------
(* The checks, and what they stand for. *)

\* What assertDeliveryDatabaseState compares is what the operator and the
\* agent's owner allow.
LEMMA StoredCheckIsSound == DeliveryStateHolds => StoredAuthority
  BY DEF DeliveryStateHolds, StoredAuthority, Serves, Winner, Routes, InvocationHolds

\* What RefreshDelivery's answer is compared with is what the guild allows.
LEMMA LiveCheckIsSound ==
    ASSUME Permits(ask.bound.config, ask.access, guild.roles), BindingPolicy(ask.bound.config, ask.access, guild.channel)
    PROVE  LiveAuthority
  BY DEF Permits, BindingPolicy, LiveAuthority

LEMMA AfterCheck ==
    ASSUME ask.late \in [stored : Nat, live : Nat]
    PROVE  /\ LateAfterCheck \in [stored : Nat, live : Nat]
           /\ LateAfterCheck.stored = (IF StoredAuthority THEN 0 ELSE ask.late.stored)
           /\ LateAfterCheck.live = (IF LiveAuthority THEN 0 ELSE ask.late.live)
  BY DEF LateAfterCheck

LEMMA AfterSending ==
    ASSUME ask.late \in [stored : Nat, live : Nat], ask.late.stored = 0, ask.late.live = 0
    PROVE  /\ LateAfterMessage \in [stored : Nat, live : Nat]
           /\ LateAfterMessage.stored <= 1 /\ LateAfterMessage.live <= 1
  BY DEF LateAfterMessage

\* A check is passed: what it stands for held.
LEMMA CheckedOK ==
    ASSUME DiscordInv, NEW at \in {"live", "recheck", "send"}, Checked(at), ask.at \in Begun,
           at \in {"recheck", "send"} => LiveAuthority \/ ask.late.live = 0,
           at = "send" => StoredAuthority
    PROVE  DiscordInv'
  <1> DEFINE row(n) == [ask EXCEPT !.at = at, !.late = n]
  <1>1. ask \in AskRow /\ ask.late \in [stored : Nat, live : Nat] /\ at \in AskAts
    BY DEF DiscordInv, AskHeld, AskRow, AskAts
  <1>2. \A n \in [stored : Nat, live : Nat] :
          row(n) \in AskRow /\ row(n).at = at /\ row(n).late = n /\ row(n).left = ask.left /\ row(n).id = ask.id
    BY <1>1 DEF AskRow
  <1>3. ask' = row(LateAfterCheck) /\ UNCHANGED <<conn, talk, done>> /\ AskStep
    BY DEF Checked
  <1> HIDE DEF row
  <1>4. /\ ask' \in AskRow /\ ask'.at = at /\ ask'.left = ask.left /\ ask'.id = ask.id
        /\ ask'.late = LateAfterCheck
    BY <1>1, <1>2, <1>3, AfterCheck
  <1>5. ask'.late.stored <= 1 /\ ask'.late.live <= 1
    BY <1>1, <1>4, AfterCheck DEF DiscordInv, AskHeld
  <1>6. (at \in {"recheck", "send"} => ask'.late.live = 0) /\ (at = "send" => ask'.late.stored = 0)
    BY <1>1, <1>4, AfterCheck
  <1>7. ask'.left = 0 => ask'.id \in done'
    BY <1>3, <1>4 DEF DiscordInv, AskHeld
  <1>8. AskHeld'
    BY <1>4, <1>5, <1>6, <1>7 DEF AskHeld
  <1> QED
    BY <1>3, <1>8, TalkStays, RowTypes, AskStepOK DEF DiscordInv

LEMMA CheckStoredStep == ASSUME DiscordInv, CheckStored PROVE DiscordInv'
  BY CheckedOK, EndAskOK DEF CheckStored, AskAt, Begun

LEMMA RefreshDeliveryStep == ASSUME DiscordInv, RefreshDelivery PROVE DiscordInv'
  <1>1. CASE EndAsk
    BY <1>1, EndAskOK
  <1>2. CASE ~EndAsk
    <2>1. /\ ask.at \in Begun /\ Checked("recheck")
          /\ Permits(ask.bound.config, ask.access, guild.roles)
          /\ BindingPolicy(ask.bound.config, ask.access, guild.channel)
      BY <1>2 DEF RefreshDelivery, AskAt, Begun
    <2> QED
      BY <2>1, LiveCheckIsSound, CheckedOK
  <1> QED
    BY <1>1, <1>2

LEMMA CheckAgainStep == ASSUME DiscordInv, CheckAgain PROVE DiscordInv'
  <1>1. CASE EndAsk
    BY <1>1, EndAskOK
  <1>2. CASE ~EndAsk
    <2>1. ask.at \in Begun /\ ask.late.live = 0 /\ DeliveryStateHolds /\ Checked("send")
      BY <1>2 DEF CheckAgain, AskAt, Begun, DiscordInv, AskHeld
    <2> QED
      BY <2>1, StoredCheckIsSound, CheckedOK
  <1> QED
    BY <1>1, <1>2

\* Each message makes at most one more late, and the last one delivers.
LEMMA SendMessageStep == ASSUME DiscordInv, SendMessage PROVE DiscordInv'
  <1> DEFINE row(l, at, n) == [ask EXCEPT !.left = l, !.at = at, !.late = n]
             Late == [stored : Nat, live : Nat]
  <1>1. /\ ask.at = "send" /\ ask.left > 0 /\ ask.left \in 0..Messages
        /\ ask.late \in Late /\ ask.late.stored = 0 /\ ask.late.live = 0
    BY DEF SendMessage, DiscordInv, AskHeld, AskRow
  <1>2. Messages \in Nat
    BY DiscordAssumption
  <1>3. ask.left - 1 \in 0..Messages
    BY <1>1, <1>2
  <1>4. AfterMessage(ask.left - 1) \in {"append", "check"} /\ (AfterMessage(ask.left - 1) = "append" => ask.left = 1)
    BY <1>1, <1>2 DEF AfterMessage
  <1>5. PICK n \in Late : n.stored <= 1 /\ n.live <= 1 /\ ask' = row(ask.left - 1, AfterMessage(ask.left - 1), n)
    <2>1. ask' = row(ask.left - 1, AfterMessage(ask.left - 1), LateAfterMessage)
      BY DEF SendMessage
    <2> HIDE DEF row
    <2> QED
      BY <1>1, <2>1, AfterSending
  <1>6. \A l \in 0..Messages, at \in {"append", "check"}, k \in Late :
          /\ row(l, at, k) \in AskRow
          /\ row(l, at, k).left = l /\ row(l, at, k).at = at /\ row(l, at, k).late = k
          /\ row(l, at, k).id = ask.id
    <2> SUFFICES ASSUME NEW l \in 0..Messages, NEW at \in {"append", "check"}, NEW k \in Late
                 PROVE  /\ row(l, at, k) \in AskRow
                        /\ row(l, at, k).left = l /\ row(l, at, k).at = at /\ row(l, at, k).late = k
                        /\ row(l, at, k).id = ask.id
      OBVIOUS
    <2>1. ask \in AskRow /\ at \in AskAts
      BY DEF DiscordInv, AskHeld, AskAts
    <2> QED
      BY <2>1 DEF AskRow
  <1>7. done' = (IF ask.left = 1 THEN done \cup {ask.id} ELSE done)
    BY DEF SendMessage
  <1> HIDE DEF row
  <1>8. /\ ask' \in AskRow /\ ask'.late.stored <= 1 /\ ask'.late.live <= 1
        /\ ask'.at \in {"append", "check"} /\ ask'.id = ask.id
        /\ (ask'.at = "append" => ask.left = 1) /\ (ask'.left = 0 => ask.left = 1)
    BY <1>1, <1>2, <1>3, <1>4, <1>5, <1>6
  <1>9. AskHeld'
    BY <1>7, <1>8 DEF AskHeld
  <1> QED
    BY <1>7, <1>9, TalkStays, RowTypes, AskStepOK DEF SendMessage, DiscordInv

\* The note is the last message.
LEMMA SendNoteStep == ASSUME DiscordInv, SendNote PROVE DiscordInv'
  <1> DEFINE row(n) == [ask EXCEPT !.at = "append", !.late = n]
  <1>1. /\ ask \in AskRow /\ ask.late \in [stored : Nat, live : Nat]
        /\ ask.late.stored = 0 /\ ask.late.live = 0 /\ ask.id \in done
    BY DEF SendNote, DiscordInv, AskHeld, AskRow, Begun
  <1>2. \A n \in [stored : Nat, live : Nat] :
          row(n) \in AskRow /\ row(n).at = "append" /\ row(n).late = n /\ row(n).id = ask.id
    BY <1>1 DEF AskRow, AskAts
  <1>3. ask' = row(LateAfterMessage) /\ UNCHANGED <<conn, talk, done>> /\ AskStep
    BY DEF SendNote
  <1> HIDE DEF row
  <1>4. AskHeld'
    BY <1>1, <1>2, <1>3, AfterSending DEF AskHeld, Begun
  <1> QED
    BY <1>3, <1>4, TalkStays, RowTypes, AskStepOK DEF DiscordInv

LEMMA AskFailsStep == ASSUME DiscordInv, AskFails PROVE DiscordInv'
  <1>1. CASE EndAsk
    BY <1>1, EndAskOK
  <1>2. CASE ask' = NoAsk /\ UNCHANGED <<conn, talk, rate, done>> /\ AskStep
    BY <1>2, AskEnds, TalkStays, RowTypes, AskStepOK DEF DiscordInv
  <1> QED
    BY <1>1, <1>2 DEF AskFails

\* A turn joins the conversation after its question was delivered.
LEMMA AppendStep == ASSUME DiscordInv, AppendContext PROVE DiscordInv'
  <1> DEFINE key == <<ask.binding, ask.agent>>
             turn == [key |-> key, id |-> ask.id]
             turns == talk \cup {turn}
  <1>1. /\ ask.at = "append" /\ talk' = PruneContext(turns, key) /\ ask' = NoAsk
        /\ UNCHANGED <<conn, done>> /\ AskStep
    BY DEF AppendContext, AskAt
  <1>2. ask.id \in done /\ ask.id \in Nat
    BY <1>1 DEF DiscordInv, AskHeld, AskRow
  <1>3. turn.id = ask.id /\ turn.key = key
    OBVIOUS
  <1> HIDE DEF turn, key
  <1>4. IsFiniteSet(turns) /\ \A t \in turns : t.id \in Nat /\ t.id \in done
    BY <1>2, <1>3, FS_AddElement DEF DiscordInv, TalkHeld, ContextIsDelivered
  <1>5. talk' \in SUBSET turns
    BY <1>1 DEF PruneContext
  <1>6. IsFiniteSet(talk')
    BY <1>4, <1>5, FS_Subset
  <1>7. ASSUME NEW t \in talk' PROVE Cardinality({n \in talk' : n.key = t.key}) <= MaxTurns
    <2>1. CASE t.key = key
      <3>1. Cardinality({n \in PruneContext(turns, key) : n.key = key}) <= MaxTurns
        <4> HIDE DEF turns
        <4> QED
          BY <1>4, PrunedBound
      <3> QED
        BY <1>1, <2>1, <3>1
    <2>2. CASE t.key # key
      <3>1. t \in talk
        BY <1>3, <1>5, <2>2
      <3>2. {n \in talk' : n.key = t.key} = {n \in talk : n.key = t.key}
        BY <1>1, <1>3, <2>2 DEF PruneContext
      <3> QED
        BY <3>1, <3>2 DEF DiscordInv, TalkHeld, ContextIsDelivered
    <2> QED
      BY <2>1, <2>2
  <1>8. TalkHeld'
    BY <1>1, <1>4, <1>5, <1>6, <1>7 DEF TalkHeld, ContextIsDelivered
  <1> QED
    BY <1>1, <1>8, AskEnds, RowTypes, AskStepOK

LEMMA ExpireStep == ASSUME DiscordInv, NEW key, ExpireContext(key) PROVE DiscordInv'
  <1>1. talk' = {t \in talk : t.key # key} /\ UNCHANGED <<conn, ask, done>> /\ AskStep
    BY DEF ExpireContext
  <1>2. IsFiniteSet(talk')
    BY <1>1, FS_Subset DEF DiscordInv, TalkHeld
  <1>3. ASSUME NEW t \in talk' PROVE Cardinality({n \in talk' : n.key = t.key}) <= MaxTurns
    <2>1. {n \in talk' : n.key = t.key} = {n \in talk : n.key = t.key} /\ t \in talk
      BY <1>1
    <2> QED
      BY <2>1 DEF DiscordInv, TalkHeld, ContextIsDelivered
  <1>4. TalkHeld'
    BY <1>1, <1>2, <1>3 DEF DiscordInv, TalkHeld, ContextIsDelivered
  <1> QED
    BY <1>1, <1>4, AskStays, RowTypes, AskStepOK DEF DiscordInv

LEMMA QuestionStep == ASSUME DiscordInv, Question PROVE DiscordInv'
  BY ReceiveStep, LeakedStep, AuthorizeStep, ConsumeRateStep, RateWindowStep, PlaceStep, ExecuteStep,
     CheckStoredStep, RefreshDeliveryStep, CheckAgainStep, SendMessageStep, SendNoteStep, AskFailsStep,
     AppendStep, ExpireStep DEF Question

LEMMA StutterStep == ASSUME DiscordInv, UNCHANGED vars PROVE DiscordInv'
  <1>1. UNCHANGED service /\ UNCHANGED <<ask, talk, done, job, conn, secret, binding, agent, guild, directory, stimuli>>
    BY DEF vars, service
  <1>2. ConfigOK' /\ JobOK'
    BY <1>1, ConfigFrame, JobFrame DEF DiscordInv, ConfigOK
  <1> QED
    BY <1>1, <1>2, RowsStep

LEMMA DiscordNext == DiscordInv /\ [Next]_vars => DiscordInv'
  BY OperatorStep, WorkerStep, SupervisorStep, QuestionStep, StutterStep DEF Next

\* Every row the connection keeps has its type, a run past its start holds the
\* lock, and a question in delivery is as far as its messages.
THEOREM DiscordSound == Spec => []DiscordInv
  BY InitInv, DiscordNext, PTL DEF Spec

\* At most one message of an answer is sent after an operator or the agent's
\* owner has withdrawn what it rests on, and at most one after the guild has,
\* for any number of messages, commands and replicas: what each check of
\* ReauthorizeDelivery compares implies what it stands for.
THEOREM FewLateMessages == Spec => []LateMessages
  <1>1. DiscordInv => LateMessages
    BY DEF DiscordInv, AskHeld, LateMessages
  <1> QED
    BY <1>1, DiscordSound, PTL

\* However many replicas there are and whatever was abandoned or killed, one
\* session is open while PostgreSQL keeps the lock (AcquireOwnership).
THEOREM GatewayIsOne == Spec => []OneGateway
  <1>1. ASSUME DiscordInv PROVE OneGateway
    <2> SUFFICES ASSUME ~lost PROVE Cardinality(OpenRuns) <= 1
      BY DEF OneGateway
    <2>1. \A g \in OpenRuns : g = owner
      BY <1>1 DEF DiscordInv, LockHeld, Holding, OpenRuns
    <2>2. OpenRuns = {} \/ OpenRuns = {owner}
      BY <2>1
    <2>3. Cardinality(OpenRuns) \in {0, 1}
      BY <2>2, FS_EmptySet, FS_Singleton
    <2> QED
      BY <2>3
  <1> QED
    BY <1>1, DiscordSound, PTL

\* What a later question is given as context was delivered in full, and a
\* conversation stays within its bound (deliverReply, AppendContext,
\* pruneContext).
THEOREM RememberedIsDelivered == Spec => []ContextIsDelivered
  <1>1. DiscordInv => ContextIsDelivered
    BY DEF DiscordInv, TalkHeld
  <1> QED
    BY <1>1, DiscordSound, PTL

-----------------------------------------------------------------------------
(* An outdated job. *)

Stands ==
    /\ conn.version # job.version => conn' = conn
    /\ job.binding # Nobody /\ binding[job.binding].version # job.bversion =>
         binding'[job.binding] = binding[job.binding]

LEMMA UntouchedStands == ASSUME UNCHANGED <<conn, binding>> PROVE Stands
  BY DEF Stands

LEMMA OnlyStands == ASSUME NEW at, Only(at) PROVE Stands
  BY UntouchedStands DEF Only

\* With the versions as captured there is nothing to stand.
LEMMA CapturedStands == ASSUME CaptureHolds PROVE Stands
  BY DEF CaptureHolds, Stands

LEMMA CallbackStands == ASSUME DiscordInv, TerminalCallback PROVE Stands
  <1>1. CASE CaptureHolds
    BY <1>1, CapturedStands
  <1>2. CASE ~CaptureHolds
    <2>1. conn' = conn
      BY <1>2 DEF TerminalCallback, TerminalApplies
    <2>2. binding' = [b \in Bindings |-> binding[b]]
      BY <1>2 DEF TerminalCallback, TerminalApplies, Disable
    <2>3. binding' = binding
      BY <2>2 DEF DiscordInv, ConfigOK
    <2> QED
      BY <2>1, <2>3, UntouchedStands
  <1> QED
    BY <1>1, <1>2

LEMMA WorkerStands == ASSUME DiscordInv, Worker PROVE Stands
  <1>1. CASE ClaimJob \/ LeaseToken \/ ValidateToken \/ DiscordFails \/ LosePermit
    BY <1>1, UntouchedStands, OnlyStands DEF ClaimJob, LeaseToken, ValidateToken, DiscordFails, LosePermit
  <1>2. CASE RefreshServers \/ RegisterServer \/ ActOnBinding
    BY <1>2, UntouchedStands, OnlyStands DEF RefreshServers, RegisterServer, ActOnBinding
  <1>3. CASE CompleteIdentity
    BY <1>3, OnlyStands, CapturedStands DEF CompleteIdentity
  <1>4. CASE CompleteRefresh
    BY <1>4, OnlyStands, CapturedStands DEF CompleteRefresh
  <1>5. CASE FailCommandRegistration
    BY <1>5, OnlyStands, CapturedStands DEF FailCommandRegistration
  <1>6. CASE FailExecution
    BY <1>6, OnlyStands, CapturedStands DEF FailExecution
  <1>7. CASE SettleJob
    BY <1>7, UntouchedStands, CallbackStands DEF SettleJob
  <1> QED
    BY <1>1, <1>2, <1>3, <1>4, <1>5, <1>6, <1>7 DEF Worker

LEMMA SupervisorsLeaveJob == ASSUME Supervisors PROVE UNCHANGED job
  BY DEF Supervisors, RunStep, Reconcile, StartRun, AbandonRun, KillProcess, LoseLock, AcquireOwnership,
         ReportConnecting, OpenSession, OpenFails, GatewayReady, CloseSession, ReleaseOwnership, ServiceStep

LEMMA QuestionsLeaveJob == ASSUME Question PROVE UNCHANGED job
  BY DEF Question, Receive, LeakedEvent, AuthorizeInvocation, ConsumeRate, RateWindow, Place, Execute,
         CheckStored, RefreshDelivery, CheckAgain, SendMessage, SendNote, AskFails, AppendContext, ExpireContext,
         AskTo, Checked, EndAsk, AskStep

\* A job whose capture is outdated changes neither the connection nor its
\* binding: what the operator did since stands (assertExecutionCapture,
\* TerminalCallback).
THEOREM OutdatedJobYields == Spec => OperatorChangeStands
  <1>1. ASSUME DiscordInv, [Next]_vars
        PROVE  [stimuli' = stimuli /\ job.at # "none" /\ job' # job =>
                 /\ conn.version # job.version => conn' = conn
                 /\ job.binding # Nobody /\ binding[job.binding].version # job.bversion =>
                      binding'[job.binding] = binding[job.binding]]_vars
    <2>1. CASE Operators
      BY <1>1, <2>1, OperatorStep
    <2>2. CASE Worker
      BY <1>1, <2>2, WorkerStands DEF Stands
    <2>3. CASE Supervisors
      BY <2>3, SupervisorsLeaveJob
    <2>4. CASE Question
      BY <2>4, QuestionsLeaveJob
    <2> QED
      BY <1>1, <2>1, <2>2, <2>3, <2>4 DEF Next
  <1> QED
    BY <1>1, DiscordSound, PTL DEF Spec, OperatorChangeStands
================================================================================
