------------------------------- MODULE Capsule -------------------------------
(***************************************************************************)
(* The capsules in which documentation attempts run.  A worker leases one  *)
(* slot per attempt from a first-come first-served pool                    *)
(* (internal/capsule/pool.go), talks to the capsule behind the slot's      *)
(* socket (session.go, attempt.go) and returns the slot.  Behind each      *)
(* socket a supervisor accepts one connection at a time, runs one untrusted *)
(* child for it and kills whatever is left of that child before it accepts  *)
(* the next (capsule/supervisor/main.go).                                   *)
(*                                                                         *)
(* The child is not trusted: it may send any message at any time.  Provider *)
(* responses are whatever the provider chooses.  A message body, a tool's  *)
(* arguments and a result are members of the small set Values.             *)
(***************************************************************************)
EXTENDS Naturals, Sequences, SequencesExt, FiniteSets

CONSTANTS Sessions,          \* capsule sessions, each invoked once
          Slots,             \* the pool's slots, one capsule behind each
          Values,            \* arguments and results
          MaxModelRequests,  \* Limits.MaxModelRequests
          MaxRetries         \* Binding.MaxRetries

CapsuleAssumption ==
    /\ Sessions # {} /\ Slots # {} /\ IsFiniteSet(Slots) /\ Slots \cap {"nothing", "error"} = {}
    /\ MaxModelRequests \in Nat \ {0} /\ MaxRetries \in Nat

VARIABLES pool,       \* SlotPool: state, free, leased, waiters
          offer,      \* each waiter's result channel: nothing, a slot or an error
          session,    \* the goroutine of each session
          attempt,    \* OpenAIAttempt of each session
          capsule,    \* the supervisor behind each slot
          wire        \* the two ends of each session's connection

capsuleVars == <<pool, offer, session, attempt, capsule, wire>>

Nothing == "nothing"
Error == "error"
Unused == "unused"

NewAttempt == [state |-> "READY_MODEL", next |-> 1, turn |-> 0, pending |-> Nothing, value |-> Nothing,
               retry |-> 0, asked |-> {}, ran |-> {}, output |-> Nothing]
NewSession == [at |-> "idle", slot |-> Nothing, live |-> TRUE]
Accepting == [at |-> "accepting", who |-> Unused, queue |-> <<>>, procs |-> {}]

CapsuleInit ==
    /\ pool = [state |-> "NEW", free |-> <<>>, leased |-> {}, waiters |-> <<>>]
    /\ offer = [s \in Sessions |-> Nothing]
    /\ session = [s \in Sessions |-> NewSession]
    /\ attempt = [s \in Sessions |-> NewAttempt]
    /\ capsule = [k \in Slots |-> Accepting]
    /\ wire = [s \in Sessions |-> [host |-> "none", eof |-> FALSE]]

SessionAt(s, at) == session[s].at = at
Ends(s, at) == session' = [session EXCEPT ![s] = [NewSession EXCEPT !.at = at]]

-----------------------------------------------------------------------------
(***************************************************************************)
(* The pool.  An operation runs under the pool's mutex; the channel of a   *)
(* waiter is filled there and read later.                                  *)
(***************************************************************************)

\* dispatchLocked: the oldest waiters get the free slots, as pairs.
Grants(p) ==
    LET n == IF Len(p.free) < Len(p.waiters) THEN Len(p.free) ELSE Len(p.waiters)
    IN  IF p.state = "READY" THEN {<<p.waiters[i], p.free[i]>> : i \in 1..n} ELSE {}

Dispatch(p) ==
    LET given == {g[2] : g \in Grants(p)}
        n == Cardinality(given)
        After(q) == SubSeq(q, n + 1, Len(q))
    IN  [p EXCEPT !.free = After(@), !.waiters = After(@), !.leased = @ \cup given]

Offered(p) ==
    [s \in Sessions |-> IF \E g \in Grants(p) : g[1] = s
                        THEN (CHOOSE g \in Grants(p) : g[1] = s)[2] ELSE offer[s]]

\* The last slot to come back leaves the pool closing.
Returned_StaysClosing(p, k) ==
    LET q == [p EXCEPT !.leased = @ \ {k}]
    IN  IF p.state = "READY" THEN [q EXCEPT !.free = Append(@, k)] ELSE q
\* releaseLocked before it dispatches: the slot is free again, or the last
\* slot to come back closes the pool.
Returned(p, k) ==
    LET q == [p EXCEPT !.leased = @ \ {k}]
    IN  CASE p.state = "READY" -> [q EXCEPT !.free = Append(@, k)]
          [] p.state = "CLOSING" /\ q.leased = {} -> [q EXCEPT !.state = "CLOSED"]
          [] OTHER -> q

Settle(p) == pool' = Dispatch(p) /\ offer' = Offered(p)

\* Start: the topology is validated, and a pool is started once.
StartPool ==
    /\ pool.state = "NEW"
    /\ pool' = [pool EXCEPT !.free = SetToSeq(Slots), !.state = "READY"]
    /\ UNCHANGED <<offer, session, attempt, capsule, wire>>

\* Close: waiters get an error, and the pool is closed at once when nothing
\* is leased.
ClosePool ==
    /\ pool.state \in {"NEW", "READY"}
    /\ pool' = [pool EXCEPT !.state = IF pool.leased = {} THEN "CLOSED" ELSE "CLOSING", !.waiters = <<>>]
    /\ offer' = [s \in Sessions |-> IF s \in ToSet(pool.waiters) THEN Error ELSE offer[s]]
    /\ UNCHANGED <<session, attempt, capsule, wire>>

\* Session.invoke up to Acquire: the API key is resolved first, so a stale
\* credential takes no slot; Acquire queues the session and dispatches.
Invoke(s) ==
    /\ SessionAt(s, "idle") /\ pool.state # "NEW"
    /\ \/ Ends(s, "failed") /\ UNCHANGED <<pool, offer>>
       \/ pool.state # "READY" /\ Ends(s, "failed") /\ UNCHANGED <<pool, offer>>
       \/ /\ pool.state = "READY"
          /\ Settle([pool EXCEPT !.waiters = Append(@, s)])
          /\ session' = [session EXCEPT ![s].at = "waiting"]
    /\ UNCHANGED <<attempt, capsule, wire>>

\* Acquire, the arm of the result: the pool may have begun to close since
\* the slot was given, and then the slot goes back.
TakeOffer(s) ==
    /\ SessionAt(s, "waiting") /\ offer[s] # Nothing
    /\ IF offer[s] = Error
       THEN Ends(s, "failed") /\ UNCHANGED <<pool, offer>>
       ELSE IF pool.state = "READY"
       THEN session' = [session EXCEPT ![s].at = "dialling", ![s].slot = offer[s]] /\ UNCHANGED <<pool, offer>>
       ELSE /\ pool' = IF offer[s] \in pool.leased THEN Returned(pool, offer[s]) ELSE pool
            /\ Ends(s, "failed") /\ UNCHANGED offer
    /\ UNCHANGED <<attempt, capsule, wire>>

\* The same without giving back a slot that was granted in the meantime.
AbandonAcquire_Forgets(s) ==
    /\ SessionAt(s, "waiting") /\ ~session[s].live
    /\ Settle([pool EXCEPT !.waiters = RemoveFirst(@, s)])
    /\ Ends(s, "failed")
    /\ UNCHANGED <<attempt, capsule, wire>>

\* Acquire, the arm of the context: a slot already given goes back, else the
\* waiter leaves the queue.  With both ready either arm may be taken.
AbandonAcquire(s) ==
    /\ SessionAt(s, "waiting") /\ ~session[s].live
    /\ Settle(IF offer[s] \in Slots THEN Returned(pool, offer[s])
              ELSE [pool EXCEPT !.waiters = RemoveFirst(@, s)])
    /\ Ends(s, "failed")
    /\ UNCHANGED <<attempt, capsule, wire>>

\* The attempt's timeout, or the cancellation of the job behind it.
CancelSession(s) ==
    /\ session[s].live /\ session[s].at \notin {"idle", "failed", "succeeded"}
    /\ session' = [session EXCEPT ![s].live = FALSE]
    /\ UNCHANGED <<pool, offer, attempt, capsule, wire>>

-----------------------------------------------------------------------------
(***************************************************************************)
(* The host's side of an attempt.                                          *)
(***************************************************************************)
Host(s) == UNCHANGED <<pool, offer, capsule>>
Leave(s, state) ==
    /\ attempt' = [attempt EXCEPT ![s] = [NewAttempt EXCEPT !.state = state]]
    /\ session' = [session EXCEPT ![s].at = "closing"]
Fails(s) == Leave(s, "FAILED") /\ UNCHANGED wire /\ Host(s)

\* dial: refused when the supervisor is down, and the slot goes back
\* (the deferred Release).
Dial(s) ==
    /\ SessionAt(s, "dialling")
    /\ LET k == session[s].slot IN
       \/ /\ capsule[k].at # "down" /\ session[s].live
          /\ capsule' = [capsule EXCEPT ![k].queue = Append(@, s)]
          /\ wire' = [wire EXCEPT ![s].host = "open"]
          /\ session' = [session EXCEPT ![s].at = "receiving"]
          /\ UNCHANGED attempt
       \/ /\ capsule[k].at = "down" \/ ~session[s].live
          /\ Leave(s, "FAILED")
          /\ UNCHANGED <<capsule, wire>>
    /\ UNCHANGED <<pool, offer>>

Talks(s) == SessionAt(s, "receiving") /\ session[s].live
\* The child of the session's own attempt can only speak while it runs.
Speaks(s) == \E k \in Slots : capsule[k].at = "running" /\ capsule[k].who = s

\* BeginModel: the next turn in order, within the budget.
BeginModel(s, turn) ==
    attempt[s].state = "READY_MODEL" /\ turn = attempt[s].next /\ turn <= MaxModelRequests

ReceiveModelRequest(s, turn) ==
    /\ Talks(s) /\ Speaks(s)
    /\ IF BeginModel(s, turn)
       THEN /\ attempt' = [attempt EXCEPT ![s].state = "MODEL_IN_FLIGHT", ![s].turn = turn,
                           ![s].next = turn + 1]
            /\ session' = [session EXCEPT ![s].at = "exchanging"]
            /\ UNCHANGED wire /\ Host(s)
       ELSE Fails(s)

\* exchange: a transient failure is repeated MaxRetries times at most.
RetryExchange(s) ==
    /\ SessionAt(s, "exchanging") /\ attempt[s].retry < MaxRetries
    /\ attempt' = [attempt EXCEPT ![s].retry = @ + 1]
    /\ UNCHANGED <<session, wire>> /\ Host(s)

\* A response that is not accepted: an error status, a stream that
\* ParseOpenAISSE refuses, or content without a tool call.
RejectModel(s) == SessionAt(s, "exchanging") /\ Fails(s)

\* AcceptModel: one tool call, and on the last turn only submit_result.
AcceptModel(s, name, value) ==
    /\ SessionAt(s, "exchanging")
    /\ IF attempt[s].turn = MaxModelRequests /\ name # "submit_result" THEN Fails(s)
       ELSE /\ attempt' = [attempt EXCEPT ![s].pending = name, ![s].value = value, ![s].retry = 0,
                           ![s].state = IF name = "submit_result" THEN "AWAIT_COMPLETE" ELSE "AWAIT_TOOL",
                           ![s].asked = @ \cup {<<name, value>>}]
            /\ session' = [session EXCEPT ![s].at = "receiving"]
            /\ UNCHANGED wire /\ Host(s)

\* ValidateToolCall: the call is the one the provider made.
ValidateToolCall(s, value) ==
    attempt[s].state = "AWAIT_TOOL" /\ attempt[s].pending = "tool" /\ attempt[s].value = value

\* ValidateToolCall, the handler and AcceptToolResult, which may find that
\* even the truncated result does not fit.
ReceiveToolCall(s, value) ==
    /\ Talks(s) /\ Speaks(s)
    /\ IF ValidateToolCall(s, value)
       THEN \/ /\ attempt' = [attempt EXCEPT ![s].state = "READY_MODEL", ![s].pending = Nothing, ![s].value = Nothing,
                              ![s].ran = @ \cup {<<"tool", value>>}]
               /\ UNCHANGED <<session, wire>> /\ Host(s)
            \/ Fails(s)
       ELSE Fails(s)

\* The output is taken as the capsule sends it.
AcceptComplete_Unchecked(s, value) == attempt[s].state = "AWAIT_COMPLETE"
\* AcceptComplete: the output is the one the provider submitted.
AcceptComplete(s, value) ==
    attempt[s].state = "AWAIT_COMPLETE" /\ attempt[s].pending = "submit_result" /\ attempt[s].value = value

ReceiveComplete(s, value) ==
    /\ Talks(s) /\ Speaks(s)
    /\ IF AcceptComplete(s, value)
       THEN /\ attempt' = [attempt EXCEPT ![s].state = "TERMINAL", ![s].pending = Nothing, ![s].output = value]
            /\ session' = [session EXCEPT ![s].at = "draining"]
            /\ UNCHANGED wire /\ Host(s)
       ELSE Fails(s)

\* A failed message, an unknown or duplicate one, or the end of the stream.
ReceiveOther(s) == Talks(s) /\ (Speaks(s) \/ wire[s].eof) /\ Fails(s)

\* After complete nothing but the end of the stream may follow, within a second.
Drain(s) ==
    /\ SessionAt(s, "draining")
    /\ \/ /\ wire[s].eof
          /\ session' = [session EXCEPT ![s].at = "completed"]
          /\ UNCHANGED <<attempt, wire>> /\ Host(s)
       \/ Fails(s)

\* The context ends during an exchange, a read or a write.
CancelAttempt(s) ==
    /\ session[s].at \in {"receiving", "exchanging", "draining"} /\ ~session[s].live
    /\ Leave(s, "CANCELLED")
    /\ UNCHANGED wire /\ Host(s)

\* The deferred functions of invoke, in their order: the connection is
\* closed, then the slot is released.
CloseConnection(s) ==
    /\ session[s].at \in {"closing", "completed"}
    /\ wire' = [wire EXCEPT ![s].host = "closed"]
    /\ session' = [session EXCEPT ![s].at = IF @ = "completed" THEN "releasing" ELSE "unwinding"]
    /\ UNCHANGED attempt /\ Host(s)

ReleaseSlot(s) ==
    /\ session[s].at \in {"releasing", "unwinding"}
    /\ Settle(Returned(pool, session[s].slot))
    /\ Ends(s, IF SessionAt(s, "releasing") THEN "succeeded" ELSE "failed")
    /\ UNCHANGED <<attempt, capsule, wire>>

-----------------------------------------------------------------------------
(***************************************************************************)
(* The supervisor behind a slot.                                           *)
(***************************************************************************)
Supervisor == UNCHANGED <<pool, offer, session, attempt>>

\* main accepts the next connection and runAttempt starts its child.
AcceptConnection(k) ==
    /\ capsule[k].at = "accepting" /\ capsule[k].queue # <<>>
    /\ capsule' = [capsule EXCEPT ![k].at = "running", ![k].who = Head(capsule[k].queue),
                   ![k].queue = Tail(@), ![k].procs = @ \cup {Head(capsule[k].queue)}]
    /\ UNCHANGED wire /\ Supervisor

\* runAttempt's select: the host closed its end (inputDone), or the child
\* ended (waitDone), possibly leaving processes of its own behind.
EndAttempt(k) ==
    /\ capsule[k].at = "running"
    /\ LET s == capsule[k].who IN
       \/ /\ wire[s].host = "closed"
          /\ capsule' = [capsule EXCEPT ![k].at = "cleaning"]
          /\ UNCHANGED wire
       \/ /\ capsule' = [capsule EXCEPT ![k].at = "cleaning", ![k].procs = @ \ {s}]
          /\ wire' = [wire EXCEPT ![s].eof = TRUE]
       \/ /\ capsule' = [capsule EXCEPT ![k].at = "cleaning"]
          /\ UNCHANGED wire
    /\ Supervisor

\* Only the child itself is waited for.
CleanUp_LeaderOnly(k) ==
    /\ capsule[k].at = "cleaning"
    /\ capsule' = [capsule EXCEPT ![k].at = "accepting"]
    /\ wire' = [wire EXCEPT ![capsule[k].who].eof = TRUE]
    /\ Supervisor

\* cleanupProcessTree: every process of the child's user is gone before the
\* next connection is accepted.
CleanUp(k) ==
    /\ capsule[k].at = "cleaning"
    /\ capsule' = [capsule EXCEPT ![k].at = "accepting", ![k].procs = {}]
    /\ wire' = [wire EXCEPT ![capsule[k].who].eof = TRUE]
    /\ Supervisor

\* A process that cannot be killed in time ends the supervisor, and with it
\* the container and the connections waiting to be accepted.
CleanUpFails(k) ==
    /\ capsule[k].at = "cleaning" /\ capsule[k].procs # {}
    /\ capsule' = [capsule EXCEPT ![k] = [Accepting EXCEPT !.at = "down"]]
    /\ wire' = [s \in Sessions |-> IF s = capsule[k].who \/ s \in ToSet(capsule[k].queue)
                                   THEN [wire[s] EXCEPT !.eof = TRUE] ELSE wire[s]]
    /\ Supervisor

\* The container is restarted.
RestartCapsule(k) ==
    /\ capsule[k].at = "down"
    /\ capsule' = [capsule EXCEPT ![k].at = "accepting"]
    /\ UNCHANGED wire /\ Supervisor

-----------------------------------------------------------------------------
SessionStep(s) ==
    \/ Invoke(s) \/ TakeOffer(s) \/ AbandonAcquire(s) \/ Dial(s)
    \/ \E turn \in 1..MaxModelRequests + 1 : ReceiveModelRequest(s, turn)
    \/ \E v \in Values : ReceiveToolCall(s, v) \/ ReceiveComplete(s, v)
    \/ ReceiveOther(s) \/ RetryExchange(s) \/ RejectModel(s)
    \/ \E name \in {"tool", "submit_result"}, v \in Values : AcceptModel(s, name, v)
    \/ Drain(s) \/ CancelAttempt(s) \/ CloseConnection(s) \/ ReleaseSlot(s)

CapsuleStep(k) == AcceptConnection(k) \/ EndAttempt(k) \/ CleanUp(k) \/ CleanUpFails(k) \/ RestartCapsule(k)

CapsuleNext ==
    \/ StartPool \/ ClosePool
    \/ \E s \in Sessions : SessionStep(s) \/ CancelSession(s)
    \/ \E k \in Slots : CapsuleStep(k)

\* What the goroutine of a session does without waiting for the capsule.
GoesOn(s) ==
    TakeOffer(s) \/ AbandonAcquire(s) \/ Dial(s) \/ CancelAttempt(s) \/ CloseConnection(s) \/ ReleaseSlot(s)

\* A goroutine of the worker keeps running, an attempt that hangs meets its
\* timeout (context.WithTimeout), and a supervisor keeps cleaning up.
CapsuleFairness ==
    /\ \A s \in Sessions : WF_capsuleVars(GoesOn(s)) /\ WF_capsuleVars(CancelSession(s))
    /\ \A k \in Slots : WF_capsuleVars(CleanUp(k))

CapsuleSpec == CapsuleInit /\ [][CapsuleNext]_capsuleVars /\ CapsuleFairness

-----------------------------------------------------------------------------
(***************************************************************************)
(* Properties.                                                             *)
(***************************************************************************)

\* The sessions a slot belongs to: those that hold it, and those it was given
\* to in a channel nobody has read yet.
Owners(k) == {s \in Sessions : session[s].slot = k \/ (SessionAt(s, "waiting") /\ offer[s] = k)}

\* A slot is leased exactly when one session owns it, however cancellations,
\* grants and the closing of the pool interleave (Acquire, Release): no slot
\* is lost and none serves two attempts.
LeaseHasOneOwner ==
    \A k \in Slots :
      /\ Cardinality(Owners(k)) = IF k \in pool.leased THEN 1 ELSE 0
      /\ pool.state = "READY" => (k \in pool.leased) # (k \in ToSet(pool.free))

\* Whatever a capsule sends, the host runs a tool only on arguments the
\* provider asked for, and accepts only the output the provider submitted
\* (ValidateToolCall, AcceptComplete).
OutputIsSubmitted ==
    \A s \in Sessions :
      /\ attempt[s].ran \subseteq attempt[s].asked
      /\ session[s].at \in {"completed", "releasing", "succeeded"}
           => <<"submit_result", attempt[s].output>> \in attempt[s].asked

\* Processes of two attempts never run in a capsule together, although the
\* slot is released before the supervisor has cleaned up (runAttempt,
\* cleanupProcessTree).
AttemptsAreIsolated == \A k \in Slots : Cardinality(capsule[k].procs) <= 1

\* A slot has one owner while it is leased, attempts never share a capsule,
\* and what the host runs and accepts is what the provider asked for
\* (SlotPool, OpenAIAttempt, supervisor).
CapsuleIsSound ==
    LeaseHasOneOwner /\ OutputIsSubmitted /\ AttemptsAreIsolated

\* A pool that is closing is closed eventually: every lease comes back
\* (SlotPool.Close waits for it).
CloseFinishes == pool.state = "CLOSING" ~> pool.state = "CLOSED"
=============================================================================
