---------------------------- MODULE CommandEvents ----------------------------
(***************************************************************************)
(* Operator commands and the event stream.                                 *)
(*                                                                         *)
(* A command of an operator runs in one transaction: idempotency.Execute   *)
(* locks the key of the request and replays the recorded result or runs    *)
(* the operation, the operation changes its resource and appends an event  *)
(* (events.Append), and everything commits or rolls back together.  The    *)
(* operation modelled is that of the credentials service: Create makes a   *)
(* new credential, Rotate changes one under its row lock.                  *)
(*                                                                         *)
(* Streams (api/events.go) read committed events after a cursor and write  *)
(* them to a client, which reconnects with the last event it received: any  *)
(* number of the last messages flushed may never have reached it.          *)
(* Retention prunes the oldest events; a stream whose cursor was pruned is *)
(* reset to the tail.  Locks are transaction locks: they are held from the *)
(* step that takes them to the end of the transaction.                     *)
(***************************************************************************)
EXTENDS Naturals, FiniteSets, FiniteSetsExt

CONSTANTS Requests,    \* HTTP requests being handled
          Keys,        \* idempotency keys of one operator
          Streams,     \* event-stream clients
          MaxEvents,   \* bound: sequence numbers handed out
          MaxVersion,  \* bound: versions of the rotated credential
          MaxFaults,   \* bound: failures and expiries
          Batch        \* the limit of one read and of one pruning

EventsAssumption == MaxEvents \in Nat /\ Batch \in Nat \ {0}

VARIABLES login,     \* the operator's session: live or ended
          records,   \* idempotency_records by key
          version,   \* the secret version of the rotated credential
          created,   \* number of credentials created
          tx,        \* the transaction of each request
          nextSeq,   \* the sequence of event_log
          log,       \* committed events that are stored
          aged,      \* stored events older than the retention policy
          pruned,    \* event_stream_state.pruned_through
          stream,    \* each stream: its handler, and what its client has received
                     \* when all is delivered, or less (views)
          effects,   \* history: changes committed under a key's current record
          history,   \* history: every event ever committed
          troubles   \* faults so far

eventVars == <<login, records, version, created, tx, nextSeq, log, aged, pruned, stream, effects, history, troubles>>

Commands == {"create", "rotate"}
NoRecord == [command |-> "none", result |-> 0, old |-> FALSE]
NoTx == [at |-> "idle", key |-> "none", command |-> "none", result |-> 0, seq |-> 0]
\* What a client knows: its cursor, 0 when it has none, the point from which it
\* follows the stream, and the events it received since.
NewClient == [cursor |-> 0, from |-> 0, seen |-> {}]
NewStream == [at |-> "closed", cursor |-> 0, from |-> 0, seen |-> {}, batch |-> {}, views |-> {}]

EventsInit ==
    /\ login = "live"
    /\ records = [k \in Keys |-> NoRecord]
    /\ version = 1 /\ created = 0
    /\ tx = [r \in Requests |-> NoTx]
    /\ nextSeq = 1 /\ log = {} /\ aged = {} /\ pruned = 0
    /\ stream = [s \in Streams |-> NewStream]
    /\ effects = [k \in Keys |-> {}]
    /\ history = {} /\ troubles = 0

Trouble == troubles < MaxFaults /\ troubles' = troubles + 1
TxAt(r, at) == tx[r].at = at
TxTo(r, at) == tx' = [tx EXCEPT ![r].at = at]
Others(r, states) == {q \in Requests \ {r} : tx[q].at \in states}

-----------------------------------------------------------------------------
(***************************************************************************)
(* Commands.                                                               *)
(***************************************************************************)
InTx == UNCHANGED <<login, log, aged, pruned, stream, history>>

\* RequireAuthenticatedWrite, the key and the body of the request.
Submit(r, k, command) ==
    /\ TxAt(r, "idle")
    /\ login = "live"
    /\ tx' = [tx EXCEPT ![r] = [NoTx EXCEPT !.at = "authenticated", !.key = k, !.command = command]]
    /\ UNCHANGED <<records, version, created, nextSeq, effects, troubles>> /\ InTx

\* The states in which a transaction holds the advisory lock of its key.
HoldsKey == {"running", "applied", "appended"}

\* metadataForResult: a replayed result is answered only while it still
\* describes the credential.
StillCurrent(record) == record.command = "rotate" => record.result = version

\* Execute under the lock of the key: an expired record is deleted, a record
\* of the same request is replayed, of another one is a conflict.
LockKey(r) ==
    /\ TxAt(r, "authenticated")
    /\ \A q \in Others(r, HoldsKey) : tx[q].key # tx[r].key
    /\ LET record == records[tx[r].key] IN
       IF record = NoRecord \/ record.old
       THEN TxTo(r, "running")
       ELSE IF record.command = tx[r].command /\ StillCurrent(record)
       THEN tx' = [tx EXCEPT ![r].at = "answered", ![r].result = record.result]
       ELSE tx' = [tx EXCEPT ![r] = NoTx]
    /\ UNCHANGED <<records, version, created, nextSeq, effects, troubles>> /\ InTx

\* Create inserts a credential; Rotate reads the version FOR UPDATE, so it
\* waits for a transaction that has rotated and not ended.
Apply(r) ==
    /\ TxAt(r, "running")
    /\ tx[r].command = "rotate" =>
         /\ version < MaxVersion
         /\ ~\E q \in Others(r, {"applied", "appended"}) : tx[q].command = "rotate"
    /\ tx' = [tx EXCEPT ![r].at = "applied",
              ![r].result = IF tx[r].command = "rotate" THEN version + 1 ELSE 1]
    /\ UNCHANGED <<records, version, created, nextSeq, effects, troubles>> /\ InTx

\* The lock is not taken.
SequenceFree_Unlocked(r) == TRUE
\* The event sequence lock: no other transaction has appended and not ended.
SequenceFree(r) == Others(r, {"appended"}) = {}

\* events.Append: the next sequence number, under the lock.  The number is
\* spent even if the transaction rolls back.
AppendEvent(r) ==
    /\ TxAt(r, "applied")
    /\ SequenceFree(r)
    /\ nextSeq <= MaxEvents
    /\ tx' = [tx EXCEPT ![r].at = "appended", ![r].seq = nextSeq]
    /\ nextSeq' = nextSeq + 1
    /\ UNCHANGED <<records, version, created, effects, troubles>> /\ InTx

\* The result is not recorded with the change.
Recorded_Separately(r) == records
\* The record Execute inserts in the same transaction.
Recorded(r) == [records EXCEPT ![tx[r].key] = [command |-> tx[r].command, result |-> tx[r].result, old |-> FALSE]]

\* The commit makes the change, the event and the record visible together.
Commit(r) ==
    /\ TxAt(r, "appended")
    /\ records' = Recorded(r)
    /\ version' = IF tx[r].command = "rotate" THEN tx[r].result ELSE version
    /\ created' = IF tx[r].command = "create" THEN created + 1 ELSE created
    /\ log' = log \cup {tx[r].seq} /\ history' = history \cup {tx[r].seq}
    /\ effects' = [effects EXCEPT ![tx[r].key] = @ \cup {tx[r].seq}]
    /\ TxTo(r, "answered")
    /\ UNCHANGED <<login, nextSeq, aged, pruned, stream, troubles>>

\* The response, which the client may never receive; it may repeat the key.
Respond(r) ==
    /\ TxAt(r, "answered")
    /\ tx' = [tx EXCEPT ![r] = NoTx]
    /\ UNCHANGED <<records, version, created, nextSeq, effects, troubles>> /\ InTx

\* A statement fails or the client goes away: the transaction rolls back.
Rollback(r) ==
    /\ Trouble
    /\ tx[r].at \in {"authenticated", "running", "applied", "appended"}
    /\ tx' = [tx EXCEPT ![r] = NoTx]
    /\ UNCHANGED <<records, version, created, nextSeq, effects>> /\ InTx

\* The record of a key reaches its time to live.
ExpireRecord(k) ==
    /\ Trouble
    /\ records[k] # NoRecord /\ ~records[k].old
    /\ records' = [records EXCEPT ![k].old = TRUE]
    /\ effects' = [effects EXCEPT ![k] = {}]
    /\ UNCHANGED <<version, created, tx, nextSeq>> /\ InTx

-----------------------------------------------------------------------------
(***************************************************************************)
(* Streams.                                                                *)
(***************************************************************************)
Reads == UNCHANGED <<login, records, version, created, tx, nextSeq, log, aged, pruned, effects, history>>

\* Window: the tail and the pruned prefix, in one statement.
Tail_ == Max(log \cup {pruned})

\* What the client knows when everything that was flushed has reached it.
ViewOf(row) == [cursor |-> row.cursor, from |-> row.from, seen |-> row.seen]
\* A stream that begins at the tail.
AtTail == [NewStream EXCEPT !.at = "open", !.cursor = Tail_, !.from = Tail_]
\* The same, with a reset, which tells the client where it begins; until the
\* reset arrives the client knows one of the views it might have had before.
\* It takes a reset as the order to load everything again.
ResetTo(views) == [AtTail EXCEPT !.views = views \cup {ViewOf(AtTail)}]

\* registerEvents: without a cursor the stream begins at the tail, which the
\* client learns with the first event only; with one, it resumes there unless
\* the events after it are gone.
Connect(s, resume) ==
    /\ stream[s].at = "closed" /\ login = "live"
    /\ resume => stream[s].cursor # 0
    /\ LET had == ViewOf(stream[s]) IN
       stream' = [stream EXCEPT ![s] =
         IF ~resume THEN [AtTail EXCEPT !.views = {NewClient}]
         ELSE IF pruned <= had.cursor /\ had.cursor <= Tail_ THEN [@ EXCEPT !.at = "open", !.views = {had}]
         ELSE ResetTo({had})]
    /\ UNCHANGED troubles /\ Reads

\* The response ends: the last messages flushed may be lost, and events read
\* and not written were never sent.
Closed(view) == [NewStream EXCEPT !.cursor = view.cursor, !.from = view.from, !.seen = view.seen]

\* The stream believes what it learnt when it was opened.
Reauthenticate_Never(s) == FALSE /\ UNCHANGED eventVars
\* Every heartbeat interval the session is authenticated again, and a session
\* that expired or was revoked ends the stream.
Reauthenticate(s) ==
    /\ stream[s].at = "open" /\ login = "ended"
    /\ \E view \in stream[s].views : stream' = [stream EXCEPT ![s] = Closed(view)]
    /\ UNCHANGED troubles /\ Reads

\* The events that come first in a set of them, at most as many as the limit.
Oldest(events) == {e \in events : Cardinality({x \in events : x <= e}) <= Batch}

\* The events after a cursor that one read returns.
Following(cursor) == Oldest({e \in log : e > cursor})

\* ReadAfter, the events and the pruned prefix in one statement.
ReadAfter(s) ==
    /\ stream[s].at = "open"
    /\ \/ stream[s].cursor < pruned /\ stream' = [stream EXCEPT ![s].at = "pruned"]
       \/ /\ stream[s].cursor >= pruned
          /\ Following(stream[s].cursor) # {}
          /\ stream' = [stream EXCEPT ![s].at = "writing", ![s].batch = Following(stream[s].cursor)]
    /\ UNCHANGED troubles /\ Reads

\* ErrCursorPruned: the client is reset to the tail.
ResetStream(s) ==
    /\ stream[s].at = "pruned"
    /\ stream' = [stream EXCEPT ![s] = ResetTo(stream[s].views)]
    /\ UNCHANGED troubles /\ Reads

\* The row after an event is written and flushed: the cursor follows, and the
\* client may receive the event.
Written(row, e) ==
    LET view == [cursor |-> e, from |-> row.from, seen |-> row.seen \cup {e}] IN
    [row EXCEPT !.cursor = e, !.seen = view.seen, !.batch = @ \ {e}, !.views = @ \cup {view},
                !.at = IF row.batch = {e} THEN "open" ELSE "writing"]

\* One event is written, the oldest first.
WriteEvent(s) ==
    /\ stream[s].at = "writing"
    /\ \E e \in stream[s].batch :
         /\ \A x \in stream[s].batch : e <= x
         /\ stream' = [stream EXCEPT ![s] = Written(stream[s], e)]
    /\ UNCHANGED troubles /\ Reads

\* The connection breaks, at the server or on the way to the client.
Disconnect(s) ==
    /\ Trouble
    /\ stream[s].at # "closed"
    /\ \E view \in stream[s].views : stream' = [stream EXCEPT ![s] = Closed(view)]
    /\ Reads

\* Logout, or the expiry of the session.
EndSession ==
    /\ login = "live"
    /\ login' = "ended"
    /\ UNCHANGED <<records, version, created, tx, nextSeq, log, aged, pruned, stream, effects, history, troubles>>

-----------------------------------------------------------------------------
(***************************************************************************)
(* Retention of events.                                                    *)
(***************************************************************************)

\* An event passes the retention period.  The clock may step back between
\* two inserts, so not always in the order of the sequence.
AgeEvent(e) ==
    /\ e \in log \ aged
    /\ aged' = aged \cup {e}
    /\ UNCHANGED <<login, records, version, created, tx, nextSeq, log, pruned, stream, effects, history, troubles>>

\* deleteEventLog: the oldest aged events, none beyond the first one that is
\* kept, and the watermark with them.
PruneEvents ==
    LET kept == log \ aged
        candidates == {e \in aged : \A x \in kept : e < x}
        deleted == Oldest(candidates)
    IN  /\ deleted # {}
        /\ log' = log \ deleted /\ aged' = aged \ deleted
        /\ pruned' = Max(deleted \cup {pruned})
        /\ UNCHANGED <<login, records, version, created, tx, nextSeq, stream, effects, history, troubles>>

-----------------------------------------------------------------------------
RequestStep(r) ==
    \/ \E k \in Keys, command \in Commands : Submit(r, k, command)
    \/ LockKey(r) \/ Apply(r) \/ AppendEvent(r) \/ Commit(r) \/ Respond(r) \/ Rollback(r)

StreamStep(s) ==
    \/ \E resume \in BOOLEAN : Connect(s, resume)
    \/ Reauthenticate(s) \/ ReadAfter(s) \/ ResetStream(s) \/ WriteEvent(s) \/ Disconnect(s)

EventsNext ==
    \/ \E r \in Requests : RequestStep(r)
    \/ \E s \in Streams : StreamStep(s)
    \/ \E k \in Keys : ExpireRecord(k)
    \/ \E e \in 1..MaxEvents : AgeEvent(e)
    \/ EndSession \/ PruneEvents

\* The loop of a stream keeps running.
StreamLoop(s) == ReadAfter(s) \/ ResetStream(s) \/ WriteEvent(s)
EventsFairness ==
    \A s \in Streams : WF_eventVars(StreamLoop(s)) /\ WF_eventVars(Reauthenticate(s))

EventsSpec == EventsInit /\ [][EventsNext]_eventVars /\ EventsFairness

-----------------------------------------------------------------------------
\* While the record of a key lives, the command sent with it changes the
\* system at most once, whatever is repeated, lost or rolled back
\* (idempotency.Execute).
AppliedOnce == \A k \in Keys : Cardinality(effects[k]) <= 1

\* A client misses no event: between the point from which it follows the
\* stream and the last event it received, whichever that is, it received every
\* event that was ever committed (events.Append, ReadAfter, deleteEventLog).
NoneMissing(view) == {e \in history : view.from < e /\ e <= view.cursor} \subseteq view.seen
NoEventSkipped == \A s \in Streams : \A view \in {ViewOf(stream[s])} \cup stream[s].views : NoneMissing(view)

\* Both: a command takes effect once, and a client misses no event
\* (idempotency.Execute, events.Append, deleteEventLog).
EventsAreSound == AppliedOnce /\ NoEventSkipped

\* A stream ends after its session did, even when events keep arriving
\* (streamEvents authenticates before each read).
StreamEndsWithSession ==
    \A s \in Streams : (login = "ended" /\ stream[s].at # "closed") ~> stream[s].at = "closed"
=============================================================================
