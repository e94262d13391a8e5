-------------------------- MODULE ComponentProofs ---------------------------
(***************************************************************************)
(* Proofs about components that share no state with others: commands and   *)
(* events for any number of requests, keys, streams and events;            *)
(* authentication for any number of requests, replicas, connections and    *)
(* password slots; providers for any number of workers, captures, edits and *)
(* losses; capsules for any number of sessions and slots; the parser of a  *)
(* provider's stream for any events in any order; and the sessions of      *)
(* planners and writers for any sources, plans and submissions.            *)
(***************************************************************************)
EXTENDS CommandEvents, OperatorAuth, Providers, ProviderStream, Capsule, DocumentationAgent,
        FiniteSetTheorems, SequenceTheorems, WellFoundedInduction, TLAPS

-----------------------------------------------------------------------------
(***************************************************************************)
(* Commands and events: a command takes effect once while its record       *)
(* lives, and a client that follows the stream misses no event.            *)
(***************************************************************************)
TxRow == [at : {"idle", "authenticated", "running", "applied", "appended", "answered"},
          key : Keys \cup {"none"}, command : Commands \cup {"none"}, result : Nat, seq : Nat]
RecordRow == [command : Commands \cup {"none"}, result : Nat, old : BOOLEAN]
View == [cursor : Nat, from : Nat, seen : SUBSET Nat]
StreamRow == [at : {"closed", "open", "writing", "pruned"}, cursor : Nat, from : Nat,
              seen : SUBSET Nat, batch : SUBSET Nat, views : SUBSET View]

\* The columns have their types.
RowsOK ==
    /\ records \in [Keys -> RecordRow] /\ effects \in [Keys -> SUBSET Nat]
    /\ tx \in [Requests -> TxRow] /\ version \in Nat
    /\ stream \in [Streams -> StreamRow]
    /\ nextSeq \in Nat \ {0} /\ pruned \in Nat /\ history \in SUBSET Nat

(***************************************************************************)
(* The inductive invariant has a part about commands and one about events. *)
(* A command may run only while its key has no live record, and the lock   *)
(* of the key keeps it so until the transaction ends.                      *)
(***************************************************************************)
Vacant(record) == record = NoRecord \/ record.old

KeysHeld ==
    /\ \A r \in Requests : tx[r].at # "idle" => tx[r].key \in Keys /\ tx[r].command \in Commands
    /\ \A r \in Requests : tx[r].at \in HoldsKey => Vacant(records[tx[r].key])
    /\ \A r, q \in Requests : tx[r].at \in HoldsKey /\ tx[q].at \in HoldsKey /\ tx[r].key = tx[q].key => r = q
    /\ \A k \in Keys : Vacant(records[k]) => effects[k] = {}
    /\ \A k \in Keys : effects[k] = {} \/ \E e : effects[k] = {e}

(***************************************************************************)
(* The event of an open transaction comes after every event anybody has    *)
(* seen, because only one transaction at a time holds the sequence lock;   *)
(* what is no longer stored is behind the watermark; what a stream has     *)
(* read and not written is a gapless run of what follows its cursor; and   *)
(* its client is not ahead of it, whichever messages arrived.              *)
(***************************************************************************)
SequenceHeld ==
    /\ \A e \in history : e < nextSeq
    /\ log \subseteq history /\ aged \subseteq log /\ pruned < nextSeq
    /\ \A e \in history : e \in log \/ e <= pruned
    /\ \A r, q \in Requests : tx[r].at = "appended" /\ tx[q].at = "appended" => r = q
    /\ \A r \in Requests : tx[r].at = "appended" =>
         /\ tx[r].seq < nextSeq /\ pruned < tx[r].seq
         /\ \A e \in history : e < tx[r].seq
         /\ \A s \in Streams : stream[s].cursor < tx[r].seq

\* What the client of a stream may know: what it has if everything arrives, or less.
Views(row) == {ViewOf(row)} \cup row.views
\* A cursor is that of an event, or of one that is gone.
Passed(cursor) == cursor \in history \/ cursor <= pruned

CursorsFollow ==
    \A s \in Streams :
      /\ stream[s].cursor < nextSeq
      /\ stream[s].batch \subseteq history
      /\ \A b \in stream[s].batch : stream[s].cursor < b
      /\ \A x \in history, b \in stream[s].batch :
           stream[s].cursor < x /\ x <= b => x \in stream[s].batch
      /\ \A v \in Views(stream[s]) : v.cursor <= stream[s].cursor /\ Passed(v.cursor)

EventsInv == RowsOK /\ KeysHeld /\ SequenceHeld /\ CursorsFollow /\ NoEventSkipped

-----------------------------------------------------------------------------
\* A nonempty set of naturals has a least element.
LEMMA LeastNatural ==
    ASSUME NEW T \in SUBSET Nat, T # {}
    PROVE  \E x \in T : \A y \in T : x <= y
  <1> DEFINE R == {ss \in Nat \X Nat : ss[1] < ss[2]}
  <1>1. IsWellFoundedOn(R, Nat)
    BY NatLessThanWellFounded, Zenon DEF OpToRel
  <1>2. \A x, y \in Nat : y < x => <<y, x>> \in R
    OBVIOUS
  <1> HIDE DEF R
  <1>3. PICK x \in T : \A y \in T : ~(<<y, x>> \in R)
    BY <1>1, WFMin, Zenon
  <1>4. \A y \in T : ~(y < x)
    BY <1>2, <1>3
  <1> QED
    BY <1>4

\* A bounded nonempty set of naturals has a greatest element.
LEMMA MaxOfBounded ==
    ASSUME NEW S \in SUBSET Nat, S # {}, NEW n \in Nat, \A x \in S : x < n
    PROVE  Max(S) \in S /\ \A x \in S : x <= Max(S)
  <1> DEFINE T == {m \in Nat : \A x \in S : x <= m}
  <1>1. T \in SUBSET Nat /\ n \in T
    OBVIOUS
  <1>2. PICK m \in T : \A y \in T : m <= y
    BY <1>1, LeastNatural
  <1>3. m \in S
    <2> SUFFICES ASSUME m \notin S PROVE FALSE
      OBVIOUS
    <2>1. PICK x \in S : TRUE
      OBVIOUS
    <2>2. \A y \in S : y < m
      OBVIOUS
    <2>3. m > 0 /\ m - 1 \in Nat
      BY <2>1, <2>2
    <2>4. m - 1 \in T
      BY <2>2, <2>3
    <2> QED
      BY <1>2, <2>3, <2>4
  <1>4. \E x \in S : \A y \in S : x >= y
    BY <1>3
  <1> QED
    BY <1>4 DEF Max

\* What is older than one of the oldest is one of the oldest.
LEMMA OldestIsPrefix ==
    ASSUME EventsAssumption, NEW S \in SUBSET Nat, NEW n \in Nat, \A x \in S : x < n,
           NEW b \in Oldest(S), NEW x \in S, x <= b
    PROVE  x \in Oldest(S)
  <1> DEFINE upTo(e) == {y \in S : y <= e}
  <1>0. b \in Nat /\ x \in Nat
    BY DEF Oldest
  <1>b. \A y \in S : y <= x => y <= b
    BY <1>0
  <1>1. upTo(x) \in SUBSET upTo(b)
    BY <1>b
  <1>a. upTo(b) \in SUBSET Nat /\ \A y \in upTo(b) : y <= b
    OBVIOUS
  <1>2. IsFiniteSet(upTo(b))
    BY <1>0, <1>a, FS_BoundedSetOfNaturals
  <1>3. /\ Cardinality(upTo(x)) <= Cardinality(upTo(b))
        /\ Cardinality(upTo(x)) \in Nat /\ Cardinality(upTo(b)) \in Nat
    BY <1>1, <1>2, FS_Subset, FS_CardinalityType
  <1>4. Cardinality(upTo(b)) <= Batch /\ Batch \in Nat
    BY DEF Oldest, EventsAssumption
  <1>5. Cardinality(upTo(x)) <= Batch
    <2> HIDE DEF upTo
    <2> QED
      BY <1>3, <1>4
  <1> QED
    BY <1>5 DEF Oldest

\* The tail of the stream: the newest stored event or the watermark.
LEMMA TailIsKnown ==
    ASSUME RowsOK, SequenceHeld
    PROVE  Tail_ \in log \cup {pruned} /\ Tail_ \in Nat /\ \A x \in log \cup {pruned} : x <= Tail_
  <1>1. /\ log \cup {pruned} \in SUBSET Nat /\ nextSeq \in Nat
        /\ \A x \in log \cup {pruned} : x < nextSeq
    BY DEF RowsOK, SequenceHeld
  <1>2. Max(log \cup {pruned}) \in log \cup {pruned} /\ \A x \in log \cup {pruned} : x <= Max(log \cup {pruned})
    BY <1>1, MaxOfBounded
  <1> QED
    BY <1>1, <1>2 DEF Tail_

-----------------------------------------------------------------------------
LEMMA EventsStart ==
    ASSUME EventsInit
    PROVE  EventsInv
  <1>1. RowsOK
    <2>1. NoTx \in TxRow
      BY DEF NoTx, TxRow
    <2>2. NoRecord \in RecordRow
      BY DEF NoRecord, RecordRow
    <2>3. NewStream \in StreamRow
      BY DEF NewStream, StreamRow, View
    <2> QED
      BY <2>1, <2>2, <2>3 DEF EventsInit, RowsOK
  <1>2. KeysHeld
    BY DEF EventsInit, KeysHeld, NoTx, HoldsKey, Vacant
  <1>3. SequenceHeld /\ CursorsFollow
    BY DEF EventsInit, SequenceHeld, CursorsFollow, NoTx, NewStream, Views, ViewOf, Passed
  <1>4. NoEventSkipped
    BY DEF EventsInit, NoEventSkipped, NoneMissing
  <1> QED
    BY <1>1, <1>2, <1>3, <1>4 DEF EventsInv

\* The transaction of one request moves on and the others do not; it does not
\* begin to hold its key.
LEMMA KeysStay ==
    ASSUME KeysHeld, NEW r \in Requests, UNCHANGED <<records, effects>>,
           \A q \in Requests \ {r} : tx'[q] = tx[q],
           \/ tx'[r].at = "idle"
           \/ /\ tx'[r].key \in Keys /\ tx'[r].command \in Commands
              /\ tx'[r].at \in HoldsKey => tx'[r].key = tx[r].key /\ tx[r].at \in HoldsKey
    PROVE  KeysHeld'
  <1>1. "idle" \notin HoldsKey
    BY DEF HoldsKey
  <1>2. \A q \in Requests : tx'[q].at \in HoldsKey => tx[q].at \in HoldsKey /\ tx'[q].key = tx[q].key
    BY <1>1
  <1>3. \A k : Vacant(records'[k]) <=> Vacant(records[k])
    BY DEF Vacant
  <1> QED
    BY <1>2, <1>3 DEF KeysHeld

\* A step of a transaction that neither takes nor gives back the sequence.
LEMMA SequenceStays ==
    ASSUME SequenceHeld, UNCHANGED <<nextSeq, log, aged, pruned, history, stream>>,
           \A q \in Requests : tx'[q].at = "appended" => tx[q].at = "appended" /\ tx'[q].seq = tx[q].seq
    PROVE  SequenceHeld'
  BY DEF SequenceHeld

\* A step that leaves streams and events alone.
LEMMA CursorsStay ==
    ASSUME RowsOK, CursorsFollow, NoEventSkipped, UNCHANGED <<nextSeq, history, stream>>,
           pruned' = pruned \/ (pruned' \in Nat /\ pruned <= pruned')
    PROVE  CursorsFollow' /\ NoEventSkipped'
  <1>1. \A s \in Streams : \A v \in Views(stream[s]) : v.cursor \in Nat
    BY DEF RowsOK, StreamRow, View, Views, ViewOf
  <1>2. \A s \in Streams : \A v \in Views(stream[s]) : Passed(v.cursor) => Passed(v.cursor)'
    BY <1>1 DEF Passed, RowsOK
  <1>3. \A s \in Streams : Views(stream[s])' = Views(stream[s])
    BY DEF Views, ViewOf
  <1>4. CursorsFollow'
    BY <1>2, <1>3 DEF CursorsFollow
  <1> QED
    BY <1>4 DEF NoEventSkipped, NoneMissing

\* Steps of a transaction before it appends its event, and after it ended.
LEMMA TransactionStep ==
    ASSUME EventsInv, NEW r \in Requests,
           \/ \E k \in Keys, command \in Commands : Submit(r, k, command)
           \/ LockKey(r) \/ Apply(r) \/ Respond(r) \/ Rollback(r)
    PROVE  EventsInv'
  <1>1. RowsOK /\ KeysHeld /\ SequenceHeld /\ CursorsFollow /\ NoEventSkipped
    BY DEF EventsInv
  <1>2. UNCHANGED <<records, version, effects, nextSeq, log, aged, pruned, history, stream>>
    BY DEF Submit, LockKey, Apply, Respond, Rollback, InTx
  <1>3. tx \in [Requests -> TxRow] /\ records \in [Keys -> RecordRow] /\ version \in Nat
    BY <1>1 DEF RowsOK
  <1>4. tx' \in [Requests -> TxRow] => RowsOK'
    BY <1>1, <1>2 DEF RowsOK
  <1>5. ASSUME tx' \in [Requests -> TxRow], tx'[r].at # "appended", \A q \in Requests \ {r} : tx'[q] = tx[q],
               \/ tx'[r].at = "idle"
               \/ /\ tx'[r].key \in Keys /\ tx'[r].command \in Commands
                  /\ tx'[r].at \in HoldsKey => tx'[r].key = tx[r].key /\ tx[r].at \in HoldsKey
        PROVE  EventsInv'
    <2>1. KeysHeld'
      BY <1>1, <1>2, <1>5, KeysStay
    <2>2. SequenceHeld'
      BY <1>1, <1>2, <1>5, SequenceStays
    <2>3. CursorsFollow' /\ NoEventSkipped'
      BY <1>1, <1>2, CursorsStay
    <2> QED
      BY <1>4, <1>5, <2>1, <2>2, <2>3 DEF EventsInv
  <1>6. NoTx \in TxRow /\ NoTx.at = "idle"
    BY DEF NoTx, TxRow
  <1>7. tx' = [tx EXCEPT ![r] = NoTx] => EventsInv'
    <2> HAVE tx' = [tx EXCEPT ![r] = NoTx]
    <2>1. tx' \in [Requests -> TxRow] /\ tx'[r] = NoTx /\ \A q \in Requests \ {r} : tx'[q] = tx[q]
      BY <1>3, <1>6
    <2> QED
      BY <1>5, <1>6, <2>1
  <1>8. ASSUME NEW k \in Keys, NEW command \in Commands, Submit(r, k, command) PROVE EventsInv'
    <2> DEFINE row == [NoTx EXCEPT !.at = "authenticated", !.key = k, !.command = command]
    <2>1. row \in TxRow /\ row.at = "authenticated" /\ row.key = k /\ row.command = command
      BY DEF NoTx, TxRow
    <2>2. tx' = [tx EXCEPT ![r] = row]
      BY <1>8 DEF Submit
    <2> HIDE DEF row
    <2>3. tx' \in [Requests -> TxRow] /\ tx'[r] = row /\ \A q \in Requests \ {r} : tx'[q] = tx[q]
      BY <1>3, <2>1, <2>2
    <2> QED
      BY <1>5, <2>1, <2>3 DEF HoldsKey
  <1>9. CASE Apply(r)
    <2> DEFINE n == IF tx[r].command = "rotate" THEN version + 1 ELSE 1
    <2>1. n \in Nat
      BY <1>3
    <2>2. tx' = [tx EXCEPT ![r].at = "applied", ![r].result = n] /\ tx[r].at = "running"
      BY <1>9 DEF Apply, TxAt
    <2> HIDE DEF n
    <2>3. /\ tx' \in [Requests -> TxRow] /\ tx'[r].at = "applied" /\ tx'[r].key = tx[r].key
          /\ tx'[r].command = tx[r].command /\ \A q \in Requests \ {r} : tx'[q] = tx[q]
      BY ZenonT(60), <1>3, <2>1, <2>2 DEF TxRow
    <2> QED
      BY <1>1, <1>5, <2>2, <2>3 DEF KeysHeld, HoldsKey
  <1>10. CASE LockKey(r)
    <2> DEFINE record == records[tx[r].key]
    <2>0. tx[r].at = "authenticated" /\ tx[r].key \in Keys /\ tx[r].command \in Commands
      BY <1>1, <1>10 DEF LockKey, TxAt, KeysHeld
    <2>1. CASE record = NoRecord \/ record.old
      <3>1. tx' = [tx EXCEPT ![r].at = "running"]
        BY <1>10, <2>1 DEF LockKey, TxTo
      <3>2. /\ tx' \in [Requests -> TxRow] /\ tx'[r].at = "running" /\ tx'[r].key = tx[r].key
            /\ tx'[r].command = tx[r].command /\ \A q \in Requests \ {r} : tx'[q] = tx[q]
        BY <1>3, <3>1 DEF TxRow
      <3>3. \A k : Vacant(records'[k]) <=> Vacant(records[k])
        BY <1>2 DEF Vacant
      <3>4. Vacant(records[tx[r].key])
        BY <2>1 DEF Vacant
      <3>5. \A q \in Requests \ {r} : tx[q].at \in HoldsKey => tx[q].key # tx[r].key
        BY <1>10 DEF LockKey, Others
      <3>6. KeysHeld'
        <4>1. \A q \in Requests : tx'[q].key = tx[q].key /\ tx'[q].command = tx[q].command
          BY <3>2
        <4>2. \A q \in Requests : tx'[q].at # "idle" => tx'[q].key \in Keys /\ tx'[q].command \in Commands
          BY <1>1, <2>0, <3>2 DEF KeysHeld
        <4>3. \A q \in Requests : tx'[q].at \in HoldsKey => Vacant(records'[tx'[q].key])
          BY <1>1, <3>2, <3>3, <3>4, <4>1 DEF KeysHeld
        <4>4. \A p, q \in Requests :
                tx'[p].at \in HoldsKey /\ tx'[q].at \in HoldsKey /\ tx'[p].key = tx'[q].key => p = q
          BY <1>1, <3>2, <3>5, <4>1 DEF KeysHeld
        <4>5. \A k \in Keys : Vacant(records'[k]) => effects'[k] = {}
          BY <1>1, <1>2, <3>3 DEF KeysHeld
        <4>6. \A k \in Keys : effects'[k] = {} \/ \E e : effects'[k] = {e}
          BY <1>1, <1>2 DEF KeysHeld
        <4> QED
          BY <4>2, <4>3, <4>4, <4>5, <4>6 DEF KeysHeld
      <3>7. SequenceHeld'
        BY <1>1, <1>2, <3>2, SequenceStays
      <3>8. CursorsFollow' /\ NoEventSkipped'
        BY <1>1, <1>2, CursorsStay
      <3> QED
        BY <1>4, <3>2, <3>6, <3>7, <3>8 DEF EventsInv
    <2>2. CASE ~(record = NoRecord \/ record.old)
      <3>1. CASE tx' = [tx EXCEPT ![r].at = "answered", ![r].result = record.result]
        <4>1. record.result \in Nat
          BY <1>3, <2>0 DEF RecordRow
        <4> HIDE DEF record
        <4>2. /\ tx' \in [Requests -> TxRow] /\ tx'[r].at = "answered" /\ tx'[r].key = tx[r].key
              /\ tx'[r].command = tx[r].command /\ \A q \in Requests \ {r} : tx'[q] = tx[q]
          BY <1>3, <3>1, <4>1 DEF TxRow
        <4> QED
          BY <1>5, <2>0, <4>2 DEF HoldsKey
      <3> QED
        BY <1>7, <1>10, <2>2, <3>1 DEF LockKey
    <2> QED
      BY <2>1, <2>2
  <1> QED
    BY <1>7, <1>8, <1>9, <1>10 DEF Respond, Rollback

\* events.Append: the new number is above everything that was ever committed.
LEMMA AppendStep ==
    ASSUME EventsInv, NEW r \in Requests, AppendEvent(r)
    PROVE  EventsInv'
  <1>1. RowsOK /\ KeysHeld /\ SequenceHeld /\ CursorsFollow /\ NoEventSkipped
    BY DEF EventsInv
  <1>2. UNCHANGED <<records, version, effects, log, aged, pruned, history, stream>> /\ nextSeq' = nextSeq + 1
    BY DEF AppendEvent, InTx
  <1>3. tx' = [tx EXCEPT ![r].at = "appended", ![r].seq = nextSeq] /\ tx[r].at = "applied"
        /\ \A q \in Requests \ {r} : tx[q].at # "appended"
    BY DEF AppendEvent, TxAt, SequenceFree, Others
  <1>4. nextSeq \in Nat \ {0} /\ tx \in [Requests -> TxRow] /\ stream \in [Streams -> StreamRow]
        /\ pruned \in Nat /\ history \subseteq Nat
    BY <1>1 DEF RowsOK
  <1>5. /\ tx' \in [Requests -> TxRow] /\ tx'[r].at = "appended" /\ tx'[r].key = tx[r].key
        /\ tx'[r].command = tx[r].command /\ tx'[r].seq = nextSeq
        /\ \A q \in Requests \ {r} : tx'[q] = tx[q]
    BY ZenonT(60), <1>3, <1>4 DEF TxRow
  <1>6. RowsOK'
    BY <1>1, <1>2, <1>4, <1>5 DEF RowsOK
  <1>7. KeysHeld'
    BY <1>1, <1>2, <1>3, <1>5, KeysStay DEF KeysHeld, HoldsKey
  <1>8. \A s \in Streams : stream[s].cursor < nextSeq /\ stream[s].cursor \in Nat
    BY <1>1, <1>4 DEF CursorsFollow, StreamRow
  <1>9. SequenceHeld'
    BY <1>1, <1>2, <1>3, <1>4, <1>5, <1>8 DEF SequenceHeld
  <1>10. CursorsFollow'
    <2>1. \A s \in Streams : stream[s].cursor < nextSeq'
      BY <1>2, <1>4, <1>8
    <2>2. \A s \in Streams : Views(stream[s])' = Views(stream[s])
      BY <1>2 DEF Views, ViewOf
    <2>3. \A c : Passed(c)' <=> Passed(c)
      BY <1>2 DEF Passed
    <2> QED
      BY <1>1, <1>2, <2>1, <2>2, <2>3, Zenon DEF CursorsFollow
  <1>11. NoEventSkipped'
    BY <1>1, <1>2 DEF NoEventSkipped, NoneMissing
  <1> QED
    BY <1>6, <1>7, <1>9, <1>10, <1>11 DEF EventsInv

\* The commit: the event comes after every cursor, and the record of the key
\* was vacant until now.
LEMMA CommitStep ==
    ASSUME EventsInv, NEW r \in Requests, Commit(r)
    PROVE  EventsInv'
  <1> DEFINE k == tx[r].key
             e == tx[r].seq
             row == [command |-> tx[r].command, result |-> tx[r].result, old |-> FALSE]
  <1>1. RowsOK /\ KeysHeld /\ SequenceHeld /\ CursorsFollow /\ NoEventSkipped
    BY DEF EventsInv
  <1>2. /\ records' = [records EXCEPT ![k] = row] /\ effects' = [effects EXCEPT ![k] = @ \cup {e}]
        /\ log' = log \cup {e} /\ history' = history \cup {e}
        /\ tx' = [tx EXCEPT ![r].at = "answered"] /\ tx[r].at = "appended"
        /\ UNCHANGED <<nextSeq, aged, pruned, stream>>
    BY DEF Commit, Recorded, TxAt, TxTo
  <1>3. /\ nextSeq \in Nat \ {0} /\ tx \in [Requests -> TxRow] /\ stream \in [Streams -> StreamRow]
        /\ pruned \in Nat /\ history \subseteq Nat /\ records \in [Keys -> RecordRow]
        /\ effects \in [Keys -> SUBSET Nat] /\ version \in Nat
    BY <1>1 DEF RowsOK
  <1>4. k \in Keys /\ tx[r].command \in Commands /\ Vacant(records[k]) /\ effects[k] = {}
    BY <1>1, <1>2 DEF KeysHeld, HoldsKey
  <1>5. e \in Nat /\ tx[r].result \in Nat
    BY <1>3 DEF TxRow
  <1>6. row \in RecordRow /\ row # NoRecord /\ row.old = FALSE
    BY <1>4, <1>5 DEF RecordRow, NoRecord, Commands
  <1>7. version' \in Nat
    BY <1>3, <1>5 DEF Commit
  <1>8. /\ e < nextSeq /\ pruned < e /\ \A x \in history : x < e
        /\ \A s \in Streams : stream[s].cursor < e
        /\ \A q \in Requests \ {r} : tx[q].at # "appended"
    BY <1>1, <1>2 DEF SequenceHeld
  <1>9. /\ tx' \in [Requests -> TxRow] /\ tx'[r].at = "answered" /\ tx'[r].key = k
        /\ tx'[r].command = tx[r].command /\ \A q \in Requests \ {r} : tx'[q] = tx[q]
    BY <1>2, <1>3 DEF TxRow
  <1>a. \A q \in Requests \ {r} : tx[q].at \in HoldsKey => tx[q].key # k
    BY <1>1, <1>2 DEF KeysHeld, HoldsKey
  <1> HIDE DEF k, e, row
  <1>10. /\ records'[k] = row /\ \A i \in Keys \ {k} : records'[i] = records[i]
         /\ effects'[k] = {e} /\ \A i \in Keys \ {k} : effects'[i] = effects[i]
         /\ records' \in [Keys -> RecordRow] /\ effects' \in [Keys -> SUBSET Nat]
    BY <1>2, <1>3, <1>4, <1>5, <1>6
  <1>11. RowsOK'
    BY <1>2, <1>3, <1>5, <1>7, <1>9, <1>10 DEF RowsOK
  <1>12. KeysHeld'
    <2>1. ~Vacant(records'[k]) /\ \A i \in Keys \ {k} : Vacant(records'[i]) <=> Vacant(records[i])
      BY <1>6, <1>10 DEF Vacant
    <2>2. "answered" \notin HoldsKey
      BY DEF HoldsKey
    <2>3. \A q \in Requests : tx'[q].at \in HoldsKey => q # r /\ tx'[q] = tx[q] /\ tx[q].key # k
      BY <1>9, <1>a, <2>2
    <2>4. \A q \in Requests : tx'[q].at # "idle" => tx'[q].key \in Keys /\ tx'[q].command \in Commands
      BY <1>1, <1>4, <1>9 DEF KeysHeld
    <2>5. \A q \in Requests : tx'[q].at \in HoldsKey => Vacant(records'[tx'[q].key])
      <3> TAKE q \in Requests
      <3> HAVE tx'[q].at \in HoldsKey
      <3>1. tx'[q] = tx[q] /\ tx[q].key # k /\ tx[q].at # "idle" /\ tx[q].at \in HoldsKey
        BY <2>3 DEF HoldsKey
      <3>2. tx[q].key \in Keys /\ Vacant(records[tx[q].key])
        BY <1>1, <3>1 DEF KeysHeld
      <3> QED
        BY <2>1, <3>1, <3>2
    <2>6. \A i \in Keys : /\ Vacant(records'[i]) => effects'[i] = {}
                          /\ effects'[i] = {} \/ \E x : effects'[i] = {x}
      BY <1>1, <1>10, <2>1 DEF KeysHeld
    <2>7. \A p, q \in Requests : tx'[p].at \in HoldsKey /\ tx'[q].at \in HoldsKey /\ tx'[p].key = tx'[q].key => p = q
      BY <1>1, <2>3 DEF KeysHeld
    <2> QED
      BY <2>4, <2>5, <2>6, <2>7 DEF KeysHeld
  <1>13. SequenceHeld'
    <2>1. \A q \in Requests : tx'[q].at # "appended"
      BY <1>8, <1>9
    <2> QED
      BY <1>1, <1>2, <1>8, <2>1 DEF SequenceHeld
  <1>14. \A s \in Streams : stream[s].cursor \in Nat /\ stream[s].batch \subseteq history
    BY <1>1, <1>3 DEF CursorsFollow, StreamRow
  <1>b. \A s \in Streams : Views(stream[s])' = Views(stream[s])
    BY <1>2 DEF Views, ViewOf
  <1>c. \A s \in Streams : \A v \in Views(stream[s]) :
          v.cursor \in Nat /\ v.cursor <= stream[s].cursor /\ Passed(v.cursor)'
    BY <1>1, <1>2, <1>3 DEF CursorsFollow, StreamRow, View, Views, ViewOf, Passed
  <1>15. CursorsFollow'
    <2>0. \A x \in history : ~(e <= x)
      BY <1>3, <1>5, <1>8
    <2>1. \A s \in Streams : \A b \in stream[s].batch : ~(e <= b)
      BY <1>14, <2>0
    <2> QED
      BY <1>1, <1>2, <1>14, <1>b, <1>c, <2>1 DEF CursorsFollow
  <1>16. NoEventSkipped'
    <2>1. \A s \in Streams : ~(e <= stream[s].cursor)
      BY <1>5, <1>8, <1>14
    <2>2. \A s \in Streams : \A v \in Views(stream[s]) : ~(e <= v.cursor)
      BY <1>5, <1>14, <1>c, <2>1
    <2> QED
      BY <1>1, <1>2, <1>b, <2>2 DEF NoEventSkipped, NoneMissing, Views
  <1> QED
    BY <1>11, <1>12, <1>13, <1>15, <1>16 DEF EventsInv

\* The record of a key expires: the key is vacant, and its effects are no
\* longer those of a current record.
LEMMA ExpireStep ==
    ASSUME EventsInv, NEW k \in Keys, ExpireRecord(k)
    PROVE  EventsInv'
  <1>1. RowsOK /\ KeysHeld /\ SequenceHeld /\ CursorsFollow /\ NoEventSkipped
    BY DEF EventsInv
  <1>2. /\ records' = [records EXCEPT ![k].old = TRUE] /\ effects' = [effects EXCEPT ![k] = {}]
        /\ UNCHANGED <<version, tx, nextSeq, log, aged, pruned, stream, history>>
    BY DEF ExpireRecord, InTx
  <1>3. /\ records' \in [Keys -> RecordRow] /\ records'[k].old
        /\ \A i \in Keys \ {k} : records'[i] = records[i]
    BY <1>1, <1>2 DEF RowsOK, RecordRow
  <1>4. /\ effects' \in [Keys -> SUBSET Nat] /\ effects'[k] = {}
        /\ \A i \in Keys \ {k} : effects'[i] = effects[i]
    BY <1>1, <1>2 DEF RowsOK
  <1>5. RowsOK'
    BY <1>1, <1>2, <1>3, <1>4 DEF RowsOK
  <1>6. Vacant(records'[k]) /\ \A i \in Keys \ {k} : Vacant(records'[i]) <=> Vacant(records[i])
    BY <1>3 DEF Vacant
  <1>7. KeysHeld'
    <2>1. \A q \in Requests : tx[q].at \in HoldsKey => tx[q].key \in Keys /\ Vacant(records'[tx[q].key])
      <3> TAKE q \in Requests
      <3> HAVE tx[q].at \in HoldsKey
      <3>1. tx[q].at # "idle"
        BY DEF HoldsKey
      <3>2. tx[q].key \in Keys /\ Vacant(records[tx[q].key])
        BY <1>1, <3>1 DEF KeysHeld
      <3> QED
        BY <1>6, <3>2
    <2>2. \A i \in Keys : /\ Vacant(records'[i]) => effects'[i] = {}
                          /\ effects'[i] = {} \/ \E x : effects'[i] = {x}
      BY ZenonT(60), <1>1, <1>4, <1>6 DEF KeysHeld
    <2> QED
      BY <1>1, <1>2, <2>1, <2>2 DEF KeysHeld
  <1>8. SequenceHeld' /\ CursorsFollow' /\ NoEventSkipped'
    BY <1>1, <1>2, SequenceStays, CursorsStay
  <1> QED
    BY <1>5, <1>7, <1>8 DEF EventsInv

-----------------------------------------------------------------------------
\* A step of one stream keeps the invariant when its new cursor is behind the
\* sequence and the open transaction, what it holds is gapless, and its client
\* misses nothing.
LEMMA OneStream ==
    ASSUME EventsInv, NEW s \in Streams, Reads, NEW row \in StreamRow,
           stream' = [stream EXCEPT ![s] = row],
           row.cursor < nextSeq,
           \A r \in Requests : tx[r].at = "appended" => row.cursor < tx[r].seq,
           row.batch \subseteq history, \A b \in row.batch : row.cursor < b,
           \A x \in history, b \in row.batch : row.cursor < x /\ x <= b => x \in row.batch,
           \A v \in Views(row) : v.cursor <= row.cursor /\ Passed(v.cursor) /\ NoneMissing(v)
    PROVE  EventsInv'
  <1>1. RowsOK /\ KeysHeld /\ SequenceHeld /\ CursorsFollow /\ NoEventSkipped
    BY DEF EventsInv
  <1>2. UNCHANGED <<records, version, tx, nextSeq, log, aged, pruned, effects, history>>
    BY DEF Reads
  <1>3. /\ stream' \in [Streams -> StreamRow] /\ stream'[s] = row
        /\ \A i \in Streams \ {s} : stream'[i] = stream[i]
    BY <1>1 DEF RowsOK
  <1>4. RowsOK'
    BY <1>1, <1>2, <1>3 DEF RowsOK
  <1>5. KeysHeld'
    BY <1>1, <1>2 DEF KeysHeld
  <1>6. SequenceHeld'
    BY <1>1, <1>2, <1>3 DEF SequenceHeld
  <1>7. CursorsFollow'
    BY <1>1, <1>2, <1>3 DEF CursorsFollow, Passed, Views, ViewOf
  <1>8. NoEventSkipped'
    BY <1>1, <1>2, <1>3 DEF NoEventSkipped, NoneMissing, Views, ViewOf
  <1> QED
    BY <1>4, <1>5, <1>6, <1>7, <1>8 DEF EventsInv

LEMMA StreamSteps ==
    ASSUME EventsAssumption, EventsInv, NEW s \in Streams, StreamStep(s)
    PROVE  EventsInv'
  <1>1. RowsOK /\ KeysHeld /\ SequenceHeld /\ CursorsFollow /\ NoEventSkipped
    BY DEF EventsInv
  <1>2. Reads
    BY DEF StreamStep, Connect, Reauthenticate, ReadAfter, ResetStream, WriteEvent, Disconnect
  <1>3. stream \in [Streams -> StreamRow] /\ stream[s] \in StreamRow /\ nextSeq \in Nat /\ pruned \in Nat
        /\ history \subseteq Nat /\ tx \in [Requests -> TxRow]
    BY <1>1 DEF RowsOK
  <1>4. /\ stream[s].cursor < nextSeq /\ stream[s].batch \subseteq history
        /\ \A b \in stream[s].batch : stream[s].cursor < b
        /\ \A x \in history, b \in stream[s].batch : stream[s].cursor < x /\ x <= b => x \in stream[s].batch
        /\ \A v \in Views(stream[s]) : Passed(v.cursor) /\ NoneMissing(v)
        /\ \A r \in Requests : tx[r].at = "appended" => stream[s].cursor < tx[r].seq
        /\ stream[s].cursor \in Nat /\ stream[s].from \in Nat /\ stream[s].seen \subseteq Nat
    BY <1>1, <1>3 DEF CursorsFollow, NoEventSkipped, SequenceHeld, StreamRow, Views
  <1>a. \A v \in Views(stream[s]) : v \in View /\ v.cursor <= stream[s].cursor
    BY <1>1, <1>3, <1>4 DEF CursorsFollow, StreamRow, View, Views, ViewOf
  <1>b. Tail_ \in log \cup {pruned} /\ Tail_ \in Nat /\ \A c \in Nat : Passed(c) => c <= Tail_
    <2>1. Tail_ \in log \cup {pruned} /\ Tail_ \in Nat /\ \A x \in log \cup {pruned} : x <= Tail_
      BY <1>1, TailIsKnown
    <2> QED
      BY <1>1, <1>3, <2>1 DEF Passed, SequenceHeld
  \* What the client may know is what it might have known before, or nothing it misses.
  <1>5. ASSUME NEW row \in StreamRow, stream' = [stream EXCEPT ![s] = row],
               row.cursor = stream[s].cursor, row.from = stream[s].from, row.seen = stream[s].seen,
               row.batch = {} \/ row.batch = stream[s].batch, row.views \subseteq Views(stream[s])
        PROVE  EventsInv'
    <2>1. ViewOf(row) = ViewOf(stream[s])
      BY <1>5 DEF ViewOf
    <2>2. \A v \in Views(row) : v.cursor <= row.cursor /\ Passed(v.cursor) /\ NoneMissing(v)
      BY <1>4, <1>5, <1>a, <2>1 DEF Views
    <2> QED
      BY <1>2, <1>4, <1>5, <2>2, OneStream
  \* The stream begins at the tail, which no view of its client is ahead of.
  <1>6. ASSUME NEW views \in SUBSET (Views(stream[s]) \cup {NewClient, ViewOf(AtTail)}),
               stream' = [stream EXCEPT ![s] = [AtTail EXCEPT !.views = views]]
        PROVE  EventsInv'
    <2> DEFINE row == [AtTail EXCEPT !.views = views]
    <2>1. Tail_ \in log \cup {pruned} /\ Tail_ \in Nat
      BY <1>b
    <2>2. ViewOf(AtTail) = [cursor |-> Tail_, from |-> Tail_, seen |-> {}]
      BY DEF ViewOf, AtTail, NewStream
    <2>3. \A v \in views : v \in View
      BY <1>6, <1>a, <2>1, <2>2 DEF View, NewClient
    <2>a. Passed(Tail_) /\ Passed(0)
      BY <1>1, <1>3, <2>1 DEF Passed, SequenceHeld
    <2>4. /\ row \in StreamRow /\ row.cursor = Tail_ /\ row.batch = {} /\ row.views = views
          /\ ViewOf(row) = ViewOf(AtTail)
      BY <2>1, <2>3 DEF AtTail, NewStream, StreamRow, ViewOf
    <2>5. /\ Tail_ < nextSeq
          /\ \A r \in Requests : tx[r].at = "appended" => Tail_ < tx[r].seq
      BY <1>1, <2>1 DEF SequenceHeld
    <2>6. NoneMissing(ViewOf(AtTail)) /\ NoneMissing(NewClient)
      <3>1. \A c \in Nat : \A x \in history : ~(c < x /\ x <= c)
        BY <1>3
      <3>2. \A c \in Nat : NoneMissing([cursor |-> c, from |-> c, seen |-> {}])
        BY <3>1 DEF NoneMissing
      <3> QED
        BY <2>1, <2>2, <3>2 DEF NewClient
    <2> HIDE DEF row
    <2>b. ViewOf(AtTail).cursor = Tail_ /\ NewClient.cursor = 0
      BY <2>2 DEF NewClient
    <2>c. \A v \in Views(row) : v.cursor \in Nat /\ Passed(v.cursor) /\ NoneMissing(v)
      BY <1>4, <1>6, <1>a, <2>1, <2>4, <2>6, <2>a, <2>b DEF Views, View
    <2>7. \A v \in Views(row) : v.cursor <= row.cursor /\ Passed(v.cursor) /\ NoneMissing(v)
      BY <1>b, <2>4, <2>c
    <2>8. stream' = [stream EXCEPT ![s] = row]
      BY <1>6 DEF row
    <2> QED
      BY <1>2, <2>4, <2>5, <2>7, <2>8, OneStream
  \* The response ends and the client has one of the views.
  <1>8. ASSUME NEW view \in stream[s].views, stream' = [stream EXCEPT ![s] = Closed(view)] PROVE EventsInv'
    <2> DEFINE row == Closed(view)
    <2>1. view \in View /\ view.cursor <= stream[s].cursor /\ view.cursor \in Nat
          /\ Passed(view.cursor) /\ NoneMissing(view)
      BY <1>4, <1>8, <1>a DEF Views, View
    <2>2. row \in StreamRow /\ row.cursor = view.cursor /\ row.batch = {} /\ row.views = {} /\ ViewOf(row) = view
      BY <2>1 DEF Closed, NewStream, StreamRow, View, ViewOf
    <2>3. row.cursor < nextSeq /\ \A r \in Requests : tx[r].at = "appended" => row.cursor < tx[r].seq
      <3>1. \A r \in Requests : tx[r].seq \in Nat
        BY <1>3 DEF TxRow
      <3> QED
        BY <1>3, <1>4, <2>1, <2>2, <3>1
    <2> HIDE DEF row
    <2>4. \A v \in Views(row) : v.cursor <= row.cursor /\ Passed(v.cursor) /\ NoneMissing(v)
      BY <2>1, <2>2 DEF Views
    <2>5. stream' = [stream EXCEPT ![s] = row]
      BY <1>8 DEF row
    <2> QED
      BY <1>2, <2>2, <2>3, <2>4, <2>5, OneStream
  <1>7. ASSUME NEW resume \in BOOLEAN, Connect(s, resume) PROVE EventsInv'
    <2> DEFINE had == ViewOf(stream[s])
               row == [stream[s] EXCEPT !.at = "open", !.views = {had}]
    <2>1. had \in Views(stream[s]) /\ had \in View /\ had.cursor = stream[s].cursor
      BY <1>a DEF Views, ViewOf
    <2>2. CASE ~resume
      <3>1. stream' = [stream EXCEPT ![s] = [AtTail EXCEPT !.views = {NewClient}]]
        BY <1>7, <2>2 DEF Connect
      <3> QED
        BY <1>6, <3>1
    <2>3. CASE resume /\ pruned <= had.cursor /\ had.cursor <= Tail_
      <3> HIDE DEF had
      <3>1. /\ row \in StreamRow /\ row.cursor = stream[s].cursor /\ row.from = stream[s].from
            /\ row.seen = stream[s].seen /\ row.batch = stream[s].batch /\ row.views = {had}
        BY <1>3, <2>1 DEF StreamRow
      <3>2. stream' = [stream EXCEPT ![s] = row]
        BY <1>7, <2>3 DEF Connect, had
      <3> HIDE DEF row
      <3> QED
        BY <1>5, <2>1, <3>1, <3>2
    <2>4. CASE resume /\ ~(pruned <= had.cursor /\ had.cursor <= Tail_)
      <3>1. stream' = [stream EXCEPT ![s] = ResetTo({had})]
        BY <1>7, <2>4 DEF Connect
      <3> QED
        BY <1>6, <2>1, <3>1 DEF ResetTo
    <2> QED
      BY <2>2, <2>3, <2>4
  <1>9. CASE stream[s].cursor < pruned /\ stream' = [stream EXCEPT ![s].at = "pruned"]
    <2> DEFINE row == [stream[s] EXCEPT !.at = "pruned"]
    <2>1. /\ row \in StreamRow /\ row.cursor = stream[s].cursor /\ row.from = stream[s].from
          /\ row.seen = stream[s].seen /\ row.batch = stream[s].batch /\ row.views \subseteq Views(stream[s])
      BY <1>3 DEF StreamRow, Views
    <2>2. stream' = [stream EXCEPT ![s] = row]
      BY <1>3, <1>9 DEF StreamRow
    <2> HIDE DEF row
    <2> QED
      BY <1>5, <2>1, <2>2
  \* Everything after the cursor is still stored, and the read takes a prefix.
  <1>10. CASE /\ stream[s].cursor >= pruned
              /\ stream' = [stream EXCEPT ![s].at = "writing", ![s].batch = Following(stream[s].cursor)]
    <2> DEFINE after == {e \in log : e > stream[s].cursor}
               taken == Following(stream[s].cursor)
               row == [stream[s] EXCEPT !.at = "writing", !.batch = taken]
    <2>1. after \in SUBSET Nat /\ after \subseteq history /\ \A x \in after : x < nextSeq
      BY <1>1, <1>3 DEF SequenceHeld
    <2>2. taken = Oldest(after)
      BY DEF Following
    <2>3. taken \subseteq after
      BY <2>2 DEF Oldest
    <2>4. \A x \in history : stream[s].cursor < x => x \in after
      BY <1>1, <1>3, <1>4, <1>10 DEF SequenceHeld
    <2>5. \A b \in taken : stream[s].cursor < b
      BY <1>3, <1>4, <2>1, <2>3
    <2> HIDE DEF after, taken
    <2>6. \A x \in history, b \in taken : stream[s].cursor < x /\ x <= b => x \in taken
      BY <1>3, <2>1, <2>2, <2>4, OldestIsPrefix
    <2>7. /\ row \in StreamRow /\ row.cursor = stream[s].cursor /\ row.from = stream[s].from
          /\ row.seen = stream[s].seen /\ row.batch = taken /\ row.views = stream[s].views
      BY <1>3, <2>1, <2>3 DEF StreamRow
    <2>8. stream' = [stream EXCEPT ![s] = row]
      BY <1>3, <1>10 DEF StreamRow, taken
    <2> HIDE DEF row
    <2>9. \A v \in Views(row) : v \in Views(stream[s])
      BY <2>7 DEF Views, ViewOf
    <2> QED
      BY <1>2, <1>4, <1>a, <2>1, <2>3, <2>5, <2>6, <2>7, <2>8, <2>9, OneStream
  \* The oldest event of the batch is the next one after the cursor.
  <1>11. CASE WriteEvent(s)
    <2>1. PICK e \in stream[s].batch :
            (\A x \in stream[s].batch : e <= x) /\ stream' = [stream EXCEPT ![s] = Written(stream[s], e)]
      BY <1>11 DEF WriteEvent
    <2> DEFINE row == Written(stream[s], e)
               view == [cursor |-> e, from |-> stream[s].from, seen |-> stream[s].seen \cup {e}]
    <2>2. e \in Nat /\ e \in history /\ stream[s].cursor < e
      BY <1>3, <1>4
    <2>3. view \in View /\ view.cursor = e
      BY <1>4, <2>2 DEF View
    <2>4. /\ row \in StreamRow /\ row.cursor = e /\ row.views = stream[s].views \cup {view}
          /\ row.batch = stream[s].batch \ {e} /\ ViewOf(row) = view
      <3> HIDE DEF view
      <3>1. \A at \in {"open", "writing"} :
              LET new == [stream[s] EXCEPT !.cursor = e, !.seen = stream[s].seen \cup {e}, !.batch = @ \ {e},
                                           !.views = @ \cup {view}, !.at = at]
              IN  /\ new \in StreamRow /\ new.cursor = e /\ new.views = stream[s].views \cup {view}
                  /\ new.batch = stream[s].batch \ {e} /\ new.from = stream[s].from
                  /\ new.seen = stream[s].seen \cup {e}
        BY <1>3, <1>4, <2>2, <2>3 DEF StreamRow
      <3> QED
        BY <3>1 DEF Written, ViewOf, view
    <2>8. NoneMissing(view)
      <3> SUFFICES ASSUME NEW x \in history, stream[s].from < x, x <= e PROVE x \in stream[s].seen \cup {e}
        BY DEF NoneMissing
      <3>1. CASE x <= stream[s].cursor
        <4>1. ViewOf(stream[s]) \in Views(stream[s])
          BY DEF Views
        <4>2. NoneMissing(ViewOf(stream[s]))
          BY <1>4, <4>1
        <4> QED
          BY <3>1, <4>2 DEF ViewOf, NoneMissing
      <3>2. CASE stream[s].cursor < x
        <4>1. x \in stream[s].batch
          BY <1>4, <2>1, <3>2
        <4>2. x = e
          BY <1>3, <1>4, <2>1, <2>2, <4>1
        <4> QED
          BY <4>2
      <3> QED
        BY <1>3, <1>4, <3>1, <3>2
    <2> HIDE DEF row, view
    <2>5. e < nextSeq /\ \A r \in Requests : tx[r].at = "appended" => e < tx[r].seq
      BY <1>1, <2>2 DEF SequenceHeld
    <2>6. row.batch \subseteq history /\ \A b \in row.batch : e < b
      <3>1. \A b \in row.batch : b \in stream[s].batch /\ b # e /\ b \in history
        BY <1>4, <2>4
      <3>2. \A b \in row.batch : b \in Nat /\ e <= b
        BY <1>3, <2>1, <3>1
      <3> QED
        BY <2>2, <3>1, <3>2
    <2>7. \A x \in history, b \in row.batch : e < x /\ x <= b => x \in row.batch
      <3> TAKE x \in history, b \in row.batch
      <3> HAVE e < x /\ x <= b
      <3>1. x \in Nat /\ b \in Nat /\ b \in stream[s].batch /\ stream[s].cursor < e
        BY <1>3, <1>4, <2>4
      <3>2. stream[s].cursor < x /\ x # e
        BY <1>4, <2>2, <3>1
      <3> QED
        BY <1>4, <2>4, <3>1, <3>2
    <2>9. \A v \in Views(row) : v \in Views(stream[s]) \/ v = view
      BY <2>4 DEF Views
    <2>10. \A v \in Views(row) : v.cursor <= row.cursor /\ Passed(v.cursor) /\ NoneMissing(v)
      <3>1. Passed(view.cursor) /\ view.cursor <= e
        BY <2>2, <2>3 DEF Passed
      <3>2. \A v \in Views(stream[s]) : v.cursor \in Nat /\ v.cursor <= e
        BY <1>4, <1>a, <2>2 DEF View
      <3> QED
        BY <1>4, <2>4, <2>8, <2>9, <3>1, <3>2
    <2>11. stream' = [stream EXCEPT ![s] = row]
      BY <2>1 DEF row
    <2> QED
      BY <1>2, <2>2, <2>4, <2>5, <2>6, <2>7, <2>10, <2>11, OneStream
  <1>12. CASE ResetStream(s)
    <2>1. stream' = [stream EXCEPT ![s] = ResetTo(stream[s].views)]
      BY <1>12 DEF ResetStream
    <2> QED
      BY <1>6, <2>1 DEF ResetTo, Views
  <1> QED
    BY <1>7, <1>8, <1>9, <1>10, <1>11, <1>12
       DEF StreamStep, Reauthenticate, ReadAfter, ResetStream, Disconnect

-----------------------------------------------------------------------------
\* deleteEventLog: the watermark covers what is deleted.
LEMMA PruneStep ==
    ASSUME EventsInv, PruneEvents
    PROVE  EventsInv'
  <1>1. RowsOK /\ KeysHeld /\ SequenceHeld /\ CursorsFollow /\ NoEventSkipped
    BY DEF EventsInv
  <1> DEFINE candidates == {e \in aged : \A x \in log \ aged : e < x}
             deleted == Oldest(candidates)
  <1>2. /\ log' = log \ deleted /\ aged' = aged \ deleted /\ pruned' = Max(deleted \cup {pruned})
        /\ UNCHANGED <<records, version, tx, nextSeq, stream, effects, history>>
    BY DEF PruneEvents
  <1>3. deleted \subseteq log
    BY <1>1 DEF Oldest, SequenceHeld
  <1> HIDE DEF deleted
  <1>4. /\ deleted \cup {pruned} \in SUBSET Nat /\ nextSeq \in Nat
        /\ \A x \in deleted \cup {pruned} : x < nextSeq
    BY <1>1, <1>3 DEF RowsOK, SequenceHeld
  <1>5. pruned' \in deleted \cup {pruned} /\ \A x \in deleted \cup {pruned} : x <= pruned'
    BY <1>2, <1>4, MaxOfBounded
  <1>6. RowsOK'
    BY <1>1, <1>2, <1>4, <1>5 DEF RowsOK
  <1>7. KeysHeld'
    BY <1>1, <1>2 DEF KeysHeld
  <1>8. SequenceHeld'
    <2>1. pruned' < nextSeq /\ \A r \in Requests : tx[r].at = "appended" => pruned' < tx[r].seq
      BY <1>1, <1>3, <1>4, <1>5 DEF SequenceHeld
    <2>2. \A e \in history : e \in log' \/ e <= pruned'
      <3> TAKE e \in history
      <3>1. CASE e \in log
        BY <1>2, <1>5, <3>1
      <3>2. CASE e <= pruned
        BY <1>1, <1>4, <1>5, <3>2 DEF RowsOK
      <3> QED
        BY <1>1, <3>1, <3>2 DEF SequenceHeld
    <2> QED
      BY <1>1, <1>2, <2>1, <2>2 DEF SequenceHeld
  <1>9. CursorsFollow' /\ NoEventSkipped'
    <2>1. pruned' \in Nat /\ pruned <= pruned'
      BY <1>4, <1>5
    <2> QED
      BY <1>1, <1>2, <2>1, CursorsStay
  <1> QED
    BY <1>6, <1>7, <1>8, <1>9 DEF EventsInv

LEMMA EventsStep ==
    ASSUME EventsAssumption, EventsInv, [EventsNext]_eventVars
    PROVE  EventsInv'
  <1>1. RowsOK /\ KeysHeld /\ SequenceHeld /\ CursorsFollow /\ NoEventSkipped
    BY DEF EventsInv
  <1>2. ASSUME aged' \subseteq log,
               UNCHANGED <<records, version, tx, nextSeq, log, pruned, stream, effects, history>>
        PROVE  EventsInv'
    <2>1. RowsOK' /\ KeysHeld'
      BY <1>1, <1>2 DEF RowsOK, KeysHeld
    <2>2. SequenceHeld'
      BY <1>1, <1>2 DEF SequenceHeld
    <2>3. CursorsFollow' /\ NoEventSkipped'
      BY <1>1, <1>2, CursorsStay
    <2> QED
      BY <2>1, <2>2, <2>3 DEF EventsInv
  <1>3. CASE UNCHANGED eventVars
    BY <1>1, <1>2, <1>3 DEF eventVars, SequenceHeld
  <1>4. ASSUME NEW r \in Requests, RequestStep(r) PROVE EventsInv'
    BY <1>4, TransactionStep, AppendStep, CommitStep DEF RequestStep
  <1>5. ASSUME NEW s \in Streams, StreamStep(s) PROVE EventsInv'
    BY <1>5, StreamSteps
  <1>6. ASSUME NEW k \in Keys, ExpireRecord(k) PROVE EventsInv'
    BY <1>6, ExpireStep
  <1>7. ASSUME NEW e \in 1..MaxEvents, AgeEvent(e) PROVE EventsInv'
    BY <1>1, <1>2, <1>7 DEF AgeEvent, SequenceHeld
  <1>8. CASE EndSession
    BY <1>1, <1>2, <1>8 DEF EndSession, SequenceHeld
  <1>9. CASE PruneEvents
    BY <1>9, PruneStep
  <1> QED
    BY <1>3, <1>4, <1>5, <1>6, <1>7, <1>8, <1>9 DEF EventsNext

\* For any number of requests, keys, streams and events: while the record of a
\* key lives, the command sent with it takes effect at most once, whatever is
\* repeated or rolled back; and a client receives every event committed
\* between the point from which it follows the stream and its cursor, although
\* transactions commit, events are pruned and streams are reset meanwhile
\* (idempotency.Execute, events.Append, ReadAfter, deleteEventLog).
THEOREM EventsSound ==
    ASSUME EventsAssumption
    PROVE  EventsSpec => []EventsAreSound
  <1>1. EventsInit => EventsInv
    BY EventsStart
  <1>2. EventsInv /\ [EventsNext]_eventVars => EventsInv'
    BY EventsStep
  <1>3. EventsInv => EventsAreSound
    <2> HAVE EventsInv
    <2>1. \A k \in Keys : effects[k] = {} \/ \E e : effects[k] = {e}
      BY DEF EventsInv, KeysHeld
    <2>2. \A k \in Keys : Cardinality(effects[k]) \in {0, 1}
      BY <2>1, FS_EmptySet, FS_Singleton
    <2>3. AppliedOnce
      BY <2>2 DEF AppliedOnce
    <2> QED
      BY <2>3 DEF EventsInv, EventsAreSound
  <1> QED
    BY <1>1, <1>2, <1>3, PTL DEF EventsSpec

-----------------------------------------------------------------------------
(***************************************************************************)
(* Authentication: one operator, one spent token, no lost password slot.   *)
(***************************************************************************)
Ops == {"none", "bootstrap", "login", "read", "logout"}
Ats == {"idle", "slot_first", "connecting", "locking", "slot", "hashing", "inserting", "verifying",
        "reading", "touching", "revoking"}

\* The states of a handler.  A bootstrap waits for a slot within its
\* transaction, a login before it.
Handler ==
    {c \in [at : Ats, op : Ops, digest : Tokens \cup {"none"}, login : Nat] :
        (c.at = "slot" => c.op = "bootstrap") /\ (c.at = "slot_first" => c.op = "login")}

\* The rows and the handlers have these types.
AuthTypeOK ==
    /\ token \in [digest : Tokens \cup {"none"}, expired : BOOLEAN, consumed : BOOLEAN]
    /\ operators \in SUBSET Callers
    /\ caller \in [Callers -> Handler]
    /\ slots \in SUBSET Callers

\* One transaction holds the row of the token, and it began while there was no
\* operator.
RowIsHeldOnce ==
    /\ \A q, r \in RowHolders : q = r
    /\ RowHolders # {} => operators = {}

\* A slot is held by a login that goes on to its transaction or by the hash of
\* a bootstrap.
SlotHolder(r) ==
    \/ caller[r].op = "login" /\ caller[r].at \in {"connecting", "verifying"}
    \/ caller[r].op = "bootstrap" /\ caller[r].at = "hashing"

\* The inductive invariant.
AuthInv ==
    /\ AuthTypeOK
    /\ RowIsHeldOnce
    /\ \A q, r \in operators : q = r
    /\ TokenIsSpent
    /\ \A r \in slots : SlotHolder(r)

\* The empty database and the processes that start satisfy it.
LEMMA AuthInitInv == AuthInit => AuthInv
  BY DEF AuthInit, AuthInv, AuthTypeOK, Handler, NoToken, NewCaller, Ops, Ats, RowIsHeldOnce, RowHolders, TokenIsSpent

\* A request that moves on without a row or a slot keeps the invariant.
LEMMA MoveInv ==
    ASSUME AuthInv, NEW r \in Callers,
           NEW c \in Handler,
           caller' = [caller EXCEPT ![r] = c],
           slots' \in SUBSET slots, r \in slots' => SlotHolder(r)',
           r \in RowHolders' => r \in RowHolders,
           UNCHANGED <<token, operators>>
    PROVE  AuthInv'
  <1>1. caller' \in [Callers -> Handler]
        /\ \A q \in Callers : q # r => caller'[q] = caller[q]
    BY DEF AuthInv, AuthTypeOK
  <1>2. RowHolders' \in SUBSET RowHolders
    BY <1>1 DEF RowHolders
  <1>3. RowIsHeldOnce'
    BY <1>2 DEF AuthInv, RowIsHeldOnce
  <1>4. \A q \in slots' : SlotHolder(q)'
    BY <1>1 DEF AuthInv, AuthTypeOK, SlotHolder
  <1> QED
    BY <1>1, <1>3, <1>4 DEF AuthInv, AuthTypeOK, TokenIsSpent
\* Returning from a handler frees what it held.
LEMMA AnswerInv ==
    ASSUME AuthInv, NEW r \in Callers, Answer(r), slots' \in SUBSET (slots \ {r}),
           UNCHANGED <<token, operators>>
    PROVE  AuthInv'
  <1>1. NewCaller \in Handler
    BY DEF NewCaller, Ats, Ops, Handler
  <1>2. r \notin RowHolders'
    BY DEF Answer, AuthInv, AuthTypeOK, RowHolders, NewCaller
  <1> QED
    BY <1>1, <1>2, MoveInv DEF Answer

\* So does going on to a state in which neither row nor slot is held.
LEMMA GoOnInv ==
    ASSUME AuthInv, NEW r \in Callers, NEW at \in Ats \ {"slot", "slot_first"}, CallerTo(r, at), slots' \in SUBSET slots,
           r \in slots' => SlotHolder(r)', r \in RowHolders' => r \in RowHolders,
           UNCHANGED <<token, operators>>
    PROVE  AuthInv'
  <1> DEFINE c == [caller[r] EXCEPT !.at = at]
  <1>1. c \in Handler
    BY DEF AuthInv, AuthTypeOK, Handler
  <1>2. caller' = [caller EXCEPT ![r] = c]
    BY DEF CallerTo
  <1> HIDE DEF c
  <1> QED
    BY <1>1, <1>2, MoveInv

\* A step of a request: the connection, the row, the slot and the commit.
LEMMA CallerStepInv ==
    ASSUME AuthInv, NEW r \in Callers, CallerStep(r) \/ GiveUp(r)
    PROVE  AuthInv'
  <1>1. /\ caller[r] \in Handler
        /\ r \in slots => SlotHolder(r)
        /\ \A at : CallerTo(r, at) => caller'[r].at = at /\ caller'[r].op = caller[r].op
        /\ \A at : CallerTo(r, at) => \A q \in Callers : q # r => caller'[q] = caller[q]
    BY DEF AuthInv, AuthTypeOK, CallerTo, Handler
  <1>2. CASE TakeConnection(r)
    <2> DEFINE at == CASE caller[r].op = "bootstrap" -> "locking"
                       [] caller[r].op = "login" -> "verifying"
                       [] OTHER -> "reading"
    <2>1. at \in Ats \ {"slot", "slot_first"} /\ CallerTo(r, at) /\ (caller[r].op = "login" => at = "verifying")
      BY <1>2 DEF TakeConnection, Ats
    <2>2. at \in {"locking", "verifying", "reading"}
      OBVIOUS
    <2> HIDE DEF at
    <2>3. r \in slots' => SlotHolder(r)'
      BY <1>1, <1>2, <2>1 DEF TakeConnection, SlotHolder
    <2>4. r \notin RowHolders'
      BY <1>1, <2>1, <2>2 DEF RowHolders
    <2> QED
      BY <1>2, <2>1, <2>3, <2>4, GoOnInv DEF TakeConnection, Rows
  <1>3. CASE LockToken(r)
    <2>1. r \notin slots /\ RowHolders = {} /\ UNCHANGED <<token, operators, slots>>
      BY <1>1, <1>3 DEF LockToken, CallerAt, SlotHolder, Rows
    <2>2. CASE Answer(r)
      BY <2>1, <2>2, AnswerInv
    <2>3. CASE CallerTo(r, "slot") /\ operators = {}
      <3>1. \A q \in RowHolders' : q = r
        BY <1>1, <2>1, <2>3 DEF RowHolders
      <3>2. RowIsHeldOnce'
        BY <2>1, <2>3, <3>1 DEF RowIsHeldOnce
      <3>3. AuthTypeOK' /\ \A q \in slots' : SlotHolder(q)'
        BY <1>1, <1>3, <2>1, <2>3 DEF AuthInv, AuthTypeOK, CallerTo, SlotHolder, Ats, Handler, LockToken, CallerAt
      <3> QED
        BY <2>1, <2>3, <3>2, <3>3 DEF AuthInv, TokenIsSpent
    <2> QED
      BY <1>3, <2>2, <2>3 DEF LockToken
  <1>4. CASE TakeSlot(r)
    <2> DEFINE at == IF caller[r].op = "bootstrap" THEN "hashing" ELSE "connecting"
    <2>1. CallerTo(r, at) /\ slots' = slots \cup {r} /\ UNCHANGED <<token, operators>>
      BY <1>4 DEF TakeSlot, Rows
    <2>2. at \in Ats /\ (caller[r].op = "bootstrap" <=> at = "hashing") /\ at \in {"hashing", "connecting"}
      BY DEF Ats
    <2> HIDE DEF at
    <2>3. RowHolders' \in SUBSET RowHolders
      BY <1>1, <1>4, <2>1, <2>2 DEF RowHolders, TakeSlot, Handler
    <2>4. RowIsHeldOnce'
      BY <2>1, <2>3 DEF AuthInv, RowIsHeldOnce
    <2>5. AuthTypeOK'
      BY <2>1, <2>2 DEF AuthInv, AuthTypeOK, CallerTo, Handler
    <2>6. \A q \in slots' : SlotHolder(q)'
      BY <1>1, <1>4, <2>1, <2>2 DEF AuthInv, AuthTypeOK, SlotHolder, TakeSlot, Handler
    <2> QED
      BY <2>1, <2>4, <2>5, <2>6 DEF AuthInv, TokenIsSpent
  <1>5. CASE HashPassword(r)
    <2>1. slots' = slots \ {r} /\ r \in RowHolders /\ UNCHANGED <<token, operators>> /\ "inserting" \in Ats \ {"slot", "slot_first"}
      BY <1>5 DEF HashPassword, CallerAt, RowHolders, Rows, Ats
    <2> QED
      BY <1>5, <2>1, AnswerInv, GoOnInv DEF HashPassword
  <1>6. CASE CommitBootstrap(r)
    <2>1. r \in RowHolders
      BY <1>6 DEF CommitBootstrap, CallerAt, RowHolders
    <2>2. operators = {} /\ operators' = {r} /\ RowHolders = {r}
      BY <1>6, <2>1 DEF CommitBootstrap, AuthInv, RowIsHeldOnce
    <2>3. /\ caller'[r] = NewCaller /\ \A q \in Callers : q # r => caller'[q] = caller[q]
          /\ slots' = slots /\ token' = [token EXCEPT !.consumed = TRUE]
      BY <1>6 DEF CommitBootstrap, Answer, AuthInv, AuthTypeOK
    <2>4. RowHolders' = {}
      BY <2>2, <2>3 DEF RowHolders, NewCaller
    <2>5. r \notin slots
      BY <1>1, <1>6 DEF CommitBootstrap, CallerAt, SlotHolder
    <2>6. \A q \in slots' : SlotHolder(q)'
      BY <2>3, <2>5 DEF AuthInv, AuthTypeOK, SlotHolder
    <2>7. NewCaller \in Handler
      BY DEF NewCaller, Ats, Ops, Handler
    <2>8. AuthTypeOK' /\ token'.consumed
      BY <1>6, <2>2, <2>3, <2>7 DEF AuthInv, AuthTypeOK, CommitBootstrap, Answer
    <2> QED
      BY <2>2, <2>4, <2>6, <2>8 DEF AuthInv, RowIsHeldOnce, TokenIsSpent
  <1>7. CASE RefuseLogin(r) \/ AcceptLogin(r) \/ GiveUp(r)
    BY <1>7, AnswerInv DEF RefuseLogin, AcceptLogin, GiveUp, Rows
  <1>8. CASE TouchSession(r)
    <2>1. r \notin slots /\ UNCHANGED <<token, operators, slots>>
      BY <1>1, <1>8 DEF TouchSession, SlotHolder, Rows
    <2>2. CASE Answer(r)
      BY <2>1, <2>2, AnswerInv
    <2>3. CASE CallerTo(r, "revoking")
      <3>1. r \notin RowHolders' /\ "revoking" \in Ats \ {"slot", "slot_first"}
        BY <1>1, <2>3 DEF RowHolders, Ats
      <3> QED
        BY <2>1, <2>3, <3>1, GoOnInv
    <2> QED
      BY <1>8, <2>2, <2>3 DEF TouchSession
  <1>9. CASE Logout(r)
    <2>1. r \notin slots
      BY <1>1, <1>9 DEF Logout, CallerAt, SlotHolder
    <2> QED
      BY <1>9, <2>1, AnswerInv DEF Logout
  <1>10. ASSUME NEW n \in 1..MaxSessions, ReadSession(r, n) PROVE AuthInv'
    <2>1. r \notin slots /\ UNCHANGED <<token, operators, slots>>
      BY <1>1, <1>10 DEF ReadSession, SlotHolder, Rows
    <2>2. CASE Answer(r)
      BY <2>1, <2>2, AnswerInv
    <2>3. CASE caller' = [caller EXCEPT ![r].at = "touching", ![r].login = n]
      <3> DEFINE c == [[caller[r] EXCEPT !.at = "touching"] EXCEPT !.login = n]
      <3>0. n \in Nat
        BY <1>10
      <3>1. c \in Handler /\ c.at = "touching"
        BY <1>1, <3>0 DEF Ats, Handler
      <3>2. caller' = [caller EXCEPT ![r] = c]
        BY <2>3 DEF AuthInv, AuthTypeOK
      <3> HIDE DEF c
      <3>3. r \notin RowHolders'
        BY <3>1, <3>2 DEF RowHolders, AuthInv, AuthTypeOK
      <3> QED
        BY <2>1, <3>1, <3>2, <3>3, MoveInv
    <2> QED
      BY <1>10, <2>2, <2>3 DEF ReadSession
  <1> QED
    BY <1>2, <1>3, <1>4, <1>5, <1>6, <1>7, <1>8, <1>9, <1>10 DEF CallerStep

\* Every step keeps the invariant.
LEMMA AuthStepInv == AuthInv /\ [AuthNext]_authVars => AuthInv'
  <1> SUFFICES ASSUME AuthInv, [AuthNext]_authVars PROVE AuthInv'
    OBVIOUS
  <1>1. ASSUME NEW r \in Callers, CallerStep(r) \/ GiveUp(r) PROVE AuthInv'
    BY <1>1, CallerStepInv
  <1>2. ASSUME NEW r \in Callers, NEW op \in {"bootstrap", "login", "read", "logout"},
               NEW d \in Tokens \cup {"none"}, Arrive(r, op, d)
        PROVE  AuthInv'
    <2> DEFINE c == [NewCaller EXCEPT !.op = op, !.digest = d,
                       !.at = IF op = "login" THEN "slot_first" ELSE "connecting"]
    <2>1. c \in Handler
          /\ c.at \in {"slot_first", "connecting"}
      BY DEF NewCaller, Ats, Ops, Handler
    <2>2. caller' = [caller EXCEPT ![r] = c] /\ UNCHANGED <<token, operators, slots>>
      BY <1>2 DEF Arrive, Rows
    <2> HIDE DEF c
    <2>3. r \notin RowHolders' /\ r \notin slots
      BY <1>2, <2>1, <2>2 DEF Arrive, RowHolders, AuthInv, AuthTypeOK, SlotHolder
    <2> QED
      BY <2>1, <2>2, <2>3, MoveInv
  <1>3. ASSUME NEW p \in Replicas, BeginInitialize(p) PROVE AuthInv'
    BY <1>3 DEF BeginInitialize, AuthInv, AuthTypeOK, RowIsHeldOnce, RowHolders, TokenIsSpent, SlotHolder
  <1>4. ASSUME NEW p \in Replicas, InstallToken(p) PROVE AuthInv'
    <2>1. UNCHANGED <<operators, caller, slots>>
      BY <1>4 DEF InstallToken
    <2>2. token' \in [digest : Tokens \cup {"none"}, expired : BOOLEAN, consumed : BOOLEAN]
      BY <1>4 DEF InstallToken, NoToken, Tokens, AuthInv, AuthTypeOK
    <2>3. token.consumed => token' = token
      BY <1>4 DEF InstallToken, NoToken
    <2> QED
      BY <2>1, <2>2, <2>3 DEF AuthInv, AuthTypeOK, RowIsHeldOnce, RowHolders, TokenIsSpent, SlotHolder
  <1>5. CASE ExpireToken
    <2>1. /\ token'.consumed = token.consumed /\ UNCHANGED <<operators, caller, slots>>
          /\ token' \in [digest : Tokens \cup {"none"}, expired : BOOLEAN, consumed : BOOLEAN]
      BY <1>5 DEF ExpireToken, AuthInv, AuthTypeOK
    <2> QED
      BY <2>1 DEF AuthInv, AuthTypeOK, RowIsHeldOnce, RowHolders, TokenIsSpent, SlotHolder
  <1>6. CASE UNCHANGED <<token, operators, caller, slots>>
    BY <1>6 DEF AuthInv, AuthTypeOK, RowIsHeldOnce, RowHolders, TokenIsSpent, SlotHolder
  <1> QED
    BY <1>1, <1>2, <1>3, <1>4, <1>5, <1>6 DEF AuthNext, ExpireLogin, authVars

\* With any number of replicas installing their tokens and of requests racing
\* for the row, one operator is made, the token is spent with it, and no
\* password slot is lost on any way out of a handler (Bootstrap, Login,
\* InitializeBootstrap).
THEOREM AuthSound == AuthSpec => []AuthIsSound
  <1>1. AuthInv => AuthIsSound
    <2> SUFFICES ASSUME AuthInv PROVE Cardinality(operators) <= 1 /\ SlotsAreHeld
      BY DEF AuthInv, AuthIsSound, OneOperator
    <2>1. operators = {} \/ \E r : operators = {r}
      BY DEF AuthInv
    <2>2. Cardinality({}) <= 1 /\ \A r : Cardinality({r}) <= 1
      BY FS_EmptySet, FS_Singleton
    <2>3. SlotsAreHeld
      BY DEF AuthInv, SlotsAreHeld, SlotHolder
    <2> QED
      BY <2>1, <2>2, <2>3
  <1> QED
    BY <1>1, AuthInitInv, AuthStepInv, PTL DEF AuthSpec

-----------------------------------------------------------------------------
(***************************************************************************)
(* Providers: captures end with their jobs, findings describe what was     *)
(* probed, and what an operator stated stands.                             *)
(***************************************************************************)
-----------------------------------------------------------------------------
(* Types. *)

EndpointRow == [lifecycle : {"ACTIVE", "ARCHIVED"}, health : {"UNKNOWN", "HEALTHY", "UNHEALTHY"},
                configuration : Nat, checked : Nat]
Setting == [value : Values_, origin : {"UNKNOWN", "OPERATOR", "PROBED"}]
ProfileRow == [availability : {"none", "MANUAL", "AVAILABLE", "UNAVAILABLE"}, number : Nat, configuration : Nat,
               settings : [Capabilities -> Setting], complete : BOOLEAN,
               source : {"none", "OPERATOR", "DISCOVERY", "PROBE"}, probed : Nat]
CaptureRow == [kind : {"none", "discovery", "probe"}, status : {"none"} \cup OpenCapture \cup TerminalCapture,
               configuration : Nat, apiKey : Nat, profile : Nat]
JobRow == [phase : {"none", "settled"} \cup LiveJob, budget : Int, holder : ProviderWorkers \cup {NoWorker}]
Findings == [Capabilities -> {"yes", "no", "not probed"}]
ExecutorState == [at : {"idle", "beginning", "reading", "asking", "completing", "done"}, capture : Nat,
                  budget : Int, fresh : BOOLEAN, ok : BOOLEAN,
                  found : {"nothing", "listed", "not listed"} \cup Findings, retry : BOOLEAN]

\* The rows and what workers remember have these types.
ProvidersTypeOK ==
    /\ endpoint \in EndpointRow /\ apiKey \in Nat /\ profile \in ProfileRow
    /\ capture \in [Captures -> CaptureRow]
    /\ captureJob \in [Captures -> JobRow]
    /\ executor \in [ProviderWorkers -> ExecutorState]

\* Captures are scheduled one after the other, each with its job.
ScheduledInOrder ==
    \E n \in 0..MaxCaptures : \A i \in Captures :
        IF i <= n THEN capture[i].kind # "none" /\ captureJob[i].phase # "none"
        ELSE capture[i] = NoCapture /\ captureJob[i] = NoCaptureJob

\* A worker executes a capture that was scheduled, and what it found is of the
\* capture's kind.
ExecutorKnows(w) ==
    LET e == executor[w] IN
    e.at # "idle" =>
      /\ e.capture \in Captures /\ capture[e.capture].kind # "none"
      /\ e.ok => e.found \in Found(capture[e.capture])

RowsInv == ProvidersTypeOK /\ ScheduledInOrder /\ \A w \in ProviderWorkers : ExecutorKnows(w)

\* The versions of a model that operators, discoveries and probes write.
LEMMA Versions ==
    ASSUME ProvidersTypeOK
    PROVE  /\ DiscoveredUnknownSettings \in [Capabilities -> Setting]
           /\ \A v \in [Capabilities -> Values_] : NormalizeManualSettings(v) \in [Capabilities -> Setting]
           /\ \A s \in [Capabilities -> Setting], v \in [Capabilities -> Values_] :
                 ApplyOperatorEdit(s, v) \in [Capabilities -> Setting]
           /\ \A s \in [Capabilities -> Setting], v \in Findings :
                 MergeProbeFindings(s, v) \in [Capabilities -> Setting]
           /\ \A s \in [Capabilities -> Setting], complete \in BOOLEAN,
                 source \in {"OPERATOR", "DISCOVERY", "PROBE"}, probed \in Nat :
                 AppendVersion(s, complete, source, probed) \in ProfileRow
           /\ Absent \in ProfileRow
  <1>1. DiscoveredUnknownSettings \in [Capabilities -> Setting]
    BY DEF DiscoveredUnknownSettings, Setting, Values_
  <1>2. \A v \in [Capabilities -> Values_] : NormalizeManualSettings(v) \in [Capabilities -> Setting]
    BY DEF NormalizeManualSettings, Setting
  <1>3. \A s \in [Capabilities -> Setting], v \in [Capabilities -> Values_] :
           ApplyOperatorEdit(s, v) \in [Capabilities -> Setting]
    BY DEF ApplyOperatorEdit, Setting
  <1>4. \A s \in [Capabilities -> Setting], v \in Findings :
           MergeProbeFindings(s, v) \in [Capabilities -> Setting]
    BY DEF MergeProbeFindings, Setting, Findings, Values_
  <1>5. ASSUME NEW s \in [Capabilities -> Setting], NEW complete \in BOOLEAN,
               NEW source \in {"OPERATOR", "DISCOVERY", "PROBE"}, NEW probed \in Nat
        PROVE  AppendVersion(s, complete, source, probed) \in ProfileRow
    <2>1. profile \in ProfileRow /\ profile.number + 1 \in Nat /\ endpoint.configuration \in Nat
      BY DEF ProvidersTypeOK, ProfileRow, EndpointRow
    <2> QED
      BY <2>1 DEF AppendVersion, ProfileRow
  <1>6. Absent \in ProfileRow
    BY <1>1 DEF Absent, ProfileRow
  <1> QED
    BY <1>1, <1>2, <1>3, <1>4, <1>5, <1>6
\* Captures exist with their jobs.
LEMMA Scheduled ==
    ASSUME RowsInv, NEW i \in Captures
    PROVE  capture[i].kind # "none" <=> captureJob[i].phase # "none"
  BY DEF RowsInv, ScheduledInOrder, NoCapture, NoCaptureJob

\* A step that schedules nothing and lets a worker rest or go on with its
\* capture keeps captures and jobs in order.
LEMMA RowsFrame ==
    ASSUME RowsInv, ProvidersTypeOK',
           \A i \in Captures :
             IF captureJob[i].phase = "none" THEN capture'[i] = capture[i] /\ captureJob'[i] = captureJob[i]
             ELSE capture'[i].kind = capture[i].kind /\ captureJob'[i].phase # "none",
           \A w \in ProviderWorkers :
             \/ executor'[w].at = "idle"
             \/ executor'[w] = executor[w]
             \/ /\ executor[w].at # "idle" /\ executor'[w].capture = executor[w].capture
                /\ executor'[w].ok = executor[w].ok /\ executor'[w].found = executor[w].found
             \/ /\ executor'[w].capture \in Captures /\ captureJob[executor'[w].capture].phase # "none"
                /\ executor'[w].ok => executor'[w].found \in Found(capture[executor'[w].capture])
    PROVE  RowsInv'
  <1>1. ScheduledInOrder'
    <2>1. PICK n \in 0..MaxCaptures : \A i \in Captures :
             IF i <= n THEN capture[i].kind # "none" /\ captureJob[i].phase # "none"
             ELSE capture[i] = NoCapture /\ captureJob[i] = NoCaptureJob
      BY DEF RowsInv, ScheduledInOrder
    <2>2. \A i \in Captures :
             IF i <= n THEN capture'[i].kind # "none" /\ captureJob'[i].phase # "none"
             ELSE capture'[i] = NoCapture /\ captureJob'[i] = NoCaptureJob
      BY <2>1 DEF NoCaptureJob
    <2> QED
      BY <2>2 DEF ScheduledInOrder
  <1>2. \A i \in Captures : captureJob[i].phase # "none" => Found(capture'[i]) = Found(capture[i])
    BY DEF Found
  <1>3. ASSUME NEW w \in ProviderWorkers PROVE ExecutorKnows(w)'
    <2>1. ExecutorKnows(w)
      BY DEF RowsInv
    <2>2. \A i \in Captures : capture[i].kind # "none" <=> captureJob[i].phase # "none"
      BY Scheduled
    <2> QED
      BY <1>2, <2>1, <2>2 DEF ExecutorKnows
  <1> QED
    BY <1>1, <1>3 DEF RowsInv

\* Nothing is scheduled at first.
LEMMA RowsInit ==
    ASSUME ProvidersAssumption, ProvidersInit
    PROVE  RowsInv
  <1>1. Absent \in ProfileRow
    <2>1. DiscoveredUnknownSettings \in [Capabilities -> Setting]
      BY DEF DiscoveredUnknownSettings, Setting, Values_
    <2> QED
      BY <2>1 DEF Absent, ProfileRow
  <1>2. /\ NoCapture \in CaptureRow /\ NoCaptureJob \in JobRow /\ Resting_ \in ExecutorState
        /\ endpoint \in EndpointRow /\ Resting_.at = "idle"
    BY DEF ProvidersInit, NoCapture, CaptureRow, NoCaptureJob, JobRow, Resting_, ExecutorState, EndpointRow
  <1>3. ProvidersTypeOK
    BY <1>1, <1>2 DEF ProvidersInit, ProvidersTypeOK
  <1>4. ScheduledInOrder
    <2>1. 0 \in 0..MaxCaptures /\ \A i \in Captures : ~(i <= 0)
      BY DEF ProvidersAssumption, Captures
    <2> QED
      BY <2>1 DEF ProvidersInit, ScheduledInOrder
  <1>5. \A w \in ProviderWorkers : ExecutorKnows(w)
    BY <1>2 DEF ProvidersInit, ExecutorKnows
  <1> QED
    BY <1>3, <1>4, <1>5 DEF RowsInv
\* Commands of operators touch no capture, job or worker.
LEMMA CommandRows ==
    ASSUME RowsInv, UNCHANGED <<capture, captureJob, executor>>,
           endpoint' \in EndpointRow, apiKey' \in Nat, profile' \in ProfileRow
    PROVE  RowsInv'
  <1>1. ProvidersTypeOK'
    BY DEF RowsInv, ProvidersTypeOK
  <1> QED
    BY <1>1 DEF RowsInv, ScheduledInOrder, ExecutorKnows, Found

\* A new capture and its job take the next number.
LEMMA ScheduleRows ==
    ASSUME ProvidersAssumption, RowsInv, NEW kind \in {"discovery", "probe"}, NEW attempts \in Int,
           Schedule_(kind, attempts)
    PROVE  /\ RowsInv'
           /\ capture[NextCapture] = NoCapture
  <1> DEFINE k == NextCapture
             c == [kind |-> kind, status |-> "PENDING", configuration |-> endpoint.configuration,
                   apiKey |-> apiKey, profile |-> profile.number]
             q == [phase |-> "queued", budget |-> attempts, holder |-> NoWorker]
  <1>1. PICK n \in 0..MaxCaptures : \A i \in Captures :
           IF i <= n THEN capture[i].kind # "none" /\ captureJob[i].phase # "none"
           ELSE capture[i] = NoCapture /\ captureJob[i] = NoCaptureJob
    BY DEF RowsInv, ScheduledInOrder
  <1>2. k = n + 1
    <2>0. \A i \in Captures : capture[i] # NoCapture <=> i <= n
      BY <1>1 DEF NoCapture
    <2>1. {i \in Captures : capture[i] # NoCapture} = 1..n
      BY <2>0 DEF Captures, ProvidersAssumption
    <2>2. Cardinality(1..n) = n
      BY FS_Interval
    <2>3. NextCapture = 1 + Cardinality(1..n)
      BY <2>1 DEF NextCapture
    <2>4. n \in Int
      OBVIOUS
    <2> QED
      BY <2>2, <2>3, <2>4
  <1>3. /\ k \in Captures /\ capture' = [capture EXCEPT ![k] = c] /\ captureJob' = [captureJob EXCEPT ![k] = q]
        /\ UNCHANGED <<endpoint, apiKey, profile, executor>>
    BY DEF Schedule_
  <1>4. c \in CaptureRow /\ c.kind # "none" /\ q \in JobRow /\ q.phase # "none"
    BY DEF RowsInv, ProvidersTypeOK, CaptureRow, JobRow, EndpointRow, ProfileRow, OpenCapture, LiveJob
  <1> HIDE DEF k, c, q
  <1>5. ProvidersTypeOK'
    BY <1>3, <1>4 DEF RowsInv, ProvidersTypeOK
  <1>6. ScheduledInOrder'
    <2>1. n + 1 \in 0..MaxCaptures
      BY <1>2, <1>3 DEF Captures, ProvidersAssumption
    <2>2. \A i \in Captures :
             IF i <= n + 1 THEN capture'[i].kind # "none" /\ captureJob'[i].phase # "none"
             ELSE capture'[i] = NoCapture /\ captureJob'[i] = NoCaptureJob
      BY <1>1, <1>2, <1>3, <1>4 DEF RowsInv, ProvidersTypeOK, Captures
    <2> QED
      BY <2>1, <2>2 DEF ScheduledInOrder
  <1>7. capture[k] = NoCapture
    BY <1>1, <1>2, <1>3 DEF Captures
  <1>8. \A i \in Captures : capture[i].kind # "none" => capture'[i] = capture[i]
    BY <1>3, <1>7 DEF RowsInv, ProvidersTypeOK, NoCapture
  <1>9. \A w \in ProviderWorkers : ExecutorKnows(w)'
    <2> SUFFICES ASSUME NEW w \in ProviderWorkers PROVE ExecutorKnows(w)'
      OBVIOUS
    <2>1. ExecutorKnows(w) /\ executor'[w] = executor[w]
      BY <1>3 DEF RowsInv
    <2> QED
      BY <1>8, <2>1 DEF ExecutorKnows
  <1> QED
    BY <1>5, <1>6, <1>7, <1>9 DEF RowsInv, k

\* The capture a worker executes has a job.
LEMMA Executing ==
    ASSUME RowsInv, NEW w \in ProviderWorkers, executor[w].at # "idle"
    PROVE  executor[w].capture \in Captures /\ captureJob[executor[w].capture].phase # "none"
  BY Scheduled DEF RowsInv, ExecutorKnows

\* A new status leaves the rest of the captures alone.
LEMMA StatusRows ==
    ASSUME ProvidersTypeOK, NEW i \in Captures,
           \/ capture' = capture
           \/ CloseCapture(i)
           \/ \E s \in OpenCapture \cup TerminalCapture : capture' = [capture EXCEPT ![i].status = s]
    PROVE  /\ capture' \in [Captures -> CaptureRow]
           /\ \A k \in Captures : capture'[k].kind = capture[k].kind
           /\ \A k \in Captures : k # i => capture'[k] = capture[k]
  <1>1. CASE capture' = capture
    BY <1>1 DEF ProvidersTypeOK
  <1>2. ASSUME NEW s \in OpenCapture \cup TerminalCapture \cup {"none"}, capture' = [capture EXCEPT ![i].status = s]
        PROVE  /\ capture' \in [Captures -> CaptureRow]
               /\ \A k \in Captures : capture'[k].kind = capture[k].kind
               /\ \A k \in Captures : k # i => capture'[k] = capture[k]
    BY <1>2 DEF ProvidersTypeOK, CaptureRow
  <1>3. CASE CloseCapture(i)
    <2> DEFINE s == IF capture[i].status \in OpenCapture THEN "FAILED" ELSE capture[i].status
    <2>1. s \in OpenCapture \cup TerminalCapture \cup {"none"}
      BY DEF ProvidersTypeOK, CaptureRow, TerminalCapture
    <2>2. capture' = [capture EXCEPT ![i].status = s]
      BY <1>3 DEF CloseCapture, ProvidersTypeOK, CaptureRow
    <2> HIDE DEF s
    <2> QED
      BY <1>2, <2>1, <2>2
  <1> QED
    BY <1>1, <1>2, <1>3

\* Losing, cancelling, stopping and ending a job: one job changes, its capture
\* may be closed, and a worker may rest.
LEMMA JobStepRows ==
    ASSUME RowsInv, NEW i \in Captures, captureJob[i].phase # "none",
           NEW j \in JobRow, j.phase # "none", captureJob' = [captureJob EXCEPT ![i] = j],
           \/ capture' = capture
           \/ CloseCapture(i)
           \/ \E s \in OpenCapture \cup TerminalCapture : capture' = [capture EXCEPT ![i].status = s],
           endpoint' \in EndpointRow, profile' \in ProfileRow, UNCHANGED apiKey,
           executor' \in [ProviderWorkers -> ExecutorState],
           \A w \in ProviderWorkers :
             \/ executor'[w].at = "idle"
             \/ executor'[w] = executor[w]
             \/ /\ executor[w].at # "idle" /\ executor'[w].capture = executor[w].capture
                /\ executor'[w].ok = executor[w].ok /\ executor'[w].found = executor[w].found
             \/ executor'[w].capture = i /\ ~executor'[w].ok
    PROVE  RowsInv'
  <1>1. ProvidersTypeOK
    BY DEF RowsInv
  <1>2. ProvidersTypeOK'
    BY <1>1, StatusRows DEF ProvidersTypeOK
  <1>3. \A k \in Captures :
          IF captureJob[k].phase = "none" THEN capture'[k] = capture[k] /\ captureJob'[k] = captureJob[k]
          ELSE capture'[k].kind = capture[k].kind /\ captureJob'[k].phase # "none"
    BY <1>1, StatusRows DEF ProvidersTypeOK
  <1> QED
    BY <1>2, <1>3, RowsFrame
\* Every step keeps the rows, the jobs and the workers in order.
LEMMA RowsStep ==
    ASSUME ProvidersAssumption, RowsInv, [ProvidersNext]_providerVars
    PROVE  RowsInv'
  <1>1. ProvidersTypeOK
    BY DEF RowsInv
  <1>2. ASSUME NEW l \in {"ACTIVE", "ARCHIVED"}, UpdateEndpoint(l) PROVE RowsInv'
    <2>1. endpoint' \in EndpointRow
      BY <1>1, <1>2 DEF UpdateEndpoint, ProvidersTypeOK, EndpointRow
    <2> QED
      BY <1>1, <1>2, <2>1, CommandRows DEF UpdateEndpoint, NoJobs, ProvidersTypeOK
  <1>3. CASE RotateApiKey \/ Assign
    BY <1>1, <1>3, CommandRows DEF RotateApiKey, Assign, NoJobs, ProvidersTypeOK
  <1>4. ASSUME NEW v \in [Capabilities -> Values_], NEW complete \in BOOLEAN,
               CreateProfile(v, complete) \/ EditProfile(v, complete)
        PROVE  RowsInv'
    <2>1. profile.settings \in [Capabilities -> Setting]
      BY <1>1 DEF ProvidersTypeOK, ProfileRow
    <2>2. \A s \in [Capabilities -> Setting] :
            /\ AppendVersion(s, complete, "OPERATOR", 0) \in ProfileRow
            /\ [AppendVersion(s, complete, "OPERATOR", 0) EXCEPT !.availability = "MANUAL"] \in ProfileRow
      <3>1. \A p \in ProfileRow : [p EXCEPT !.availability = "MANUAL"] \in ProfileRow
        BY DEF ProfileRow
      <3> QED
        BY <1>1, <1>4, <3>1, Versions
    <2>3. profile' \in ProfileRow
      BY <1>1, <1>4, <2>1, <2>2, Versions DEF CreateProfile, EditProfile
    <2> QED
      BY <1>1, <1>4, <2>3, CommandRows DEF CreateProfile, EditProfile, NoJobs, ProvidersTypeOK
  <1>5. CASE ScheduleDiscovery \/ ScheduleProbe
    BY <1>5, ScheduleRows DEF ScheduleDiscovery, ScheduleProbe, ProvidersAssumption
  <1>6. ASSUME NEW w \in ProviderWorkers, NEW i \in Captures, LeaseCapture(w, i) PROVE RowsInv'
    <2> DEFINE j == [phase |-> "running", budget |-> captureJob[i].budget - 1, holder |-> w]
               e == [Resting_ EXCEPT !.at = "beginning", !.capture = i, !.budget = captureJob[i].budget - 1]
    <2>1. captureJob[i].budget - 1 \in Int /\ i \in Nat
      BY <1>1 DEF ProvidersTypeOK, JobRow, Captures
    <2>2. j \in JobRow /\ j.phase # "none" /\ captureJob' = [captureJob EXCEPT ![i] = j]
      BY <1>1, <1>6, <2>1 DEF LeaseCapture, JobRow, LiveJob, ProvidersTypeOK
    <2>3. e \in ExecutorState /\ e.capture = i /\ ~e.ok /\ executor' = [executor EXCEPT ![w] = e]
      BY <1>6, <2>1 DEF LeaseCapture, Resting_, ExecutorState
    <2>4. /\ UNCHANGED <<endpoint, apiKey, profile, capture>> /\ captureJob[i].phase # "none"
      BY <1>6 DEF LeaseCapture, JobsOnly
    <2> HIDE DEF j, e
    <2>5. executor' \in [ProviderWorkers -> ExecutorState] /\ executor'[w] = e
          /\ \A x \in ProviderWorkers : x # w => executor'[x] = executor[x]
      BY <1>1, <2>3 DEF ProvidersTypeOK
    <2> QED
      BY <1>1, <2>2, <2>3, <2>4, <2>5, JobStepRows DEF ProvidersTypeOK
  <1>7. ASSUME NEW i \in Captures, LoseLease(i) \/ CancelCapture(i) PROVE RowsInv'
    <2> DEFINE released(ph) == [captureJob[i] EXCEPT !.phase = ph, !.holder = NoWorker]
               marked(ph) == [captureJob[i] EXCEPT !.phase = ph]
    <2>1. \A ph \in {"queued", "settled", "cancelling"} :
             /\ released(ph) \in JobRow /\ released(ph).phase # "none"
             /\ marked(ph) \in JobRow /\ marked(ph).phase # "none"
      BY <1>1 DEF ProvidersTypeOK, JobRow, LiveJob
    <2>2. PICK j \in JobRow : j.phase # "none" /\ captureJob' = [captureJob EXCEPT ![i] = j]
      <3>1. CASE LoseLease(i)
        <4>1. \E ph \in {"queued", "settled"} : captureJob' = [captureJob EXCEPT ![i] = released(ph)]
          BY <1>1, <3>1 DEF LoseLease, ProvidersTypeOK, JobRow
        <4> HIDE DEF released
        <4> QED
          BY <2>1, <4>1
      <3>2. CASE CancelCapture(i)
        <4>1. \E ph \in {"settled", "cancelling"} : captureJob' = [captureJob EXCEPT ![i] = marked(ph)]
          BY <1>1, <3>2 DEF CancelCapture, ProvidersTypeOK, JobRow
        <4> HIDE DEF marked
        <4> QED
          BY <2>1, <4>1
      <3> QED
        BY <1>7, <3>1, <3>2
    <2>3. /\ UNCHANGED <<endpoint, apiKey, profile, executor>> /\ captureJob[i].phase # "none"
          /\ capture' = capture \/ CloseCapture(i)
      BY <1>7 DEF LoseLease, CancelCapture, JobsOnly
    <2> QED
      BY <1>1, <2>2, <2>3, JobStepRows DEF ProvidersTypeOK
  <1>8. ASSUME NEW w \in ProviderWorkers, executor[w].at # "idle", NEW e \in ExecutorState,
               executor' = [executor EXCEPT ![w] = e],
               \/ e.at = "idle"
               \/ e.capture = executor[w].capture /\ e.ok = executor[w].ok /\ e.found = executor[w].found,
               NEW j \in JobRow, j.phase # "none",
               captureJob' = [captureJob EXCEPT ![executor[w].capture] = j],
               \/ capture' = capture
               \/ CloseCapture(executor[w].capture)
               \/ \E s \in OpenCapture \cup TerminalCapture :
                    capture' = [capture EXCEPT ![executor[w].capture].status = s],
               endpoint' \in EndpointRow, profile' \in ProfileRow, UNCHANGED apiKey
        PROVE  RowsInv'
    <2>1. executor[w].capture \in Captures /\ captureJob[executor[w].capture].phase # "none"
      BY <1>8, Executing
    <2>2. executor' \in [ProviderWorkers -> ExecutorState] /\ executor'[w] = e
          /\ \A x \in ProviderWorkers : x # w => executor'[x] = executor[x]
      BY <1>1, <1>8 DEF ProvidersTypeOK
    <2>3. \A x \in ProviderWorkers :
             \/ executor'[x].at = "idle"
             \/ executor'[x] = executor[x]
             \/ /\ executor[x].at # "idle" /\ executor'[x].capture = executor[x].capture
                /\ executor'[x].ok = executor[x].ok /\ executor'[x].found = executor[x].found
      BY <1>8, <2>2
    <2> DEFINE i == executor[w].capture
    <2>4. /\ captureJob' = [captureJob EXCEPT ![i] = j]
          /\ \/ capture' = capture
             \/ CloseCapture(i)
             \/ \E s \in OpenCapture \cup TerminalCapture : capture' = [capture EXCEPT ![i].status = s]
      BY <1>8
    <2> HIDE DEF i
    <2>5. i \in Captures /\ captureJob[i].phase # "none"
      BY <2>1 DEF i
    <2> QED
      BY <1>8, <2>2, <2>3, <2>4, <2>5, JobStepRows
  <1>9. ASSUME NEW w \in ProviderWorkers, executor[w].at # "idle"
        PROVE  /\ executor[w] \in ExecutorState /\ captureJob[executor[w].capture] \in JobRow
               /\ executor[w].capture \in Captures /\ capture[executor[w].capture] \in CaptureRow
               /\ captureJob[executor[w].capture].phase # "none"
               /\ captureJob = [captureJob EXCEPT ![executor[w].capture] = captureJob[executor[w].capture]]
               /\ \A at \in {"reading", "asking", "completing", "done"} :
                    [executor[w] EXCEPT !.at = at] \in ExecutorState
    <2>1. executor[w].capture \in Captures /\ captureJob[executor[w].capture].phase # "none"
      BY <1>9, Executing
    <2> QED
      BY <1>1, <2>1 DEF ProvidersTypeOK, ExecutorState
  <1>10. ASSUME NEW w \in ProviderWorkers, BeginCapture(w) PROVE RowsInv'
    <2> DEFINE i == executor[w].capture
               at == IF BeginStatus(capture[i]) = "RUNNING" THEN "reading" ELSE "done"
               e == [executor[w] EXCEPT !.at = at]
    <2>1. executor[w].at # "idle" /\ UNCHANGED <<captureJob, endpoint, apiKey, profile>>
      BY <1>10 DEF BeginCapture, InTransaction, JobsOnly
    <2>2. at \in {"reading", "done"}
      OBVIOUS
    <2>3. e \in ExecutorState /\ e.capture = i /\ e.ok = executor[w].ok /\ e.found = executor[w].found
      BY <1>9, <2>1, <2>2 DEF ExecutorState
    <2>4. executor' = [executor EXCEPT ![w] = e]
      BY <1>10 DEF BeginCapture, ToStep
    <2>5. capture' = [capture EXCEPT ![i].status = BeginStatus(capture[i])]
      BY <1>10 DEF BeginCapture
    <2>6. BeginStatus(capture[i]) \in OpenCapture \cup TerminalCapture \/ capture' = capture
      <3>1. capture[i].status \in {"none"} \cup OpenCapture \cup TerminalCapture
        BY <1>9, <2>1 DEF CaptureRow
      <3>2. BeginStatus(capture[i]) = "none" => capture' = capture
        BY <1>1, <1>9, <2>1, <2>5 DEF BeginStatus, ProvidersTypeOK, CaptureRow
      <3> QED
        BY <3>1, <3>2 DEF BeginStatus, OpenCapture
    <2> HIDE DEF e, at
    <2> QED
      BY <1>1, <1>8, <1>9, <2>1, <2>3, <2>4, <2>5, <2>6 DEF ProvidersTypeOK
  <1>11. ASSUME NEW w \in ProviderWorkers, ReadTarget(w) PROVE RowsInv'
    <2>1. PICK fresh \in BOOLEAN : executor' = [executor EXCEPT ![w].at = "asking", ![w].fresh = fresh]
      BY <1>11 DEF ReadTarget
    <2>2. executor[w].at # "idle" /\ UNCHANGED <<capture, captureJob, endpoint, apiKey, profile>>
      BY <1>11 DEF ReadTarget, JobsOnly
    <2> DEFINE e == [[executor[w] EXCEPT !.at = "asking"] EXCEPT !.fresh = fresh]
    <2>3. e \in ExecutorState /\ e.capture = executor[w].capture /\ e.ok = executor[w].ok
          /\ e.found = executor[w].found
      BY ZenonT(60), <1>9, <2>2 DEF ExecutorState
    <2>4. executor' = [executor EXCEPT ![w] = e]
      BY <1>1, <2>1 DEF ProvidersTypeOK
    <2> HIDE DEF e
    <2> QED
      BY <1>1, <1>8, <1>9, <2>2, <2>3, <2>4 DEF ProvidersTypeOK
  <1>12. ASSUME NEW w \in ProviderWorkers, AskProvider(w) PROVE RowsInv'
    <2> DEFINE c == capture[executor[w].capture]
    <2>1. executor[w].at # "idle" /\ UNCHANGED <<capture, captureJob, endpoint, apiKey, profile>>
      BY <1>12 DEF AskProvider, JobsOnly
    <2>2. ASSUME NEW reply \in Found(c),
                 executor' = [executor EXCEPT ![w].at = "completing", ![w].ok = TRUE, ![w].found = reply]
          PROVE  RowsInv'
      <3> DEFINE e == [[[executor[w] EXCEPT !.at = "completing"] EXCEPT !.ok = TRUE] EXCEPT !.found = reply]
      <3>1. reply \in {"nothing", "listed", "not listed"} \cup Findings
        BY <2>2 DEF Found, Findings
      <3>2. e \in ExecutorState /\ e.capture = executor[w].capture /\ e.found = reply
        BY <1>9, <2>1, <3>1 DEF ExecutorState
      <3>3. executor' = [executor EXCEPT ![w] = e]
        BY <1>1, <2>2 DEF ProvidersTypeOK
      <3> HIDE DEF e
      <3>4. executor' \in [ProviderWorkers -> ExecutorState] /\ executor'[w] = e
            /\ \A x \in ProviderWorkers : x # w => executor'[x] = executor[x]
        BY <1>1, <3>2, <3>3 DEF ProvidersTypeOK
      <3>5. ProvidersTypeOK'
        BY <1>1, <2>1, <3>4 DEF ProvidersTypeOK
      <3>6. executor'[w].capture \in Captures /\ captureJob[executor'[w].capture].phase # "none"
            /\ executor'[w].found \in Found(capture[executor'[w].capture])
        BY <1>9, <2>1, <2>2, <3>2, <3>4
      <3> QED
        BY <2>1, <3>4, <3>5, <3>6, RowsFrame
    <2>3. ASSUME NEW retry \in BOOLEAN, executor' = [executor EXCEPT ![w].at = "completing", ![w].retry = retry]
          PROVE  RowsInv'
      <3> DEFINE e == [[executor[w] EXCEPT !.at = "completing"] EXCEPT !.retry = retry]
      <3>1. e \in ExecutorState /\ e.capture = executor[w].capture /\ e.ok = executor[w].ok
            /\ e.found = executor[w].found
        BY <1>9, <2>1 DEF ExecutorState
      <3>2. executor' = [executor EXCEPT ![w] = e]
        BY <1>1, <2>3 DEF ProvidersTypeOK
      <3> HIDE DEF e
      <3> QED
        BY <1>1, <1>8, <1>9, <2>1, <3>1, <3>2 DEF ProvidersTypeOK
    <2> QED
      BY <1>12, <2>2, <2>3 DEF AskProvider
  <1>13. ASSUME NEW w \in ProviderWorkers, CompleteDiscovery(w) \/ CompleteProbe(w) PROVE RowsInv'
    <2> DEFINE i == executor[w].capture
               status == Outcome(capture[i], executor[w].ok)
               e == [executor[w] EXCEPT !.at = "done"]
    <2>1. executor[w].at # "idle" /\ UNCHANGED <<captureJob, apiKey>>
      BY <1>13 DEF CompleteDiscovery, CompleteProbe, InTransaction
    <2>2. e \in ExecutorState /\ e.capture = i /\ e.ok = executor[w].ok /\ e.found = executor[w].found
      BY <1>9, <2>1 DEF ExecutorState
    <2>3. executor' = [executor EXCEPT ![w] = e] /\ capture' = [capture EXCEPT ![i].status = status]
      BY <1>13 DEF CompleteDiscovery, CompleteProbe, ToStep
    <2>4. status \in OpenCapture \cup TerminalCapture
      BY DEF Outcome, TerminalCapture
    <2>5. endpoint' \in EndpointRow
      <3>1. \A s \in {"HEALTHY", "UNHEALTHY"}, n \in Nat :
               [endpoint EXCEPT !.health = s, !.checked = n] \in EndpointRow
        BY <1>1 DEF ProvidersTypeOK, EndpointRow
      <3>2. capture[i].configuration \in Nat
        BY <1>9, <2>1 DEF CaptureRow
      <3> QED
        BY <1>1, <1>13, <3>1, <3>2 DEF CompleteDiscovery, CompleteProbe, ProvidersTypeOK
    <2>6. profile' \in ProfileRow
      <3>1. profile \in ProfileRow /\ profile.settings \in [Capabilities -> Setting] /\ profile.complete \in BOOLEAN
        BY <1>1 DEF ProvidersTypeOK, ProfileRow
      <3>2. \A p \in ProfileRow, a \in {"AVAILABLE", "UNAVAILABLE"} : [p EXCEPT !.availability = a] \in ProfileRow
        BY DEF ProfileRow
      <3>3. \A found : MergeDiscovery(found) \in ProfileRow
        BY <1>1, <3>1, <3>2, Versions DEF MergeDiscovery
      <3>4. ASSUME capture[i].kind = "probe", status = "SUCCEEDED"
            PROVE  AppendVersion(MergeProbeFindings(profile.settings, executor[w].found),
                                 profile.complete, "PROBE", capture[i].profile) \in ProfileRow
        <4>1. executor[w].ok
          BY <3>4 DEF Outcome
        <4>2. executor[w].found \in Findings
          BY <2>1, <3>4, <4>1 DEF RowsInv, ExecutorKnows, Found, Findings
        <4>3. capture[i].profile \in Nat
          BY <1>9, <2>1 DEF CaptureRow
        <4> QED
          BY <1>1, <3>1, <4>2, <4>3, Versions
      <3> HIDE DEF status
      <3>5. CASE CompleteDiscovery(w)
        BY <3>1, <3>3, <3>5 DEF CompleteDiscovery, status
      <3>6. CASE CompleteProbe(w)
        BY <3>1, <3>4, <3>6 DEF CompleteProbe, status
      <3> QED
        BY <1>13, <3>5, <3>6
    <2> HIDE DEF e, status
    <2> QED
      BY <1>8, <1>9, <2>1, <2>2, <2>3, <2>4, <2>5, <2>6
  <1>14. Resting_ \in ExecutorState /\ Resting_.at = "idle"
    BY DEF Resting_, ExecutorState
  <1>15. ASSUME NEW w \in ProviderWorkers, EndHandler(w) \/ StopExecutor(w) PROVE RowsInv'
    <2> DEFINE i == executor[w].capture
    <2>1. /\ executor[w].at # "idle" /\ UNCHANGED <<endpoint, apiKey, profile>>
          /\ executor' = [executor EXCEPT ![w] = Resting_]
          /\ capture' = capture \/ CloseCapture(i)
      BY <1>15 DEF EndHandler, StopExecutor, InTransaction, JobsOnly
    <2>2. \/ captureJob' = captureJob
          \/ \E ph \in {"queued", "settled"} :
               captureJob' = [captureJob EXCEPT ![i] = [captureJob[i] EXCEPT !.phase = ph, !.holder = NoWorker]]
      BY ZenonT(60), <1>1, <1>9, <1>15, <2>1 DEF EndHandler, StopExecutor, ProvidersTypeOK, JobRow
    <2>3. CASE captureJob' = captureJob
      BY <1>1, <1>8, <1>9, <1>14, <2>1, <2>3 DEF ProvidersTypeOK
    <2>4. ASSUME NEW ph \in {"queued", "settled"},
                 captureJob' = [captureJob EXCEPT ![i] = [captureJob[i] EXCEPT !.phase = ph, !.holder = NoWorker]]
          PROVE  RowsInv'
      <3> DEFINE j == [captureJob[i] EXCEPT !.phase = ph, !.holder = NoWorker]
      <3>1. j \in JobRow /\ j.phase # "none"
        BY <1>9, <2>1 DEF JobRow, LiveJob
      <3>2. captureJob' = [captureJob EXCEPT ![i] = j]
        BY <2>4
      <3> HIDE DEF j
      <3> QED
        BY <1>1, <1>8, <1>14, <2>1, <3>1, <3>2 DEF ProvidersTypeOK
    <2> QED
      BY <2>2, <2>3, <2>4
  <1>16. CASE UNCHANGED providerVars
    <2>1. ProvidersTypeOK'
      BY <1>1, <1>16 DEF ProvidersTypeOK, providerVars
    <2> QED
      BY <1>16, <2>1 DEF RowsInv, ScheduledInOrder, ExecutorKnows, Found, providerVars
  <1> QED
    BY <1>2, <1>3, <1>4, <1>5, <1>6, <1>7, <1>10, <1>11, <1>12, <1>13, <1>15, <1>16
    DEF ProvidersNext, ExecutorStep
-----------------------------------------------------------------------------
(* Captures, findings and health. *)

\* A step that changes no rows but one job, and closes its capture unless the
\* job stays live, leaves no capture open without a job.
LEMMA ClosedWithJob ==
    ASSUME ProvidersTypeOK, CaptureHasJob, NEW i \in Captures,
           \A k \in Captures : k # i => captureJob'[k] = captureJob[k],
           \/ capture' = capture /\ captureJob'[i].phase \in LiveJob
           \/ CloseCapture(i)
    PROVE  CaptureHasJob'
  <1>1. \A k \in Captures : k # i => capture'[k] = capture[k]
    BY StatusRows
  <1>2. captureJob'[i].phase \in LiveJob \/ capture'[i].status \notin OpenCapture
    <2>1. CASE CloseCapture(i)
      BY <2>1 DEF CloseCapture, ProvidersTypeOK, CaptureRow, OpenCapture
    <2> QED
      BY <2>1
  <1> QED
    BY <1>1, <1>2 DEF CaptureHasJob

\* The version that is appended has the next number.
LEMMA AppendedVersion ==
    ASSUME ProvidersTypeOK, NEW settings, NEW complete, NEW source, NEW probed
    PROVE  /\ AppendVersion(settings, complete, source, probed).number = profile.number + 1
           /\ AppendVersion(settings, complete, source, probed).settings = settings
           /\ AppendVersion(settings, complete, source, probed).source = source
           /\ AppendVersion(settings, complete, source, probed).probed = probed
           /\ \A a : [AppendVersion(settings, complete, source, probed) EXCEPT !.availability = a].source = source
  BY DEF AppendVersion, ProvidersTypeOK, ProfileRow

\* What an operator writes is marked as the operator's.
LEMMA OperatorVersion ==
    ASSUME ProvidersTypeOK, NEW v, NEW complete, CreateProfile(v, complete) \/ EditProfile(v, complete)
    PROVE  profile'.source = "OPERATOR"
  <1> DEFINE Stated(settings) == AppendVersion(settings, complete, "OPERATOR", 0)
  <1>1. \A settings : /\ Stated(settings).source = "OPERATOR"
                      /\ [Stated(settings) EXCEPT !.availability = "MANUAL"].source = "OPERATOR"
    BY AppendedVersion
  <1>2. \E settings : profile' = Stated(settings) \/ profile' = [Stated(settings) EXCEPT !.availability = "MANUAL"]
    BY DEF CreateProfile, EditProfile
  <1> HIDE DEF Stated
  <1> QED
    BY <1>1, <1>2

\* Discovery changes nothing about a model it knows but whether it is there.
LEMMA MergedDiscovery ==
    ASSUME ProvidersTypeOK, NEW found
    PROVE  \/ profile = Absent /\ MergeDiscovery(found).source = "DISCOVERY"
           \/ /\ MergeDiscovery(found).settings = profile.settings
              /\ MergeDiscovery(found).source = profile.source
              /\ MergeDiscovery(found).number = profile.number
              /\ MergeDiscovery(found).probed = profile.probed
  <1>1. \A a : LET v == [profile EXCEPT !.availability = a]
               IN  /\ v.settings = profile.settings /\ v.source = profile.source
                   /\ v.number = profile.number /\ v.probed = profile.probed
    BY DEF ProvidersTypeOK, ProfileRow
  <1>2. \A settings, complete, probed :
           [AppendVersion(settings, complete, "DISCOVERY", probed) EXCEPT !.availability = "AVAILABLE"].source
             = "DISCOVERY"
    BY AppendedVersion
  <1> DEFINE Listed ==
               [AppendVersion(DiscoveredUnknownSettings, FALSE, "DISCOVERY", 0) EXCEPT !.availability = "AVAILABLE"]
             Seen(a) == [profile EXCEPT !.availability = a]
  <1>a. Absent.availability # "MANUAL"
    BY DEF Absent
  <1>b. MergeDiscovery(found) =
          CASE profile.availability = "MANUAL" -> profile
            [] profile = Absent /\ found = "listed" -> Listed
            [] profile = Absent /\ found = "not listed" -> profile
            [] OTHER -> Seen(IF found = "listed" THEN "AVAILABLE" ELSE "UNAVAILABLE")
    BY DEF MergeDiscovery
  <1> HIDE DEF Listed, Seen
  <1>3. CASE profile.availability = "MANUAL"
    <2>1. profile # Absent
      BY <1>3, <1>a
    <2>2. MergeDiscovery(found) = profile
      BY <1>3, <2>1, <1>b
    <2> QED
      BY <2>2
  <1>4. CASE profile.availability # "MANUAL" /\ profile = Absent /\ found = "listed"
    <2>1. MergeDiscovery(found) = Listed
      BY <1>4, <1>b
    <2>2. Listed.source = "DISCOVERY"
      BY <1>2 DEF Listed
    <2> QED
      BY <1>4, <2>1, <2>2
  <1>5. CASE profile.availability # "MANUAL" /\ profile = Absent /\ found = "not listed"
    BY <1>5, <1>b
  <1>6. CASE /\ profile.availability # "MANUAL" /\ ~(profile = Absent /\ found = "listed")
             /\ ~(profile = Absent /\ found = "not listed")
    <2>1. MergeDiscovery(found) = Seen(IF found = "listed" THEN "AVAILABLE" ELSE "UNAVAILABLE")
      BY <1>6, <1>b
    <2> QED
      BY <1>1, <2>1 DEF Seen
  <1> QED
    BY <1>3, <1>4, <1>5, <1>6

\* Every step keeps captures closed with their jobs, findings with their
\* version and health with its configuration.
LEMMA SoundStep ==
    ASSUME ProvidersAssumption, RowsInv, ProvidersAreSound, [ProvidersNext]_providerVars
    PROVE  ProvidersAreSound'
  <1>1. ProvidersTypeOK /\ CaptureHasJob /\ FindingsDescribeVersion /\ EndpointHealthIsCurrent
    BY DEF RowsInv, ProvidersAreSound
  <1>2. UNCHANGED profile => FindingsDescribeVersion'
    BY <1>1 DEF FindingsDescribeVersion
  <1>3. UNCHANGED endpoint => EndpointHealthIsCurrent'
    BY <1>1 DEF EndpointHealthIsCurrent
  <1>4. UNCHANGED <<capture, captureJob>> => CaptureHasJob'
    BY <1>1 DEF CaptureHasJob
  <1>5. ASSUME NEW l \in {"ACTIVE", "ARCHIVED"}, UpdateEndpoint(l) PROVE ProvidersAreSound'
    BY <1>2, <1>4, <1>5 DEF UpdateEndpoint, NoJobs, EndpointHealthIsCurrent, ProvidersAreSound
  <1>6. ASSUME NEW v \in [Capabilities -> Values_], NEW complete \in BOOLEAN,
               CreateProfile(v, complete) \/ EditProfile(v, complete)
        PROVE  ProvidersAreSound'
    <2>1. profile'.source = "OPERATOR"
      BY <1>1, <1>6, OperatorVersion
    <2> QED
      BY <1>3, <1>4, <1>6, <2>1 DEF CreateProfile, EditProfile, NoJobs, FindingsDescribeVersion, ProvidersAreSound
  <1>7. ASSUME NEW kind \in {"discovery", "probe"}, NEW attempts \in Int, Schedule_(kind, attempts)
        PROVE  ProvidersAreSound'
    <2>1. NextCapture \in Captures /\ captureJob'[NextCapture].phase = "queued"
          /\ \A k \in Captures : k # NextCapture => captureJob'[k] = captureJob[k] /\ capture'[k] = capture[k]
      BY <1>1, <1>7 DEF Schedule_, ProvidersTypeOK
    <2>2. CaptureHasJob'
      BY <1>1, <2>1 DEF CaptureHasJob, LiveJob
    <2> QED
      BY <1>2, <1>3, <1>7, <2>2 DEF Schedule_, ProvidersAreSound
  <1>8. ASSUME NEW w \in ProviderWorkers, NEW i \in Captures, LeaseCapture(w, i) PROVE ProvidersAreSound'
    <2>1. capture' = capture /\ captureJob'[i].phase \in LiveJob
          /\ \A k \in Captures : k # i => captureJob'[k] = captureJob[k]
      BY <1>1, <1>8 DEF LeaseCapture, ProvidersTypeOK, LiveJob
    <2> QED
      BY <1>1, <1>2, <1>3, <1>8, <2>1, ClosedWithJob DEF LeaseCapture, JobsOnly, ProvidersAreSound
  <1>9. ASSUME NEW i \in Captures, LoseLease(i) \/ CancelCapture(i) PROVE ProvidersAreSound'
    <2>1. \A k \in Captures : k # i => captureJob'[k] = captureJob[k]
      BY <1>1, <1>9 DEF LoseLease, CancelCapture, ProvidersTypeOK
    <2>2. \/ capture' = capture /\ captureJob'[i].phase \in LiveJob
          \/ CloseCapture(i)
      BY <1>1, <1>9 DEF LoseLease, CancelCapture, ProvidersTypeOK, JobRow, LiveJob
    <2> QED
      BY <1>1, <1>2, <1>3, <1>9, <2>1, <2>2, ClosedWithJob DEF LoseLease, CancelCapture, JobsOnly, ProvidersAreSound
  <1>10. ASSUME NEW w \in ProviderWorkers, InTransaction(w, executor[w].at), executor[w].at # "idle",
                captureJob' = captureJob,
                NEW s, capture' = [capture EXCEPT ![executor[w].capture].status = s]
         PROVE  CaptureHasJob'
    <2>1. captureJob[executor[w].capture].phase \in LiveJob
      BY <1>10 DEF InTransaction, LiveJob
    <2>2. \A k \in Captures : k # executor[w].capture => capture'[k] = capture[k]
      BY <1>1, <1>10 DEF ProvidersTypeOK
    <2> QED
      BY <1>1, <1>10, <2>1, <2>2 DEF CaptureHasJob
  <1>11. ASSUME NEW w \in ProviderWorkers, BeginCapture(w) PROVE ProvidersAreSound'
    <2>1. CaptureHasJob'
      BY <1>10, <1>11 DEF BeginCapture, InTransaction
    <2> QED
      BY <1>2, <1>3, <1>11, <2>1 DEF BeginCapture, JobsOnly, ProvidersAreSound
  <1>12. ASSUME NEW w \in ProviderWorkers, CompleteDiscovery(w) PROVE ProvidersAreSound'
    <2> DEFINE i == executor[w].capture
               status == Outcome(capture[i], executor[w].ok)
    <2>1. CaptureHasJob'
      BY <1>10, <1>12 DEF CompleteDiscovery, InTransaction
    <2>2. FindingsDescribeVersion'
      <3>1. profile' = profile \/ profile' = MergeDiscovery(executor[w].found)
        BY <1>12 DEF CompleteDiscovery
      <3> QED
        BY <1>1, <1>2, <3>1, MergedDiscovery DEF FindingsDescribeVersion
    <2>3. EndpointHealthIsCurrent'
      <3>1. CASE Stale(capture[i])
        BY <1>3, <1>12, <3>1 DEF CompleteDiscovery, Outcome
      <3>2. CASE ~Stale(capture[i])
        <4>1. endpoint.configuration = capture[i].configuration
          BY <3>2 DEF Stale
        <4>2. endpoint'.checked = capture[i].configuration /\ endpoint'.configuration = endpoint.configuration
          BY <1>1, <1>12, <3>2 DEF CompleteDiscovery, Outcome, ProvidersTypeOK, EndpointRow
        <4> QED
          BY <4>1, <4>2 DEF EndpointHealthIsCurrent
      <3> QED
        BY <3>1, <3>2
    <2> QED
      BY <2>1, <2>2, <2>3 DEF ProvidersAreSound
  <1>13. ASSUME NEW w \in ProviderWorkers, CompleteProbe(w) PROVE ProvidersAreSound'
    <2> DEFINE i == executor[w].capture
    <2>1. CaptureHasJob'
      BY <1>10, <1>13 DEF CompleteProbe, InTransaction
    <2>2. FindingsDescribeVersion'
      <3>1. CASE Outcome(capture[i], executor[w].ok) = "SUCCEEDED"
        <4>1. profile.number = capture[i].profile
          BY <1>13, <3>1 DEF CompleteProbe, Outcome, Stale
        <4>2. profile'.number = profile.number + 1 /\ profile'.probed = capture[i].profile
          BY <1>1, <1>13, <3>1, AppendedVersion DEF CompleteProbe
        <4>3. profile.number \in Nat
          BY <1>1 DEF ProvidersTypeOK, ProfileRow
        <4> QED
          BY <4>1, <4>2, <4>3 DEF FindingsDescribeVersion
      <3>2. CASE Outcome(capture[i], executor[w].ok) # "SUCCEEDED"
        BY <1>2, <1>13, <3>2 DEF CompleteProbe
      <3> QED
        BY <3>1, <3>2
    <2> QED
      BY <1>3, <1>13, <2>1, <2>2 DEF CompleteProbe, ProvidersAreSound
  <1>14. ASSUME NEW w \in ProviderWorkers, EndHandler(w) \/ StopExecutor(w) PROVE ProvidersAreSound'
    <2> DEFINE i == executor[w].capture
    <2>1. i \in Captures
      BY <1>14, Executing DEF EndHandler, StopExecutor, InTransaction
    <2>2. \A k \in Captures : k # i => captureJob'[k] = captureJob[k]
      BY <1>1, <1>14 DEF EndHandler, StopExecutor, ProvidersTypeOK
    <2>3. \/ UNCHANGED <<capture, captureJob>>
          \/ capture' = capture /\ captureJob'[i].phase \in LiveJob
          \/ CloseCapture(i)
      BY <1>1, <1>14, <2>1 DEF EndHandler, StopExecutor, ProvidersTypeOK, JobRow, LiveJob
    <2> HIDE DEF i
    <2>4. CaptureHasJob'
      BY <1>1, <1>4, <2>1, <2>2, <2>3, ClosedWithJob
    <2> QED
      BY <1>2, <1>3, <1>14, <2>4 DEF EndHandler, StopExecutor, JobsOnly, ProvidersAreSound
  <1>15. CASE UNCHANGED <<endpoint, profile, capture, captureJob>>
    BY <1>2, <1>3, <1>4, <1>15 DEF ProvidersAreSound
  <1>16. ASSUME ScheduleDiscovery \/ ScheduleProbe PROVE ProvidersAreSound'
    BY <1>7, <1>16 DEF ScheduleDiscovery, ScheduleProbe, ProvidersAssumption
  <1>17. ASSUME NEW w \in ProviderWorkers, ReadTarget(w) \/ AskProvider(w) PROVE ProvidersAreSound'
    BY <1>15, <1>17 DEF ReadTarget, AskProvider, JobsOnly
  <1>18. ASSUME RotateApiKey \/ Assign PROVE ProvidersAreSound'
    BY <1>15, <1>18 DEF RotateApiKey, Assign, NoJobs
  <1> QED
    BY <1>5, <1>6, <1>8, <1>9, <1>11, <1>12, <1>13, <1>14, <1>15, <1>16, <1>17, <1>18
    DEF ProvidersNext, ExecutorStep, providerVars

\* For every number of workers, captures and edits: no capture is left open
\* when its job is settled, the findings of a probe describe the version that
\* was probed and the health of an endpoint its present configuration
\* (CompleteDiscovery, CompleteProbe, TerminalCallback).
THEOREM ProvidersSound ==
    ASSUME ProvidersAssumption
    PROVE  ProvidersSpec => []ProvidersAreSound
  <1>1. ProvidersInit => RowsInv /\ ProvidersAreSound
    <2> SUFFICES ASSUME ProvidersInit PROVE ProvidersAreSound
      BY RowsInit
    <2> QED
      BY DEF ProvidersInit, ProvidersAreSound, CaptureHasJob, NoCapture, OpenCapture,
             FindingsDescribeVersion, Absent, EndpointHealthIsCurrent
  <1>2. RowsInv /\ ProvidersAreSound /\ [ProvidersNext]_providerVars => RowsInv' /\ ProvidersAreSound'
    BY RowsStep, SoundStep
  <1> QED
    BY <1>1, <1>2, PTL DEF ProvidersSpec

\* What an operator stated about a model is changed by an edit alone, whatever
\* discoveries and probes find (MergeProbeFindings, mergeDiscovery).
THEOREM OperatorValues ==
    ASSUME ProvidersAssumption
    PROVE  ProvidersSpec => OperatorValueStands
  <1> DEFINE Stands == \A c \in Capabilities :
                         profile.settings[c].origin = "OPERATOR" /\ profile'.settings[c] # profile.settings[c]
                           => profile'.source = "OPERATOR"
  <1>1. ASSUME RowsInv, [ProvidersNext]_providerVars PROVE Stands
    <2>1. ProvidersTypeOK
      BY <1>1 DEF RowsInv
    <2>2. ASSUME NEW v \in [Capabilities -> Values_], NEW complete \in BOOLEAN,
                 CreateProfile(v, complete) \/ EditProfile(v, complete)
          PROVE  profile'.source = "OPERATOR"
      BY <2>1, <2>2, OperatorVersion
    <2>3. ASSUME NEW w \in ProviderWorkers, CompleteDiscovery(w) PROVE Stands
      <3>1. profile' = profile \/ profile' = MergeDiscovery(executor[w].found)
        BY <2>3 DEF CompleteDiscovery
      <3>2. profile = Absent => \A c \in Capabilities : profile.settings[c].origin = "UNKNOWN"
        BY DEF Absent, DiscoveredUnknownSettings
      <3> QED
        BY <2>1, <3>1, <3>2, MergedDiscovery
    <2>4. ASSUME NEW w \in ProviderWorkers, CompleteProbe(w) PROVE Stands
      <3>1. profile' = profile \/ profile'.settings = MergeProbeFindings(profile.settings, executor[w].found)
        BY <2>1, <2>4, AppendedVersion DEF CompleteProbe
      <3> QED
        BY <3>1 DEF MergeProbeFindings
    <2>5. CASE UNCHANGED profile
      BY <2>5
    <2>6. ASSUME NEW w \in ProviderWorkers, ExecutorStep(w), ~CompleteDiscovery(w), ~CompleteProbe(w)
          PROVE  UNCHANGED profile
      BY <2>6 DEF ExecutorStep, LeaseCapture, BeginCapture, ReadTarget, AskProvider, EndHandler, StopExecutor, JobsOnly
    <2>7. ASSUME NEW i \in Captures, LoseLease(i) \/ CancelCapture(i) PROVE UNCHANGED profile
      BY <2>7 DEF LoseLease, CancelCapture, JobsOnly
    <2>8. ASSUME ScheduleDiscovery \/ ScheduleProbe \/ RotateApiKey \/ Assign PROVE UNCHANGED profile
      BY <2>8 DEF ScheduleDiscovery, ScheduleProbe, Schedule_, RotateApiKey, Assign
    <2>9. ASSUME NEW l \in {"ACTIVE", "ARCHIVED"}, UpdateEndpoint(l) PROVE UNCHANGED profile
      BY <2>9 DEF UpdateEndpoint
    <2> QED
      BY <1>1, <2>2, <2>3, <2>4, <2>5, <2>6, <2>7, <2>8, <2>9 DEF ProvidersNext, providerVars
  <1>2. RowsInv /\ [ProvidersNext]_providerVars =>
          [\A c \in Capabilities :
             profile.settings[c].origin = "OPERATOR" /\ profile'.settings[c] # profile.settings[c]
               => profile'.source = "OPERATOR"]_providerVars
    BY <1>1
  <1>3. ProvidersInit => RowsInv
    BY RowsInit
  <1>4. RowsInv /\ [ProvidersNext]_providerVars => RowsInv'
    BY RowsStep
  <1> QED
    BY <1>2, <1>3, <1>4, PTL DEF ProvidersSpec, OperatorValueStands

-----------------------------------------------------------------------------
(***************************************************************************)
(* Capsules: leases, sessions and attempts.                                *)
(***************************************************************************)
\* No element occurs twice.
Distinct(q) == \A i, j \in 1..Len(q) : q[i] = q[j] => i = j

LEMMA SeqSet == ASSUME NEW S, NEW q \in Seq(S) PROVE ToSet(q) = {q[i] : i \in 1..Len(q)} /\ ToSet(q) \subseteq S
  BY DEF ToSet

LEMMA AppendSet ==
    ASSUME NEW S, NEW q \in Seq(S), NEW x \in S, Distinct(q), x \notin ToSet(q)
    PROVE  Append(q, x) \in Seq(S) /\ Distinct(Append(q, x)) /\ ToSet(Append(q, x)) = ToSet(q) \cup {x}
  <1>1. /\ Append(q, x) \in Seq(S) /\ Len(Append(q, x)) = Len(q) + 1 /\ Append(q, x)[Len(q) + 1] = x
        /\ \A i \in 1..Len(q) : Append(q, x)[i] = q[i]
    OBVIOUS
  <1>2. ToSet(q) = {q[i] : i \in 1..Len(q)} /\ ToSet(Append(q, x)) = {Append(q, x)[i] : i \in 1..Len(Append(q, x))}
    BY <1>1, SeqSet
  <1>3. Len(q) \in Nat
    OBVIOUS
  <1>4. Distinct(Append(q, x))
    BY <1>1, <1>2, <1>3 DEF Distinct
  <1>5. ToSet(Append(q, x)) = ToSet(q) \cup {x}
    BY <1>1, <1>2, <1>3
  <1> QED
    BY <1>1, <1>4, <1>5

\* The tail of a sequence from a position holds what is not before it.
LEMMA RestSet ==
    ASSUME NEW S, NEW q \in Seq(S), Distinct(q), NEW n \in 0..Len(q)
    PROVE  LET r == SubSeq(q, n + 1, Len(q)) IN
           r \in Seq(S) /\ Distinct(r) /\ ToSet(r) = ToSet(q) \ {q[i] : i \in 1..n}
  <1> DEFINE r == SubSeq(q, n + 1, Len(q))
  <1>1. /\ r \in Seq(S) /\ Len(r) = Len(q) - n
        /\ \A i \in 1..(Len(q) - n) : r[i] = q[n + i]
    <2>1. Len(q) \in Nat /\ n \in Nat /\ n <= Len(q)
      OBVIOUS
    <2> QED
      BY <2>1
  <1> HIDE DEF r
  <1>2. ToSet(q) = {q[i] : i \in 1..Len(q)} /\ ToSet(r) = {r[i] : i \in 1..Len(r)}
    BY <1>1, SeqSet
  <1>3. Len(q) \in Nat /\ n \in Nat /\ n <= Len(q)
    OBVIOUS
  <1>4. Distinct(r)
    <2>1. SUFFICES ASSUME NEW i \in 1..Len(r), NEW j \in 1..Len(r), r[i] = r[j] PROVE i = j
      BY DEF Distinct
    <2>2. n + i \in 1..Len(q) /\ n + j \in 1..Len(q) /\ q[n + i] = q[n + j] /\ i \in Nat /\ j \in Nat
      BY <1>1, <1>3, <2>1
    <2>3. n + i = n + j
      BY <2>2 DEF Distinct
    <2> QED
      BY <1>3, <2>2, <2>3
  <1>5. ASSUME NEW x \in ToSet(r) PROVE x \in ToSet(q) \ {q[i] : i \in 1..n}
    <2>1. PICK i \in 1..Len(r) : x = r[i]
      BY <1>2
    <2>2. n + i \in 1..Len(q) /\ x = q[n + i] /\ n + i \notin 1..n
      BY <1>1, <1>3, <2>1
    <2> QED
      BY <1>2, <1>3, <2>2 DEF Distinct
  <1>6. ASSUME NEW x \in ToSet(q) \ {q[i] : i \in 1..n} PROVE x \in ToSet(r)
    <2>1. PICK i \in 1..Len(q) : x = q[i]
      BY <1>2
    <2>2. i \notin 1..n
      BY <1>6, <2>1
    <2>3. i - n \in 1..Len(r) /\ r[i - n] = q[n + (i - n)] /\ n + (i - n) = i
      BY <1>1, <1>3, <2>1, <2>2
    <2> QED
      BY <1>2, <2>1, <2>3
  <1> QED
    BY <1>1, <1>4, <1>5, <1>6 DEF r

\* A waiter that is taken out of the queue.
LEMMA RemoveSet ==
    ASSUME NEW S, NEW q \in Seq(S), Distinct(q), NEW x
    PROVE  LET r == RemoveFirst(q, x) IN r \in Seq(S) /\ Distinct(r) /\ ToSet(r) = ToSet(q) \ {x}
  <1>2. ToSet(q) = {q[i] : i \in 1..Len(q)} /\ Len(q) \in Nat
    BY SeqSet
  <1>3. CASE ~\E i \in 1..Len(q) : q[i] = x
    <2>1. RemoveFirst(q, x) = q
      BY <1>3 DEF RemoveFirst
    <2> QED
      BY <1>2, <1>3, <2>1
  <1>4. CASE \E i \in 1..Len(q) : q[i] = x
    <2>1. PICK k \in 1..Len(q) : q[k] = x
      BY <1>4
    <2>2. {i \in 1..Len(q) : q[i] = x} = {k}
      BY <2>1 DEF Distinct
    <2>3. Min({k}) = k
      BY <2>1 DEF Min
    <2>4. SelectInSeq(q, LAMBDA v : v = x) = k
      BY <2>2, <2>3 DEF SelectInSeq
    <2>5. RemoveFirst(q, x) = SubSeq(q, 1, k - 1) \o SubSeq(q, k + 1, Len(q))
      BY <1>4, <2>4 DEF RemoveFirst, RemoveAt
    <2> DEFINE a == SubSeq(q, 1, k - 1)
               b == SubSeq(q, k + 1, Len(q))
               r == a \o b
    <2>6. /\ a \in Seq(S) /\ Len(a) = k - 1 /\ \A i \in 1..(k - 1) : a[i] = q[i]
      BY <1>2, <2>1
    <2>7. b \in Seq(S) /\ Len(b) = Len(q) - k /\ \A i \in 1..(Len(q) - k) : b[i] = q[k + i]
      BY <1>2, <2>1
    <2> HIDE DEF a, b
    <2>c. /\ r \in Seq(S) /\ Len(r) = Len(a) + Len(b)
          /\ \A i \in 1..(Len(a) + Len(b)) : r[i] = IF i <= Len(a) THEN a[i] ELSE b[i - Len(a)]
      BY <2>6, <2>7, ConcatProperties
    <2> HIDE DEF r
    <2>8. r \in Seq(S) /\ Len(r) = Len(q) - 1
      BY <1>2, <2>1, <2>6, <2>7, <2>c
    <2>9. /\ \A i \in 1..(k - 1) : r[i] = q[i]
          /\ \A i \in k..(Len(q) - 1) : r[i] = q[i + 1]
      <3>1. ASSUME NEW i \in 1..(k - 1) PROVE r[i] = q[i]
        <4>1. i \in 1..(Len(a) + Len(b)) /\ i <= Len(a)
          BY <1>2, <2>1, <2>6, <2>7, <3>1
        <4>2. r[i] = a[i]
          BY <2>c, <4>1
        <4> QED
          BY <2>6, <3>1, <4>2
      <3>2. ASSUME NEW i \in k..(Len(q) - 1) PROVE r[i] = q[i + 1]
        <4> DEFINE m == i - (k - 1)
        <4>1. m \in 1..(Len(q) - k) /\ k + m = i + 1
          BY <1>2, <2>1, <3>2
        <4>2. i \in 1..(Len(a) + Len(b)) /\ ~(i <= Len(a)) /\ i - Len(a) = m
          BY <1>2, <2>1, <2>6, <2>7, <3>2
        <4>3. r[i] = b[i - Len(a)]
          BY <2>c, <4>2
        <4>4. b[m] = q[k + m]
          BY <2>7, <4>1
        <4> HIDE DEF m
        <4> QED
          BY <4>1, <4>2, <4>3, <4>4
      <3> QED
        BY <3>1, <3>2
    <2> DEFINE f(i) == IF i < k THEN i ELSE i + 1
    <2>10. \A i \in 1..(Len(q) - 1) : f(i) \in 1..Len(q) /\ f(i) # k /\ r[i] = q[f(i)]
      BY <1>2, <2>1, <2>9
    <2>11. Distinct(r)
      <3>1. SUFFICES ASSUME NEW i \in 1..(Len(q) - 1), NEW j \in 1..(Len(q) - 1), r[i] = r[j] PROVE i = j
        BY <2>8 DEF Distinct
      <3>2. f(i) = f(j)
        BY <2>10, <3>1 DEF Distinct
      <3> QED
        BY <1>2, <2>1, <3>2
    <2>12. ToSet(r) = {r[i] : i \in 1..(Len(q) - 1)}
      BY <2>8, SeqSet
    <2>13. ASSUME NEW y \in ToSet(r) PROVE y \in ToSet(q) \ {x}
      <3>1. PICK i \in 1..(Len(q) - 1) : y = r[i]
        BY <2>12
      <3>2. f(i) \in 1..Len(q) /\ f(i) # k /\ y = q[f(i)]
        BY <2>10, <3>1
      <3> HIDE DEF f
      <3> QED
        BY <1>2, <2>1, <3>2 DEF Distinct
    <2>14. ASSUME NEW y \in ToSet(q) \ {x} PROVE y \in ToSet(r)
      <3>1. PICK j \in 1..Len(q) : y = q[j]
        BY <1>2
      <3>2. j # k
        BY <2>1, <2>14, <3>1
      <3>3. CASE j < k
        <4>1. j \in 1..(k - 1) /\ j \in 1..(Len(q) - 1)
          BY <1>2, <2>1, <3>1, <3>3
        <4> QED
          BY <2>9, <2>12, <3>1, <4>1
      <3>4. CASE j > k
        <4>1. j - 1 \in k..(Len(q) - 1) /\ j - 1 \in 1..(Len(q) - 1) /\ (j - 1) + 1 = j
          BY <1>2, <2>1, <3>1, <3>4
        <4>2. r[j - 1] = q[j]
          BY <2>9, <4>1
        <4> QED
          BY <2>12, <3>1, <4>1, <4>2
      <3> QED
        BY <1>2, <2>1, <3>1, <3>2, <3>3, <3>4
    <2>15. RemoveFirst(q, x) = r
      BY <2>5 DEF r, a, b
    <2> QED
      BY <2>8, <2>11, <2>13, <2>14, <2>15
  <1> QED
    BY <1>3, <1>4

\* The slots of a pool that starts, each once.
LEMMA AllSlots ==
    ASSUME NEW S, IsFiniteSet(S)
    PROVE  SetToSeq(S) \in Seq(S) /\ Distinct(SetToSeq(S)) /\ ToSet(SetToSeq(S)) = S
  <1> DEFINE n == Cardinality(S)
             q == SetToSeq(S)
  <1>1. n \in Nat /\ ExistsBijection(1..n, S)
    BY FS_CardinalityType
  <1>2. \E f \in [1..n -> S] : IsInjective(f)
    BY <1>1 DEF ExistsBijection, Bijection, Injection, IsInjective
  <1>3. q \in [1..n -> S] /\ IsInjective(q)
    BY <1>2 DEF SetToSeq
  <1> HIDE DEF q
  <1>4. q \in Seq(S) /\ Len(q) = n
    BY <1>1, <1>3
  <1>5. Distinct(q)
    BY <1>3, <1>4 DEF Distinct, IsInjective
  <1>6. q \in Surjection(1..n, S)
    <2>1. q \in Injection(1..n, S)
      BY <1>3 DEF Injection
    <2>2. IsFiniteSet(1..n) /\ Cardinality(1..n) = n
      BY <1>1, FS_Interval
    <2> QED
      BY <2>1, <2>2, FS_Injection
  <1>7. ToSet(q) = S
    <2>1. \A x \in S : \E i \in 1..n : q[i] = x
      BY <1>6 DEF Surjection
    <2>2. ToSet(q) = {q[i] : i \in 1..n} /\ ToSet(q) \subseteq S
      BY <1>4, SeqSet
    <2> QED
      BY <2>1, <2>2
  <1> QED
    BY <1>4, <1>5, <1>7 DEF q

-----------------------------------------------------------------------------
(* The inductive invariant. *)
PoolRow == [state : {"NEW", "READY", "CLOSING", "CLOSED"}, free : Seq(Slots), leased : SUBSET Slots, waiters : Seq(Sessions)]
Leasing == {"dialling", "receiving", "exchanging", "draining", "completed", "closing", "releasing", "unwinding"}
SessionRow == [at : {"idle", "waiting", "failed", "succeeded"} \cup Leasing, slot : Slots \cup {Nothing}, live : BOOLEAN]
Calls == {"tool", "submit_result"} \X Values
AttemptRow ==
    [state : {"READY_MODEL", "MODEL_IN_FLIGHT", "AWAIT_TOOL", "AWAIT_COMPLETE", "TERMINAL", "FAILED", "CANCELLED"},
     next : Nat, turn : Nat, pending : {"tool", "submit_result", Nothing}, value : Values \cup {Nothing},
     retry : Nat, asked : SUBSET Calls, ran : SUBSET Calls, output : Values \cup {Nothing}]
CapsuleRow ==
    [at : {"accepting", "running", "cleaning", "down"}, who : Sessions \cup {Unused}, queue : Seq(Sessions),
     procs : SUBSET Sessions]

\* A session has a slot: it holds it, or the slot lies in its channel.
Has(o, z, s, k) == z[s].slot = k \/ (z[s].at = "waiting" /\ o[s] = k)

\* The queue and the shelf of the pool hold everything once, and a slot is
\* leased exactly while one session has it; stated of values, so that it can
\* be said of a pool before it dispatches.
PoolOK(p, o, z) ==
    /\ p \in PoolRow /\ o \in [Sessions -> Slots \cup {Nothing, Error}] /\ z \in [Sessions -> SessionRow]
    /\ Distinct(p.waiters) /\ Distinct(p.free)
    /\ \A s \in ToSet(p.waiters) : z[s].at = "waiting" /\ o[s] = Nothing
    /\ p.state # "READY" => p.waiters = <<>>
    /\ p.state = "NEW" => p.leased = {}
    /\ p.state = "READY" => ToSet(p.free) = Slots \ p.leased
    /\ \A s \in Sessions :
         /\ IF z[s].at \in Leasing THEN z[s].slot \in Slots ELSE z[s].slot = Nothing
         /\ z[s].at = "idle" => o[s] = Nothing
    /\ \A k \in Slots : k \in p.leased <=> \E s \in Sessions : Has(o, z, s, k)
    /\ \A k \in Slots, s, t \in Sessions : Has(o, z, s, k) /\ Has(o, z, t, k) => s = t

\* What is pending was asked for, and what was accepted was submitted.
AttemptOK(s) ==
    /\ attempt[s].ran \subseteq attempt[s].asked
    /\ attempt[s].pending # Nothing => <<attempt[s].pending, attempt[s].value>> \in attempt[s].asked
    /\ session[s].at \in {"draining", "completed", "releasing", "succeeded"}
         => <<"submit_result", attempt[s].output>> \in attempt[s].asked

\* A capsule that accepts connections runs nothing.
CapsuleOK(k) ==
    /\ capsule[k].procs \subseteq {capsule[k].who}
    /\ capsule[k].at \in {"accepting", "down"} => capsule[k].procs = {}

CapInv ==
    /\ PoolOK(pool, offer, session)
    /\ attempt \in [Sessions -> AttemptRow] /\ \A s \in Sessions : AttemptOK(s)
    /\ capsule \in [Slots -> CapsuleRow] /\ \A k \in Slots : CapsuleOK(k)

-----------------------------------------------------------------------------
(* dispatchLocked. *)

LEMMA DispatchFacts ==
    ASSUME NEW p \in PoolRow, Distinct(p.free), Distinct(p.waiters)
    PROVE  LET handed == {g[2] : g \in Grants(p)}
               served == {g[1] : g \in Grants(p)}
           IN
           /\ Dispatch(p) \in PoolRow /\ Dispatch(p).state = p.state
           /\ Dispatch(p).leased = p.leased \cup handed
           /\ Distinct(Dispatch(p).free) /\ ToSet(Dispatch(p).free) = ToSet(p.free) \ handed
           /\ Distinct(Dispatch(p).waiters) /\ ToSet(Dispatch(p).waiters) = ToSet(p.waiters) \ served
           /\ handed \subseteq ToSet(p.free) /\ served \subseteq ToSet(p.waiters)
           /\ \A g, h \in Grants(p) : g[1] = h[1] <=> g[2] = h[2]
           /\ p.state # "READY" => Grants(p) = {}
  <1>1. p.free \in Seq(Slots) /\ p.waiters \in Seq(Sessions) /\ p.leased \in SUBSET Slots
    BY DEF PoolRow
  <1> DEFINE m == IF Len(p.free) < Len(p.waiters) THEN Len(p.free) ELSE Len(p.waiters)
             n == IF p.state = "READY" THEN m ELSE 0
             handed == {p.free[i] : i \in 1..n}
             served == {p.waiters[i] : i \in 1..n}
  <1>2. n \in 0..Len(p.free) /\ n \in 0..Len(p.waiters) /\ n \in Nat
    BY <1>1
  <1>3. Grants(p) = {<<p.waiters[i], p.free[i]>> : i \in 1..n}
    <2>1. CASE p.state = "READY"
      BY <2>1 DEF Grants
    <2>2. CASE p.state # "READY"
      <3>1. Grants(p) = {} /\ 1..n = {}
        BY <2>2 DEF Grants
      <3> QED
        BY <3>1
    <2> QED
      BY <2>1, <2>2
  <1>4. p.state # "READY" => Grants(p) = {}
    BY DEF Grants
  <1> HIDE DEF n
  <1>5. {g[2] : g \in Grants(p)} = handed /\ {g[1] : g \in Grants(p)} = served
    <2>1. \A i \in 1..n : <<p.waiters[i], p.free[i]>>[1] = p.waiters[i] /\ <<p.waiters[i], p.free[i]>>[2] = p.free[i]
      OBVIOUS
    <2>2. \A g \in Grants(p) : g[2] \in handed /\ g[1] \in served
      BY <1>3, <2>1
    <2>3. \A k \in handed : \E g \in Grants(p) : g[2] = k
      BY <1>3, <2>1, ZenonT(60)
    <2>4. \A s \in served : \E g \in Grants(p) : g[1] = s
      BY <1>3, <2>1, ZenonT(60)
    <2> HIDE DEF handed, served
    <2> QED
      BY <2>2, <2>3, <2>4
  <1>6. Cardinality(handed) = n
    <2> DEFINE f == [i \in 1..n |-> p.free[i]]
    <2>1. f \in Bijection(1..n, handed)
      BY <1>1, <1>2 DEF Bijection, Injection, Surjection, IsInjective, Distinct
    <2>2. ExistsBijection(1..n, handed)
      BY <2>1 DEF ExistsBijection
    <2> QED
      BY <1>2, <2>2, FS_CountingElements
  <1>7. \A g, h \in Grants(p) : g[1] = h[1] <=> g[2] = h[2]
    <2>1. ASSUME NEW i \in 1..n, NEW j \in 1..n PROVE p.waiters[i] = p.waiters[j] <=> p.free[i] = p.free[j]
      BY <1>1, <1>2, SMTT(30) DEF Distinct
    <2> QED
      BY <1>3, <2>1
  <1> DEFINE newFree == SubSeq(p.free, n + 1, Len(p.free))
             newWaiters == SubSeq(p.waiters, n + 1, Len(p.waiters))
  <1>8. newFree \in Seq(Slots) /\ Distinct(newFree) /\ ToSet(newFree) = ToSet(p.free) \ handed
    BY <1>1, <1>2, RestSet
  <1>9. newWaiters \in Seq(Sessions) /\ Distinct(newWaiters) /\ ToSet(newWaiters) = ToSet(p.waiters) \ served
    BY <1>1, <1>2, RestSet
  <1>10. handed \subseteq ToSet(p.free) /\ served \subseteq ToSet(p.waiters) /\ handed \subseteq Slots
    <2>1. ToSet(p.free) = {p.free[i] : i \in 1..Len(p.free)} /\ ToSet(p.waiters) = {p.waiters[i] : i \in 1..Len(p.waiters)}
          /\ ToSet(p.free) \subseteq Slots
      BY <1>1, SeqSet
    <2> QED
      BY <1>2, <2>1
  <1> HIDE DEF handed, served
  <1>11. Dispatch(p) = [p EXCEPT !.free = newFree, !.waiters = newWaiters, !.leased = p.leased \cup handed]
    BY <1>5, <1>6 DEF Dispatch
  <1> HIDE DEF newFree, newWaiters
  <1>12. /\ Dispatch(p) \in PoolRow /\ Dispatch(p).state = p.state /\ Dispatch(p).free = newFree
         /\ Dispatch(p).waiters = newWaiters /\ Dispatch(p).leased = p.leased \cup handed
    BY <1>1, <1>8, <1>9, <1>10, <1>11 DEF PoolRow
  <1> QED
    BY <1>4, <1>5, <1>7, <1>8, <1>9, <1>10, <1>12

\* Settling gives free slots to waiters, one each.
LEMMA SettleFacts ==
    ASSUME NEW p \in PoolRow, Distinct(p.free), Distinct(p.waiters), offer \in [Sessions -> Slots \cup {Nothing, Error}],
           Settle(p)
    PROVE  \E served \in SUBSET ToSet(p.waiters), handed \in SUBSET ToSet(p.free) :
             /\ pool' \in PoolRow /\ pool'.state = p.state /\ pool'.leased = p.leased \cup handed
             /\ Distinct(pool'.free) /\ ToSet(pool'.free) = ToSet(p.free) \ handed
             /\ Distinct(pool'.waiters) /\ ToSet(pool'.waiters) = ToSet(p.waiters) \ served
             /\ p.state # "READY" => served = {} /\ handed = {}
             /\ offer' \in [Sessions -> Slots \cup {Nothing, Error}]
             /\ \A s \in Sessions \ served : offer'[s] = offer[s]
             /\ \A s \in served : offer'[s] \in handed
             /\ \A s, t \in served : offer'[s] = offer'[t] => s = t
             /\ \A k \in handed : \E s \in served : offer'[s] = k
  <1> DEFINE G == Grants(p)
             served == {g[1] : g \in G}
             handed == {g[2] : g \in G}
  <1>1. /\ Dispatch(p) \in PoolRow /\ Dispatch(p).state = p.state
        /\ Dispatch(p).leased = p.leased \cup handed
        /\ Distinct(Dispatch(p).free) /\ ToSet(Dispatch(p).free) = ToSet(p.free) \ handed
        /\ Distinct(Dispatch(p).waiters) /\ ToSet(Dispatch(p).waiters) = ToSet(p.waiters) \ served
        /\ handed \subseteq ToSet(p.free) /\ served \subseteq ToSet(p.waiters)
        /\ \A g, h \in G : g[1] = h[1] <=> g[2] = h[2]
        /\ p.state # "READY" => G = {}
    BY DispatchFacts
  <1>2. pool' = Dispatch(p) /\ offer' = Offered(p)
    BY DEF Settle
  <1>3. served \subseteq Sessions /\ handed \subseteq Slots
    <2>1. ToSet(p.free) \subseteq Slots /\ ToSet(p.waiters) \subseteq Sessions
      BY SeqSet DEF PoolRow
    <2> QED
      BY <1>1, <2>1
  <1> HIDE DEF G
  <1>4. ASSUME NEW g \in G PROVE offer'[g[1]] = g[2]
    <2> DEFINE c == CHOOSE h \in G : h[1] = g[1]
    <2>1. g[1] \in Sessions
      BY <1>3
    <2>2. offer'[g[1]] = c[2]
      BY <1>2, <2>1 DEF Offered, G
    <2>3. c \in G /\ c[1] = g[1]
      OBVIOUS
    <2> HIDE DEF c
    <2> QED
      BY <1>1, <2>2, <2>3
  <1>5. \A s \in Sessions \ served : offer'[s] = offer[s]
    BY <1>2 DEF Offered, G
  <1>6. DOMAIN offer' = Sessions /\ offer' = [s \in Sessions |-> offer'[s]]
    BY <1>2 DEF Offered
  <1>7. \A s \in served : offer'[s] \in handed
    BY <1>4
  <1>8. \A s, t \in served : offer'[s] = offer'[t] => s = t
    <2>1. SUFFICES ASSUME NEW g \in G, NEW h \in G, offer'[g[1]] = offer'[h[1]] PROVE g[1] = h[1]
      OBVIOUS
    <2> QED
      BY <1>1, <1>4, <2>1
  <1>9. \A k \in handed : \E s \in served : offer'[s] = k
    BY <1>4
  <1>10. p.state # "READY" => served = {} /\ handed = {}
    BY <1>1
  <1> HIDE DEF served, handed
  <1>11. offer' \in [Sessions -> Slots \cup {Nothing, Error}]
    <2>1. \A s \in Sessions : offer'[s] \in Slots \cup {Nothing, Error}
      BY <1>3, <1>5, <1>7
    <2> QED
      BY <1>6, <2>1
  <1> QED
    BY <1>1, <1>2, <1>5, <1>7, <1>8, <1>9, <1>10, <1>11

\* A pool in order stays in order when it dispatches.
LEMMA SettleKeeps ==
    ASSUME CapsuleAssumption, NEW p, PoolOK(p, offer, session'), Settle(p)
    PROVE  PoolOK(pool', offer', session')
  <1>1. PICK served \in SUBSET ToSet(p.waiters), handed \in SUBSET ToSet(p.free) :
             /\ pool' \in PoolRow /\ pool'.state = p.state /\ pool'.leased = p.leased \cup handed
             /\ Distinct(pool'.free) /\ ToSet(pool'.free) = ToSet(p.free) \ handed
             /\ Distinct(pool'.waiters) /\ ToSet(pool'.waiters) = ToSet(p.waiters) \ served
             /\ p.state # "READY" => served = {} /\ handed = {}
             /\ offer' \in [Sessions -> Slots \cup {Nothing, Error}]
             /\ \A s \in Sessions \ served : offer'[s] = offer[s]
             /\ \A s \in served : offer'[s] \in handed
             /\ \A s, t \in served : offer'[s] = offer'[t] => s = t
             /\ \A k \in handed : \E s \in served : offer'[s] = k
    BY SettleFacts DEF PoolOK
  <1>2. /\ p \in PoolRow /\ session' \in [Sessions -> SessionRow]
        /\ p.state = "READY" => ToSet(p.free) = Slots \ p.leased
        /\ p.state # "READY" => p.waiters = <<>>
    BY DEF PoolOK
  <1>3. ToSet(p.waiters) \subseteq Sessions /\ ToSet(p.free) \subseteq Slots
    BY <1>2, SeqSet DEF PoolRow
  <1>4. \A s \in served : s \in Sessions /\ session'[s].at = "waiting" /\ session'[s].slot = Nothing /\ offer[s] = Nothing
    BY <1>3 DEF PoolOK, Leasing
  <1>5. handed \subseteq Slots \ p.leased
    BY <1>1, <1>2, <1>3
  <1>6. Nothing \notin Slots
    BY DEF CapsuleAssumption, Nothing
  <1>7. /\ \A s \in served, k \in Slots : Has(offer', session', s, k) <=> offer'[s] = k
        /\ \A s \in served, k \in Slots : ~Has(offer, session', s, k)
        /\ \A s \in Sessions \ served, k \in Slots : Has(offer', session', s, k) <=> Has(offer, session', s, k)
    BY <1>1, <1>4, <1>6 DEF Has
  <1>8. /\ \A k \in Slots : k \in p.leased <=> \E s \in Sessions : Has(offer, session', s, k)
        /\ \A k \in Slots, s, t \in Sessions : Has(offer, session', s, k) /\ Has(offer, session', t, k) => s = t
    BY DEF PoolOK
  <1>9. ASSUME NEW k \in Slots PROVE k \in pool'.leased <=> \E s \in Sessions : Has(offer', session', s, k)
    <2>1. CASE k \in handed
      BY <1>1, <1>4, <1>7, <2>1
    <2>2. CASE k \notin handed
      BY <1>1, <1>4, <1>7, <1>8, <2>2
    <2> QED
      BY <2>1, <2>2
  <1>10. ASSUME NEW k \in Slots, NEW s \in Sessions, NEW t \in Sessions, Has(offer', session', s, k), Has(offer', session', t, k)
         PROVE  s = t
    <2>1. CASE k \in handed
      <3>1. \A q \in Sessions : ~Has(offer, session', q, k)
        BY <1>5, <1>8, <2>1
      <3>2. s \in served /\ t \in served
        BY <1>7, <1>10, <3>1
      <3> QED
        BY <1>1, <1>7, <1>10, <3>2
    <2>2. CASE k \notin handed
      <3>1. s \notin served /\ t \notin served
        BY <1>1, <1>7, <1>10, <2>2
      <3> QED
        BY <1>7, <1>8, <1>10, <3>1
    <2> QED
      BY <2>1, <2>2
  <1>11. pool'.state # "READY" => pool'.waiters = <<>>
    <2>1. SUFFICES ASSUME p.state # "READY" PROVE pool'.waiters = <<>>
      BY <1>1
    <2>2. ToSet(pool'.waiters) = {} /\ pool'.waiters \in Seq(Sessions)
      <3>1. ToSet(p.waiters) = {}
        BY <1>2, <2>1 DEF ToSet
      <3> QED
        BY <1>1, <3>1 DEF PoolRow
    <2>3. {pool'.waiters[i] : i \in 1..Len(pool'.waiters)} = {}
      BY <2>2, SeqSet
    <2>4. ~(1 \in 1..Len(pool'.waiters))
      BY <2>3
    <2> QED
      BY <2>2, <2>4, EmptySeq
  <1>12. pool'.state = "NEW" => pool'.leased = {}
    BY <1>1 DEF PoolOK
  <1>13. pool'.state = "READY" => ToSet(pool'.free) = Slots \ pool'.leased
    BY <1>1, <1>2
  <1>14. \A s \in ToSet(pool'.waiters) : session'[s].at = "waiting" /\ offer'[s] = Nothing
    BY <1>1, <1>3 DEF PoolOK
  <1>15. ASSUME NEW s \in Sessions
         PROVE  /\ IF session'[s].at \in Leasing THEN session'[s].slot \in Slots ELSE session'[s].slot = Nothing
                /\ session'[s].at = "idle" => offer'[s] = Nothing
    BY <1>1, <1>4 DEF PoolOK
  <1> QED
    BY <1>1, <1>2, <1>9, <1>10, <1>11, <1>12, <1>13, <1>14, <1>15 DEF PoolOK

-----------------------------------------------------------------------------
(* Sessions at the pool. *)

LEMMA NoSlot == ASSUME CapsuleAssumption PROVE Nothing \notin Slots /\ Error \notin Slots /\ IsFiniteSet(Slots)
  BY DEF CapsuleAssumption, Nothing, Error

\* One session moves and keeps its slot and its context.
LEMMA MoveRow ==
    ASSUME session \in [Sessions -> SessionRow], NEW s \in Sessions,
           NEW a \in {"idle", "waiting", "failed", "succeeded"} \cup Leasing, session' = [session EXCEPT ![s].at = a]
    PROVE  /\ session' \in [Sessions -> SessionRow] /\ \A t \in Sessions \ {s} : session'[t] = session[t]
           /\ session'[s].at = a /\ session'[s].slot = session[s].slot
  <1> DEFINE row == [session[s] EXCEPT !.at = a]
  <1>1. session[s] \in SessionRow
    OBVIOUS
  <1>2. row \in SessionRow /\ row.at = a /\ row.slot = session[s].slot
    BY <1>1 DEF SessionRow
  <1>3. session' = [session EXCEPT ![s] = row]
    OBVIOUS
  <1> HIDE DEF row
  <1> QED
    BY <1>2, <1>3

LEMMA EndRow ==
    ASSUME session \in [Sessions -> SessionRow], NEW s \in Sessions, NEW a \in {"failed", "succeeded"}, Ends(s, a)
    PROVE  /\ session' \in [Sessions -> SessionRow] /\ \A t \in Sessions \ {s} : session'[t] = session[t]
           /\ session'[s].at = a /\ session'[s].slot = Nothing
  <1> DEFINE row == [NewSession EXCEPT !.at = a]
  <1>1. row \in SessionRow /\ row.at = a /\ row.slot = Nothing
    BY DEF SessionRow, NewSession
  <1>2. session' = [session EXCEPT ![s] = row]
    BY DEF Ends
  <1> HIDE DEF row
  <1> QED
    BY <1>1, <1>2

\* The pool does not see how far an attempt has come.
LEMMA SameShape ==
    ASSUME PoolOK(pool, offer, session), session' \in [Sessions -> SessionRow], UNCHANGED <<pool, offer>>,
           \A t \in Sessions : /\ session'[t].slot = session[t].slot
                               /\ session'[t].at = session[t].at \/ {session[t].at, session'[t].at} \subseteq Leasing
    PROVE  PoolOK(pool', offer', session')
  <1>1. \A t \in Sessions, k \in Slots : Has(offer', session', t, k) <=> Has(offer, session, t, k)
    BY DEF Has, Leasing
  <1>2. \A t \in ToSet(pool.waiters) : t \in Sessions
    BY SeqSet DEF PoolOK, PoolRow
  <1>3. \A t \in ToSet(pool'.waiters) : session'[t].at = "waiting" /\ offer'[t] = Nothing
    BY <1>2 DEF PoolOK, Leasing
  <1>4. \A t \in Sessions :
         /\ IF session'[t].at \in Leasing THEN session'[t].slot \in Slots ELSE session'[t].slot = Nothing
         /\ session'[t].at = "idle" => offer'[t] = Nothing
    BY DEF PoolOK, Leasing
  <1>5. /\ \A k \in Slots : k \in pool'.leased <=> \E s \in Sessions : Has(offer', session', s, k)
        /\ \A k \in Slots, s, t \in Sessions : Has(offer', session', s, k) /\ Has(offer', session', t, k) => s = t
    BY <1>1 DEF PoolOK
  <1> QED
    BY <1>3, <1>4, <1>5 DEF PoolOK

LEMMA StartPoolKeeps == ASSUME CapsuleAssumption, PoolOK(pool, offer, session), StartPool PROVE PoolOK(pool', offer', session')
  <1>1. /\ pool.state = "NEW" /\ pool' = [pool EXCEPT !.free = SetToSeq(Slots), !.state = "READY"]
        /\ UNCHANGED <<offer, session>> /\ pool \in PoolRow /\ pool.leased = {} /\ pool.waiters = <<>>
    BY DEF StartPool, PoolOK
  <1>2. SetToSeq(Slots) \in Seq(Slots) /\ Distinct(SetToSeq(Slots)) /\ ToSet(SetToSeq(Slots)) = Slots
    BY NoSlot, AllSlots
  <1>3. /\ pool' \in PoolRow /\ pool'.state = "READY" /\ pool'.free = SetToSeq(Slots)
        /\ pool'.leased = {} /\ pool'.waiters = pool.waiters
    BY <1>1, <1>2 DEF PoolRow
  <1> QED
    BY <1>1, <1>2, <1>3 DEF PoolOK

LEMMA ClosePoolKeeps == ASSUME CapsuleAssumption, PoolOK(pool, offer, session), ClosePool PROVE PoolOK(pool', offer', session')
  <1> DEFINE st == IF pool.leased = {} THEN "CLOSED" ELSE "CLOSING"
  <1>1. /\ pool' = [pool EXCEPT !.state = st, !.waiters = <<>>] /\ UNCHANGED session /\ pool \in PoolRow
        /\ offer' = [s \in Sessions |-> IF s \in ToSet(pool.waiters) THEN Error ELSE offer[s]]
        /\ offer \in [Sessions -> Slots \cup {Nothing, Error}]
    BY DEF ClosePool, PoolOK
  <1>2. st \in {"CLOSED", "CLOSING"}
    OBVIOUS
  <1> HIDE DEF st
  <1>3. /\ pool' \in PoolRow /\ pool'.state = st /\ pool'.waiters = <<>> /\ pool'.leased = pool.leased /\ pool'.free = pool.free
    BY <1>1, <1>2, EmptySeq DEF PoolRow
  <1>4. offer' \in [Sessions -> Slots \cup {Nothing, Error}]
    BY <1>1
  <1>5. \A s \in Sessions : offer'[s] = offer[s] \/ (session[s].at = "waiting" /\ offer[s] = Nothing /\ offer'[s] = Error)
    BY <1>1 DEF PoolOK
  <1>6. \A s \in Sessions, k \in Slots : Has(offer', session', s, k) <=> Has(offer, session, s, k)
    BY <1>1, <1>5, NoSlot DEF Has
  <1>7. Distinct(pool'.waiters) /\ ToSet(pool'.waiters) = {}
    BY <1>3, EmptySeq DEF Distinct, ToSet
  <1>8. /\ \A k \in Slots : k \in pool'.leased <=> \E s \in Sessions : Has(offer', session', s, k)
        /\ \A k \in Slots, s, t \in Sessions : Has(offer', session', s, k) /\ Has(offer', session', t, k) => s = t
    BY <1>3, <1>6 DEF PoolOK
  <1>9. \A s \in Sessions : session'[s].at = "idle" => offer'[s] = Nothing
    BY <1>1, <1>5 DEF PoolOK
  <1> QED
    BY <1>1, <1>2, <1>3, <1>4, <1>7, <1>8, <1>9 DEF PoolOK

\* A session without a slot ends and is in no queue.
LEMMA EndsWithout ==
    ASSUME CapsuleAssumption, PoolOK(pool, offer, session), NEW s \in Sessions, NEW a \in {"failed", "succeeded"}, Ends(s, a),
           NEW p \in PoolRow, p.state = pool.state, p.leased = pool.leased, p.free = pool.free,
           Distinct(p.waiters), ToSet(p.waiters) = ToSet(pool.waiters) \ {s}, p.state # "READY" => p.waiters = <<>>,
           \A k \in Slots : ~Has(offer, session, s, k)
    PROVE  PoolOK(p, offer, session')
  <1>1. /\ session' \in [Sessions -> SessionRow] /\ \A t \in Sessions \ {s} : session'[t] = session[t]
        /\ session'[s].at = a /\ session'[s].slot = Nothing
    BY EndRow DEF PoolOK
  <1>2. /\ \A k \in Slots : ~Has(offer, session', s, k)
        /\ \A t \in Sessions, k \in Slots : Has(offer, session', t, k) <=> Has(offer, session, t, k)
    BY <1>1, NoSlot DEF Has
  <1>3. \A t \in ToSet(pool.waiters) : t \in Sessions
    BY SeqSet DEF PoolOK, PoolRow
  <1>4. \A t \in ToSet(p.waiters) : session'[t].at = "waiting" /\ offer[t] = Nothing
    BY <1>1, <1>3 DEF PoolOK
  <1>5. \A t \in Sessions :
         /\ IF session'[t].at \in Leasing THEN session'[t].slot \in Slots ELSE session'[t].slot = Nothing
         /\ session'[t].at = "idle" => offer[t] = Nothing
    BY <1>1 DEF PoolOK, Leasing
  <1>6. /\ \A k \in Slots : k \in p.leased <=> \E t \in Sessions : Has(offer, session', t, k)
        /\ \A k \in Slots, t, u \in Sessions : Has(offer, session', t, k) /\ Has(offer, session', u, k) => t = u
    BY <1>2 DEF PoolOK
  <1> QED
    BY <1>1, <1>4, <1>5, <1>6 DEF PoolOK

\* A session that has a slot ends and gives it back.
LEMMA GiveBack ==
    ASSUME CapsuleAssumption, PoolOK(pool, offer, session), NEW s \in Sessions, NEW a \in {"failed", "succeeded"}, Ends(s, a),
           NEW k \in Slots, Has(offer, session, s, k)
    PROVE  PoolOK(Returned(pool, k), offer, session')
  <1> DEFINE left == pool.leased \ {k}
             p == Returned(pool, k)
  <1>1. /\ session' \in [Sessions -> SessionRow] /\ \A t \in Sessions \ {s} : session'[t] = session[t]
        /\ session'[s].at = a /\ session'[s].slot = Nothing
    BY EndRow DEF PoolOK
  <1>2. pool \in PoolRow /\ pool.free \in Seq(Slots) /\ Distinct(pool.free) /\ k \in pool.leased
    BY DEF PoolOK, PoolRow
  <1>3. /\ p \in PoolRow /\ p.leased = left /\ p.waiters = pool.waiters
        /\ Distinct(p.free) /\ p.state # "NEW" /\ (p.state = "READY" <=> pool.state = "READY")
        /\ p.state = "READY" => ToSet(p.free) = ToSet(pool.free) \cup {k}
    <2> DEFINE q == [pool EXCEPT !.leased = left]
    <2>1. q \in PoolRow /\ q.leased = left /\ q.waiters = pool.waiters /\ q.free = pool.free /\ q.state = pool.state
      BY <1>2 DEF PoolRow
    <2>2. p = CASE pool.state = "READY" -> [q EXCEPT !.free = Append(q.free, k)]
                [] pool.state = "CLOSING" /\ q.leased = {} -> [q EXCEPT !.state = "CLOSED"]
                [] OTHER -> q
      BY DEF Returned
    <2> HIDE DEF p, q, left
    <2>3. CASE pool.state = "READY"
      <3>1. k \notin ToSet(pool.free)
        BY <1>2, <2>3 DEF PoolOK
      <3>2. /\ Append(pool.free, k) \in Seq(Slots) /\ Distinct(Append(pool.free, k))
            /\ ToSet(Append(pool.free, k)) = ToSet(pool.free) \cup {k}
        BY <1>2, <3>1, AppendSet
      <3>3. p = [q EXCEPT !.free = Append(q.free, k)]
        BY <2>2, <2>3
      <3>4. p \in PoolRow /\ p.leased = left /\ p.waiters = pool.waiters /\ p.free = Append(pool.free, k) /\ p.state = "READY"
        BY <2>1, <2>3, <3>2, <3>3 DEF PoolRow
      <3> QED
        BY <2>3, <3>2, <3>4
    <2>4. CASE pool.state = "CLOSING" /\ q.leased = {}
      <3>1. p = [q EXCEPT !.state = "CLOSED"]
        BY <2>2, <2>4
      <3>2. p \in PoolRow /\ p.leased = left /\ p.waiters = pool.waiters /\ p.free = pool.free /\ p.state = "CLOSED"
        BY <2>1, <3>1 DEF PoolRow
      <3> QED
        BY <1>2, <2>4, <3>2
    <2>5. CASE pool.state # "READY" /\ ~(pool.state = "CLOSING" /\ q.leased = {})
      <3>1. p = q
        BY <2>2, <2>5
      <3> QED
        BY <1>2, <2>1, <2>5, <3>1 DEF PoolOK
    <2> QED
      BY <2>3, <2>4, <2>5
  <1> HIDE DEF p
  <1>4. \A t \in ToSet(pool.waiters) : t \in Sessions
    BY SeqSet DEF PoolOK, PoolRow
  <1>5. s \notin ToSet(pool.waiters)
    BY NoSlot DEF PoolOK, Has, Leasing
  <1>6. \A t \in ToSet(p.waiters) : session'[t].at = "waiting" /\ offer[t] = Nothing
    BY <1>1, <1>3, <1>4, <1>5 DEF PoolOK
  <1>7. /\ \A j \in Slots : ~Has(offer, session', s, j)
        /\ \A t \in Sessions \ {s}, j \in Slots : Has(offer, session', t, j) <=> Has(offer, session, t, j)
    BY <1>1, NoSlot DEF Has
  <1>8. \A j \in Slots : Has(offer, session, s, j) => j = k
    BY NoSlot DEF Has, PoolOK, Leasing
  <1>9. ASSUME NEW j \in Slots PROVE j \in p.leased <=> \E t \in Sessions : Has(offer, session', t, j)
    <2>1. j \in pool.leased <=> \E t \in Sessions : Has(offer, session, t, j)
      BY DEF PoolOK
    <2>2. \A t \in Sessions : Has(offer, session, t, k) => t = s
      BY DEF PoolOK
    <2>3. j \in p.leased <=> j \in pool.leased /\ j # k
      BY <1>3
    <2> QED
      BY <1>7, <1>8, <2>1, <2>2, <2>3
  <1>10. \A j \in Slots, t, u \in Sessions : Has(offer, session', t, j) /\ Has(offer, session', u, j) => t = u
    <2>1. \A j \in Slots, t, u \in Sessions : Has(offer, session, t, j) /\ Has(offer, session, u, j) => t = u
      BY DEF PoolOK
    <2> QED
      BY <1>7, <2>1
  <1>11. \A t \in Sessions :
         /\ IF session'[t].at \in Leasing THEN session'[t].slot \in Slots ELSE session'[t].slot = Nothing
         /\ session'[t].at = "idle" => offer[t] = Nothing
    BY <1>1 DEF PoolOK, Leasing
  <1>12. p.state = "READY" => ToSet(p.free) = Slots \ p.leased
    <2>1. pool.state = "READY" => ToSet(pool.free) = Slots \ pool.leased
      BY DEF PoolOK
    <2>2. p.leased = pool.leased \ {k} /\ pool.leased \subseteq Slots
      BY <1>2, <1>3 DEF PoolRow
    <2> QED
      BY <1>2, <1>3, <2>1, <2>2
  <1>13. Distinct(p.waiters) /\ (p.state # "READY" => p.waiters = <<>>)
    BY <1>3 DEF PoolOK
  <1>14. offer \in [Sessions -> Slots \cup {Nothing, Error}]
    BY DEF PoolOK
  <1> QED
    BY <1>1, <1>3, <1>6, <1>9, <1>10, <1>11, <1>12, <1>13, <1>14 DEF PoolOK, p

LEMMA InvokeKeeps ==
    ASSUME CapsuleAssumption, PoolOK(pool, offer, session), NEW s \in Sessions, Invoke(s)
    PROVE  PoolOK(pool', offer', session')
  <1>1. session[s].at = "idle" /\ offer[s] = Nothing /\ session[s].slot = Nothing
    BY DEF Invoke, SessionAt, PoolOK, Leasing
  <1>2. pool \in PoolRow /\ session \in [Sessions -> SessionRow] /\ pool.waiters \in Seq(Sessions) /\ Distinct(pool.waiters)
    BY DEF PoolOK, PoolRow
  <1>3. s \notin ToSet(pool.waiters) /\ \A k \in Slots : ~Has(offer, session, s, k)
    BY <1>1, NoSlot DEF PoolOK, Has
  <1>4. CASE Ends(s, "failed") /\ UNCHANGED <<pool, offer>>
    <2>1. PoolOK(pool, offer, session')
      BY <1>2, <1>3, <1>4, EndsWithout DEF PoolOK
    <2> QED
      BY <1>4, <2>1
  <1>5. CASE /\ pool.state = "READY" /\ Settle([pool EXCEPT !.waiters = Append(@, s)])
             /\ session' = [session EXCEPT ![s].at = "waiting"]
    <2> DEFINE p == [pool EXCEPT !.waiters = Append(pool.waiters, s)]
    <2>1. /\ Append(pool.waiters, s) \in Seq(Sessions) /\ Distinct(Append(pool.waiters, s))
          /\ ToSet(Append(pool.waiters, s)) = ToSet(pool.waiters) \cup {s}
      BY <1>2, <1>3, AppendSet
    <2>2. /\ p \in PoolRow /\ p.state = pool.state /\ p.free = pool.free /\ p.leased = pool.leased
          /\ p.waiters = Append(pool.waiters, s)
      BY <1>2, <2>1 DEF PoolRow
    <2>3. Settle(p)
      BY <1>5
    <2> HIDE DEF p
    <2>4. /\ session' \in [Sessions -> SessionRow] /\ \A t \in Sessions \ {s} : session'[t] = session[t]
          /\ session'[s].at = "waiting" /\ session'[s].slot = session[s].slot
      BY <1>2, <1>5, MoveRow
    <2>5. \A t \in Sessions, k \in Slots : Has(offer, session', t, k) <=> Has(offer, session, t, k)
      BY <1>1, <2>4, NoSlot DEF Has
    <2>6. \A t \in ToSet(pool.waiters) : t \in Sessions
      BY <1>2, SeqSet
    <2>7. \A t \in ToSet(p.waiters) : session'[t].at = "waiting" /\ offer[t] = Nothing
      BY <1>1, <2>1, <2>2, <2>4, <2>6 DEF PoolOK
    <2>8. \A t \in Sessions :
         /\ IF session'[t].at \in Leasing THEN session'[t].slot \in Slots ELSE session'[t].slot = Nothing
         /\ session'[t].at = "idle" => offer[t] = Nothing
      BY <1>1, <2>4 DEF PoolOK, Leasing
    <2>9. /\ \A k \in Slots : k \in p.leased <=> \E t \in Sessions : Has(offer, session', t, k)
          /\ \A k \in Slots, t, u \in Sessions : Has(offer, session', t, k) /\ Has(offer, session', u, k) => t = u
      BY <2>2, <2>5 DEF PoolOK
    <2>10. PoolOK(p, offer, session')
      BY <1>5, <2>1, <2>2, <2>4, <2>7, <2>8, <2>9 DEF PoolOK
    <2> QED
      BY <2>3, <2>10, SettleKeeps
  <1> QED
    BY <1>4, <1>5 DEF Invoke

LEMMA TakeOfferKeeps ==
    ASSUME CapsuleAssumption, PoolOK(pool, offer, session), NEW s \in Sessions, TakeOffer(s)
    PROVE  PoolOK(pool', offer', session')
  <1>1. session[s].at = "waiting" /\ offer[s] # Nothing /\ session[s].slot = Nothing
    BY DEF TakeOffer, SessionAt, PoolOK, Leasing
  <1>2. /\ pool \in PoolRow /\ session \in [Sessions -> SessionRow] /\ pool.waiters \in Seq(Sessions) /\ Distinct(pool.waiters)
        /\ offer[s] \in Slots \cup {Nothing, Error}
    BY DEF PoolOK, PoolRow
  <1>3. s \notin ToSet(pool.waiters)
    BY <1>1 DEF PoolOK
  <1>4. CASE offer[s] = Error
    <2>1. Ends(s, "failed") /\ UNCHANGED <<pool, offer>>
      BY <1>4 DEF TakeOffer
    <2>2. \A k \in Slots : ~Has(offer, session, s, k)
      BY <1>1, <1>4, NoSlot DEF Has
    <2>3. PoolOK(pool, offer, session')
      BY <1>2, <1>3, <2>1, <2>2, EndsWithout DEF PoolOK
    <2> QED
      BY <2>1, <2>3
  <1>5. CASE offer[s] # Error /\ pool.state # "READY"
    <2>1. offer[s] \in Slots /\ Has(offer, session, s, offer[s]) /\ offer[s] \in pool.leased
      BY <1>1, <1>2, <1>5 DEF PoolOK, Has
    <2>2. pool' = Returned(pool, offer[s]) /\ Ends(s, "failed") /\ UNCHANGED offer
      BY <1>5, <2>1 DEF TakeOffer
    <2>3. PoolOK(Returned(pool, offer[s]), offer, session')
      BY <2>1, <2>2, GiveBack
    <2> QED
      BY <2>2, <2>3
  <1>6. CASE offer[s] # Error /\ pool.state = "READY"
    <2> DEFINE row == [session[s] EXCEPT !.at = "dialling", !.slot = offer[s]]
    <2>1. session' = [session EXCEPT ![s] = row] /\ UNCHANGED <<pool, offer>>
      BY <1>2, <1>6 DEF TakeOffer
    <2>2. row \in SessionRow /\ row.at = "dialling" /\ row.slot = offer[s] /\ offer[s] \in Slots
      <3>1. session[s] \in SessionRow /\ offer[s] \in Slots
        BY <1>1, <1>2, <1>6
      <3> QED
        BY <3>1 DEF SessionRow, Leasing
    <2> HIDE DEF row
    <2>3. session' \in [Sessions -> SessionRow] /\ session'[s] = row /\ \A t \in Sessions \ {s} : session'[t] = session[t]
      BY <1>2, <2>1, <2>2
    <2>4. \A t \in Sessions, k \in Slots : Has(offer, session', t, k) <=> Has(offer, session, t, k)
      BY <1>1, <2>2, <2>3, NoSlot DEF Has
    <2>5. \A t \in ToSet(pool.waiters) : t \in Sessions
      BY <1>2, SeqSet
    <2>6. \A t \in ToSet(pool.waiters) : session'[t].at = "waiting" /\ offer[t] = Nothing
      BY <1>3, <2>3, <2>5 DEF PoolOK
    <2>7. \A t \in Sessions :
         /\ IF session'[t].at \in Leasing THEN session'[t].slot \in Slots ELSE session'[t].slot = Nothing
         /\ session'[t].at = "idle" => offer[t] = Nothing
      BY <2>2, <2>3 DEF PoolOK, Leasing
    <2>8. /\ \A k \in Slots : k \in pool.leased <=> \E t \in Sessions : Has(offer, session', t, k)
          /\ \A k \in Slots, t, u \in Sessions : Has(offer, session', t, k) /\ Has(offer, session', u, k) => t = u
      BY <2>4 DEF PoolOK
    <2>9. PoolOK(pool, offer, session')
      BY <2>3, <2>6, <2>7, <2>8 DEF PoolOK
    <2> QED
      BY <2>1, <2>9
  <1> QED
    BY <1>4, <1>5, <1>6

LEMMA AbandonKeeps ==
    ASSUME CapsuleAssumption, PoolOK(pool, offer, session), NEW s \in Sessions, AbandonAcquire(s)
    PROVE  PoolOK(pool', offer', session')
  <1>1. session[s].at = "waiting" /\ session[s].slot = Nothing /\ Ends(s, "failed")
    BY DEF AbandonAcquire, SessionAt, PoolOK, Leasing
  <1>2. pool \in PoolRow /\ pool.waiters \in Seq(Sessions) /\ Distinct(pool.waiters)
    BY DEF PoolOK, PoolRow
  <1>3. CASE offer[s] \in Slots
    <2>1. Settle(Returned(pool, offer[s])) /\ Has(offer, session, s, offer[s])
      BY <1>1, <1>3 DEF AbandonAcquire, Has
    <2>2. PoolOK(Returned(pool, offer[s]), offer, session')
      BY <1>1, <1>3, <2>1, GiveBack
    <2> QED
      BY <2>1, <2>2, SettleKeeps
  <1>4. CASE offer[s] \notin Slots
    <2> DEFINE w == RemoveFirst(pool.waiters, s)
               p == [pool EXCEPT !.waiters = w]
    <2>1. w \in Seq(Sessions) /\ Distinct(w) /\ ToSet(w) = ToSet(pool.waiters) \ {s}
      BY <1>2, RemoveSet
    <2>2. Settle(p)
      BY <1>4 DEF AbandonAcquire
    <2>3. pool.waiters = <<>> => w = <<>>
      BY EmptySeq DEF RemoveFirst
    <2> HIDE DEF w
    <2>4. p \in PoolRow /\ p.state = pool.state /\ p.free = pool.free /\ p.leased = pool.leased /\ p.waiters = w
      BY <1>2, <2>1 DEF PoolRow
    <2> HIDE DEF p
    <2>5. \A k \in Slots : ~Has(offer, session, s, k)
      BY <1>1, <1>4, NoSlot DEF Has
    <2>6. p.state # "READY" => p.waiters = <<>>
      BY <2>3, <2>4 DEF PoolOK
    <2>7. PoolOK(p, offer, session')
      BY <1>1, <2>1, <2>4, <2>5, <2>6, EndsWithout
    <2> QED
      BY <2>2, <2>7, SettleKeeps
  <1> QED
    BY <1>3, <1>4

LEMMA ReleaseKeeps ==
    ASSUME CapsuleAssumption, PoolOK(pool, offer, session), NEW s \in Sessions, ReleaseSlot(s)
    PROVE  PoolOK(pool', offer', session')
  <1>1. /\ session[s].slot \in Slots /\ Settle(Returned(pool, session[s].slot))
        /\ Has(offer, session, s, session[s].slot)
    BY DEF ReleaseSlot, PoolOK, Leasing, Has
  <1>2. \E a \in {"failed", "succeeded"} : Ends(s, a)
    BY DEF ReleaseSlot
  <1>3. PoolOK(Returned(pool, session[s].slot), offer, session')
    BY <1>1, <1>2, GiveBack
  <1> QED
    BY <1>1, <1>3, SettleKeeps

-----------------------------------------------------------------------------
(* Attempts: the host's side. *)

\* What the goroutine of a session does between its dial and its release.
Hosts(s) ==
    \/ Dial(s)
    \/ \E turn \in 1..MaxModelRequests + 1 : ReceiveModelRequest(s, turn)
    \/ \E v \in Values : ReceiveToolCall(s, v) \/ ReceiveComplete(s, v)
    \/ ReceiveOther(s) \/ RetryExchange(s) \/ RejectModel(s)
    \/ \E name \in {"tool", "submit_result"}, v \in Values : AcceptModel(s, name, v)
    \/ Drain(s) \/ CancelAttempt(s) \/ CloseConnection(s)

\* Such a step changes nothing but its session and its attempt.
LEMMA HostMoves ==
    ASSUME CapInv, NEW s \in Sessions, Hosts(s)
    PROVE  /\ UNCHANGED <<pool, offer>> /\ session[s].at \in Leasing
           /\ session' = session \/ \E a \in Leasing : session' = [session EXCEPT ![s].at = a]
  <1> USE DEF Leasing, SessionAt
  <1>1. CASE Dial(s)
    BY <1>1 DEF Dial, Leave
  <1>2. ASSUME NEW turn, ReceiveModelRequest(s, turn)
        PROVE  /\ UNCHANGED <<pool, offer>> /\ session[s].at \in Leasing
               /\ session' = session \/ \E a \in Leasing : session' = [session EXCEPT ![s].at = a]
    BY <1>2 DEF ReceiveModelRequest, Talks, Fails, Leave, Host
  <1>3. ASSUME NEW v, ReceiveToolCall(s, v) \/ ReceiveComplete(s, v)
        PROVE  /\ UNCHANGED <<pool, offer>> /\ session[s].at \in Leasing
               /\ session' = session \/ \E a \in Leasing : session' = [session EXCEPT ![s].at = a]
    BY <1>3 DEF ReceiveToolCall, ReceiveComplete, Talks, Fails, Leave, Host
  <1>4. CASE ReceiveOther(s) \/ RetryExchange(s) \/ RejectModel(s)
    BY <1>4 DEF ReceiveOther, RetryExchange, RejectModel, Talks, Fails, Leave, Host
  <1>5. ASSUME NEW name, NEW v, AcceptModel(s, name, v)
        PROVE  /\ UNCHANGED <<pool, offer>> /\ session[s].at \in Leasing
               /\ session' = session \/ \E a \in Leasing : session' = [session EXCEPT ![s].at = a]
    BY <1>5 DEF AcceptModel, Fails, Leave, Host
  <1>6. CASE Drain(s) \/ CancelAttempt(s)
    BY <1>6 DEF Drain, CancelAttempt, Fails, Leave, Host
  <1>7. CASE CloseConnection(s)
    <2>1. session' = [session EXCEPT ![s].at = IF session[s].at = "completed" THEN "releasing" ELSE "unwinding"]
      BY <1>7 DEF CloseConnection, CapInv, PoolOK
    <2> QED
      BY <1>7, <2>1 DEF CloseConnection, Host
  <1> QED
    BY <1>1, <1>2, <1>3, <1>4, <1>5, <1>6, <1>7 DEF Hosts

LEMMA HostPool == ASSUME CapInv, NEW s \in Sessions, Hosts(s) PROVE PoolOK(pool', offer', session')
  <1>1. /\ UNCHANGED <<pool, offer>> /\ session[s].at \in Leasing
        /\ session' = session \/ \E a \in Leasing : session' = [session EXCEPT ![s].at = a]
    BY HostMoves
  <1>2. PoolOK(pool, offer, session) /\ session \in [Sessions -> SessionRow]
    BY DEF CapInv, PoolOK
  <1>3. CASE session' = session
    BY <1>1, <1>2, <1>3
  <1>4. ASSUME NEW a \in Leasing, session' = [session EXCEPT ![s].at = a] PROVE PoolOK(pool', offer', session')
    <2>1. /\ session' \in [Sessions -> SessionRow] /\ \A t \in Sessions \ {s} : session'[t] = session[t]
          /\ session'[s].at = a /\ session'[s].slot = session[s].slot
      BY <1>2, <1>4, MoveRow
    <2> QED
      BY <1>1, <1>2, <2>1, SameShape
  <1> QED
    BY <1>1, <1>3, <1>4

\* One attempt changes, to a row that is in order.
LEMMA AttemptRowKeeps ==
    ASSUME CapInv, NEW s \in Sessions, NEW row \in AttemptRow, attempt' = [attempt EXCEPT ![s] = row],
           row.ran \subseteq row.asked, row.pending # Nothing => <<row.pending, row.value>> \in row.asked,
           session'[s].at \in {"draining", "completed", "releasing", "succeeded"} => <<"submit_result", row.output>> \in row.asked,
           \A t \in Sessions \ {s} : session'[t] = session[t]
    PROVE  attempt' \in [Sessions -> AttemptRow] /\ \A t \in Sessions : AttemptOK(t)'
  <1>1. attempt \in [Sessions -> AttemptRow] /\ \A t \in Sessions : AttemptOK(t)
    BY DEF CapInv
  <1>2. attempt' \in [Sessions -> AttemptRow] /\ attempt'[s] = row /\ \A t \in Sessions \ {s} : attempt'[t] = attempt[t]
    BY <1>1
  <1>3. AttemptOK(s)'
    BY <1>2 DEF AttemptOK
  <1>4. ASSUME NEW t \in Sessions \ {s} PROVE AttemptOK(t)'
    BY <1>1, <1>2 DEF AttemptOK
  <1> QED
    BY <1>2, <1>3, <1>4

LEMMA LeaveAttempt ==
    ASSUME CapInv, NEW s \in Sessions, NEW st \in {"FAILED", "CANCELLED"}, Leave(s, st)
    PROVE  attempt' \in [Sessions -> AttemptRow] /\ \A t \in Sessions : AttemptOK(t)'
  <1> DEFINE row == [NewAttempt EXCEPT !.state = st]
  <1>1. row \in AttemptRow /\ row.ran = {} /\ row.pending = Nothing
    BY DEF AttemptRow, NewAttempt, Nothing
  <1>2. attempt' = [attempt EXCEPT ![s] = row] /\ session' = [session EXCEPT ![s].at = "closing"]
    BY DEF Leave
  <1> HIDE DEF row
  <1>3. session'[s].at = "closing" /\ \A t \in Sessions \ {s} : session'[t] = session[t]
    BY <1>2, MoveRow DEF CapInv, PoolOK, Leasing
  <1> QED
    BY <1>1, <1>2, <1>3, AttemptRowKeeps

\* A session that moves leaves the attempts in order, unless it comes to have
\* accepted an output.
LEMMA AttemptStays ==
    ASSUME CapInv, attempt' = attempt,
           \A t \in Sessions : session'[t].at \in {"draining", "completed", "releasing", "succeeded"}
                               => session[t].at \in {"draining", "completed", "releasing", "succeeded"}
    PROVE  attempt' \in [Sessions -> AttemptRow] /\ \A t \in Sessions : AttemptOK(t)'
  BY DEF CapInv, AttemptOK

LEMMA HostAttempt ==
    ASSUME CapsuleAssumption, CapInv, NEW s \in Sessions, Hosts(s)
    PROVE  attempt' \in [Sessions -> AttemptRow] /\ \A t \in Sessions : AttemptOK(t)'
  <1> DEFINE good == attempt' \in [Sessions -> AttemptRow] /\ \A t \in Sessions : AttemptOK(t)'
             Done == {"draining", "completed", "releasing", "succeeded"}
  <1>t. /\ session \in [Sessions -> SessionRow] /\ AttemptOK(s) /\ attempt[s] \in AttemptRow /\ attempt \in [Sessions -> AttemptRow]
    BY DEF CapInv, PoolOK
  <1>f. ASSUME Fails(s) PROVE good
    BY <1>f, LeaveAttempt DEF Fails
  <1>m. ASSUME NEW a \in Leasing, session' = [session EXCEPT ![s].at = a]
        PROVE  session'[s].at = a /\ \A t \in Sessions \ {s} : session'[t] = session[t]
    BY <1>t, <1>m, MoveRow
  <1>1. CASE Dial(s)
    <2>1. CASE Leave(s, "FAILED")
      BY <2>1, LeaveAttempt
    <2>2. CASE session' = [session EXCEPT ![s].at = "receiving"] /\ UNCHANGED attempt
      <3>1. session'[s].at = "receiving" /\ \A t \in Sessions \ {s} : session'[t] = session[t]
        BY <1>m, <2>2 DEF Leasing
      <3> QED
        BY <2>2, <3>1, AttemptStays
    <2> QED
      BY <1>1, <2>1, <2>2 DEF Dial
  <1>2. ASSUME NEW turn \in 1..MaxModelRequests + 1, ReceiveModelRequest(s, turn) PROVE good
    <2>1. CASE BeginModel(s, turn)
      <3> DEFINE row == [attempt[s] EXCEPT !.state = "MODEL_IN_FLIGHT", !.turn = turn, !.next = turn + 1]
      <3>1. attempt' = [attempt EXCEPT ![s] = row] /\ session' = [session EXCEPT ![s].at = "exchanging"]
        BY <1>t, <1>2, <2>1 DEF ReceiveModelRequest
      <3>2. turn \in Nat /\ turn + 1 \in Nat
        BY DEF CapsuleAssumption
      <3>3. /\ row \in AttemptRow /\ row.ran = attempt[s].ran /\ row.asked = attempt[s].asked
            /\ row.pending = attempt[s].pending /\ row.value = attempt[s].value
        BY <1>t, <3>2 DEF AttemptRow
      <3>4. session'[s].at = "exchanging" /\ \A t \in Sessions \ {s} : session'[t] = session[t]
        BY <1>m, <3>1 DEF Leasing
      <3> HIDE DEF row
      <3>5. row.ran \subseteq row.asked /\ (row.pending # Nothing => <<row.pending, row.value>> \in row.asked)
        BY <1>t, <3>3 DEF AttemptOK
      <3> QED
        BY <3>1, <3>3, <3>4, <3>5, AttemptRowKeeps
    <2>2. CASE ~BeginModel(s, turn)
      BY <1>f, <1>2, <2>2 DEF ReceiveModelRequest
    <2> QED
      BY <2>1, <2>2
  <1>3. ASSUME NEW v \in Values, ReceiveToolCall(s, v) PROVE good
    <2>1. CASE /\ ValidateToolCall(s, v) /\ UNCHANGED session
               /\ attempt' = [attempt EXCEPT ![s].state = "READY_MODEL", ![s].pending = Nothing, ![s].value = Nothing,
                              ![s].ran = @ \cup {<<"tool", v>>}]
      <3> DEFINE row == [attempt[s] EXCEPT !.state = "READY_MODEL", !.pending = Nothing, !.value = Nothing,
                         !.ran = attempt[s].ran \cup {<<"tool", v>>}]
      <3>1. attempt' = [attempt EXCEPT ![s] = row]
        BY <1>t, <2>1
      <3>2. <<"tool", v>> \in attempt[s].asked /\ <<"tool", v>> \in Calls
        BY <1>t, <2>1 DEF AttemptOK, ValidateToolCall, Nothing, Calls
      <3>3. /\ row \in AttemptRow /\ row.ran = attempt[s].ran \cup {<<"tool", v>>} /\ row.asked = attempt[s].asked
            /\ row.pending = Nothing
        BY <1>t, <3>2 DEF AttemptRow
      <3>4. session[s].at = "receiving"
        BY <1>3 DEF ReceiveToolCall, Talks, SessionAt
      <3> HIDE DEF row
      <3>5. row.ran \subseteq row.asked
        BY <1>t, <3>2, <3>3 DEF AttemptOK
      <3> QED
        BY <2>1, <3>1, <3>3, <3>4, <3>5, AttemptRowKeeps
    <2>2. CASE Fails(s)
      BY <1>f, <2>2
    <2> QED
      BY <1>3, <2>1, <2>2 DEF ReceiveToolCall
  <1>4. ASSUME NEW v \in Values, ReceiveComplete(s, v) PROVE good
    <2>1. CASE AcceptComplete(s, v)
      <3> DEFINE row == [attempt[s] EXCEPT !.state = "TERMINAL", !.pending = Nothing, !.output = v]
      <3>1. attempt' = [attempt EXCEPT ![s] = row] /\ session' = [session EXCEPT ![s].at = "draining"]
        BY <1>t, <1>4, <2>1 DEF ReceiveComplete
      <3>2. <<"submit_result", v>> \in attempt[s].asked
        BY <1>t, <2>1 DEF AttemptOK, AcceptComplete, Nothing
      <3>3. /\ row \in AttemptRow /\ row.ran = attempt[s].ran /\ row.asked = attempt[s].asked
            /\ row.pending = Nothing /\ row.output = v
        BY <1>t DEF AttemptRow
      <3>4. session'[s].at = "draining" /\ \A t \in Sessions \ {s} : session'[t] = session[t]
        BY <1>m, <3>1 DEF Leasing
      <3> HIDE DEF row
      <3> QED
        BY <1>t, <3>1, <3>2, <3>3, <3>4, AttemptRowKeeps DEF AttemptOK
    <2>2. CASE ~AcceptComplete(s, v)
      BY <1>f, <1>4, <2>2 DEF ReceiveComplete
    <2> QED
      BY <2>1, <2>2
  <1>5. CASE ReceiveOther(s) \/ RejectModel(s)
    BY <1>f, <1>5 DEF ReceiveOther, RejectModel
  <1>6. CASE RetryExchange(s)
    <2> DEFINE row == [attempt[s] EXCEPT !.retry = attempt[s].retry + 1]
    <2>1. attempt' = [attempt EXCEPT ![s] = row] /\ UNCHANGED session /\ session[s].at = "exchanging"
      BY <1>t, <1>6 DEF RetryExchange, SessionAt
    <2>2. attempt[s].retry + 1 \in Nat
      BY <1>t DEF AttemptRow
    <2>3. /\ row \in AttemptRow /\ row.ran = attempt[s].ran /\ row.asked = attempt[s].asked
          /\ row.pending = attempt[s].pending /\ row.value = attempt[s].value
      BY <1>t, <2>2 DEF AttemptRow
    <2> HIDE DEF row
    <2> QED
      BY <1>t, <2>1, <2>3, AttemptRowKeeps DEF AttemptOK
  <1>7. ASSUME NEW name \in {"tool", "submit_result"}, NEW v \in Values, AcceptModel(s, name, v) PROVE good
    <2>1. CASE attempt[s].turn = MaxModelRequests /\ name # "submit_result"
      BY <1>f, <1>7, <2>1 DEF AcceptModel
    <2>2. CASE ~(attempt[s].turn = MaxModelRequests /\ name # "submit_result")
      <3> DEFINE st == IF name = "submit_result" THEN "AWAIT_COMPLETE" ELSE "AWAIT_TOOL"
                 row == [attempt[s] EXCEPT !.pending = name, !.value = v, !.retry = 0, !.state = st,
                         !.asked = attempt[s].asked \cup {<<name, v>>}]
      <3>1. attempt' = [attempt EXCEPT ![s] = row] /\ session' = [session EXCEPT ![s].at = "receiving"]
        BY <1>t, <1>7, <2>2 DEF AcceptModel
      <3>2. st \in {"AWAIT_COMPLETE", "AWAIT_TOOL"} /\ <<name, v>> \in Calls
        BY DEF Calls
      <3> HIDE DEF st
      <3>3. /\ row \in AttemptRow /\ row.ran = attempt[s].ran /\ row.asked = attempt[s].asked \cup {<<name, v>>}
            /\ row.pending = name /\ row.value = v
        BY <1>t, <3>2 DEF AttemptRow
      <3>4. session'[s].at = "receiving" /\ \A t \in Sessions \ {s} : session'[t] = session[t]
        BY <1>m, <3>1 DEF Leasing
      <3> HIDE DEF row
      <3> QED
        BY <1>t, <3>1, <3>3, <3>4, AttemptRowKeeps DEF AttemptOK
    <2> QED
      BY <2>1, <2>2
  <1>8. CASE Drain(s)
    <2>1. CASE session' = [session EXCEPT ![s].at = "completed"] /\ UNCHANGED attempt
      <3>1. session[s].at = "draining" /\ session'[s].at = "completed" /\ \A t \in Sessions \ {s} : session'[t] = session[t]
        BY <1>m, <1>8, <2>1 DEF Leasing, Drain, SessionAt
      <3> QED
        BY <2>1, <3>1, AttemptStays
    <2>2. CASE Fails(s)
      BY <1>f, <2>2
    <2> QED
      BY <1>8, <2>1, <2>2 DEF Drain
  <1>9. CASE CancelAttempt(s)
    BY <1>9, LeaveAttempt DEF CancelAttempt
  <1>10. CASE CloseConnection(s)
    <2> DEFINE a == IF session[s].at = "completed" THEN "releasing" ELSE "unwinding"
    <2>1. session' = [session EXCEPT ![s].at = a] /\ UNCHANGED attempt
      BY <1>t, <1>10 DEF CloseConnection
    <2>2. a \in Leasing /\ (a = "releasing" => session[s].at = "completed") /\ a \in {"releasing", "unwinding"}
      BY DEF Leasing
    <2> HIDE DEF a
    <2>3. session'[s].at = a /\ \A t \in Sessions \ {s} : session'[t] = session[t]
      BY <1>m, <2>1, <2>2
    <2> QED
      BY <2>1, <2>2, <2>3, AttemptStays
  <1> QED
    BY <1>1, <1>2, <1>3, <1>4, <1>5, <1>6, <1>7, <1>8, <1>9, <1>10 DEF Hosts

-----------------------------------------------------------------------------
(* Capsules. *)

\* One capsule changes, to a row that is in order.
LEMMA CapsuleRowKeeps ==
    ASSUME CapInv, NEW k \in Slots, NEW row \in CapsuleRow, capsule' = [capsule EXCEPT ![k] = row],
           row.procs \subseteq {row.who}, row.at \in {"accepting", "down"} => row.procs = {}
    PROVE  capsule' \in [Slots -> CapsuleRow] /\ \A j \in Slots : CapsuleOK(j)'
  <1>1. capsule \in [Slots -> CapsuleRow] /\ \A j \in Slots : CapsuleOK(j)
    BY DEF CapInv
  <1>2. capsule' \in [Slots -> CapsuleRow] /\ capsule'[k] = row /\ \A j \in Slots \ {k} : capsule'[j] = capsule[j]
    BY <1>1
  <1> QED
    BY <1>1, <1>2 DEF CapsuleOK

LEMMA CapsuleStays ==
    ASSUME CapInv, capsule' = capsule PROVE capsule' \in [Slots -> CapsuleRow] /\ \A j \in Slots : CapsuleOK(j)'
  BY DEF CapInv, CapsuleOK

LEMMA HostCapsule ==
    ASSUME CapInv, NEW s \in Sessions, Hosts(s)
    PROVE  capsule' \in [Slots -> CapsuleRow] /\ \A j \in Slots : CapsuleOK(j)'
  <1>1. CASE Dial(s)
    <2>1. CASE capsule' = [capsule EXCEPT ![session[s].slot].queue = Append(@, s)]
      <3> DEFINE k == session[s].slot
                 row == [capsule[k] EXCEPT !.queue = Append(capsule[k].queue, s)]
      <3>1. k \in Slots /\ capsule \in [Slots -> CapsuleRow] /\ capsule[k] \in CapsuleRow /\ CapsuleOK(k)
        <4>1. k \in Slots
          BY <1>1 DEF Dial, SessionAt, CapInv, PoolOK, Leasing
        <4> QED
          BY <4>1 DEF CapInv
      <3> HIDE DEF k
      <3>2. capsule' = [capsule EXCEPT ![k] = row]
        BY <2>1, <3>1 DEF k
      <3>3. Append(capsule[k].queue, s) \in Seq(Sessions)
        BY <3>1 DEF CapsuleRow
      <3>4. row \in CapsuleRow /\ row.procs = capsule[k].procs /\ row.who = capsule[k].who /\ row.at = capsule[k].at
        BY <3>1, <3>3 DEF CapsuleRow
      <3> HIDE DEF row
      <3> QED
        BY <3>1, <3>2, <3>4, CapsuleRowKeeps DEF CapsuleOK
    <2>2. CASE UNCHANGED capsule
      BY <2>2, CapsuleStays
    <2> QED
      BY <1>1, <2>1, <2>2 DEF Dial
  <1>2. CASE UNCHANGED capsule
    BY <1>2, CapsuleStays
  <1>3. ASSUME NEW turn, ReceiveModelRequest(s, turn) PROVE UNCHANGED capsule
    BY <1>3 DEF ReceiveModelRequest, Fails, Host
  <1>4. ASSUME NEW v, ReceiveToolCall(s, v) \/ ReceiveComplete(s, v) PROVE UNCHANGED capsule
    BY <1>4 DEF ReceiveToolCall, ReceiveComplete, Fails, Host
  <1>5. ASSUME NEW name, NEW v, AcceptModel(s, name, v) PROVE UNCHANGED capsule
    BY <1>5 DEF AcceptModel, Fails, Host
  <1>6. ASSUME ReceiveOther(s) \/ RetryExchange(s) \/ RejectModel(s) \/ Drain(s) \/ CancelAttempt(s) \/ CloseConnection(s)
        PROVE  UNCHANGED capsule
    BY <1>6 DEF ReceiveOther, RetryExchange, RejectModel, Drain, CancelAttempt, CloseConnection, Fails, Host
  <1> QED
    BY <1>1, <1>2, <1>3, <1>4, <1>5, <1>6 DEF Hosts

LEMMA SupervisorCapsule ==
    ASSUME CapInv, NEW k \in Slots, CapsuleStep(k)
    PROVE  capsule' \in [Slots -> CapsuleRow] /\ \A j \in Slots : CapsuleOK(j)'
  <1> DEFINE good == capsule' \in [Slots -> CapsuleRow] /\ \A j \in Slots : CapsuleOK(j)'
             c == capsule[k]
  <1>t. capsule \in [Slots -> CapsuleRow] /\ c \in CapsuleRow /\ CapsuleOK(k)
    BY DEF CapInv
  <1>1. CASE AcceptConnection(k)
    <2> DEFINE row == [c EXCEPT !.at = "running", !.who = Head(c.queue), !.queue = Tail(c.queue),
                       !.procs = c.procs \cup {Head(c.queue)}]
    <2>1. capsule' = [capsule EXCEPT ![k] = row] /\ c.at = "accepting" /\ c.queue # <<>>
      BY <1>t, <1>1 DEF AcceptConnection
    <2>2. c.queue \in Seq(Sessions) /\ c.procs = {}
      BY <1>t, <2>1 DEF CapsuleOK, CapsuleRow
    <2>3. Head(c.queue) \in Sessions /\ Tail(c.queue) \in Seq(Sessions)
      BY <2>1, <2>2, HeadTailProperties
    <2>4. row \in CapsuleRow /\ row.procs = {Head(c.queue)} /\ row.who = Head(c.queue) /\ row.at = "running"
      BY <1>t, <2>2, <2>3 DEF CapsuleRow
    <2> HIDE DEF row
    <2> QED
      BY <2>1, <2>4, CapsuleRowKeeps
  <1>2. CASE EndAttempt(k)
    <2>1. ASSUME NEW gone, capsule' = [capsule EXCEPT ![k].at = "cleaning", ![k].procs = @ \ gone] PROVE good
      <3> DEFINE row == [c EXCEPT !.at = "cleaning", !.procs = c.procs \ gone]
      <3>1. capsule' = [capsule EXCEPT ![k] = row]
        BY <1>t, <2>1
      <3>2. c.procs \in SUBSET Sessions
        BY <1>t DEF CapsuleRow
      <3>3. row \in CapsuleRow /\ row.procs = c.procs \ gone /\ row.who = c.who /\ row.at = "cleaning"
        BY <1>t, <3>2 DEF CapsuleRow
      <3> HIDE DEF row
      <3> QED
        BY <1>t, <3>1, <3>3, CapsuleRowKeeps DEF CapsuleOK
    <2>2. ASSUME capsule' = [capsule EXCEPT ![k].at = "cleaning"] PROVE good
      <3> DEFINE row == [c EXCEPT !.at = "cleaning"]
      <3>1. capsule' = [capsule EXCEPT ![k] = row]
        BY <1>t, <2>2
      <3>2. row \in CapsuleRow /\ row.procs = c.procs /\ row.who = c.who /\ row.at = "cleaning"
        BY <1>t DEF CapsuleRow
      <3> HIDE DEF row
      <3> QED
        BY <1>t, <3>1, <3>2, CapsuleRowKeeps DEF CapsuleOK
    <2> QED
      BY <1>2, <2>1, <2>2 DEF EndAttempt
  <1>3. CASE CleanUp(k)
    <2> DEFINE row == [c EXCEPT !.at = "accepting", !.procs = {}]
    <2>1. capsule' = [capsule EXCEPT ![k] = row]
      BY <1>t, <1>3 DEF CleanUp
    <2>2. row \in CapsuleRow /\ row.procs = {}
      BY <1>t DEF CapsuleRow
    <2> HIDE DEF row
    <2> QED
      BY <2>1, <2>2, CapsuleRowKeeps
  <1>4. CASE CleanUpFails(k)
    <2> DEFINE row == [Accepting EXCEPT !.at = "down"]
    <2>1. capsule' = [capsule EXCEPT ![k] = row]
      BY <1>4 DEF CleanUpFails
    <2>2. row \in CapsuleRow /\ row.procs = {}
      BY EmptySeq DEF CapsuleRow, Accepting
    <2> HIDE DEF row
    <2> QED
      BY <2>1, <2>2, CapsuleRowKeeps
  <1>5. CASE RestartCapsule(k)
    <2> DEFINE row == [c EXCEPT !.at = "accepting"]
    <2>1. capsule' = [capsule EXCEPT ![k] = row] /\ c.at = "down"
      BY <1>t, <1>5 DEF RestartCapsule
    <2>2. row \in CapsuleRow /\ row.procs = c.procs /\ row.who = c.who
      BY <1>t DEF CapsuleRow
    <2> HIDE DEF row
    <2> QED
      BY <1>t, <2>1, <2>2, CapsuleRowKeeps DEF CapsuleOK
  <1> QED
    BY <1>1, <1>2, <1>3, <1>4, <1>5 DEF CapsuleStep

-----------------------------------------------------------------------------
(* The invariant is kept. *)

LEMMA CapsuleInitInv == ASSUME CapsuleAssumption, CapsuleInit PROVE CapInv
  <1>1. /\ pool \in PoolRow /\ pool.state = "NEW" /\ pool.free = <<>> /\ pool.leased = {} /\ pool.waiters = <<>>
    BY EmptySeq DEF CapsuleInit, PoolRow
  <1>2. /\ offer \in [Sessions -> Slots \cup {Nothing, Error}] /\ \A s \in Sessions : offer[s] = Nothing
    BY DEF CapsuleInit
  <1>3. /\ session \in [Sessions -> SessionRow] /\ \A s \in Sessions : session[s].at = "idle" /\ session[s].slot = Nothing
    <2>1. NewSession \in SessionRow /\ NewSession.at = "idle" /\ NewSession.slot = Nothing
      BY DEF NewSession, SessionRow
    <2> QED
      BY <2>1 DEF CapsuleInit
  <1>4. \A s \in Sessions, k \in Slots : ~Has(offer, session, s, k)
    BY <1>2, <1>3, NoSlot DEF Has
  <1>5. Distinct(<<>>) /\ ToSet(<<>>) = {}
    BY EmptySeq DEF Distinct, ToSet
  <1>6. PoolOK(pool, offer, session)
    BY <1>1, <1>2, <1>3, <1>4, <1>5 DEF PoolOK, Leasing
  <1>7. attempt \in [Sessions -> AttemptRow] /\ \A s \in Sessions : AttemptOK(s)
    <2>1. NewAttempt \in AttemptRow /\ NewAttempt.ran = {} /\ NewAttempt.pending = Nothing
      BY DEF NewAttempt, AttemptRow
    <2> QED
      BY <1>3, <2>1 DEF CapsuleInit, AttemptOK
  <1>8. capsule \in [Slots -> CapsuleRow] /\ \A k \in Slots : CapsuleOK(k)
    <2>1. Accepting \in CapsuleRow /\ Accepting.procs = {}
      BY EmptySeq DEF Accepting, CapsuleRow
    <2> QED
      BY <2>1 DEF CapsuleInit, CapsuleOK
  <1> QED
    BY <1>6, <1>7, <1>8 DEF CapInv

\* The steps at the pool leave attempts and capsules alone.
LEMMA PoolStepKeeps ==
    ASSUME CapsuleAssumption, CapInv, NEW s \in Sessions,
           Invoke(s) \/ TakeOffer(s) \/ AbandonAcquire(s) \/ ReleaseSlot(s)
    PROVE  CapInv'
  <1>1. PoolOK(pool, offer, session) /\ session \in [Sessions -> SessionRow]
    BY DEF CapInv, PoolOK
  <1>2. PoolOK(pool', offer', session')
    BY <1>1, InvokeKeeps, TakeOfferKeeps, AbandonKeeps, ReleaseKeeps
  <1>3. UNCHANGED <<attempt, capsule>>
    BY DEF Invoke, TakeOffer, AbandonAcquire, ReleaseSlot
  <1>4. ASSUME NEW t \in Sessions, session'[t].at \in {"draining", "completed", "releasing", "succeeded"}
        PROVE  session[t].at \in {"draining", "completed", "releasing", "succeeded"}
    <2>1. ASSUME Ends(s, "failed") PROVE session'[t] = session[t]
      BY <1>1, <1>4, <2>1, EndRow
    <2>2. CASE Invoke(s)
      <3>1. ASSUME session' = [session EXCEPT ![s].at = "waiting"] PROVE session'[t] = session[t]
        BY <1>1, <1>4, <3>1, MoveRow
      <3> QED
        BY <1>4, <2>1, <2>2, <3>1 DEF Invoke
    <2>3. CASE TakeOffer(s)
      <3>1. ASSUME session' = [session EXCEPT ![s].at = "dialling", ![s].slot = offer[s]] PROVE session'[t] = session[t]
        <4>1. session[s] \in SessionRow /\ session' = [session EXCEPT ![s] = [session[s] EXCEPT !.at = "dialling", !.slot = offer[s]]]
          BY <1>1, <3>1
        <4>2. [session[s] EXCEPT !.at = "dialling", !.slot = offer[s]].at = "dialling"
          BY <4>1 DEF SessionRow
        <4> QED
          BY <1>1, <1>4, <4>1, <4>2
      <3> QED
        BY <1>4, <2>1, <2>3, <3>1 DEF TakeOffer
    <2>4. CASE AbandonAcquire(s)
      BY <1>4, <2>1, <2>4 DEF AbandonAcquire
    <2>5. CASE ReleaseSlot(s)
      <3>1. CASE SessionAt(s, "releasing")
        <4>1. Ends(s, "succeeded") /\ session[s].at = "releasing"
          BY <2>5, <3>1 DEF ReleaseSlot, SessionAt
        <4>2. \A u \in Sessions \ {s} : session'[u] = session[u]
          BY <1>1, <4>1, EndRow
        <4> QED
          BY <1>4, <4>1, <4>2
      <3>2. CASE ~SessionAt(s, "releasing")
        BY <1>4, <2>1, <2>5, <3>2 DEF ReleaseSlot
      <3> QED
        BY <3>1, <3>2
    <2> QED
      BY <2>2, <2>3, <2>4, <2>5
  <1>5. attempt' \in [Sessions -> AttemptRow] /\ \A t \in Sessions : AttemptOK(t)'
    BY <1>3, <1>4, AttemptStays
  <1> QED
    BY <1>2, <1>3, <1>5, CapsuleStays DEF CapInv

LEMMA CancelKeeps == ASSUME CapInv, NEW s \in Sessions, CancelSession(s) PROVE CapInv'
  <1> DEFINE row == [session[s] EXCEPT !.live = FALSE]
  <1>1. /\ session \in [Sessions -> SessionRow] /\ session[s] \in SessionRow /\ session' = [session EXCEPT ![s] = row]
        /\ UNCHANGED <<pool, offer, attempt, capsule>> /\ PoolOK(pool, offer, session)
    BY DEF CapInv, PoolOK, CancelSession
  <1>2. row \in SessionRow /\ row.at = session[s].at /\ row.slot = session[s].slot
    BY <1>1 DEF SessionRow
  <1> HIDE DEF row
  <1>3. session' \in [Sessions -> SessionRow] /\ \A t \in Sessions : session'[t].at = session[t].at /\ session'[t].slot = session[t].slot
    BY <1>1, <1>2
  <1>4. PoolOK(pool', offer', session')
    BY <1>1, <1>3, SameShape
  <1>5. attempt' \in [Sessions -> AttemptRow] /\ \A t \in Sessions : AttemptOK(t)'
    BY <1>1, <1>3, AttemptStays
  <1> QED
    BY <1>1, <1>4, <1>5, CapsuleStays DEF CapInv

LEMMA CapsuleNextInv == ASSUME CapsuleAssumption, CapInv, [CapsuleNext]_capsuleVars PROVE CapInv'
  <1>1. ASSUME StartPool \/ ClosePool PROVE CapInv'
    <2>1. UNCHANGED <<session, attempt, capsule>> /\ PoolOK(pool, offer, session)
      BY <1>1 DEF StartPool, ClosePool, CapInv
    <2>2. PoolOK(pool', offer', session')
      BY <1>1, <2>1, StartPoolKeeps, ClosePoolKeeps
    <2>3. attempt' \in [Sessions -> AttemptRow] /\ \A t \in Sessions : AttemptOK(t)'
      BY <2>1, AttemptStays
    <2> QED
      BY <2>1, <2>2, <2>3, CapsuleStays DEF CapInv
  <1>2. ASSUME NEW s \in Sessions, Hosts(s) PROVE CapInv'
    BY <1>2, HostPool, HostAttempt, HostCapsule DEF CapInv
  <1>3. ASSUME NEW k \in Slots, CapsuleStep(k) PROVE CapInv'
    <2>1. UNCHANGED <<pool, offer, session, attempt>> /\ PoolOK(pool, offer, session)
      BY <1>3 DEF CapsuleStep, AcceptConnection, EndAttempt, CleanUp, CleanUpFails, RestartCapsule, Supervisor, CapInv
    <2>2. attempt' \in [Sessions -> AttemptRow] /\ \A t \in Sessions : AttemptOK(t)'
      BY <2>1, AttemptStays
    <2>3. PoolOK(pool', offer', session')
      BY <2>1
    <2> QED
      BY <1>3, <2>2, <2>3, SupervisorCapsule DEF CapInv
  <1>4. ASSUME UNCHANGED capsuleVars PROVE CapInv'
    <2>1. UNCHANGED <<pool, offer, session, attempt, capsule>> /\ PoolOK(pool, offer, session)
      BY <1>4 DEF capsuleVars, CapInv
    <2>2. attempt' \in [Sessions -> AttemptRow] /\ \A t \in Sessions : AttemptOK(t)'
      BY <2>1, AttemptStays
    <2>3. PoolOK(pool', offer', session')
      BY <2>1
    <2> QED
      BY <2>1, <2>2, <2>3, CapsuleStays DEF CapInv
  <1> QED
    BY <1>1, <1>2, <1>3, <1>4, PoolStepKeeps, CancelKeeps DEF CapsuleNext, SessionStep, Hosts

-----------------------------------------------------------------------------
(* A slot has one owner while it is leased and is never lost, whatever
   cancellations, grants and Close interleave; the host runs and accepts only
   what the provider asked for; and no capsule runs two attempts' processes
   (SlotPool, OpenAIAttempt, runAttempt), for any number of slots and sessions. *)
THEOREM CapsulesSound == ASSUME CapsuleAssumption PROVE CapsuleSpec => []CapsuleIsSound
  <1>1. CapsuleInit => CapInv
    BY CapsuleInitInv
  <1>2. CapInv /\ [CapsuleNext]_capsuleVars => CapInv'
    BY CapsuleNextInv
  <1>3. CapInv => CapsuleIsSound
    <2>1. SUFFICES ASSUME CapInv PROVE CapsuleIsSound
      OBVIOUS
    <2>2. OutputIsSubmitted
      BY <2>1 DEF CapInv, AttemptOK, OutputIsSubmitted
    <2>3. AttemptsAreIsolated
      <3>1. SUFFICES ASSUME NEW k \in Slots PROVE Cardinality(capsule[k].procs) <= 1
        BY DEF AttemptsAreIsolated
      <3>2. capsule[k].procs \subseteq {capsule[k].who}
        BY <2>1 DEF CapInv, CapsuleOK
      <3>3. capsule[k].procs = {} \/ capsule[k].procs = {capsule[k].who}
        BY <3>2
      <3>4. Cardinality({}) = 0 /\ Cardinality({capsule[k].who}) = 1
        BY FS_EmptySet, FS_Singleton
      <3> QED
        BY <3>3, <3>4
    <2>4. LeaseHasOneOwner
      <3>1. SUFFICES ASSUME NEW k \in Slots
                     PROVE  /\ Cardinality(Owners(k)) = IF k \in pool.leased THEN 1 ELSE 0
                            /\ pool.state = "READY" => (k \in pool.leased) # (k \in ToSet(pool.free))
        BY DEF LeaseHasOneOwner
      <3>2. /\ k \in pool.leased <=> \E s \in Sessions : Has(offer, session, s, k)
            /\ \A s, t \in Sessions : Has(offer, session, s, k) /\ Has(offer, session, t, k) => s = t
            /\ pool.state = "READY" => ToSet(pool.free) = Slots \ pool.leased
        BY <2>1 DEF CapInv, PoolOK
      <3>3. Owners(k) = {s \in Sessions : Has(offer, session, s, k)}
        BY DEF Owners, Has, SessionAt
      <3>4. CASE k \in pool.leased
        <4>1. PICK s \in Sessions : Has(offer, session, s, k)
          BY <3>2, <3>4
        <4>2. Owners(k) = {s}
          BY <3>2, <3>3, <4>1
        <4>3. Cardinality({s}) = 1
          BY FS_Singleton
        <4> QED
          BY <3>2, <3>4, <4>2, <4>3
      <3>5. CASE k \notin pool.leased
        <4>1. Owners(k) = {}
          BY <3>2, <3>3, <3>5
        <4>2. Cardinality({}) = 0
          BY FS_EmptySet
        <4> QED
          BY <3>2, <3>5, <4>1, <4>2
      <3> QED
        BY <3>4, <3>5
    <2> QED
      BY <2>2, <2>3, <2>4 DEF CapsuleIsSound
  <1> QED
    BY <1>1, <1>2, <1>3, PTL DEF CapsuleSpec

-----------------------------------------------------------------------------
(***************************************************************************)
(* The sessions of planner and writers.  WikiCoversWebsite joins two facts *)
(* that are established in different sessions: what the accepted plan      *)
(* assigns was checked when the plan was submitted, and what a page cites  *)
(* was checked against that very plan, which does not change any more.     *)
(***************************************************************************)
AgentRow == [at : {"idle", "inspecting", "validating", "failed"}, role : {"none", "planner", "writer"},
             slug : PlanSlugs \cup {"none"}, try : Nat, round : Nat]

\* Rows and history have their types; a writer writes a planned page.
AgentTyped ==
    /\ tree \in Trees /\ plan \in Plans \cup {NoPlan}
    /\ agent \in AgentRow
    /\ agent.at \in {"inspecting", "validating"} /\ agent.role = "writer" => agent.slug \in DOMAIN plan
    /\ agent.role = "planner" => plan = NoPlan
    /\ agent.at = "validating" => agent.role = "writer"
    /\ wikiPage \in [PlanSlugs -> [written : BOOLEAN, cites : Submissions \cup {{}}]]

\* An accepted plan was parsed and covers the website.
Planned == plan # NoPlan => ParsePlan(plan) /\ ValidatePlanCoverage(plan)

\* A page that is written was checked against the plan.
PagesParsed == \A s \in PlanSlugs : wikiPage[s].written => s \in DOMAIN plan /\ ParseSubmission(s, wikiPage[s].cites)

\* What was handed out is among what was counted, and within the limit.
Counted ==
    /\ tools \in [calls : Nat, bytes : Nat] /\ given \in Nat
    /\ given <= tools.bytes /\ given <= MaxTotalResultBytes
    /\ \A x \in shown : x.entry = "file" /\ Allows(x) /\ x \in tree

DocAgentInv == AgentTyped /\ Planned /\ PagesParsed /\ Counted

-----------------------------------------------------------------------------
LEMMA PlanDomain == DOMAIN NoPlan = {} /\ \A seeds \in Plans \cup {NoPlan} : DOMAIN seeds \subseteq PlanSlugs
  BY DEF NoPlan, PlanSlugs

\* What is checked of a submission depends on the sources and the plan alone.
LEMMA ChecksKept ==
    ASSUME tree' = tree
    PROVE  /\ \A seeds : ParsePlan(seeds)' <=> ParsePlan(seeds)
           /\ \A seeds : ValidatePlanCoverage(seeds)' <=> ValidatePlanCoverage(seeds)
           /\ plan' = plan => \A s, c : ParseSubmission(s, c)' <=> ParseSubmission(s, c)
  <1>1. RequiredDocuments' = RequiredDocuments /\ SourceFiles' = SourceFiles
    BY DEF RequiredDocuments, RequiredOf, Indexed, Pages, SourceFiles
  <1>2. \A x, e : AssertEvidencePath(x, e)' <=> AssertEvidencePath(x, e)
    BY <1>1 DEF AssertEvidencePath, Allows
  <1>3. \A seeds : ParsePlan(seeds)' <=> ParsePlan(seeds)
    BY <1>2 DEF ParsePlan
  <1>4. \A seeds : ValidatePlanCoverage(seeds)' <=> ValidatePlanCoverage(seeds)
    BY <1>1 DEF ValidatePlanCoverage
  <1>5. ASSUME plan' = plan PROVE \A s, c : ParseSubmission(s, c)' <=> ParseSubmission(s, c)
    BY <1>2, <1>5 DEF ParseSubmission, ValidateWebsiteSeedEvidence
  <1> QED
    BY <1>3, <1>4, <1>5

LEMMA PlanKept == ASSUME tree' = tree, plan' = plan, Planned PROVE Planned'
  BY ChecksKept DEF Planned

LEMMA PagesKept ==
    ASSUME tree' = tree, plan' = plan, PagesParsed,
           \A s \in PlanSlugs : wikiPage'[s] = wikiPage[s] \/ ~wikiPage'[s].written
    PROVE  PagesParsed'
  <1> SUFFICES ASSUME NEW s \in PlanSlugs, wikiPage'[s].written
               PROVE  s \in DOMAIN plan' /\ ParseSubmission(s, wikiPage[s].cites)'
    BY DEF PagesParsed
  <1>1. wikiPage'[s] = wikiPage[s] /\ s \in DOMAIN plan /\ ParseSubmission(s, wikiPage[s].cites)
    BY DEF PagesParsed
  <1> QED
    BY <1>1 DEF ParseSubmission, ValidateWebsiteSeedEvidence, AssertEvidencePath, Allows, SourceFiles

LEMMA AgentInitInv == ASSUME AgentAssumption, AgentInit PROVE DocAgentInv
  <1>1. AgentTyped
    BY DEF AgentInit, AgentTyped, AgentRow, Resting, Unwritten
  <1>2. Planned /\ PagesParsed
    BY DEF AgentInit, Planned, PagesParsed, Unwritten
  <1>3. Counted
    BY DEF AgentInit, Counted, FreshTools, AgentAssumption
  <1> QED
    BY <1>1, <1>2, <1>3 DEF DocAgentInv

\* A session that begins has an empty budget and has shown nothing.
LEMMA NewToolsCount == ASSUME AgentAssumption, NewTools PROVE Counted'
  BY DEF NewTools, FreshTools, Counted, AgentAssumption

LEMMA CountKept == ASSUME Counted, tree' = tree, UNCHANGED <<tools, given, shown>> PROVE Counted'
  BY DEF Counted, Allows

\* A tool shows allowed files, and hands out what fits.
LEMMA FinishCounts ==
    ASSUME AgentAssumption, Counted, tree' = tree, NEW size \in ResultSizes, NEW names,
           \A x \in names : x \in tree /\ x.entry = "file" /\ Allows(x), Finish(names, size)
    PROVE  Counted'
  <1>1. tools \in [calls : Nat, bytes : Nat] /\ given \in Nat /\ size \in Nat /\ MaxTotalResultBytes \in Nat
        /\ given <= tools.bytes /\ given <= MaxTotalResultBytes
    BY DEF Counted, AgentAssumption
  <1>a. Consumed \in [calls : Nat, bytes : Nat] /\ Consumed.bytes = tools.bytes
    BY <1>1 DEF Consumed
  <1>2. CASE size > MaxResultBytes \/ tools.bytes + size > MaxTotalResultBytes
    <2>1. /\ UNCHANGED <<shown, given>>
          /\ tools' = [Consumed EXCEPT !.bytes = IF size > MaxResultBytes THEN @ ELSE @ + size]
      BY <1>2 DEF Finish
    <2>2. tools' \in [calls : Nat, bytes : Nat] /\ tools'.bytes >= tools.bytes
      BY <1>1, <1>a, <2>1
    <2> QED
      BY <1>1, <2>1, <2>2 DEF Counted, Allows
  <1>3. CASE ~(size > MaxResultBytes \/ tools.bytes + size > MaxTotalResultBytes)
    <2>1. shown' = shown \cup names /\ given' = given + size /\ tools' = [Consumed EXCEPT !.bytes = @ + size]
      BY <1>3 DEF Finish
    <2>2. tools' \in [calls : Nat, bytes : Nat] /\ tools'.bytes = tools.bytes + size
      BY <1>1, <1>a, <2>1
    <2>3. given' \in Nat /\ given' <= tools'.bytes /\ given' <= MaxTotalResultBytes
      BY <1>1, <1>3, <2>1, <2>2
    <2>4. \A x \in shown' : x.entry = "file" /\ Allows(x) /\ x \in tree
      BY <2>1 DEF Counted
    <2> QED
      BY <2>2, <2>3, <2>4 DEF Counted, Allows
  <1> QED
    BY <1>2, <1>3

\* Calls of tools leave the handler, the plan and the pages alone.
LEMMA ToolsInv ==
    ASSUME AgentAssumption, DocAgentInv, NEW size \in ResultSizes,
           \/ \E d \in tree : d.entry = "directory" /\ List(d.path, size)
           \/ \E matches \in SUBSET tree : Glob(matches, size) \/ Grep(matches, size)
           \/ \E x \in tree : Read(x, size)
    PROVE  DocAgentInv'
  <1>1. UNCHANGED <<tree, agent, plan, wikiPage>>
    BY DEF List, Glob, Grep, Read, ToolStep
  <1>2. AgentTyped' /\ Planned' /\ PagesParsed'
    <2>1. AgentTyped'
      BY <1>1 DEF DocAgentInv, AgentTyped
    <2> QED
      BY <1>1, <2>1, PlanKept, PagesKept DEF DocAgentInv
  <1>3. CASE \E names : Finish(names, size) /\ \A x \in names : x \in tree /\ x.entry = "file" /\ Allows(x)
    BY <1>1, <1>2, <1>3, FinishCounts DEF DocAgentInv
  <1>4. ASSUME NEW d \in tree, List(d.path, size) PROVE DocAgentInv'
    <2> DEFINE names == {x \in Inside(d.path) : x.entry = "file" /\ Allows(x)}
    <2>1. Finish(names, size) /\ \A x \in names : x \in tree /\ x.entry = "file" /\ Allows(x)
      BY <1>4 DEF List, Inside
    <2> QED
      BY <1>3, <2>1
  <1>5. ASSUME NEW matches \in SUBSET tree, Glob(matches, size) \/ Grep(matches, size) PROVE DocAgentInv'
    <2>1. Finish(matches, size)
      BY <1>5 DEF Glob, Grep
    <2>2. \A x \in matches : x \in tree /\ x.entry = "file" /\ Allows(x)
      BY <1>5 DEF Glob, Grep, Walk, Below, SourceFiles
    <2> QED
      BY <1>3, <2>1, <2>2
  <1>6. ASSUME NEW x \in tree, Read(x, size) PROVE DocAgentInv'
    <2>1. Finish({x}, size) /\ x.entry = "file" /\ Allows(x)
      BY <1>6 DEF Read
    <2>2. \A y \in {x} : y \in tree /\ y.entry = "file" /\ Allows(y)
      BY <2>1
    <2> QED
      BY <1>3, <2>1, <2>2
  <1> QED
    BY <1>4, <1>5, <1>6

\* A row of the handler, as the attempts make it.
LEMMA RestingRow == Resting \in AgentRow /\ Resting.at = "idle" /\ Resting.role = "none" /\ Resting.slug = "none"
  BY DEF Resting, AgentRow

LEMMA InspectingRow ==
    ASSUME NEW role \in {"planner", "writer"}, NEW slug \in PlanSlugs \cup {"none"}, NEW round \in Nat
    PROVE  LET x == Inspecting(role, slug, 1, round) IN
           x \in AgentRow /\ x.at = "inspecting" /\ x.role = role /\ x.slug = slug
  BY DEF Inspecting, AgentRow

\* Another attempt, or failure: role and page stay.
LEMMA CorrectedRow ==
    ASSUME AgentAssumption, DocAgentInv, Corrected, tree' = tree
    PROVE  /\ agent' \in AgentRow /\ agent'.at \in {agent.at, "failed"}
           /\ agent'.role = agent.role /\ agent'.slug = agent.slug /\ Counted'
  <1>1. agent \in AgentRow
    BY DEF DocAgentInv, AgentTyped
  <1>2. CASE agent.try < ValidationAttempts
    <2>1. agent' = [agent EXCEPT !.try = @ + 1] /\ NewTools
      BY <1>2 DEF Corrected
    <2> QED
      BY <1>1, <2>1, NewToolsCount DEF AgentRow
  <1>3. CASE ~(agent.try < ValidationAttempts)
    <2>1. agent' = [agent EXCEPT !.at = "failed"] /\ UNCHANGED <<tools, given, shown>>
      BY <1>3 DEF Corrected
    <2> QED
      BY <1>1, <2>1, CountKept DEF AgentRow, DocAgentInv
  <1> QED
    BY <1>2, <1>3

\* A step that leaves the plan alone, and of the pages at most takes one back.
LEMMA PlanStands ==
    ASSUME AgentAssumption, DocAgentInv, tree' = tree, plan' = plan, Counted', agent' \in AgentRow,
           agent'.at \in {"inspecting", "validating"} /\ agent'.role = "writer" => agent'.slug \in DOMAIN plan,
           agent'.role = "planner" => plan = NoPlan,
           agent'.at = "validating" => agent'.role = "writer",
           wikiPage' \in [PlanSlugs -> [written : BOOLEAN, cites : Submissions \cup {{}}]],
           \A s \in PlanSlugs : wikiPage'[s] = wikiPage[s] \/ ~wikiPage'[s].written
    PROVE  DocAgentInv'
  <1>1. AgentTyped'
    BY DEF DocAgentInv, AgentTyped
  <1> QED
    BY <1>1, PlanKept, PagesKept DEF DocAgentInv

LEMMA SubmitPlanInv ==
    ASSUME AgentAssumption, DocAgentInv, NEW seeds \in Plans, SubmitPlan(seeds)
    PROVE  DocAgentInv'
  <1>1. agent.at = "inspecting" /\ agent.role = "planner" /\ plan = NoPlan /\ UNCHANGED <<tree, wikiPage>> /\ AgentTyped
    BY DEF SubmitPlan, InSession, DocAgentInv, AgentTyped
  <1>2. CASE ParsePlan(seeds) /\ ValidatePlanCoverage(seeds)
    <2>1. plan' = seeds /\ agent' = Resting /\ UNCHANGED <<tools, given, shown>>
      BY <1>2 DEF SubmitPlan
    <2>2. AgentTyped'
      BY <1>1, <2>1, RestingRow DEF AgentTyped
    <2>3. Planned'
      BY <1>1, <1>2, <2>1, ChecksKept DEF Planned
    <2>4. \A s \in PlanSlugs : ~wikiPage[s].written
      BY <1>1, PlanDomain DEF DocAgentInv, PagesParsed
    <2>5. PagesParsed'
      BY <1>1, <2>4 DEF PagesParsed
    <2>6. Counted'
      BY <1>1, <2>1, CountKept DEF DocAgentInv
    <2> QED
      BY <2>2, <2>3, <2>5, <2>6 DEF DocAgentInv
  <1>3. CASE ~(ParsePlan(seeds) /\ ValidatePlanCoverage(seeds))
    <2>1. Corrected /\ plan' = plan
      BY <1>3 DEF SubmitPlan
    <2> QED
      BY <1>1, <2>1, CorrectedRow, PlanStands DEF AgentTyped
  <1> QED
    BY <1>2, <1>3

\* A page is written as it was parsed against the plan.
LEMMA SubmitPageInv ==
    ASSUME AgentAssumption, DocAgentInv, NEW citations \in Submissions, SubmitPage(citations)
    PROVE  DocAgentInv'
  <1> DEFINE slug == agent.slug
  <1>1. /\ agent.at = "inspecting" /\ agent.role = "writer" /\ slug \in DOMAIN plan /\ slug \in PlanSlugs
        /\ UNCHANGED <<tree, plan>> /\ AgentTyped /\ agent \in AgentRow
    BY PlanDomain DEF SubmitPage, InSession, DocAgentInv, AgentTyped
  <1>2. CASE ParseSubmission(slug, citations)
    <2>1. /\ agent' = [agent EXCEPT !.at = "validating"] /\ UNCHANGED <<tools, given, shown>>
          /\ wikiPage' = [wikiPage EXCEPT ![slug] = [written |-> TRUE, cites |-> citations]]
      BY <1>2 DEF SubmitPage
    <2>2. /\ wikiPage' \in [PlanSlugs -> [written : BOOLEAN, cites : Submissions \cup {{}}]]
          /\ wikiPage'[slug].cites = citations /\ \A s \in PlanSlugs : s # slug => wikiPage'[s] = wikiPage[s]
      BY <1>1, <2>1 DEF AgentTyped
    <2>3. agent' \in AgentRow /\ agent'.at = "validating" /\ agent'.role = "writer" /\ agent'.slug = slug
      BY <1>1, <2>1 DEF AgentRow
    <2>4. AgentTyped'
      BY <1>1, <2>2, <2>3 DEF AgentTyped
    <2>5. PagesParsed'
      <3> SUFFICES ASSUME NEW s \in PlanSlugs, wikiPage'[s].written
                   PROVE  s \in DOMAIN plan' /\ ParseSubmission(s, wikiPage[s].cites)'
        BY DEF PagesParsed
      <3>1. CASE s = slug
        BY <1>1, <1>2, <2>2, <3>1
           DEF ParseSubmission, ValidateWebsiteSeedEvidence, AssertEvidencePath, Allows, SourceFiles
      <3>2. CASE s # slug
        <4>1. wikiPage'[s] = wikiPage[s] /\ s \in DOMAIN plan /\ ParseSubmission(s, wikiPage[s].cites)
          BY <2>2, <3>2 DEF DocAgentInv, PagesParsed
        <4> QED
          BY <1>1, <4>1 DEF ParseSubmission, ValidateWebsiteSeedEvidence, AssertEvidencePath, Allows, SourceFiles
      <3> QED
        BY <3>1, <3>2
    <2> QED
      BY <1>1, <2>1, <2>4, <2>5, PlanKept, CountKept DEF DocAgentInv
  <1>3. CASE ~ParseSubmission(slug, citations)
    <2>1. Corrected /\ wikiPage' = wikiPage
      BY <1>3 DEF SubmitPage
    <2> QED
      BY <1>1, <2>1, CorrectedRow, PlanStands DEF AgentTyped
  <1> QED
    BY <1>2, <1>3

\* A page that is taken back is unwritten.
LEMMA TakenBack ==
    ASSUME DocAgentInv, NEW slug, wikiPage' = [wikiPage EXCEPT ![slug] = Unwritten]
    PROVE  /\ wikiPage' \in [PlanSlugs -> [written : BOOLEAN, cites : Submissions \cup {{}}]]
           /\ \A s \in PlanSlugs : wikiPage'[s] = wikiPage[s] \/ ~wikiPage'[s].written
  <1>1. Unwritten \in [written : BOOLEAN, cites : Submissions \cup {{}}] /\ ~Unwritten.written
    BY DEF Unwritten
  <1> QED
    BY <1>1 DEF DocAgentInv, AgentTyped

LEMMA ValidatePageInv ==
    ASSUME AgentAssumption, DocAgentInv, NEW outcome, ValidatePage(outcome)
    PROVE  DocAgentInv'
  <1>1. /\ agent.at = "validating" /\ agent.role = "writer" /\ agent.slug \in DOMAIN plan /\ agent.slug \in PlanSlugs
        /\ UNCHANGED <<tree, plan>> /\ AgentTyped /\ agent \in AgentRow
    BY PlanDomain DEF ValidatePage, DocAgentInv, AgentTyped
  <1>2. CASE outcome = "valid"
    <2>1. agent' = Resting /\ UNCHANGED <<tools, given, shown, wikiPage>>
      BY <1>2 DEF ValidatePage
    <2>2. Counted'
      BY <1>1, <2>1, CountKept DEF DocAgentInv
    <2> QED
      BY <1>1, <2>1, <2>2, RestingRow, PlanStands DEF AgentTyped
  <1>3. CASE outcome # "valid"
    <2>1. wikiPage' = [wikiPage EXCEPT ![agent.slug] = Unwritten]
      BY <1>3 DEF ValidatePage
    <2>2. CASE outcome = "invalid" /\ agent.round = 1
      <3>1. agent' = Inspecting("writer", agent.slug, 1, 2) /\ NewTools
        BY <1>3, <2>2 DEF ValidatePage
      <3>2. agent' \in AgentRow /\ agent'.at = "inspecting" /\ agent'.role = "writer" /\ agent'.slug = agent.slug
        BY <1>1, <3>1, InspectingRow
      <3> QED
        BY <1>1, <2>1, <3>1, <3>2, NewToolsCount, TakenBack, PlanStands
    <2>3. CASE ~(outcome = "invalid" /\ agent.round = 1)
      <3>1. agent' = [agent EXCEPT !.at = "failed"] /\ UNCHANGED <<tools, given, shown>>
        BY <1>3, <2>3 DEF ValidatePage
      <3>2. agent' \in AgentRow /\ agent'.at = "failed" /\ agent'.role = "writer"
        BY <1>1, <3>1 DEF AgentRow
      <3>3. Counted'
        BY <1>1, <3>1, CountKept DEF DocAgentInv
      <3> QED
        BY <1>1, <2>1, <3>2, <3>3, TakenBack, PlanStands
    <2> QED
      BY <2>2, <2>3
  <1> QED
    BY <1>2, <1>3

LEMMA AttemptInv ==
    ASSUME AgentAssumption, DocAgentInv,
           \/ BeginPlan \/ InvocationFails \/ EndAgent
           \/ \E slug \in PlanSlugs : BeginPage(slug)
    PROVE  DocAgentInv'
  <1>1. UNCHANGED <<tree, plan>> /\ AgentTyped /\ agent \in AgentRow
    BY DEF BeginPlan, InvocationFails, EndAgent, BeginPage, DocAgentInv, AgentTyped
  <1>2. CASE BeginPlan
    <2>1. plan = NoPlan /\ agent' = Inspecting("planner", "none", 1, 1) /\ NewTools /\ wikiPage' = wikiPage
      BY <1>2 DEF BeginPlan
    <2>2. agent' \in AgentRow /\ agent'.at = "inspecting" /\ agent'.role = "planner"
      BY <2>1, InspectingRow
    <2> QED
      BY <1>1, <2>1, <2>2, NewToolsCount, PlanStands DEF AgentTyped
  <1>3. CASE InvocationFails
    <2>1. Corrected /\ agent.at = "inspecting" /\ wikiPage' = wikiPage
      BY <1>3 DEF InvocationFails, InSession
    <2> QED
      BY <1>1, <2>1, CorrectedRow, PlanStands DEF AgentTyped
  <1>4. CASE EndAgent
    <2>1. agent' = Resting /\ UNCHANGED <<tools, shown, given>>
          /\ (wikiPage' = wikiPage \/ wikiPage' = [wikiPage EXCEPT ![agent.slug] = Unwritten])
      BY <1>4 DEF EndAgent
    <2>2. Counted'
      BY <1>1, <2>1, CountKept DEF DocAgentInv
    <2>3. /\ wikiPage' \in [PlanSlugs -> [written : BOOLEAN, cites : Submissions \cup {{}}]]
          /\ \A s \in PlanSlugs : wikiPage'[s] = wikiPage[s] \/ ~wikiPage'[s].written
      BY <1>1, <2>1, TakenBack DEF AgentTyped
    <2> QED
      BY <1>1, <2>1, <2>2, <2>3, RestingRow, PlanStands
  <1>5. ASSUME NEW slug \in PlanSlugs, BeginPage(slug) PROVE DocAgentInv'
    <2>1. slug \in DOMAIN plan /\ agent' = Inspecting("writer", slug, 1, 1) /\ NewTools /\ wikiPage' = wikiPage
      BY <1>5 DEF BeginPage
    <2>2. agent' \in AgentRow /\ agent'.at = "inspecting" /\ agent'.role = "writer" /\ agent'.slug = slug
      BY <2>1, InspectingRow
    <2> QED
      BY <1>1, <2>1, <2>2, NewToolsCount, PlanStands DEF AgentTyped
  <1> QED
    BY <1>2, <1>3, <1>4, <1>5

LEMMA AgentNextInv == ASSUME AgentAssumption, DocAgentInv, [AgentNext]_agentVars PROVE DocAgentInv'
  <1>1. CASE UNCHANGED agentVars
    <2>1. UNCHANGED <<tree, agent, tools, shown, given, plan, wikiPage>>
      BY <1>1 DEF agentVars
    <2>2. Counted' /\ AgentTyped'
      BY <2>1, CountKept DEF DocAgentInv, AgentTyped
    <2> QED
      BY <2>1, <2>2, PlanKept, PagesKept DEF DocAgentInv
  <1>2. ASSUME NEW size \in ResultSizes,
               \/ \E d \in tree : d.entry = "directory" /\ List(d.path, size)
               \/ \E matches \in SUBSET tree : Glob(matches, size) \/ Grep(matches, size)
               \/ \E x \in tree : Read(x, size)
        PROVE  DocAgentInv'
    BY <1>2, ToolsInv
  <1>3. CASE DenyCall
    <2>1. tools' = Consumed /\ UNCHANGED <<tree, agent, shown, given, plan, wikiPage>>
          /\ tools \in [calls : Nat, bytes : Nat]
      BY <1>3 DEF DenyCall, DocAgentInv, Counted
    <2>2. tools' \in [calls : Nat, bytes : Nat] /\ tools'.bytes = tools.bytes
      BY <2>1 DEF Consumed
    <2>3. Counted' /\ AgentTyped'
      BY <2>1, <2>2 DEF DocAgentInv, Counted, Allows, AgentTyped
    <2> QED
      BY <2>1, <2>3, PlanKept, PagesKept DEF DocAgentInv
  <1>4. ASSUME NEW seeds \in Plans, SubmitPlan(seeds) PROVE DocAgentInv'
    BY <1>4, SubmitPlanInv
  <1>5. ASSUME NEW citations \in Submissions, SubmitPage(citations) PROVE DocAgentInv'
    BY <1>5, SubmitPageInv
  <1>6. ASSUME NEW outcome \in {"valid", "invalid", "error"}, ValidatePage(outcome) PROVE DocAgentInv'
    BY <1>6, ValidatePageInv
  <1>7. CASE BeginPlan \/ InvocationFails \/ EndAgent \/ \E slug \in PlanSlugs : BeginPage(slug)
    BY <1>7, AttemptInv
  <1> QED
    BY <1>1, <1>2, <1>3, <1>4, <1>5, <1>6, <1>7 DEF AgentNext

\* A required document is a page of the website.
LEMMA RequiredOfWebsite ==
    ASSUME AgentAssumption, tree \in Trees, NEW x \in RequiredDocuments
    PROVE  x.source = "WEBSITE" /\ x \in tree
  BY DEF AgentAssumption, RequiredDocuments, RequiredOf, Indexed, Pages, SourceFiles

\* When every page of the plan is written the wiki covers the website, and each
\* session stays within its budget and its sources, for any sources, plans,
\* submissions and numbers of attempts (validatePlanCoverage, parseSubmission,
\* sourceToolSession).
THEOREM WikiCovers == ASSUME AgentAssumption PROVE AgentSpec => []WikiCoversWebsite
  <1>1. AgentInit => DocAgentInv
    BY AgentInitInv
  <1>2. DocAgentInv /\ [AgentNext]_agentVars => DocAgentInv'
    BY AgentNextInv
  <1>3. ASSUME DocAgentInv PROVE WebsiteIsCovered
    <2> SUFFICES ASSUME plan # NoPlan, \A s \in DOMAIN plan : PageWritten(s), NEW x \in RequiredDocuments
                 PROVE  /\ \E s \in DOMAIN plan : {t \in DOMAIN plan : x \in plan[t]} = {s}
                        /\ \E s \in DOMAIN plan : \E c \in wikiPage[s].cites : c[1] = x /\ c[2] <= x.lines
      BY DEF WebsiteIsCovered
    <2> DEFINE pages == {t \in DOMAIN plan : x \in plan[t]}
    <2>1. plan \in Plans /\ tree \in Trees /\ DOMAIN plan \subseteq PlanSlugs /\ IsFiniteSet(DOMAIN plan)
      BY <1>3, PlanDomain DEF DocAgentInv, AgentTyped, AgentAssumption
    <2>2. Cardinality(pages) = 1
      BY <1>3 DEF DocAgentInv, Planned, ValidatePlanCoverage
    <2>3. IsFiniteSet(pages)
      BY <2>1, FS_Subset
    <2>4. PICK s : pages = {s}
      BY <2>2, <2>3, FS_Singleton
    <2>5. s \in DOMAIN plan /\ x \in plan[s]
      BY <2>4
    <2>6. ParseSubmission(s, wikiPage[s].cites)
      BY <1>3, <2>1, <2>5 DEF DocAgentInv, PagesParsed, PageWritten
    <2>7. PICK c \in wikiPage[s].cites : c[1] = x
      BY <2>1, <2>5, <2>6, RequiredOfWebsite DEF ParseSubmission, ValidateWebsiteSeedEvidence
    <2>8. c[2] <= x.lines
      BY <2>6, <2>7 DEF ParseSubmission, AssertEvidencePath
    <2> QED
      BY <2>4, <2>5, <2>7, <2>8
  <1>4. ASSUME DocAgentInv PROVE SessionIsBounded
    <2>1. given <= MaxTotalResultBytes
      BY <1>4 DEF DocAgentInv, Counted
    <2>2. ASSUME NEW x \in shown PROVE x.entry = "file" /\ (x.source = "WEBSITE" => x.listed)
      BY <1>4, <2>2 DEF DocAgentInv, Counted, Allows
    <2> QED
      BY <2>1, <2>2 DEF SessionIsBounded
  <1>5. DocAgentInv => WikiCoversWebsite
    BY <1>3, <1>4 DEF WikiCoversWebsite
  <1> QED
    BY <1>1, <1>2, <1>5, PTL DEF AgentSpec

-----------------------------------------------------------------------------
(***************************************************************************)
(* The stream of a provider: the parser's variables say what was sent so    *)
(* far, so that what is accepted has one reading.                           *)
(***************************************************************************)
Words == {NoneSent} \cup UNION {{e.id, e.name, e.finish, e.usage} : e \in EventKinds}
ParserRow == [state : {"reading", "done", "accepted", "refused"}, text : BOOLEAN, tool : BOOLEAN,
              id : Words, name : Words, arguments : BOOLEAN, finish : Words, usage : Words]

\* A usage or an end is recorded when it is sent, and no second one is taken;
\* no text and no call comes after the end.
OnceSent ==
    /\ parser.usage = NoneSent => UsagesSent = {}
    /\ parser.usage # NoneSent => \E u \in UsagesSent : UsagesSent = {u}
    /\ parser.finish = NoneSent => EndsSent = {}
    /\ parser.finish # NoneSent =>
         \E f \in EndsSent : EndsSent = {f} /\ \A i \in TextsSent \cup CallsSent : i <= f

\* The parts of the call agree with what the parser has of it.
PartsAgree ==
    /\ parser.text = (TextsSent # {}) /\ parser.tool = (CallsSent # {})
    /\ ~ (parser.text /\ parser.tool)
    /\ \A i \in CallsSent : answer[i].id \in {NoneSent, parser.id} /\ answer[i].name \in {NoneSent, parser.name}

Ended ==
    /\ parser.state = "reading" => DonesSent = {}
    /\ parser.state \in {"done", "accepted"} =>
         DonesSent = {Len(answer)} /\ parser.finish # NoneSent /\ parser.usage # NoneSent
    /\ parser.state = "accepted" /\ parser.tool => parser.name = "granted"

StreamInv ==
    /\ answer \in Seq(EventKinds) /\ parser \in ParserRow
    /\ parser.state # "refused" => OnceSent /\ PartsAgree /\ Ended

\* What one event does to a parser that is not refused: the mark of the end is
\* taken once, and anything else adds what it carries.
Adds(p, e, q) ==
    /\ q.state = "reading"
    /\ q.usage = IF e.usage = NoneSent THEN p.usage ELSE e.usage
    /\ e.usage # NoneSent => p.usage = NoneSent
    /\ q.finish = IF e.finish = NoneSent THEN p.finish ELSE e.finish
    /\ p.finish # NoneSent => e.finish = NoneSent /\ e.text # "some" /\ ~ e.call
    /\ q.text = (p.text \/ e.text = "some") /\ q.tool = (p.tool \/ e.call)
    /\ ~ (p.text /\ p.tool) => ~ (q.text /\ q.tool)
    /\ q.id = p.id \/ p.id = NoneSent
    /\ q.name = p.name \/ p.name = NoneSent
    /\ e.call => e.id \in {NoneSent, q.id} /\ e.name \in {NoneSent, q.name}

LEMMA ParserRows ==
    NewParser \in ParserRow /\ Refused \in ParserRow /\ Refused.state = "refused"
  <1>1. NewParser \in ParserRow
    BY NoneSent \in Words DEF NewParser, ParserRow, Words
  <1> QED
    BY <1>1 DEF Refused, ParserRow

LEMMA EventRead ==
    ASSUME StreamAssumption, NEW p \in ParserRow, NEW e \in EventKinds, p.state \in {"reading", "done"}
    PROVE  LET q == ReadEvent(p, e)
           IN /\ q \in ParserRow
              /\ \/ q.state = "refused"
                 \/ /\ e.kind = "done" /\ p.state = "reading" /\ TakesDone(p)
                    /\ q = [p EXCEPT !.state = "done"]
                 \/ e.kind # "done" /\ p.state = "reading" /\ Adds(p, e, q)
  <1> DEFINE q == ReadEvent(p, e)
             taken == IF e.usage = NoneSent THEN p ELSE [p EXCEPT !.usage = e.usage]
  <1>1. e.kind \in {"chunk", "done", "broken"} /\ e.text \in {NoneSent, "some"} /\ e.call \in BOOLEAN
        /\ e.arguments \in BOOLEAN /\ {e.id, e.name, e.finish, e.usage} \subseteq Words /\ (e.kind = "done" => e.usage = NoneSent)
        /\ (e.kind = "done" \/ e.choices = 0 => e.text = NoneSent /\ ~ e.call /\ e.finish = NoneSent)
    BY DEF StreamAssumption, Words
  <1>2. Refused \in ParserRow /\ Refused.state = "refused"
    BY ParserRows
  <1>3. taken \in ParserRow /\ taken.state = p.state /\ taken.finish = p.finish /\ taken.text = p.text
        /\ taken.tool = p.tool /\ taken.id = p.id /\ taken.name = p.name /\ taken.arguments = p.arguments
        /\ taken.usage = IF e.usage = NoneSent THEN p.usage ELSE e.usage
    BY <1>1 DEF ParserRow
  <1>4. CASE e.kind = "broken" \/ p.state = "done"
    BY <1>2, <1>4 DEF ReadEvent
  <1>5. CASE e.kind = "done" /\ p.state # "done"
    BY <1>1, <1>2, <1>5 DEF ReadEvent, ParserRow
  <1>6. CASE e.kind = "chunk" /\ p.state # "done" /\ ~ TakesUsage(p, e)
    BY <1>2, <1>6 DEF ReadEvent
  <1>7. CASE e.kind = "chunk" /\ p.state # "done" /\ TakesUsage(p, e) /\ e.choices = 0
    <2>1. q = IF e.usage # NoneSent /\ p.finish # NoneSent THEN taken ELSE Refused
      BY <1>7 DEF ReadEvent
    <2> QED
      BY <1>1, <1>2, <1>3, <1>7, <2>1 DEF Adds, TakesUsage, ParserRow, NoneSent
  <1>8. CASE e.kind = "chunk" /\ p.state # "done" /\ TakesUsage(p, e) /\ e.choices # 0 /\ p.finish # NoneSent
    <2>1. q = IF TakesLate(p, e) THEN taken ELSE Refused
      BY <1>8 DEF ReadEvent
    <2> QED
      BY <1>1, <1>2, <1>3, <1>8, <2>1 DEF Adds, TakesUsage, TakesLate, ParserRow, NoneSent
  <1>9. CASE e.kind = "chunk" /\ p.state # "done" /\ TakesUsage(p, e) /\ e.choices # 0 /\ p.finish = NoneSent
    <2> DEFINE more == AfterDelta(taken, e)
    <2>1. q = IF TakesDelta(p, e) THEN more ELSE Refused
      BY <1>9 DEF ReadEvent
    <2>2. /\ more \in ParserRow /\ more.state = p.state
          /\ more.usage = taken.usage
          /\ more.finish = IF e.finish # NoneSent THEN e.finish ELSE p.finish
          /\ more.text = (p.text \/ e.text = "some") /\ more.tool = (p.tool \/ e.call)
          /\ more.id = (IF e.call /\ e.id # NoneSent THEN e.id ELSE p.id)
          /\ more.name = (IF e.call /\ e.name # NoneSent THEN e.name ELSE p.name)
      <3> HIDE DEF taken
      <3>1. /\ taken.state \in {"reading", "done", "accepted", "refused"}
            /\ (taken.text \/ e.text = "some") \in BOOLEAN /\ (taken.tool \/ e.call) \in BOOLEAN
            /\ (IF e.call /\ e.id # NoneSent THEN e.id ELSE taken.id) \in Words
            /\ (IF e.call /\ e.name # NoneSent THEN e.name ELSE taken.name) \in Words
            /\ (taken.arguments \/ (e.call /\ e.arguments)) \in BOOLEAN
            /\ (IF e.finish # NoneSent THEN e.finish ELSE taken.finish) \in Words
            /\ taken.usage \in Words
        BY <1>1, <1>3 DEF ParserRow
      <3> QED
        BY <1>3, <3>1 DEF AfterDelta, ParserRow
    <2> HIDE DEF taken, more, q
    <2>3. CASE TakesDelta(p, e)
      <3>1. q = more
        BY <2>1, <2>3
      <3>2. Adds(p, e, q)
        BY <1>1, <1>3, <1>9, <2>2, <2>3, <3>1 DEF Adds, TakesDelta, TakesUsage, ParserRow, NoneSent
      <3> QED
        BY <1>9, <2>2, <3>1, <3>2 DEF q
    <2> QED
      BY <1>2, <2>1, <2>3 DEF q
  <1> QED
    BY <1>1, <1>4, <1>5, <1>6, <1>7, <1>8, <1>9

\* An event more: what is sent already stays, and the new one is the last.
LEMMA EventSent ==
    ASSUME answer \in Seq(EventKinds), NEW e \in EventKinds, answer' = Append(answer, e)
    PROVE  /\ answer' \in Seq(EventKinds) /\ Len(answer) \in Nat /\ Len(answer') = Len(answer) + 1
           /\ DOMAIN answer = 1..Len(answer) /\ DOMAIN answer' = 1..Len(answer) + 1
           /\ \A i \in DOMAIN answer : answer'[i] = answer[i]
           /\ answer'[Len(answer) + 1] = e
           /\ UsagesSent' = UsagesSent \cup {i \in {Len(answer) + 1} : e.usage # NoneSent}
           /\ EndsSent' = EndsSent \cup {i \in {Len(answer) + 1} : e.finish # NoneSent}
           /\ TextsSent' = TextsSent \cup {i \in {Len(answer) + 1} : e.text = "some"}
           /\ CallsSent' = CallsSent \cup {i \in {Len(answer) + 1} : e.call}
           /\ DonesSent' = DonesSent \cup {i \in {Len(answer) + 1} : e.kind = "done"}
  <1>1. /\ answer' \in Seq(EventKinds) /\ Len(answer) \in Nat /\ Len(answer') = Len(answer) + 1
        /\ DOMAIN answer = 1..Len(answer) /\ DOMAIN answer' = 1..Len(answer) + 1
        /\ \A i \in DOMAIN answer : answer'[i] = answer[i]
        /\ answer'[Len(answer) + 1] = e
    OBVIOUS
  <1>2. DOMAIN answer' = DOMAIN answer \cup {Len(answer) + 1}
    BY <1>1
  <1> QED
    BY <1>1, <1>2 DEF UsagesSent, EndsSent, TextsSent, CallsSent, DonesSent

LEMMA SendKeeps ==
    ASSUME StreamAssumption, StreamInv, NEW e \in EventKinds, Send(e)
    PROVE  StreamInv'
  <1> DEFINE n == Len(answer) + 1
  <1>1. /\ answer \in Seq(EventKinds) /\ parser \in ParserRow /\ parser.state \in {"reading", "done"}
        /\ answer' = Append(answer, e) /\ parser' = ReadEvent(parser, e)
        /\ OnceSent /\ PartsAgree /\ Ended
    BY DEF StreamInv, Send
  <1>2. /\ answer' \in Seq(EventKinds) /\ Len(answer) \in Nat /\ Len(answer') = n
        /\ DOMAIN answer = 1..Len(answer) /\ answer'[n] = e
        /\ \A i \in DOMAIN answer : answer'[i] = answer[i]
        /\ UsagesSent' = UsagesSent \cup {i \in {n} : e.usage # NoneSent}
        /\ EndsSent' = EndsSent \cup {i \in {n} : e.finish # NoneSent}
        /\ TextsSent' = TextsSent \cup {i \in {n} : e.text = "some"}
        /\ CallsSent' = CallsSent \cup {i \in {n} : e.call}
        /\ DonesSent' = DonesSent \cup {i \in {n} : e.kind = "done"}
    BY <1>1, EventSent
  <1>3. /\ parser' \in ParserRow
        /\ \/ parser'.state = "refused"
           \/ /\ e.kind = "done" /\ parser.state = "reading" /\ TakesDone(parser)
              /\ parser' = [parser EXCEPT !.state = "done"]
           \/ e.kind # "done" /\ parser.state = "reading" /\ Adds(parser, e, parser')
    BY <1>1, EventRead
  <1>4. e.kind = "done" => e.usage = NoneSent /\ e.text # "some" /\ ~ e.call /\ e.finish = NoneSent
    BY DEF StreamAssumption, NoneSent
  <1>5. \A i \in TextsSent \cup CallsSent \cup DonesSent \cup UsagesSent \cup EndsSent : i \in DOMAIN answer /\ i \in Nat /\ i < n
    BY <1>2 DEF TextsSent, CallsSent, DonesSent, UsagesSent, EndsSent
  <1> HIDE DEF n
  <1>6. n \in Nat
    BY <1>2 DEF n
  <1>7. CASE e.kind = "done" /\ parser.state = "reading" /\ TakesDone(parser) /\ parser' = [parser EXCEPT !.state = "done"]
    <2>1. /\ parser'.state = "done" /\ parser'.usage = parser.usage /\ parser'.finish = parser.finish
          /\ parser'.text = parser.text /\ parser'.tool = parser.tool /\ parser'.id = parser.id
          /\ parser'.name = parser.name
      BY <1>1, <1>7 DEF ParserRow
    <2>2. UsagesSent' = UsagesSent /\ EndsSent' = EndsSent /\ TextsSent' = TextsSent /\ CallsSent' = CallsSent
          /\ DonesSent' = DonesSent \cup {n}
      BY <1>2, <1>4, <1>7
    <2>3. \A i \in CallsSent : answer'[i] = answer[i]
      BY <1>2, <1>5
    <2>4. OnceSent'
      BY <1>1, <2>1, <2>2 DEF OnceSent
    <2>5. PartsAgree'
      BY <1>1, <2>1, <2>2, <2>3 DEF PartsAgree
    <2>6. Ended'
      BY <1>1, <1>2, <1>7, <2>1, <2>2 DEF Ended, TakesDone
    <2> QED
      BY <1>2, <1>3, <2>4, <2>5, <2>6 DEF StreamInv
  <1>8. CASE e.kind # "done" /\ parser.state = "reading" /\ Adds(parser, e, parser')
    <2>1. DonesSent' = DonesSent /\ Ended'
      BY <1>1, <1>2, <1>8 DEF Ended, Adds
    <2>2. /\ parser'.usage = NoneSent => UsagesSent' = {}
          /\ parser'.usage # NoneSent => \E u \in UsagesSent' : UsagesSent' = {u}
      BY <1>1, <1>2, <1>8 DEF OnceSent, Adds
    <2>3. /\ parser'.finish = NoneSent => EndsSent' = {}
          /\ parser'.finish # NoneSent =>
               \E k \in EndsSent' : EndsSent' = {k} /\ \A i \in TextsSent' \cup CallsSent' : i <= k
      <3>1. CASE parser.finish # NoneSent
        BY <1>1, <1>2, <1>8, <3>1 DEF OnceSent, Adds
      <3>2. CASE parser.finish = NoneSent /\ e.finish = NoneSent
        BY <1>1, <1>2, <1>8, <3>2 DEF OnceSent, Adds
      <3>3. CASE parser.finish = NoneSent /\ e.finish # NoneSent
        <4>1. EndsSent' = {n} /\ parser'.finish # NoneSent
          BY <1>1, <1>2, <1>8, <3>3 DEF OnceSent, Adds
        <4>2. \A i \in TextsSent' \cup CallsSent' : i <= n
          BY <1>2, <1>5, <1>6
        <4> QED
          BY <4>1, <4>2
      <3> QED
        BY <3>1, <3>2, <3>3
    <2>4. OnceSent'
      BY <2>2, <2>3 DEF OnceSent
    <2>5. PartsAgree'
      <3>1. parser'.text = (TextsSent' # {}) /\ parser'.tool = (CallsSent' # {}) /\ ~ (parser'.text /\ parser'.tool)
        BY <1>1, <1>2, <1>8 DEF PartsAgree, Adds
      <3>2. ASSUME NEW i \in CallsSent'
            PROVE  answer'[i].id \in {NoneSent, parser'.id} /\ answer'[i].name \in {NoneSent, parser'.name}
        <4>1. CASE i \in CallsSent
          <5>1. answer'[i] = answer[i]
            BY <1>2, <1>5, <4>1
          <5> QED
            BY <1>1, <1>8, <4>1, <5>1 DEF PartsAgree, Adds
        <4>2. CASE i = n /\ e.call
          BY <1>2, <1>8, <4>2 DEF Adds
        <4> QED
          BY <1>2, <4>1, <4>2
      <3> QED
        BY <3>1, <3>2 DEF PartsAgree
    <2> QED
      BY <1>2, <1>3, <2>1, <2>4, <2>5 DEF StreamInv
  <1> QED
    BY <1>2, <1>3, <1>7, <1>8 DEF StreamInv

LEMMA BodyEnds ==
    ASSUME StreamInv, EndOfBody
    PROVE  StreamInv'
  <1>1. /\ answer \in Seq(EventKinds) /\ parser \in ParserRow /\ answer' = answer
        /\ parser' = IF Acceptable(parser) THEN [parser EXCEPT !.state = "accepted"] ELSE Refused
        /\ OnceSent /\ PartsAgree /\ Ended
    BY DEF StreamInv, EndOfBody
  <1>2. Refused \in ParserRow /\ Refused.state = "refused"
    BY ParserRows
  <1>3. CASE Acceptable(parser)
    <2>1. /\ parser' \in ParserRow /\ parser'.state = "accepted" /\ parser'.usage = parser.usage
          /\ parser'.finish = parser.finish /\ parser'.text = parser.text /\ parser'.tool = parser.tool
          /\ parser'.id = parser.id /\ parser'.name = parser.name
      BY <1>1, <1>3 DEF ParserRow
    <2>2. UsagesSent' = UsagesSent /\ EndsSent' = EndsSent /\ TextsSent' = TextsSent /\ CallsSent' = CallsSent
          /\ DonesSent' = DonesSent
      BY <1>1 DEF UsagesSent, EndsSent, TextsSent, CallsSent, DonesSent
    <2>3. OnceSent' /\ PartsAgree'
      BY <1>1, <2>1, <2>2 DEF OnceSent, PartsAgree
    <2>4. Ended'
      BY <1>1, <1>3, <2>1, <2>2 DEF Ended, Acceptable
    <2> QED
      BY <1>1, <2>1, <2>3, <2>4 DEF StreamInv
  <1> QED
    BY <1>1, <1>2, <1>3 DEF StreamInv

\* What a worker accepts of a provider's stream has one reading, for any events
\* the provider may send and any length of its answer (ParseOpenAISSE).
THEOREM StreamRead == ASSUME StreamAssumption PROVE StreamSpec => []AcceptedIsUnambiguous
  <1>1. StreamInit => StreamInv
    <2> SUFFICES ASSUME StreamInit PROVE StreamInv
      OBVIOUS
    <2>1. answer \in Seq(EventKinds) /\ DOMAIN answer = {} /\ parser = NewParser
      BY DEF StreamInit
    <2>2. NewParser \in ParserRow
      BY ParserRows
    <2>3. UsagesSent = {} /\ EndsSent = {} /\ TextsSent = {} /\ CallsSent = {} /\ DonesSent = {}
      BY <2>1 DEF UsagesSent, EndsSent, TextsSent, CallsSent, DonesSent
    <2> QED
      BY <2>1, <2>2, <2>3 DEF StreamInv, OnceSent, PartsAgree, Ended, NewParser
  <1>2. ASSUME StreamInv, [StreamNext]_streamVars PROVE StreamInv'
    <2>1. CASE UNCHANGED streamVars
      BY <1>2, <2>1 DEF streamVars, StreamInv, OnceSent, PartsAgree, Ended, UsagesSent, EndsSent, TextsSent,
         CallsSent, DonesSent
    <2> QED
      BY <1>2, <2>1, SendKeeps, BodyEnds DEF StreamNext
  <1>3. StreamInv => AcceptedIsUnambiguous
    BY DEF StreamInv, OnceSent, PartsAgree, Ended, AcceptedIsUnambiguous
  <1> QED
    BY <1>1, <1>2, <1>3, PTL DEF StreamSpec
=============================================================================
