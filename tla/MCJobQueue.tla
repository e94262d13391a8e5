------------------------------ MODULE MCJobQueue ------------------------------
(***************************************************************************)
(* Two small instances of the queue for TLC, which a behaviour chooses     *)
(* between: two workers and plain jobs, whose transactions may stay open   *)
(* past the lease, and one worker with model jobs and model calls.  The    *)
(* constants of the properties are those of both.  MCWorkerRunner adds the *)
(* processes that use the queue.                                           *)
(***************************************************************************)
EXTENDS JobQueue

CONSTANTS w1, w2, w3, p1, p2, p3, e1, e2, c1

VARIABLE part  \* "lifecycle" or "admission"

\* Two commands: one may be tried twice, the other once and only later.
TwoCommands ==
    {[op |-> "a", profile |-> NoProfile, limit |-> 0, max |-> 2, delay |-> Null],
     [op |-> "b", profile |-> NoProfile, limit |-> 0, max |-> 1, delay |-> 1]}

\* Model jobs of two profiles on one endpoint that admits one task at a time,
\* though each profile alone admits one or two, and two jobs of a third
\* profile that were enqueued when it admitted one at a time; its endpoint now
\* admits two.
ModelCommands ==
    {[op |-> "a", profile |-> p1, limit |-> 2, max |-> 1, delay |-> Null],
     [op |-> "b", profile |-> p2, limit |-> 1, max |-> 2, delay |-> Null],
     [op |-> "c", profile |-> p3, limit |-> 1, max |-> 1, delay |-> Null],
     [op |-> "d", profile |-> p3, limit |-> 1, max |-> 1, delay |-> Null]}

AllCommands == TwoCommands \cup ModelCommands
TwoEndpoints == [p \in Profiles |-> IF p = p3 THEN e2 ELSE e1]
StrictestOne == [p \in Profiles |-> IF p = p1 THEN 1 ELSE 2]
OneDelay == {1}

Plain == INSTANCE JobQueue WITH
    Workers <- {w1, w2}, Commands <- TwoCommands, Profiles <- {},
    Endpoint <- <<>>, TaskLimit <- <<>>, LateCommit <- TRUE
Models == INSTANCE JobQueue WITH Workers <- {w3}, Commands <- ModelCommands

In(p) == part = p /\ UNCHANGED part

\* One step of the queue, in the instance the behaviour has chosen.
QueueStep ==
    \/ In("lifecycle") /\ Plain!Next
    \/ In("admission") /\ Models!Next

\* Model jobs alone.
AdmissionSpec == Init /\ part = "admission" /\ [][In("admission") /\ Models!Next]_<<vars, part>>
=============================================================================
