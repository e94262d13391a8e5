--------------------------- MODULE ProviderStream ---------------------------
(***************************************************************************)
(* How a worker reads what a model answers (ParseOpenAISSE in              *)
(* internal/capsule/sse.go).  The provider is not trusted: it sends any     *)
(* sequence of events, and the parser accepts one tool call or one text,    *)
(* one usage and one end, or nothing.  An event is reduced to the parts the *)
(* parser tells apart; text is empty or not, a name or an identifier is one *)
(* of two, and an event with an unknown field or a wrong type is "broken".  *)
(***************************************************************************)
EXTENDS Naturals, Sequences

CONSTANTS EventKinds,   \* the events the provider may send
          MaxStream     \* bound: events of a stream (limits.MaxEvents)

VARIABLES answer,  \* the events sent so far
          parser   \* the local variables of ParseOpenAISSE

streamVars == <<answer, parser>>

NoneSent == "none"

\* What the decoder makes of a line of data: a broken line is refused, "[DONE]"
\* is not JSON and carries nothing, and what is not a choice has no delta.
StreamAssumption ==
    \A e \in EventKinds :
        /\ e.kind \in {"chunk", "done", "broken"} /\ e.text \in {NoneSent, "some"}
        /\ e.call \in BOOLEAN /\ e.arguments \in BOOLEAN
        /\ e.kind = "done" => e.usage = NoneSent
        /\ e.kind = "done" \/ e.choices = 0 => e.text = NoneSent /\ ~ e.call /\ e.finish = NoneSent

NewParser == [state |-> "reading", text |-> FALSE, tool |-> FALSE, id |-> NoneSent, name |-> NoneSent,
              arguments |-> FALSE, finish |-> NoneSent, usage |-> NoneSent]

StreamInit == answer = <<>> /\ parser = NewParser

Refused == [NewParser EXCEPT !.state = "refused"]

\* A second usage replaces the first.
TakesUsage_Again(p, e) == e.usage \in {NoneSent, "coherent"}
\* parseUsage: at most one usage in a stream, and its total must be the sum.
TakesUsage(p, e) == e.usage = NoneSent \/ (e.usage = "coherent" /\ p.usage = NoneSent)

\* "[DONE]" ends a stream that has an end and a usage.
TakesDone(p) == p.finish # NoneSent /\ p.usage # NoneSent

\* An event after the end carries the usage and nothing else.
TakesLate(p, e) ==
    /\ e.usage # NoneSent
    /\ e.text = NoneSent /\ e.call = FALSE /\ e.finish = NoneSent

\* A delta: text and a tool call exclude each other, and the parts of a call
\* agree on its identifier and name.
TakesDelta(p, e) ==
    /\ e.choices = 1
    /\ ~(e.text = "some" /\ p.tool)
    /\ e.call => /\ ~p.text /\ e.text # "some"
                 /\ e.id = NoneSent \/ p.id = NoneSent \/ e.id = p.id
                 /\ e.name = NoneSent \/ p.name = NoneSent \/ e.name = p.name
    /\ e.finish \in {NoneSent, "stop", "tool_calls"}

AfterDelta(p, e) ==
    [state |-> p.state,
     text |-> p.text \/ e.text = "some",
     tool |-> p.tool \/ e.call,
     id |-> IF e.call /\ e.id # NoneSent THEN e.id ELSE p.id,
     name |-> IF e.call /\ e.name # NoneSent THEN e.name ELSE p.name,
     arguments |-> p.arguments \/ (e.call /\ e.arguments),
     finish |-> IF e.finish # NoneSent THEN e.finish ELSE p.finish,
     usage |-> p.usage]

\* One iteration of the loop over the events.
ReadEvent(p, e) ==
    LET q == IF e.usage = NoneSent THEN p ELSE [p EXCEPT !.usage = e.usage]
    IN  IF e.kind = "broken" \/ p.state = "done" THEN Refused
        ELSE IF e.kind = "done" THEN (IF TakesDone(p) THEN [p EXCEPT !.state = "done"] ELSE Refused)
        ELSE IF ~ TakesUsage(p, e) THEN Refused
        ELSE IF e.choices = 0 THEN (IF e.usage # NoneSent /\ p.finish # NoneSent THEN q ELSE Refused)
        ELSE IF p.finish # NoneSent THEN (IF TakesLate(p, e) THEN q ELSE Refused)
        ELSE IF TakesDelta(p, e) THEN AfterDelta(q, e) ELSE Refused

\* After the loop: a call is complete and granted, and the end fits it.
Acceptable(p) ==
    /\ p.state = "done"
    /\ IF p.tool THEN p.finish = "tool_calls" /\ p.name = "granted" /\ p.arguments ELSE p.finish = "stop"

Send(e) ==
    /\ parser.state \in {"reading", "done"} /\ Len(answer) < MaxStream
    /\ answer' = Append(answer, e)
    /\ parser' = ReadEvent(parser, e)

\* The body ends; what is accepted becomes the attempt's message.
EndOfBody ==
    /\ parser.state \in {"reading", "done"}
    /\ parser' = IF Acceptable(parser) THEN [parser EXCEPT !.state = "accepted"] ELSE Refused
    /\ UNCHANGED answer

StreamNext == EndOfBody \/ \E e \in EventKinds : Send(e)

StreamSpec == StreamInit /\ [][StreamNext]_streamVars

-----------------------------------------------------------------------------
\* The events of the answer that carry a usage, an end, text or a part of a
\* call, and the marks of its end.
UsagesSent == {i \in DOMAIN answer : answer[i].usage # NoneSent}
EndsSent == {i \in DOMAIN answer : answer[i].finish # NoneSent}
TextsSent == {i \in DOMAIN answer : answer[i].text = "some"}
CallsSent == {i \in DOMAIN answer : answer[i].call}
DonesSent == {i \in DOMAIN answer : answer[i].kind = "done"}

\* An accepted answer is read the same by everyone: it has one usage, one end
\* and nothing after it, its text or its one call but not both, and the call
\* is of one granted tool, however the provider splits, repeats, mixes or
\* reorders events (ParseOpenAISSE).
AcceptedIsUnambiguous ==
    parser.state = "accepted" =>
      /\ \E u \in UsagesSent : UsagesSent = {u}
      /\ \E f \in EndsSent : EndsSent = {f} /\ \A i \in TextsSent \cup CallsSent : i <= f
      /\ DonesSent = {Len(answer)}
      /\ CallsSent = {} \/ TextsSent = {}
      /\ \A i, j \in CallsSent :
           answer[i].id # NoneSent /\ answer[j].id # NoneSent => answer[i].id = answer[j].id
      /\ \A i \in CallsSent : answer[i].name \in {NoneSent, "granted"}
=============================================================================
