------------------------------ MODULE MCAnswers ------------------------------
(* A small instance of AgentAnswer for TLC. *)
EXTENDS AgentAnswer

CONSTANTS k1, k2, t1, r1

Searching == [members |-> {k1, k2}, mode |-> "TOOL_CALLING", evidence |-> "WIKI_AND_SOURCE"]
OnePass == [members |-> {k1}, mode |-> "SINGLE_PASS", evidence |-> "WIKI_ONLY"]
TwoConfigurations == {Searching, OnePass}

\* Of two calls the first one finds something new, in the first knowledge base
\* if it reads, and the second one reads something new in the second one.
Focus ==
    \A r \in Requests : exec'[r].left < exec[r].left =>
      \/ exec'[r].left = 0 /\ \E c \in exec'[r].minted \ exec[r].minted : c.kb = k2
      \/ /\ exec'[r].left > 0 /\ <<exec'[r].handles, exec'[r].minted>> # <<exec[r].handles, exec[r].minted>>
         /\ \A c \in exec'[r].minted : c.kb = k1
==============================================================================
