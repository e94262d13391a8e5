-------------------------- MODULE MCDocumentationJobs --------------------------
(***************************************************************************)
(* A small instance of DocumentationRun for TLC, with fairness: a run of   *)
(* one page to which something happens and the run that comes after it,    *)
(* and a run of two pages whose jobs fail, are lost and are cancelled.     *)
(***************************************************************************)
EXTENDS DocumentationRun

CONSTANT s1

TwoPages == {"p1", "p2"}
OneText == {"t1"}
Failures == {"lost worker", "error", "cancel"}
ConfigurationChanges == {"knowledge base", "source", "membership", "model"} \cup Failures

\* What the first run captured is still so, but for the wiki it published.
AsCaptured ==
    /\ kb.version = 1 + kb.wiki /\ kb.wiki \in {None, 1}
    /\ run[1].sources = source /\ run[1].models = model
OnlyRun == \A r \in RunIds \ {1} : run[r].status = "ABSENT"

\* Changes and failures happen while the first run is the only one.  It may
\* have two pages, or meet a second failure, if nothing it captured changed;
\* then it stays the only one.  No step that fairness is about is barred: a
\* plan of one page stays possible.
Focus ==
    /\ edits' > edits => OnlyRun
    /\ edits' = 2 => AsCaptured' /\ OnlyRun'
    /\ \A r \in RunIds :
         run'[r].page["p2"] # "NONE" => r = 1 /\ run'[r].page["p1"] # "NONE"
    /\ run'[1].page["p2"] # "NONE" => AsCaptured' /\ OnlyRun'
=============================================================================
