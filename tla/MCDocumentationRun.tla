-------------------------- MODULE MCDocumentationRun --------------------------
(***************************************************************************)
(* A small instance of DocumentationRun for TLC: two successive runs with  *)
(* one change of any kind, or two of which one is new content.             *)
(***************************************************************************)
EXTENDS DocumentationRun

CONSTANT s1

OnePage == {"p1"}
OneText == {"t1"}
AllChanges ==
    {"content", "knowledge base", "source", "membership", "model", "lost worker", "error", "cancel"}

\* A second change is new content, or a failure after new content.
Focus ==
    edits = 1 /\ edits' = 2 =>
        \E s \in Sources :
            \/ source'[s].rev # source[s].rev
            \/ source[s].rev = MaxRev /\ UNCHANGED <<kb, source>> /\ job' # job
=============================================================================
