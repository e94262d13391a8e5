---------------------------- MODULE MCSourceSync ----------------------------
(* Small instances of SourceSync for TLC. *)
EXTENDS SourceSync, TLC

CONSTANTS w1, w2, k1, k2, one, two

(* The remote changes and then shows again what it showed first. *)
MCUpstream == <<one, two, one>>

(* Commands or failures, and one of each. *)
CaptureScenarios ==
    { [kind |-> "REPOSITORY", commands |-> 2, failures |-> 0],
      [kind |-> "REPOSITORY", commands |-> 1, failures |-> 1],
      [kind |-> "REPOSITORY", commands |-> 0, failures |-> 2],
      [kind |-> "WEBSITE", commands |-> 1, failures |-> 1] }

(* Nothing fails and nobody gives a command. *)
QuietScenario == { [kind |-> "WEBSITE", commands |-> 0, failures |-> 0] }

(* Workers are alike, and so are the executions of retention. *)
Alike == Permutations(Workers) \cup Permutations(Keepers)
=============================================================================
