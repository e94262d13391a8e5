------------------------------- MODULE MCDiscord -------------------------------
(***************************************************************************)
(* Two replicas are checked with their faults and the commands that make   *)
(* them restart a session, without questions; one replica, without faults  *)
(* of its own, with every command, the worker's job and questions, the     *)
(* first of them when the session is open.                                 *)
(***************************************************************************)
EXTENDS Discord

CONSTANTS b1, b2, p1, p2

MCBindings == {b1, b2}
MCSettings ==
    {[reply |-> "SAME_CHANNEL", triggers |-> {"MENTION"}, restricted |-> TRUE],
     [reply |-> "THREAD", triggers |-> {"SLASH_COMMAND"}, restricted |-> TRUE]}

\* The identity of the first binding does not matter, nor which replica is alone.
MCInit ==
    /\ Init
    /\ binding[b1].enabled /\ p1 \in replicas
    /\ p2 \in replicas => binding[b1].config.reply = "THREAD"

MCSpec == MCInit /\ [][Next]_vars /\ Fairness

Focus ==
    IF p2 \in replicas
    THEN UNCHANGED <<binding, agent, guild, directory, job, chat>>
    ELSE /\ stimuli' # stimuli => stimuli > 0 \/ gateway[Main(p1)].at = "open"
         /\ faults' # faults => UNCHANGED service
=============================================================================
