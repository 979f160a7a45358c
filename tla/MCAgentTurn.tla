---------------------------- MODULE MCAgentTurn ----------------------------
(* Two turns of one session; the domain agent has a read tool and a gated,  *)
(* role-restricted one.                                                     *)
EXTENDS AgentTurn

CONSTANTS s1

MCTurns == {1, 2}
MCSessions == {s1}
MCSessionOf == [t \in MCTurns |-> s1]
MCTools == {"read", "issue"}
MCGated == {"issue"}
\* One turn with retries, several rounds and several tool uses a round; two
\* turns, one after the other or overlapping, with a round each.
OneTurn == [turns |-> {1}, cut |-> {1}, loops |-> 2, rate |-> 1, conn |-> 1, blocks |-> 2,
            asked |-> MCTools \cup {"handoff", "handoff_unknown", "clarify"}]
TwoTurns == [turns |-> {1, 2}, cut |-> {}, loops |-> 1, rate |-> 0, conn |-> 0, blocks |-> 1,
             asked |-> MCGated \cup {"handoff"}]
MCLimits == {OneTurn, TwoTurns}
============================================================================
