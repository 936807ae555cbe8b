---------------------------- MODULE MCAgentTasks ----------------------------
(* Small instances of AgentTasks for TLC. *)
EXTENDS AgentTasks

CONSTANTS a1, a2, s1, s2, invalidate, scan

MCAgents == {a1, a2}
OneAgent == {a1}
MCSlots == {s1, s2}
OneSlot == {s1}
MCData == {invalidate, scan}
MCThrowing == {scan}
NoData == {}
AllFaults == {"loss", "agentCrash", "cpCrash"}
Loss == {"loss"}
NoFaults == {}
=============================================================================
