----------------------------- MODULE MCDsrSaga -----------------------------
(* Small instances of DsrSaga for TLC. *)
EXTENDS DsrSaga

CONSTANTS a1, a2, s1, s2, x1, x2

OneAgent == {a1}
OneSlot == {s1}
TwoSlots == {s1, s2}
OneRequest == {x1}
TwoRequests == {x1, x2}
TwoTables == {1, 2}
AllOfOne == [tb \in TwoTables |-> a1]
SomeRescans == {Rescan}
NoRescans == {}
AllFaults == {"loss", "agentCrash", "cpCrash", "db"}
Loss == {"loss"}
StoreFaults == {"db"}
NoFaults == {}
=============================================================================
