---------------------------- MODULE MCDiscovery ----------------------------
(* Small instances of Discovery for TLC. *)
EXTENDS Discovery

CONSTANTS s1, s2

TwoSlots == {s1, s2}
TwoTables == {"orders", "users"}
OneTable == {"users"}
OneShape == {"narrow"}
TwoShapes == {"narrow", "wide"}
AllFaults == {"db", "loss", "agentCrash", "cpCrash"}
=============================================================================
