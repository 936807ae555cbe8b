------------------------ MODULE MCConsentEnforcement ------------------------
(* Small instances of ConsentEnforcement for TLC. *)
EXTENDS ConsentEnforcement

CONSTANTS a1, a2, u1, p1, p2, s1

OneAgent == {a1}
TwoAgents == {a1, a2}
OnePrincipal == {u1}
OnePurpose == {p1}
TwoPurposes == {p1, p2}
OneSlot == {s1}
LongTtl == {MaxTtl}
Everything == {{"*"}}
PartOrAll == {{"*"}, {p1}}
AllFaults == {"loss", "agentCrash", "cpCrash"}
NoFaults == {}
=============================================================================
