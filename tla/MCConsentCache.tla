--------------------------- MODULE MCConsentCache ---------------------------
(* Small instances of ConsentCache for TLC. *)
EXTENDS ConsentCache

CONSTANTS u1, u2, p1, p2

MCPrincipals == {u1, u2}
MCPurposes == {p1, p2}
MCSeeds == SUBSET (MCPurposes \cup {"*"})
MCTtls == {0, 2}
MCWithdrawals == SUBSET MCPurposes \cup {{"*"}, {"*", p1}}
=============================================================================
