---------------------------- MODULE MCChecksums ----------------------------
(* A small instance for TLC of what is there to notice edits and slips: the  *)
(* hash chain of Ledger and the check digits of PiiDigits.  They share no    *)
(* state: a behaviour is of one of them.                                     *)
EXTENDS Ledger, PiiDigits

VARIABLE subject

CONSTANTS c1, c2, p1

MCEventTypes == {"CONSENT_GRANTED"}
MCPrincipals == {p1}
MCContents == {c1, c2}

MCInit ==
  /\ Init /\ DigitsInit
  /\ \/ subject = "ledger" /\ scheme = "LUHN"
     \/ subject = "number"
MCNext ==
  \/ subject = "ledger" /\ Next /\ UNCHANGED <<digitsVars, subject>>
  \/ subject = "number" /\ DigitsNext /\ UNCHANGED <<vars, subject>>
MCSpec == MCInit /\ [][MCNext]_<<vars, digitsVars, subject>>
=============================================================================
