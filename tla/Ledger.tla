------------------------------- MODULE Ledger -------------------------------
(***************************************************************************)
(* The audit ledger: shared/src/crypto/ledger.ts (block construction and   *)
(* chain verification) and control-plane/src/services/ledger.service.ts    *)
(* (the audit_ledger table).                                               *)
(*                                                                         *)
(* The table is the sequence of its rows in block_index order.  SHA-256 is *)
(* idealised as collision free: a digest is the record of what was hashed. *)
(* A payload is its JSON content together with whether one of its keys     *)
(* holds `undefined': that is the one distinction JSON.stringify (which    *)
(* drops the key) and canonicalJson (which prints it) make differently.    *)
(* The timestamp and the tenant id are part of the content.                *)
(***************************************************************************)
EXTENDS Integers, Sequences

CONSTANTS
  EventTypes,     \* the values of LedgerEventType
  Principals,     \* principal ids
  Contents,       \* JSON contents of payloads
  MaxBlocks,      \* bound on the length of the modelled chain
  MaxEdits        \* bound on the rows changed by hand

ASSUME BoundsAssumption == MaxBlocks \in Nat /\ MaxEdits \in Nat

VARIABLES
  ledger,     \* the rows of audit_ledger
  exported,   \* what GET /api/v1/dpo/ledger last returned to an auditor
  edits,      \* how many rows something other than appendEvent changed
  unsafe      \* was an event appended whose payload had an undefined key?

vars == <<ledger, exported, edits, unsafe>>

-----------------------------------------------------------------------------
(* Blocks and hashes (shared/src/crypto/ledger.ts).                        *)

NoPrincipal == "no principal"

Payloads == [content : Contents, undefinedKey : BOOLEAN]

(* JSON.parse(JSON.stringify(p)) loses the keys that hold undefined. *)
JsonRoundTrip(p) == [p EXCEPT !.undefinedKey = FALSE]

(* The salted hash of a principal id, or the null of an absent one. *)
HashPrincipalId(p) == IF p = NoPrincipal THEN <<>> ELSE <<"dpdp-audit-salt", p>>

(* The 64 zeros, the digest of nothing. *)
GenesisPrevHash == [of |-> <<>>]

(* A hash that forgets the payload. *)
HashWithoutPayload(prevHash, index, eventType, principalIdHash, payload) ==
  [of |-> <<prevHash, index, eventType, principalIdHash>>]

ComputeBlockHash(prevHash, index, eventType, principalIdHash, payload) ==
  [of |-> <<prevHash, index, eventType, principalIdHash, payload>>]

(* The hash a row should carry, recomputed from its other columns. *)
RowHash(row) ==
  ComputeBlockHash(row.prevHash, row.index, row.eventType,
                   row.principalIdHash, row.payload)

(* A block linked to the predecessor of the last row. *)
BlockLinkedTwoBack(l, eventType, principalIdHash, payload) ==
  LET first    == l = <<>>
      index    == IF first THEN 0 ELSE l[Len(l)].index + 1
      prevHash == IF first THEN GenesisPrevHash ELSE l[Len(l)].prevHash
  IN  [index |-> index, eventType |-> eventType,
       principalIdHash |-> principalIdHash, payload |-> payload,
       prevHash |-> prevHash,
       hash |-> ComputeBlockHash(prevHash, index, eventType,
                                 principalIdHash, payload)]

(* The block that follows the rows of l (getLatestBlock reads the last). *)
CreateLedgerBlock(l, eventType, principalIdHash, payload) ==
  LET first    == l = <<>>
      index    == IF first THEN 0 ELSE l[Len(l)].index + 1
      prevHash == IF first THEN GenesisPrevHash ELSE l[Len(l)].hash
  IN  [index |-> index, eventType |-> eventType,
       principalIdHash |-> principalIdHash, payload |-> payload,
       prevHash |-> prevHash,
       hash |-> ComputeBlockHash(prevHash, index, eventType,
                                 principalIdHash, payload)]

(* A verification that does not compare prevHash with the row before. *)
BlockOkUnlinked(l, i) == l[i].index = i - 1 /\ l[i].hash = RowHash(l[i])

(* The checks verifyLedgerChain makes of the i-th block, counted from 1. *)
BlockOk(l, i) ==
  /\ l[i].index = i - 1
  /\ l[i].prevHash = IF i = 1 THEN GenesisPrevHash ELSE l[i-1].hash
  /\ l[i].hash = RowHash(l[i])

(* All blocks pass, or the position (from 0) of the first that does not. *)
VerifyLedgerChain(l) ==
  IF \A i \in 1..Len(l) : BlockOk(l, i)
  THEN [valid |-> TRUE, invalidIndex |-> -1]
  ELSE [valid |-> FALSE,
        invalidIndex |-> (CHOOSE i \in 1..Len(l) :
                            /\ ~BlockOk(l, i)
                            /\ \A j \in 1..(i-1) : BlockOk(l, j)) - 1]

-----------------------------------------------------------------------------
(* The service over the table (ledger.service.ts).                         *)

(* A row that keeps the payload as it was in memory. *)
StoredRowRaw(block) == block

(* The row INSERTed for a block: the payload goes through JSON.stringify.  *)
StoredRow(block) == [block EXCEPT !.payload = JsonRoundTrip(block.payload)]

Init ==
  /\ ledger = <<>>
  /\ exported = <<>>
  /\ edits = 0
  /\ unsafe = FALSE

AppendEvent(eventType, principal, payload) ==
  /\ Len(ledger) < MaxBlocks
  /\ ledger' = Append(ledger, StoredRow(
                 CreateLedgerBlock(ledger, eventType,
                                   HashPrincipalId(principal), payload)))
  /\ unsafe' = (unsafe \/ payload.undefinedKey)
  /\ UNCHANGED <<exported, edits>>

(* The auditor keeps the blocks that the ledger route returned. *)
GetAllBlocks ==
  /\ exported' = ledger
  /\ UNCHANGED <<ledger, edits, unsafe>>

(* A payload_json column rewritten by hand, with the row's own hash made   *)
(* to match or left as it was.  Outside the program.                       *)
EditPayload(i, content, rehash) ==
  LET row == [ledger[i] EXCEPT !.payload.content = content]
  IN  /\ edits < MaxEdits
      /\ content # ledger[i].payload.content
      /\ ledger' = [ledger EXCEPT ![i] =
                      IF rehash THEN [row EXCEPT !.hash = RowHash(row)] ELSE row]
      /\ edits' = edits + 1
      /\ UNCHANGED <<exported, unsafe>>

(* A row deleted by hand.  Outside the program. *)
DeleteRow(i) ==
  /\ edits < MaxEdits
  /\ ledger' = SubSeq(ledger, 1, i - 1) \o SubSeq(ledger, i + 1, Len(ledger))
  /\ edits' = edits + 1
  /\ UNCHANGED <<exported, unsafe>>

Next ==
  \/ \E t \in EventTypes, p \in Principals \cup {NoPrincipal}, d \in Payloads :
        AppendEvent(t, p, d)
  \/ GetAllBlocks
  \/ \E i \in 1..Len(ledger), c \in Contents, rehash \in BOOLEAN :
        EditPayload(i, c, rehash)
  \/ \E i \in 1..Len(ledger) : DeleteRow(i)

Spec == Init /\ [][Next]_vars

-----------------------------------------------------------------------------
(* Properties.                                                             *)

(* A row has exactly the columns that the INSERT of appendEvent names. *)
IsRow(r) ==
  /\ r = [index |-> r.index, eventType |-> r.eventType,
          principalIdHash |-> r.principalIdHash, payload |-> r.payload,
          prevHash |-> r.prevHash, hash |-> r.hash]
  /\ r.index \in Nat
  /\ r.payload \in Payloads
  /\ ~r.payload.undefinedKey

Rows(l) == {l[i] : i \in 1..Len(l)}

IsTable(l) == l \in Seq(Rows(l)) /\ \A i \in 1..Len(l) : IsRow(l[i])

(* Every table is a sequence of complete rows, none with an undefined key. *)
TypeOK ==
  /\ IsTable(ledger)
  /\ IsTable(exported)
  /\ edits \in 0..MaxEdits
  /\ unsafe \in BOOLEAN

(* verifyIntegrity accepts a table that only appendEvent wrote exactly when  *)
(* no event carried a payload with an undefined key: appending preserves the *)
(* chain, and the hash is taken of the payload in memory while the row       *)
(* stores what JSON.stringify left of it.                                    *)
IntegrityExact ==
  edits = 0 => (VerifyLedgerChain(ledger).valid <=> ~unsafe)

(* Where the chain reports an edit of a table that verified: at the edited   *)
(* row, or, when its own hash was made to match, at the row after it.  Only  *)
(* the last row can be rewritten or removed without a report.                *)
EditsAreLocated ==
  [][ VerifyLedgerChain(ledger).valid =>
        /\ \A i \in 1..Len(ledger), c \in Contents :
              /\ EditPayload(i, c, FALSE) =>
                   VerifyLedgerChain(ledger').invalidIndex = i - 1
              /\ EditPayload(i, c, TRUE) =>
                   VerifyLedgerChain(ledger').invalidIndex =
                     IF i = Len(ledger) THEN -1 ELSE i
        /\ \A i \in 1..Len(ledger) :
              DeleteRow(i) =>
                VerifyLedgerChain(ledger').invalidIndex =
                  IF i = Len(ledger) THEN -1 ELSE i - 1 ]_vars

(* The first k rows of l pass every check of the verification. *)
VerifiedUpTo(l, k) == k <= Len(l) /\ \A i \in 1..k : BlockOk(l, i)

(* l and m have the same first k rows. *)
SameUpTo(l, m, k) == \A i \in 1..k : l[i] = m[i]

(* A block hash stands for the whole history below it: where the table and   *)
(* an auditor's earlier export both verify up to a row and carry the same    *)
(* hash there, no earlier row differs, whatever was edited in between.       *)
HeadBinding ==
  \A k \in 1..Len(exported) :
    ( /\ VerifiedUpTo(ledger, k)
      /\ VerifiedUpTo(exported, k)
      /\ ledger[k].hash = exported[k].hash ) => SameUpTo(ledger, exported, k)

(* What README.md says of the verification button, of a table nobody edited:
   it verifies the integrity of the chain. *)
LedgerAlwaysVerifies == edits = 0 => VerifyLedgerChain(ledger).valid
=============================================================================
