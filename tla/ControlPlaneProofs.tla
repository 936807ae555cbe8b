-------------------------- MODULE ControlPlaneProofs --------------------------
(***************************************************************************)
(* What is proved of the control plane's own services: of its ledger, for  *)
(* every set of events, principals and contents and for chains of any      *)
(* length; of the officers' sign-in, for all officers, tokens, clocks and  *)
(* lifetimes; and of their compliance report, for any number of polls and  *)
(* open requests.                                                          *)
(***************************************************************************)
EXTENDS Ledger, DpoAuth, Dashboard, TLAPS, SequenceTheorems, WellFoundedInduction

-----------------------------------------------------------------------------
(* The ledger: what a verified chain binds.                                *)

(* A row of a verified chain carries the hash of its own columns. *)
LEMMA RowHashInjective ==
  ASSUME NEW r, NEW s, IsRow(r), IsRow(s),
         r.hash = RowHash(r), s.hash = RowHash(s), r.hash = s.hash
  PROVE  r = s /\ r.prevHash = s.prevHash
  BY DEF IsRow, RowHash, ComputeBlockHash

(* A nonempty set of numbers up to n has a greatest element. *)
LEMMA GreatestElement ==
  ASSUME NEW n \in Nat, NEW S \in SUBSET (1..n), S # {}
  PROVE  \E m \in S : \A i \in S : i <= m
<1> DEFINE T == {n - i : i \in S}
<1>1. T \subseteq Nat /\ T # {}
  <2>1. \A i \in S : n - i \in Nat
    BY SMT
  <2>2. PICK i \in S : TRUE
    OBVIOUS
  <2>3. n - i \in T
    BY <2>2
  <2> QED BY <2>1, <2>3
<1>2. \E x \in T : \A y \in T : ~(<<y, x>> \in OpToRel(<, Nat))
  <2> HIDE DEF T
  <2> QED BY <1>1, NatLessThanWellFounded, WFMin
<1>3. PICK x \in T : \A y \in T : ~(y < x)
  BY <1>1, <1>2 DEF OpToRel
<1>4. PICK m \in S : x = n - m
  BY <1>3
<1>5. \A i \in S : i <= m
  <2> TAKE i \in S
  <2>1. n - i \in T /\ ~(n - i < x)
    BY <1>3
  <2> QED BY <2>1, <1>4
<1> QED BY <1>5

(* Two verified prefixes that end in the same hash are the same. *)
LEMMA VerifiedPrefixBinding ==
  ASSUME NEW l, NEW m, NEW k \in Nat,
         \A i \in 1..k : IsRow(l[i]) /\ IsRow(m[i]),
         \A i \in 1..k : BlockOk(l, i) /\ BlockOk(m, i),
         k > 0 => l[k].hash = m[k].hash
  PROVE  SameUpTo(l, m, k)
<1> DEFINE D == {i \in 1..k : l[i] # m[i]}
<1> SUFFICES ASSUME D # {} PROVE FALSE
  BY DEF SameUpTo
<1>1. PICK g \in D : \A i \in D : i <= g
  <2> D \in SUBSET (1..k)
    OBVIOUS
  <2> HIDE DEF D
  <2> QED BY GreatestElement
<1>2. CASE g = k
  BY <1>1, <1>2, RowHashInjective DEF BlockOk
<1>3. CASE g # k
  <2>1. g + 1 \in 1..k /\ l[g + 1] = m[g + 1]
    BY <1>1, <1>3
  <2>2. l[g].hash = l[g + 1].prevHash /\ m[g].hash = m[g + 1].prevHash
    <3>1. g + 1 # 1 /\ (g + 1) - 1 = g
      BY <1>1
    <3> QED BY <2>1, <3>1 DEF BlockOk
  <2> QED BY <1>1, <2>1, <2>2, RowHashInjective DEF BlockOk
<1> QED BY <1>2, <1>3

(***************************************************************************)
(* Tables stay tables under the operations of the service and under edits. *)
(***************************************************************************)
LEMMA RowsOfSeq ==
  ASSUME NEW S, NEW l \in Seq(S)
  PROVE  l \in Seq(Rows(l))
  BY ElementOfSeq DEF Rows

LEMMA AppendIsTable ==
  ASSUME NEW l, IsTable(l), NEW r, IsRow(r)
  PROVE  /\ IsTable(Append(l, r))
         /\ Len(Append(l, r)) = Len(l) + 1
         /\ \A i \in 1..Len(l) : Append(l, r)[i] = l[i]
         /\ Append(l, r)[Len(l) + 1] = r
<1> DEFINE S == Rows(l) \cup {r}
           m == Append(l, r)
<1>1. l \in Seq(S)
  BY DEF IsTable
<1>2. m \in Seq(S) /\ Len(m) = Len(l) + 1
      /\ (\A i \in 1..Len(l) : m[i] = l[i]) /\ m[Len(l) + 1] = r
  <2>1. r \in S
    OBVIOUS
  <2> HIDE DEF S
  <2> QED BY <1>1, <2>1, AppendProperties
<1>3. m \in Seq(Rows(m))
  <2> HIDE DEF S, m
  <2> QED BY <1>2, RowsOfSeq
<1>4. \A i \in 1..Len(m) : IsRow(m[i])
  <2> HIDE DEF m
  <2> QED BY <1>2 DEF IsTable
<1> QED BY <1>2, <1>3, <1>4 DEF IsTable

LEMMA ExceptIsTable ==
  ASSUME NEW l, IsTable(l), NEW i \in 1..Len(l), NEW r, IsRow(r)
  PROVE  IsTable([l EXCEPT ![i] = r])
<1> DEFINE S == Rows(l) \cup {r}
           m == [l EXCEPT ![i] = r]
<1>1. m \in Seq(S) /\ Len(m) = Len(l)
      /\ \A j \in 1..Len(l) : m[j] = IF j = i THEN r ELSE l[j]
  <2>1. l \in Seq(S) /\ r \in S
    BY DEF IsTable
  <2> HIDE DEF S
  <2> QED BY <2>1, ExceptSeq
<1>2. m \in Seq(Rows(m))
  <2> HIDE DEF S, m
  <2> QED BY <1>1, RowsOfSeq
<1>3. \A j \in 1..Len(m) : IsRow(m[j])
  <2> HIDE DEF m
  <2> QED BY <1>1 DEF IsTable
<1> QED BY <1>2, <1>3 DEF IsTable

LEMMA DeleteIsTable ==
  ASSUME NEW l, IsTable(l), NEW i \in 1..Len(l)
  PROVE  IsTable(SubSeq(l, 1, i - 1) \o SubSeq(l, i + 1, Len(l)))
<1> DEFINE a == SubSeq(l, 1, i - 1)
           b == SubSeq(l, i + 1, Len(l))
           S == Rows(l)
<1>0. l \in Seq(S) /\ Len(l) \in Nat /\ \A j \in 1..Len(l) : l[j] \in S
  BY DEF IsTable, Rows
<1>1. a \in Seq(S) /\ b \in Seq(S)
  <2> HIDE DEF S
  <2>1. \A j \in 1..(i - 1) : l[j] \in S
    BY <1>0
  <2>2. \A j \in (i + 1)..Len(l) : l[j] \in S
    BY <1>0
  <2> QED BY <1>0, <2>1, <2>2, SubSeqProperties
<1> DEFINE m == a \o b
<1>2. m \in Seq(S)
  <2> HIDE DEF S, a, b
  <2> QED BY <1>1, ConcatProperties
<1>3. m \in Seq(Rows(m))
  <2> HIDE DEF S, m
  <2> QED BY <1>2, RowsOfSeq
<1>4. \A j \in 1..Len(m) : IsRow(m[j])
  <2>1. \A x \in S : IsRow(x)
    BY DEF IsTable, Rows
  <2>2. \A j \in 1..Len(m) : m[j] \in S
    <3> HIDE DEF S, m
    <3> QED BY <1>2, ElementOfSeq
  <2> HIDE DEF S, m
  <2> QED BY <2>1, <2>2
<1> HIDE DEF m
<1> QED BY <1>3, <1>4 DEF IsTable, m

(* The row stored for a new block is complete and continues the indices. *)
LEMMA NewRow ==
  ASSUME NEW l, IsTable(l), NEW t, NEW h, NEW d \in Payloads,
         NEW r, r = StoredRow(CreateLedgerBlock(l, t, h, d))
  PROVE  /\ IsRow(r)
         /\ r.index = IF l = <<>> THEN 0 ELSE l[Len(l)].index + 1
         /\ r.prevHash = IF l = <<>> THEN GenesisPrevHash ELSE l[Len(l)].hash
         /\ (r.hash = RowHash(r)) <=> ~d.undefinedKey
<1>1. l # <<>> => l[Len(l)].index \in Nat
  <2> SUFFICES ASSUME l # <<>> PROVE l[Len(l)].index \in Nat
    OBVIOUS
  <2>1. Len(l) \in 1..Len(l)
    BY EmptySeq, LenProperties DEF IsTable
  <2> QED BY <2>1 DEF IsTable, IsRow
<1>2. JsonRoundTrip(d) \in Payloads /\ ~JsonRoundTrip(d).undefinedKey
      /\ (JsonRoundTrip(d) = d <=> ~d.undefinedKey)
  BY DEF JsonRoundTrip, Payloads
<1> DEFINE index    == IF l = <<>> THEN 0 ELSE l[Len(l)].index + 1
           prevHash == IF l = <<>> THEN GenesisPrevHash ELSE l[Len(l)].hash
           hash     == ComputeBlockHash(prevHash, index, t, h, d)
<1>3. r = [index |-> index, eventType |-> t, principalIdHash |-> h,
           payload |-> JsonRoundTrip(d), prevHash |-> prevHash, hash |-> hash]
  BY DEF StoredRow, CreateLedgerBlock
<1>4. index \in Nat
  BY <1>1
<1>5. hash = ComputeBlockHash(prevHash, index, t, h, JsonRoundTrip(d))
        <=> JsonRoundTrip(d) = d
  BY DEF ComputeBlockHash
<1> HIDE DEF index, prevHash, hash
<1>6. IsRow(r)
  BY <1>2, <1>3, <1>4 DEF IsRow
<1>7. RowHash(r) = ComputeBlockHash(prevHash, index, t, h, JsonRoundTrip(d))
  BY <1>3 DEF RowHash
<1>8. r.index = index /\ r.prevHash = prevHash /\ r.hash = hash
  BY <1>3
<1> QED BY <1>2, <1>5, <1>6, <1>7, <1>8 DEF index, prevHash

-----------------------------------------------------------------------------
(* Type correctness. *)

LEMMA InitType == Init => TypeOK
<1>1. IsTable(<<>>)
  BY EmptySeq DEF IsTable, Rows
<1>2. Init => IsTable(ledger) /\ IsTable(exported)
  BY <1>1 DEF Init
<1>3. Init => edits \in 0..MaxEdits /\ unsafe \in BOOLEAN
  <2>1. Init => edits \in 0..MaxEdits
    BY BoundsAssumption, SMT DEF Init
  <2>2. Init => unsafe \in BOOLEAN
    BY Zenon DEF Init
  <2> QED BY <2>1, <2>2
<1> QED BY <1>2, <1>3 DEF TypeOK

LEMMA NextType == TypeOK /\ [Next]_vars => TypeOK'
<1> SUFFICES ASSUME TypeOK, [Next]_vars PROVE TypeOK'
  OBVIOUS
<1> USE BoundsAssumption DEF TypeOK
<1>1. ASSUME NEW t, NEW p, NEW d \in Payloads, AppendEvent(t, p, d)
      PROVE  TypeOK'
  <2>1. IsTable(ledger')
    BY <1>1, NewRow, AppendIsTable DEF AppendEvent
  <2>2. unsafe' \in BOOLEAN
    BY <1>1 DEF AppendEvent, Payloads
  <2> QED BY <1>1, <2>1, <2>2 DEF AppendEvent
<1>2. CASE GetAllBlocks
  BY <1>2 DEF GetAllBlocks
<1>3. ASSUME NEW i \in 1..Len(ledger), NEW c \in Contents,
             NEW rehash \in BOOLEAN, EditPayload(i, c, rehash)
      PROVE  TypeOK'
  <2> DEFINE row == [ledger[i] EXCEPT !.payload.content = c]
             new == IF rehash THEN [row EXCEPT !.hash = RowHash(row)] ELSE row
  <2>1. IsRow(ledger[i])
    BY DEF IsTable
  <2>2. IsRow(row)
    BY <2>1 DEF IsRow, Payloads
  <2>3. IsRow(new)
    <3>1. CASE rehash
      <4> DEFINE h == RowHash(row)
      <4>1. IsRow([row EXCEPT !.hash = h])
        <5> HIDE DEF h, row
        <5> QED BY <2>2 DEF IsRow
      <4> QED BY <3>1, <4>1
    <3> QED BY <2>2, <3>1
  <2>4. ledger' = [ledger EXCEPT ![i] = new]
    BY <1>3 DEF EditPayload
  <2>5. IsTable(ledger')
    <3> HIDE DEF new
    <3> QED BY <2>3, <2>4, ExceptIsTable
  <2> QED BY <1>3, <2>5 DEF EditPayload
<1>4. ASSUME NEW i \in 1..Len(ledger), DeleteRow(i)
      PROVE  TypeOK'
  <2>1. IsTable(ledger')
    BY <1>4, DeleteIsTable DEF DeleteRow
  <2> QED BY <1>4, <2>1 DEF DeleteRow
<1>5. CASE UNCHANGED vars
  BY <1>5 DEF vars
<1> QED BY <1>1, <1>2, <1>3, <1>4, <1>5 DEF Next

(* The table and the auditor's copy are always sequences of complete rows. *)
THEOREM LedgerTypeCorrect == Spec => []TypeOK
  BY InitType, NextType, PTL DEF Spec

-----------------------------------------------------------------------------
(* What verification says of a table that only the service wrote. *)

(* While nobody edits the table its indices and links hold, and its hashes
   all hold exactly when every payload survived the round trip. *)
Chained ==
  edits = 0 =>
    /\ \A i \in 1..Len(ledger) :
         /\ ledger[i].index = i - 1
         /\ ledger[i].prevHash = IF i = 1 THEN GenesisPrevHash
                                          ELSE ledger[i-1].hash
    /\ (\A i \in 1..Len(ledger) : ledger[i].hash = RowHash(ledger[i]))
          <=> ~unsafe

LEMMA InitChained == Init => Chained
  BY DEF Init, Chained

LEMMA NextChained == TypeOK /\ Chained /\ [Next]_vars => Chained'
<1> SUFFICES ASSUME TypeOK, Chained, [Next]_vars PROVE Chained'
  OBVIOUS
<1>1. ASSUME NEW t, NEW p, NEW d \in Payloads, AppendEvent(t, p, d), edits = 0
      PROVE  Chained'
  <2> DEFINE r == StoredRow(CreateLedgerBlock(ledger, t, HashPrincipalId(p), d))
             n == Len(ledger)
  <2>1. IsTable(ledger) /\ n \in Nat /\ (ledger = <<>> <=> n = 0)
    BY EmptySeq, LenProperties DEF TypeOK, IsTable
  <2>2. /\ IsRow(r)
        /\ r.index = IF ledger = <<>> THEN 0 ELSE ledger[n].index + 1
        /\ r.prevHash = IF ledger = <<>> THEN GenesisPrevHash ELSE ledger[n].hash
        /\ (r.hash = RowHash(r)) <=> ~d.undefinedKey
    BY <2>1, NewRow
  <2>3. ledger' = Append(ledger, r) /\ unsafe' = (unsafe \/ d.undefinedKey)
        /\ edits' = edits
    BY <1>1 DEF AppendEvent
  <2> HIDE DEF r
  <2>4. /\ Len(ledger') = n + 1
        /\ \A i \in 1..n : ledger'[i] = ledger[i]
        /\ ledger'[n + 1] = r
    BY <2>1, <2>2, <2>3, AppendIsTable
  <2>5. /\ \A i \in 1..n :
            /\ ledger[i].index = i - 1
            /\ ledger[i].prevHash = IF i = 1 THEN GenesisPrevHash
                                             ELSE ledger[i-1].hash
        /\ (\A i \in 1..n : ledger[i].hash = RowHash(ledger[i])) <=> ~unsafe
    BY <1>1 DEF Chained
  <2>6. r.index = n /\ r.prevHash = IF n = 0 THEN GenesisPrevHash
                                             ELSE ledger[n].hash
    BY <2>1, <2>2, <2>5
  <2> HIDE DEF n
  <2>7. ASSUME NEW i \in 1..(n + 1)
        PROVE  /\ ledger'[i].index = i - 1
               /\ ledger'[i].prevHash = IF i = 1 THEN GenesisPrevHash
                                                 ELSE ledger'[i-1].hash
    <3>1. CASE i = n + 1
      BY <2>1, <2>4, <2>6, <3>1
    <3>2. CASE i # n + 1
      BY <2>1, <2>4, <2>5, <3>2
    <3> QED BY <3>1, <3>2
  <2>8. (\A i \in 1..(n + 1) : ledger'[i].hash = RowHash(ledger'[i])) <=> ~unsafe'
    <3>1. (\A i \in 1..(n + 1) : ledger'[i].hash = RowHash(ledger'[i]))
            <=> /\ \A i \in 1..n : ledger[i].hash = RowHash(ledger[i])
                /\ r.hash = RowHash(r)
      <4>1. \A i \in 1..(n + 1) : i \in 1..n \/ i = n + 1
        BY <2>1
      <4>2. 1..n \subseteq 1..(n + 1) /\ n + 1 \in 1..(n + 1)
        BY <2>1
      <4> QED BY <2>4, <4>1, <4>2, Zenon
    <3> QED BY <2>2, <2>3, <2>5, <3>1
  <2> QED BY <2>4, <2>7, <2>8 DEF Chained
<1>2. CASE GetAllBlocks
  BY <1>2 DEF GetAllBlocks, Chained, BlockOk, RowHash
<1>3. CASE edits # 0
  <2>1. edits' = edits \/ edits' = edits + 1
    BY DEF Next, vars, AppendEvent, GetAllBlocks, EditPayload, DeleteRow
  <2>2. edits \in Nat
    BY BoundsAssumption DEF TypeOK
  <2>3. edits' # 0
    BY <1>3, <2>1, <2>2
  <2> QED BY <2>3 DEF Chained
<1>4. ASSUME NEW i \in 1..Len(ledger), NEW c \in Contents,
             NEW rehash \in BOOLEAN, EditPayload(i, c, rehash)
      PROVE  Chained'
  BY <1>4, BoundsAssumption DEF TypeOK, Chained, EditPayload
<1>5. ASSUME NEW i \in 1..Len(ledger), DeleteRow(i)
      PROVE  Chained'
  BY <1>5, BoundsAssumption DEF TypeOK, Chained, DeleteRow
<1>6. CASE UNCHANGED vars
  BY <1>6 DEF vars, Chained, RowHash
<1> QED BY <1>1, <1>2, <1>3, <1>4, <1>5, <1>6 DEF Next

(* verifyIntegrity accepts what the service alone wrote exactly when every
   payload was equal to its stored form. *)
THEOREM IntegrityIsExact == Spec => []IntegrityExact
<1>1. TypeOK /\ Chained => IntegrityExact
  BY DEF TypeOK, Chained, IntegrityExact, VerifyLedgerChain, BlockOk
<1>2. Spec => []Chained
  BY InitChained, NextChained, LedgerTypeCorrect, PTL DEF Spec
<1> QED BY <1>1, <1>2, LedgerTypeCorrect, PTL

(* A block hash binds the history below it, in every reachable state. *)
THEOREM HeadBindsHistory == Spec => []HeadBinding
<1>1. TypeOK => HeadBinding
  <2> SUFFICES ASSUME TypeOK, NEW k \in 1..Len(exported),
                      VerifiedUpTo(ledger, k), VerifiedUpTo(exported, k),
                      ledger[k].hash = exported[k].hash
               PROVE  SameUpTo(ledger, exported, k)
    BY DEF HeadBinding
  <2>1. k \in Nat /\ k <= Len(ledger) /\ k <= Len(exported)
    BY DEF VerifiedUpTo
  <2>2. Len(ledger) \in Nat /\ Len(exported) \in Nat
    BY LenProperties DEF TypeOK, IsTable
  <2>3. \A i \in 1..k : IsRow(ledger[i]) /\ IsRow(exported[i])
    <3>1. 1..k \subseteq 1..Len(ledger) /\ 1..k \subseteq 1..Len(exported)
      BY <2>1, <2>2
    <3> QED BY <3>1 DEF TypeOK, IsTable
  <2> QED BY <2>1, <2>3, VerifiedPrefixBinding DEF VerifiedUpTo
<1> QED BY <1>1, LedgerTypeCorrect, PTL

-----------------------------------------------------------------------------
(* Where an edit is found.                                                 *)

(* The verification names the first row that fails a check. *)
LEMMA FirstFault ==
  ASSUME NEW l, Len(l) \in Nat, NEW i \in 1..Len(l), ~BlockOk(l, i),
         \A j \in 1..(i - 1) : BlockOk(l, j)
  PROVE  VerifyLedgerChain(l).invalidIndex = i - 1
<1> DEFINE First(k) == ~BlockOk(l, k) /\ \A j \in 1..(k - 1) : BlockOk(l, j)
<1>1. \A k \in 1..Len(l) : First(k) <=> k = i
  <2>1. ASSUME NEW k \in 1..Len(l), First(k)
        PROVE  k = i
    <3>1. ~(k < i)
      <4> SUFFICES ASSUME k < i PROVE FALSE
        OBVIOUS
      <4>1. k \in 1..(i - 1)
        OBVIOUS
      <4> QED
        BY <2>1, <4>1
    <3>2. ~(i < k)
      <4> SUFFICES ASSUME i < k PROVE FALSE
        OBVIOUS
      <4>1. i \in 1..(k - 1)
        OBVIOUS
      <4> QED
        BY <2>1, <4>1
    <3> QED
      BY <3>1, <3>2
  <2> QED
    BY <2>1
<1>2. (CHOOSE k \in 1..Len(l) : First(k)) = i
  <2> HIDE DEF First
  <2> QED
    BY <1>1
<1>3. VerifyLedgerChain(l).invalidIndex = (CHOOSE k \in 1..Len(l) : First(k)) - 1
  BY DEF VerifyLedgerChain
<1> QED
  BY <1>2, <1>3

(* A table without a fault. *)
LEMMA NoFault ==
  ASSUME NEW l, \A j \in 1..Len(l) : BlockOk(l, j)
  PROVE  VerifyLedgerChain(l).invalidIndex = -1
BY DEF VerifyLedgerChain

(* A table that verifies verifies row by row. *)
LEMMA NoFaultIs ==
  ASSUME NEW l, VerifyLedgerChain(l).valid
  PROVE  \A j \in 1..Len(l) : BlockOk(l, j)
BY DEF VerifyLedgerChain

(* A row is rewritten, except for its index and its link to the row before. *)
LEMMA RewrittenRow ==
  ASSUME NEW l, IsTable(l), \A j \in 1..Len(l) : BlockOk(l, j),
         NEW i \in 1..Len(l), NEW r, r.index = l[i].index, r.prevHash = l[i].prevHash,
         RowHash(r) # l[i].hash,
         NEW m, m = [l EXCEPT ![i] = r]
  PROVE  /\ r.hash = l[i].hash => VerifyLedgerChain(m).invalidIndex = i - 1
         /\ r.hash = RowHash(r) =>
              VerifyLedgerChain(m).invalidIndex = IF i = Len(l) THEN -1 ELSE i
<1>1. /\ Len(l) \in Nat /\ Len(m) = Len(l)
      /\ \A j \in 1..Len(l) : m[j] = IF j = i THEN r ELSE l[j]
  BY LenProperties DEF IsTable
<1>2. \A j \in 1..(i - 1) : BlockOk(m, j)
  <2> SUFFICES ASSUME NEW j \in 1..(i - 1) PROVE BlockOk(m, j)
    OBVIOUS
  <2>1. j \in 1..Len(l) /\ j # i /\ (j # 1 => j - 1 \in 1..Len(l) /\ j - 1 # i)
    BY <1>1
  <2> QED
    BY <1>1, <2>1 DEF BlockOk
<1>3. ASSUME r.hash = l[i].hash
      PROVE  VerifyLedgerChain(m).invalidIndex = i - 1
  <2>1. ~BlockOk(m, i)
    BY <1>1, <1>3 DEF BlockOk
  <2> QED
    BY <1>1, <1>2, <2>1, FirstFault
<1>4. ASSUME r.hash = RowHash(r)
      PROVE  VerifyLedgerChain(m).invalidIndex = IF i = Len(l) THEN -1 ELSE i
  <2>1. BlockOk(m, i)
    <3>1. i # 1 => i - 1 \in 1..Len(l) /\ i - 1 # i
      BY <1>1
    <3> QED
      BY <1>1, <1>4, <3>1 DEF BlockOk
  <2>0. \A j \in 1..i : BlockOk(m, j)
    <3> SUFFICES ASSUME NEW j \in 1..i PROVE BlockOk(m, j)
      OBVIOUS
    <3>1. j = i \/ j \in 1..(i - 1)
      OBVIOUS
    <3> QED
      BY <1>2, <2>1, <3>1
  <2>2. ASSUME i # Len(l)
        PROVE  VerifyLedgerChain(m).invalidIndex = i
    <3>1. i + 1 \in 1..Len(l) /\ i + 1 # i /\ i + 1 # 1 /\ (i + 1) - 1 = i
      BY <1>1, <2>2
    <3>2. l[i + 1].prevHash = l[i].hash
      BY <3>1 DEF BlockOk
    <3>3. m[i + 1].prevHash # m[i].hash
      BY <1>1, <1>4, <3>1, <3>2
    <3>4. ~BlockOk(m, i + 1)
      BY <3>1, <3>3 DEF BlockOk
    <3>5. \A j \in 1..((i + 1) - 1) : BlockOk(m, j)
      BY <2>0, <3>1
    <3> QED
      BY <1>1, <3>1, <3>4, <3>5, FirstFault
  <2>3. ASSUME i = Len(l)
        PROVE  VerifyLedgerChain(m).invalidIndex = -1
    <3>1. \A j \in 1..Len(m) : BlockOk(m, j)
      BY <1>1, <2>0, <2>3
    <3> QED
      BY <3>1, NoFault
  <2> QED
    BY <2>2, <2>3
<1> QED
  BY <1>3, <1>4

(* What is left of a table without row i. *)
LEMMA RowTakenOut ==
  ASSUME NEW l, IsTable(l), NEW i \in 1..Len(l)
  PROVE  LET m == SubSeq(l, 1, i - 1) \o SubSeq(l, i + 1, Len(l))
         IN  /\ Len(m) = Len(l) - 1
             /\ \A j \in 1..(i - 1) : m[j] = l[j]
             /\ i < Len(l) => m[i] = l[i + 1]
<1> DEFINE S == Rows(l)
           a == SubSeq(l, 1, i - 1)
           b == SubSeq(l, i + 1, Len(l))
<1>0. Len(l) \in Nat
  BY LenProperties DEF IsTable
<1>1. l \in Seq(S)
  BY DEF IsTable
<1>2. a \in Seq(S) /\ Len(a) = i - 1 /\ \A j \in 1..(i - 1) : a[j] = l[j]
  BY <1>0, <1>1, SubSeqProperties
<1>3. b \in Seq(S) /\ Len(b) = Len(l) - i /\ (i < Len(l) => b[1] = l[i + 1])
  BY <1>0, <1>1, SubSeqProperties
<1> HIDE DEF S, a, b
<1>4. /\ Len(a \o b) = Len(a) + Len(b)
      /\ \A j \in 1..(Len(a) + Len(b)) :
           (a \o b)[j] = IF j <= Len(a) THEN a[j] ELSE b[j - Len(a)]
  BY <1>2, <1>3, ConcatProperties
<1>5. ASSUME NEW j \in 1..(i - 1)
      PROVE  (a \o b)[j] = l[j]
  <2>1. j \in 1..(Len(a) + Len(b)) /\ j <= Len(a)
    BY <1>0, <1>2, <1>3
  <2> QED
    BY <1>2, <1>4, <2>1
<1>6. ASSUME i < Len(l)
      PROVE  (a \o b)[i] = l[i + 1]
  <2>1. i \in 1..(Len(a) + Len(b)) /\ ~(i <= Len(a)) /\ i - Len(a) = 1
    BY <1>0, <1>2, <1>3, <1>6
  <2> QED
    BY <1>3, <1>4, <1>6, <2>1
<1>7. Len(a \o b) = Len(l) - 1
  BY <1>0, <1>2, <1>3, <1>4
<1> QED
  BY <1>5, <1>6, <1>7 DEF a, b

(* A row is taken out: the one behind it has the wrong index. *)
LEMMA DeletedRow ==
  ASSUME NEW l, Len(l) \in Nat, \A j \in 1..Len(l) : BlockOk(l, j), NEW i \in 1..Len(l),
         NEW m, Len(m) = Len(l) - 1, \A j \in 1..(i - 1) : m[j] = l[j],
         i < Len(l) => m[i] = l[i + 1]
  PROVE  VerifyLedgerChain(m).invalidIndex = IF i = Len(l) THEN -1 ELSE i - 1
<1>1. \A j \in 1..(i - 1) : BlockOk(m, j)
  <2> SUFFICES ASSUME NEW j \in 1..(i - 1) PROVE BlockOk(m, j)
    OBVIOUS
  <2>1. j \in 1..Len(l) /\ (j # 1 => j - 1 \in 1..(i - 1))
    OBVIOUS
  <2> QED
    BY <2>1 DEF BlockOk
<1>2. CASE i = Len(l)
  <2>1. \A j \in 1..Len(m) : BlockOk(m, j)
    BY <1>1, <1>2
  <2> QED
    BY <1>2, <2>1, NoFault
<1>3. CASE i # Len(l)
  <2>1. i < Len(l) /\ i \in 1..Len(m) /\ i + 1 \in 1..Len(l) /\ (i + 1) - 1 # i - 1
    BY <1>3
  <2>2. ~BlockOk(m, i)
    BY <2>1 DEF BlockOk
  <2>3. Len(m) \in Nat
    BY <2>1
  <2> QED
    BY <1>1, <1>3, <2>1, <2>2, <2>3, FirstFault
<1> QED
  BY <1>2, <1>3

(* An edit of a table that verified is reported at the edited row, or at the *)
(* one after it when its own hash was made to match, by verifyLedgerChain.   *)
THEOREM EditsAreFound == Spec => EditsAreLocated
<1> DEFINE Located ==
     VerifyLedgerChain(ledger).valid =>
        /\ \A i \in 1..Len(ledger), c \in Contents :
              /\ EditPayload(i, c, FALSE) =>
                   VerifyLedgerChain(ledger').invalidIndex = i - 1
              /\ EditPayload(i, c, TRUE) =>
                   VerifyLedgerChain(ledger').invalidIndex =
                     IF i = Len(ledger) THEN -1 ELSE i
        /\ \A i \in 1..Len(ledger) :
              DeleteRow(i) =>
                VerifyLedgerChain(ledger').invalidIndex =
                  IF i = Len(ledger) THEN -1 ELSE i - 1
<1>1. TypeOK => Located
  <2> SUFFICES ASSUME TypeOK, VerifyLedgerChain(ledger).valid PROVE Located
    OBVIOUS
  <2>1. IsTable(ledger) /\ \A j \in 1..Len(ledger) : BlockOk(ledger, j)
    BY NoFaultIs DEF TypeOK
  <2>2. ASSUME NEW i \in 1..Len(ledger), NEW c \in Contents, NEW rehash \in BOOLEAN,
               EditPayload(i, c, rehash)
        PROVE  VerifyLedgerChain(ledger').invalidIndex =
                 IF rehash THEN IF i = Len(ledger) THEN -1 ELSE i ELSE i - 1
    <3> DEFINE row == [ledger[i] EXCEPT !.payload.content = c]
               new == IF rehash THEN [row EXCEPT !.hash = RowHash(row)] ELSE row
    <3>1. IsRow(ledger[i]) /\ ledger[i].hash = RowHash(ledger[i])
      BY <2>1 DEF IsTable, BlockOk
    <3>2. /\ row.index = ledger[i].index /\ row.prevHash = ledger[i].prevHash
          /\ row.hash = ledger[i].hash /\ IsRow(row) /\ RowHash(row) # ledger[i].hash
      <4> DEFINE old == ledger[i]
                 d   == [old.payload EXCEPT !.content = c]
      <4>1. old.payload \in Payloads /\ c # old.payload.content
        BY <2>2, <3>1 DEF EditPayload, IsRow
      <4>2. d \in Payloads /\ d # old.payload /\ d.undefinedKey = old.payload.undefinedKey
        BY <4>1 DEF Payloads
      <4>3. row = [index |-> old.index, eventType |-> old.eventType,
                   principalIdHash |-> old.principalIdHash, payload |-> d,
                   prevHash |-> old.prevHash, hash |-> old.hash]
        BY <3>1 DEF IsRow
      <4> HIDE DEF d, row
      <4>4. IsRow(row)
        BY <3>1, <4>2, <4>3 DEF IsRow
      <4>5. RowHash(row) # RowHash(old)
        BY <4>2, <4>3 DEF RowHash, ComputeBlockHash
      <4> QED
        BY <3>1, <4>3, <4>4, <4>5
    <3>3. /\ new.index = ledger[i].index /\ new.prevHash = ledger[i].prevHash
          /\ RowHash(new) # ledger[i].hash
          /\ new.hash = IF rehash THEN RowHash(new) ELSE ledger[i].hash
      <4> HIDE DEF row
      <4> QED
        BY <3>2 DEF IsRow, RowHash
    <3>4. ledger' = [ledger EXCEPT ![i] = new]
      BY <2>2 DEF EditPayload
    <3> HIDE DEF new
    <3>5. /\ new.hash = ledger[i].hash => VerifyLedgerChain(ledger').invalidIndex = i - 1
          /\ new.hash = RowHash(new) =>
               VerifyLedgerChain(ledger').invalidIndex = IF i = Len(ledger) THEN -1 ELSE i
      <4> DEFINE m == [ledger EXCEPT ![i] = new]
      <4>1. /\ new.hash = ledger[i].hash => VerifyLedgerChain(m).invalidIndex = i - 1
            /\ new.hash = RowHash(new) =>
                 VerifyLedgerChain(m).invalidIndex = IF i = Len(ledger) THEN -1 ELSE i
        BY <2>1, <3>3, RewrittenRow
      <4> HIDE DEF m
      <4> QED
        BY <3>4, <4>1 DEF m
    <3> QED
      BY <3>3, <3>5
  <2>3. ASSUME NEW i \in 1..Len(ledger), DeleteRow(i)
        PROVE  VerifyLedgerChain(ledger').invalidIndex = IF i = Len(ledger) THEN -1 ELSE i - 1
    <3> DEFINE m == SubSeq(ledger, 1, i - 1) \o SubSeq(ledger, i + 1, Len(ledger))
    <3>1. /\ Len(m) = Len(ledger) - 1
          /\ \A j \in 1..(i - 1) : m[j] = ledger[j]
          /\ i < Len(ledger) => m[i] = ledger[i + 1]
      BY <2>1, RowTakenOut
    <3>2. Len(ledger) \in Nat
      BY <2>1, LenProperties DEF IsTable
    <3>3. ledger' = m
      BY <2>3 DEF DeleteRow
    <3> HIDE DEF m
    <3>4. VerifyLedgerChain(m).invalidIndex = IF i = Len(ledger) THEN -1 ELSE i - 1
      BY <2>1, <3>1, <3>2, DeletedRow
    <3> QED
      BY <3>3, <3>4
  <2> QED
    BY <2>2, <2>3
<1> HIDE DEF Located
<1>2. Spec => [][Located]_vars
  BY <1>1, LedgerTypeCorrect, PTL
<1> QED
  BY <1>2 DEF EditsAreLocated, Located

-----------------------------------------------------------------------------
(* The sign-in.                                                            *)

(* The user whose row is written and whose event is not. *)
Unlogged == IF running = "LOG" THEN {Officers[seeded + 1]} ELSE {}

(* Between two statements of init one row is ahead of the ledger; a stop at   *)
(* any other moment leaves none.                                              *)
RowsAreLogged == rows \subseteq provisioned \cup Unlogged \/ seedCut

(* Only somebody with a row signs in, and no refused token has a session. *)
Forgotten == \A t \in refused : sessions[t] = NoSession

LogFollowsInsert == running = "LOG" => Officers[seeded + 1] \in rows

AuthInv ==
  AuthTypeOK /\ LogFollowsInsert /\ RowsAreLogged /\ AccessIsLogged /\ Forgotten

(* Every index of the sequence names an officer. *)
LEMMA OfficerTyped ==
  ASSUME NEW i \in 0..Len(Officers), i < Len(Officers)
  PROVE  Officers[i + 1] \in User
BY AuthAssumption DEF User

LEMMA NoOfficerIsNone == "none" \notin User
BY AuthAssumption DEF User

(* A session opened now is a session. *)
LEMMA OpenedTyped ==
  ASSUME AuthTypeOK, NEW u \in User, NEW t \in Tokens
  PROVE  Opened(t, u) \in [Tokens -> Session \cup {NoSession}]
<1>1. clock + Lifetime \in Nat
  BY AuthAssumption DEF AuthTypeOK
<1>2. [user |-> u, expiresAt |-> clock + Lifetime] \in Session
  BY <1>1 DEF Session
<1> QED
  BY <1>2 DEF AuthTypeOK, Opened

LEMMA InitAuthInv == AuthInit => AuthInv
<1> SUFFICES ASSUME AuthInit PROVE AuthInv
  OBVIOUS
<1>1. AuthTypeOK
  <2>1. seeded \in 0..Len(Officers) /\ clock \in 0..MaxClock
    BY AuthAssumption DEF AuthInit
  <2> QED
    BY <2>1 DEF AuthInit, AuthTypeOK
<1>2. LogFollowsInsert /\ RowsAreLogged /\ AccessIsLogged /\ Forgotten
  BY DEF AuthInit, LogFollowsInsert, RowsAreLogged, AccessIsLogged, Forgotten
<1> QED
  BY <1>1, <1>2 DEF AuthInv

(* The steps of init. *)
LEMMA SeedingKeepsAuthInv ==
  ASSUME AuthInv, StartControlPlane \/ InsertUser \/ LogUser
  PROVE  AuthInv'
<1> USE DEF AuthInv
<1>0. /\ UNCHANGED <<logins, sessions, clock, given, kept, refused, seedCut>>
      /\ Forgotten'
  BY DEF StartControlPlane, InsertUser, LogUser, seedRest, Forgotten
<1>1. CASE StartControlPlane
  <2>1. AuthTypeOK'
    BY <1>0, <1>1, AuthAssumption DEF StartControlPlane, AuthTypeOK
  <2>2. LogFollowsInsert' /\ RowsAreLogged' /\ AccessIsLogged'
    BY <1>0, <1>1
    DEF StartControlPlane, LogFollowsInsert, RowsAreLogged, AccessIsLogged, Unlogged
  <2> QED
    BY <1>0, <2>1, <2>2
<1>2. CASE InsertUser
  <2>1. Officers[seeded + 1] \in User
    BY <1>2, OfficerTyped DEF InsertUser, AuthTypeOK
  <2>2. AuthTypeOK'
    BY <1>0, <1>2, <2>1 DEF InsertUser, AuthTypeOK
  <2>3. LogFollowsInsert' /\ RowsAreLogged' /\ AccessIsLogged'
    BY <1>0, <1>2 DEF InsertUser, LogFollowsInsert, RowsAreLogged, AccessIsLogged, Unlogged
  <2> QED
    BY <1>0, <2>2, <2>3
<1>3. CASE LogUser
  <2>1. AuthTypeOK'
    BY <1>0, <1>3 DEF LogUser, AuthTypeOK, LogFollowsInsert
  <2>2. LogFollowsInsert' /\ RowsAreLogged' /\ AccessIsLogged'
    BY <1>0, <1>3 DEF LogUser, LogFollowsInsert, RowsAreLogged, AccessIsLogged, Unlogged
  <2> QED
    BY <1>0, <2>1, <2>2
<1> QED
  BY <1>1, <1>2, <1>3

(* A sign-in draws a token that nobody was given and no route refused. *)
LEMMA AuthenticateKeepsAuthInv ==
  ASSUME AuthInv, NEW u \in User, NEW t \in Tokens,
         Authenticate(u, t) \/ AuthenticateUnlogged(u, t)
  PROVE  AuthInv'
<1> USE DEF AuthInv
<1>1. /\ UNCHANGED <<running, seeded, rows, provisioned, seedCut, clock, refused>>
      /\ running = "UP" /\ u \in rows /\ t \notin refused
      /\ sessions' = Opened(t, u)
  BY DEF Authenticate, AuthenticateUnlogged, sessionRest, Drawn
<1>2. u \in provisioned \/ seedCut
  BY <1>1 DEF RowsAreLogged, Unlogged
<1>3. AuthTypeOK'
  <2>1. sessions' \in [Tokens -> Session \cup {NoSession}]
    BY <1>1, OpenedTyped
  <2>2. given' \in [Tokens -> User \cup {"none"}] /\ kept' \in Tokens \cup {"none"}
          /\ logins' \subseteq Tokens
    BY DEF Authenticate, AuthenticateUnlogged, AuthTypeOK
  <2> QED
    BY <1>1, <2>1, <2>2 DEF AuthTypeOK
<1>4. LogFollowsInsert' /\ RowsAreLogged'
  BY <1>1 DEF LogFollowsInsert, RowsAreLogged, Unlogged
<1>5. AccessIsLogged'
  BY <1>1, <1>2, NoOfficerIsNone
  DEF Authenticate, AuthenticateUnlogged, AccessIsLogged, AuthTypeOK
<1>6. Forgotten'
  BY <1>1 DEF Forgotten, Opened, AuthTypeOK
<1> QED
  BY <1>3, <1>4, <1>5, <1>6

LEMMA OtherStepsKeepAuthInv ==
  ASSUME AuthInv,
         \/ StopControlPlane
         \/ \E t \in Tokens : Refuse(t)
         \/ \E now \in 0..MaxClock : SetClock(now)
  PROVE  AuthInv'
<1> USE DEF AuthInv
<1>1. CASE StopControlPlane
  <2>1. AuthTypeOK'
    BY <1>1 DEF StopControlPlane, AuthTypeOK
  <2>2. LogFollowsInsert' /\ RowsAreLogged' /\ AccessIsLogged' /\ Forgotten'
    BY <1>1 DEF StopControlPlane, LogFollowsInsert, RowsAreLogged, AccessIsLogged,
                Forgotten, Unlogged, AuthTypeOK
  <2> QED
    BY <2>1, <2>2
<1>2. ASSUME NEW t \in Tokens, Refuse(t) PROVE AuthInv'
  <2>1. AuthTypeOK'
    BY <1>2 DEF Refuse, sessionRest, AuthTypeOK
  <2>2. LogFollowsInsert' /\ RowsAreLogged' /\ AccessIsLogged'
    BY <1>2 DEF Refuse, sessionRest, LogFollowsInsert, RowsAreLogged, AccessIsLogged, Unlogged
  <2>3. Forgotten'
    BY <1>2 DEF Refuse, Forgotten, AuthTypeOK
  <2> QED
    BY <2>1, <2>2, <2>3
<1>3. ASSUME NEW now \in 0..MaxClock, SetClock(now) PROVE AuthInv'
  <2>1. AuthTypeOK'
    BY <1>3 DEF SetClock, sessionRest, AuthTypeOK
  <2>2. LogFollowsInsert' /\ RowsAreLogged' /\ AccessIsLogged' /\ Forgotten'
    BY <1>3 DEF SetClock, sessionRest, LogFollowsInsert, RowsAreLogged, AccessIsLogged,
                Forgotten, Unlogged
  <2> QED
    BY <2>1, <2>2
<1> QED
  BY <1>1, <1>2, <1>3

LEMMA NextKeepsAuthInv == AuthInv /\ [AuthNext]_authVars => AuthInv'
<1> SUFFICES ASSUME AuthInv, [AuthNext]_authVars PROVE AuthInv'
  OBVIOUS
<1>1. CASE UNCHANGED authVars
  BY <1>1 DEF authVars, AuthInv, AuthTypeOK, LogFollowsInsert, RowsAreLogged,
              AccessIsLogged, Forgotten, Unlogged
<1>2. CASE AuthNext
  BY <1>2, SeedingKeepsAuthInv, AuthenticateKeepsAuthInv, OtherStepsKeepAuthInv DEF AuthNext
<1> QED
  BY <1>1, <1>2

LEMMA AuthInvHolds == AuthSpec => []AuthInv
BY InitAuthInv, NextKeepsAuthInv, PTL DEF AuthSpec

(* The service, its table and the dashboard hold values of their types. *)
THEOREM AuthTypeCorrect == AuthSpec => []AuthTypeOK
<1>1. AuthInv => AuthTypeOK
  BY DEF AuthInv
<1> QED
  BY AuthInvHolds, <1>1, PTL

(* Whoever holds a token of the control plane is in its audit ledger, with    *)
(* the sign-in and, unless an init was stopped half way, as provisioned.      *)
THEOREM AccessLeavesATrace == AuthSpec => []AccessIsLogged
<1>1. AuthInv => AccessIsLogged
  BY DEF AuthInv
<1> QED
  BY AuthInvHolds, <1>1, PTL

(* A refusal is final for every clock, lifetime and sequence of restarts:     *)
(* the expired session is deleted and its token is not drawn again.           *)
THEOREM RefusalIsFinal == AuthSpec => []RefusedForGood
<1>1. AuthInv => RefusedForGood
  BY DEF AuthInv, Forgotten, RefusedForGood, Live
<1> QED
  BY AuthInvHolds, <1>1, PTL

-----------------------------------------------------------------------------
(* The compliance report.                                                  *)

(* The values the report is computed from. *)
EstateTyped == has \subseteq {"agents", "tables", "consents"} /\ open \in Nat /\ valid \in BOOLEAN

(* No step of the estate, the process or the page spoils them. *)
LEMMA NextKeepsEstate == EstateTyped /\ [DashboardNext]_dashboardVars => EstateTyped'
<1> SUFFICES ASSUME EstateTyped, [DashboardNext]_dashboardVars PROVE EstateTyped'
  OBVIOUS
<1>1. ASSUME EstateStep PROVE EstateTyped'
  <2>1. CASE \E what \in {"agents", "tables", "consents"} : Gain(what)
    BY <2>1 DEF Gain, EstateTyped
  <2>2. CASE OpenRequest
    BY <2>2 DEF OpenRequest, EstateTyped
  <2>3. CASE CompleteRequest
    BY <2>3 DEF CompleteRequest, EstateTyped
  <2>4. CASE Tamper
    BY <2>4 DEF Tamper, EstateTyped
  <2> QED
    BY <1>1, <2>1, <2>2, <2>3, <2>4 DEF EstateStep
<1>2. ASSUME \/ Stop \/ Start
             \/ \E s \in Polls : FetchOverview(s)
             \/ \E s \in Polls : RenderOverview(s)
             \/ \E s \in Polls : LoseAnswer(s)
             \/ \E t \in {"overview", "ledger"} : SwitchTab(t)
             \/ UNCHANGED dashboardVars
      PROVE  EstateTyped'
  <2>1. UNCHANGED estateVars
    BY <1>2 DEF Stop, Start, FetchOverview, RenderOverview, LoseAnswer, SwitchTab, dashboardVars
  <2>2. UNCHANGED has /\ UNCHANGED open /\ UNCHANGED valid
    BY <2>1 DEF estateVars
  <2> QED
    BY <2>2 DEF EstateTyped
<1> QED
  BY <1>1, <1>2 DEF DashboardNext

(* Two of the four scores are full where all is called compliant, and the     *)
(* other two are never so low that the mean misses an A.                      *)
LEMMA ScoresAgree == EstateTyped => CompliantIsEarned
<1> SUFFICES ASSUME EstateTyped PROVE CompliantIsEarned
  OBVIOUS
<1>1. /\ Report.recommendation = recommendation
      /\ Report.grade = grade
  BY DEF Report
<1>2. /\ catalogScore \in {30, 70, 100} /\ consentScore \in {60, 95}
      /\ dsrScore \in {85, 100} /\ ledgerScore \in {0, 100}
  BY DEF catalogScore, consentScore, dsrScore, ledgerScore
<1>3. ASSUME recommendation = "ALL_COMPLIANT"
      PROVE  grade \in {"A+", "A"}
  <2>1. valid /\ catalogScore = 100 /\ ledgerScore = 100
    BY <1>3 DEF recommendation, catalogScore, ledgerScore
  <2>2. overallScore >= 85
    BY <1>2, <2>1 DEF overallScore
  <2> QED
    BY <2>1, <2>2 DEF grade
<1>4. grade = "FAIL" <=> ~valid
  BY DEF grade
<1> QED
  BY <1>1, <1>3, <1>4 DEF CompliantIsEarned

(* The report never calls compliant what it grades below an A, nor a ledger   *)
(* that does not verify, whatever agents, tables, consents and requests there *)
(* are.                                                                       *)
THEOREM ReportsAgree ==
  DashboardInit /\ [][DashboardNext]_dashboardVars => []CompliantIsEarned
<1>1. DashboardInit => EstateTyped
  BY DEF DashboardInit, EstateTyped
<1> QED
  BY <1>1, NextKeepsEstate, ScoresAgree, PTL
=============================================================================
