------------------------- MODULE ConsentCacheProofs -------------------------
(***************************************************************************)
(* The consent cache implements ConsentLease for every set of principals   *)
(* and purposes, every time to live and whatever applications seed.        *)
(***************************************************************************)
EXTENDS ConsentCache, TLAPS

-----------------------------------------------------------------------------
(* What the methods of the cache do to the lease that an entry stands for.   *)

(* Every operation of the cache makes an entry out of an entry. *)
LEMMA EntryTypes ==
  /\ NoEntry \in Entry
  /\ \A P \in SUBSET Scope, ttl \in 0..MaxTtl : NewEntry(P, ttl) \in Entry
  /\ \A e \in Entry : /\ Checked(e) \in Entry
                      /\ Aged(e) \in Entry
                      /\ \A W : Invalidated(e, W) \in Entry
BY EntryAssumption
   DEF Entry, NoEntry, NewEntry, Checked, Expired, Aged, Invalidated, WithdrawsAll

(* No entry, no lease. *)
LEMMA NoEntryLease == \A p \in Scope : LeaseOf(NoEntry, p) = 0
BY DEF LeaseOf, NoEntry

(* Deleting an expired entry when it is asked for changes no lease. *)
LEMMA CheckedLease ==
  \A e \in Entry, p \in Scope : LeaseOf(Checked(e), p) = LeaseOf(e, p)
BY DEF LeaseOf, Checked, NoEntry, Expired, Entry

(* A seeded entry is a lease on its purposes. *)
LEMMA NewEntryLease ==
  ASSUME NEW P \in SUBSET Scope, NEW ttl \in 0..MaxTtl, NEW p \in Scope
  PROVE  LeaseOf(NewEntry(P, ttl), p) = IF p \in P THEN ttl + 1 ELSE 0
BY EntryAssumption DEF LeaseOf, NewEntry, Expired

(* An invalidation ends exactly the leases it names. *)
LEMMA InvalidatedLease ==
  ASSUME NEW e \in Entry, NEW W, NEW p \in Scope
  PROVE  LeaseOf(Invalidated(e, W), p) =
           IF Lease!Revokes(W, p) THEN 0 ELSE LeaseOf(e, p)
<1>1. CASE ~e.cached
  BY <1>1 DEF LeaseOf, Invalidated
<1>2. CASE e.cached /\ WithdrawsAll(W)
  <2>1. Lease!Revokes(W, p)
    BY <1>2 DEF WithdrawsAll, Wildcard, Lease!Revokes
  <2>2. Invalidated(e, W) = NoEntry
    BY <1>2 DEF Invalidated
  <2> QED
    BY <2>1, <2>2, NoEntryLease
<1>3. CASE e.cached /\ ~WithdrawsAll(W)
  <2>1. Lease!Revokes(W, p) <=> p \in W
    BY <1>3 DEF WithdrawsAll, Wildcard, Lease!Revokes
  <2>2. CASE e.purposes \ W = {}
    <3>1. Invalidated(e, W) = NoEntry
      BY <1>3, <2>2 DEF Invalidated
    <3>2. p \in e.purposes => p \in W
      BY <2>2
    <3>3. p \notin W => LeaseOf(e, p) = 0
      BY <3>2 DEF LeaseOf
    <3> QED
      BY <2>1, <3>1, <3>3, NoEntryLease
  <2>3. CASE e.purposes \ W # {}
    <3>1. Invalidated(e, W) = [e EXCEPT !.purposes = e.purposes \ W]
      BY <1>3, <2>3 DEF Invalidated
    <3>2. LeaseOf([e EXCEPT !.purposes = e.purposes \ W], p) =
            IF p \in W THEN 0 ELSE LeaseOf(e, p)
      BY DEF LeaseOf, Expired, Entry
    <3> QED
      BY <2>1, <3>1, <3>2
  <2> QED
    BY <2>2, <2>3
<1> QED
  BY <1>1, <1>2, <1>3

(* A tick takes one tick off every lease. *)
LEMMA AgedLease ==
  ASSUME NEW e \in Entry, NEW p \in Scope
  PROVE  LeaseOf(Aged(e), p) =
           IF LeaseOf(e, p) > 0 THEN LeaseOf(e, p) - 1 ELSE 0
BY EntryAssumption DEF LeaseOf, Aged, Expired, Entry

(* An entry allows what a lease, on the purpose or on everything, allows. *)
LEMMA AllowsByLease ==
  ASSUME NEW e \in Entry, NEW p \in Scope
  PROVE  Allows(e, p) <=> LeaseOf(e, p) > 0 \/ LeaseOf(e, Wildcard) > 0
BY DEF LeaseOf, Allows, Expired, Entry

-----------------------------------------------------------------------------
(* The type invariant is inductive. *)

(* The empty cache is well typed. *)
LEMMA InitTyped == Init => TypeOK
BY EntryTypes DEF Init, TypeOK

(* Every step keeps the entries typed. *)
LEMMA NextTyped ==
  ASSUME TypeOK, [Next]_vars
  PROVE  TypeOK'
<1> USE DEF TypeOK
<1>1. ASSUME NEW pr \in Principals, NEW p \in Purposes, Check(pr, p)
      PROVE  TypeOK'
  BY <1>1, EntryTypes DEF Check
<1>2. ASSUME NEW pr \in Principals, NEW P \in Seeds, NEW ttl \in Ttls, Set(pr, P, ttl)
      PROVE  TypeOK'
  BY <1>2, EntryTypes, CacheAssumption DEF Set
<1>3. ASSUME NEW pr \in Principals, NEW W \in Withdrawals, Invalidate(pr, W)
      PROVE  TypeOK'
  BY <1>3, EntryTypes DEF Invalidate
<1>4. ASSUME Clear
      PROVE  TypeOK'
  BY <1>4, EntryTypes DEF Clear
<1>5. ASSUME Tick
      PROVE  TypeOK'
  BY <1>5, EntryTypes DEF Tick
<1>6. ASSUME UNCHANGED vars
      PROVE  TypeOK'
  BY <1>6 DEF vars
<1> QED
  BY <1>1, <1>2, <1>3, <1>4, <1>5, <1>6 DEF Next

-----------------------------------------------------------------------------
(* The refinement.                                                         *)

(* An empty cache stands for no leases. *)
LEMMA InitRefines == Init => Lease!Init
BY NoEntryLease DEF Init, Lease!Init, Request, Lease!Request, Lease!Leasable, Scope, Wildcard

(* Every step of the cache is a step of the leases it stands for. *)
LEMMA NextRefines ==
  ASSUME TypeOK, [Next]_vars
  PROVE  [Lease!Next]_<<[pr \in Principals |->
                            [p \in Scope |-> LeaseOf(cache[pr], p)]], last>>
<1> DEFINE lease == [pr \in Principals |-> [p \in Scope |-> LeaseOf(cache[pr], p)]]
<1> USE DEF TypeOK
<1>0. Lease!Leasable = Scope /\ Wildcard \in Scope /\ Purposes \subseteq Scope
  BY DEF Lease!Leasable, Scope, Wildcard
<1>1. ASSUME NEW pr \in Principals, NEW p \in Purposes, Check(pr, p)
      PROVE  Lease!Ask(pr, p)
  <2>1. lease' = lease
    BY <1>1, CheckedLease DEF Check
  <2>2. Allows(cache[pr], p) = Lease!Allowed(pr, p)
    <3>1. p \in Scope
      BY <1>0
    <3>2. Allows(cache[pr], p) <=> Lease!Allowed(pr, p)
      BY <1>0, <3>1, AllowsByLease DEF Lease!Allowed, Wildcard
    <3>3. Allows(cache[pr], p) \in BOOLEAN /\ Lease!Allowed(pr, p) \in BOOLEAN
      BY Zenon DEF Allows, Lease!Allowed
    <3>4. CASE Allows(cache[pr], p)
      <4>1. Allows(cache[pr], p) = TRUE /\ Lease!Allowed(pr, p) = TRUE
        BY <3>2, <3>3, <3>4, Zenon
      <4> QED
        BY <4>1, Zenon
    <3>5. CASE ~Allows(cache[pr], p)
      <4>1. Allows(cache[pr], p) = FALSE /\ Lease!Allowed(pr, p) = FALSE
        BY <3>2, <3>3, <3>5, Zenon
      <4> QED
        BY <4>1, Zenon
    <3> QED
      BY <3>4, <3>5, Zenon
  <2> QED
    BY <1>1, <2>1, <2>2, Zenon DEF Check, Lease!Ask, Request, Lease!Request
<1>2. ASSUME NEW pr \in Principals, NEW P \in Seeds, NEW ttl \in Ttls, Set(pr, P, ttl)
      PROVE  Lease!Grant(pr, P, ttl)
  <2>1. \A p \in Scope :
          LeaseOf(NewEntry(P, ttl), p) = IF p \in P THEN ttl + 1 ELSE 0
    BY NewEntryLease, CacheAssumption
  <2>2. lease' = [lease EXCEPT ![pr] =
                    [p \in Scope |-> IF p \in P THEN ttl + 1 ELSE 0]]
    BY <1>2, <2>1 DEF Set
  <2> QED
    BY <1>0, <1>2, <2>2 DEF Set, Lease!Grant, Request, Lease!Request
<1>3. ASSUME NEW pr \in Principals, NEW W \in Withdrawals, Invalidate(pr, W)
      PROVE  Lease!Revoke(pr, W)
  <2>1. \A p \in Scope :
          LeaseOf(Invalidated(cache[pr], W), p) =
            IF Lease!Revokes(W, p) THEN 0 ELSE LeaseOf(cache[pr], p)
    BY InvalidatedLease
  <2>2. lease' = [lease EXCEPT ![pr] =
                    [p \in Scope |->
                       IF Lease!Revokes(W, p) THEN 0 ELSE lease[pr][p]]]
    BY <1>3, <2>1 DEF Invalidate
  <2> QED
    BY <1>0, <1>3, <2>2 DEF Invalidate, Lease!Revoke, Request, Lease!Request
<1>4. ASSUME Clear
      PROVE  Lease!RevokeEverything
  <2>1. lease' = [pr \in Principals |-> [p \in Scope |-> 0]]
    BY <1>4, NoEntryLease DEF Clear
  <2> QED
    BY <1>0, <1>4, <2>1 DEF Clear, Lease!RevokeEverything, Request, Lease!Request
<1>5. ASSUME Tick
      PROVE  Lease!Pass
  <2>1. lease' = [pr \in Principals |-> [p \in Scope |->
                    IF lease[pr][p] > 0 THEN lease[pr][p] - 1 ELSE 0]]
    BY <1>5, AgedLease DEF Tick
  <2> QED
    BY <1>0, <1>5, <2>1 DEF Tick, Lease!Pass
<1>6. ASSUME UNCHANGED vars
      PROVE  UNCHANGED <<lease, last>>
  BY <1>6 DEF vars
<1>7. Ttls \subseteq 0..MaxTtl
  BY CacheAssumption
<1> HIDE DEF lease
<1> QED
  BY <1>1, <1>2, <1>3, <1>4, <1>5, <1>6, <1>7 DEF Next, Lease!Next, lease

(* The type invariant of the cache. *)
THEOREM CacheTyped == Spec => []TypeOK
<1>1. TypeOK /\ [Next]_vars => TypeOK'
  BY NextTyped
<1> QED
  BY InitTyped, <1>1, PTL DEF Spec

(* The cache answers as if every lease ended the moment it expired or was    *)
(* revoked, whatever the applications seed, the wildcard included.           *)
THEOREM CacheImplementsLease == Spec => LeaseSpec
<1>1. TypeOK /\ [Next]_vars
        => [Lease!Next]_<<[pr \in Principals |->
                            [p \in Scope |-> LeaseOf(cache[pr], p)]], last>>
  BY NextRefines
<1> QED
  BY CacheTyped, InitRefines, <1>1, PTL DEF Spec, LeaseSpec, Lease!Spec
=============================================================================
