---------------------------- MODULE ConsentCache ----------------------------
(***************************************************************************)
(* The in-memory consent cache of one agent: agent/src/consent/cache.ts    *)
(* behind the routes of agent/src/daemon.ts.  The hit, miss and eviction   *)
(* counters, which nothing reads but the health route, are left out.       *)
(***************************************************************************)
EXTENDS ConsentEntry

CONSTANTS
  Principals,   \* principal ids
  Seeds,        \* the purpose sets that applications seed
  Ttls,         \* the times to live that applications ask for
  Withdrawals   \* the purpose sets that invalidations name

ASSUME CacheAssumption ==
  /\ Seeds \subseteq SUBSET Scope
  /\ Ttls \subseteq 0..MaxTtl
  /\ Withdrawals \subseteq SUBSET Scope

VARIABLES
  cache,    \* the Map from principal id to entry
  last      \* the last request to the agent and its answer

vars == <<cache, last>>

Request(op, pr, P, allowed) ==
  [op |-> op, principal |-> pr, purposes |-> P, allowed |-> allowed]

Init ==
  /\ cache = [pr \in Principals |-> NoEntry]
  /\ last = Request("none", "none", {}, FALSE)

(* GET /consent/check *)
Check(pr, p) ==
  /\ last' = Request("check", pr, {p}, Allows(cache[pr], p))
  /\ cache' = [cache EXCEPT ![pr] = Checked(cache[pr])]

(* POST /consent/cache/set *)
Set(pr, purposes, ttl) ==
  /\ cache' = [cache EXCEPT ![pr] = NewEntry(purposes, ttl)]
  /\ last' = Request("set", pr, purposes, TRUE)

(* POST /consent/cache/invalidate, and the TASK_CONSENT_INVALIDATE task *)
Invalidate(pr, W) ==
  /\ cache' = [cache EXCEPT ![pr] = Invalidated(cache[pr], W)]
  /\ last' = Request("invalidate", pr, W, TRUE)

(* clear, or the restart of the daemon *)
Clear ==
  /\ cache' = [pr \in Principals |-> NoEntry]
  /\ last' = Request("clear", "none", {}, TRUE)

Tick ==
  /\ cache' = [pr \in Principals |-> Aged(cache[pr])]
  /\ UNCHANGED last

Next ==
  \/ \E pr \in Principals, p \in Purposes : Check(pr, p)
  \/ \E pr \in Principals, P \in Seeds, ttl \in Ttls : Set(pr, P, ttl)
  \/ \E pr \in Principals, W \in Withdrawals : Invalidate(pr, W)
  \/ Clear
  \/ Tick

Spec == Init /\ [][Next]_vars

-----------------------------------------------------------------------------
(* Properties.                                                             *)

(* Every entry has purposes of the scope and a time left within its TTL. *)
TypeOK == cache \in [Principals -> Entry]

(* The time a lease on p, a purpose or the wildcard, still has: an entry     *)
(* answers for its last millisecond too, and a cached entry that expired is  *)
(* as good as none.                                                          *)
LeaseOf(e, p) ==
  IF e.cached /\ ~Expired(e) /\ p \in e.purposes THEN e.left + 1 ELSE 0

Lease == INSTANCE ConsentLease WITH
  Grants <- Seeds,
  lease <- [pr \in Principals |-> [p \in Scope |-> LeaseOf(cache[pr], p)]]

(* Deleting expired entries only when they are asked for is invisible: the    *)
(* cache answers as if every lease ended the moment it expired or was         *)
(* revoked, and a wildcard that was seeded ends only with everything.         *)
LeaseSpec == Lease!Spec
=============================================================================
