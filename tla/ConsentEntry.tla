---------------------------- MODULE ConsentEntry ----------------------------
(***************************************************************************)
(* One entry of the agent's consent cache and what the methods of          *)
(* InMemoryConsentCache do to it (agent/src/consent/cache.ts).             *)
(*                                                                         *)
(* expiresAt is kept as the time left until then, and stops at -1: all the *)
(* code asks is whether Date.now() > expiresAt.                            *)
(***************************************************************************)
EXTENDS Integers

CONSTANTS
  Purposes,   \* purpose ids
  MaxTtl      \* the longest time to live an entry is given, in ticks

ASSUME EntryAssumption == MaxTtl \in Nat /\ "*" \notin Purposes

Wildcard == "*"
Scope == Purposes \cup {Wildcard}

Entry == [cached : BOOLEAN, purposes : SUBSET Scope, left : -1..MaxTtl]

NoEntry == [cached |-> FALSE, purposes |-> {}, left |-> -1]

(* An expiry one tick too late. *)
LateEntry(purposes, ttl) == [cached |-> TRUE, purposes |-> purposes, left |-> ttl + 1]

(* set: a new entry replaces whatever was there. *)
NewEntry(purposes, ttl) == [cached |-> TRUE, purposes |-> purposes, left |-> ttl]

(* An expiry test that is never true. *)
NeverExpired(e) == FALSE

Expired(e) == e.left < 0

(* check: a wildcard entry allows every purpose. *)
Allows(e, p) ==
  /\ e.cached
  /\ ~Expired(e)
  /\ Wildcard \in e.purposes \/ p \in e.purposes

(* What check leaves behind: an expired entry is deleted. *)
Checked(e) == IF e.cached /\ Expired(e) THEN NoEntry ELSE e

(* A withdrawal of everything that has to name nothing. *)
WithdrawsAllUnnamed(W) == W = {}

(* No purposes, or the wildcard among them, withdraw everything. *)
WithdrawsAll(W) == W = {} \/ Wildcard \in W

(* A withdrawal that evicts only when everything is withdrawn. *)
InvalidatedOnlyWhole(e, W) == IF WithdrawsAll(W) THEN NoEntry ELSE e

(* invalidate: an entry left without purposes is deleted. *)
Invalidated(e, W) ==
  LET rest == e.purposes \ W
  IN  IF ~e.cached THEN e
      ELSE IF WithdrawsAll(W) \/ rest = {} THEN NoEntry
      ELSE [e EXCEPT !.purposes = rest]

(* A tick of the clock. *)
Aged(e) == IF e.left >= 0 THEN [e EXCEPT !.left = @ - 1] ELSE e
=============================================================================
