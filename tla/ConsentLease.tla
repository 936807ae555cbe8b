---------------------------- MODULE ConsentLease ----------------------------
(***************************************************************************)
(* What the agent's consent cache promises an application: a purpose is    *)
(* allowed exactly while a lease on it, or on everything, runs.  A grant   *)
(* replaces all leases of a principal, a revocation ends the leases that   *)
(* it names at once, and a lease ends by itself when its time is over,     *)
(* whether anyone asks or not.                                             *)
(*                                                                         *)
(* The lease on everything, "*", is one of its own: it goes on when a      *)
(* single purpose is revoked (cache.ts:106 removes what is named from the  *)
(* list, and "*" is not named).                                            *)
(***************************************************************************)
EXTENDS Integers

CONSTANTS Principals, Purposes, MaxTtl, Grants, Withdrawals

VARIABLES
  lease,    \* the ticks a lease still has, by principal and what it is on; 0: none
  last      \* the last request and the answer to it

Request(op, pr, P, allowed) ==
  [op |-> op, principal |-> pr, purposes |-> P, allowed |-> allowed]

Leasable == Purposes \cup {"*"}

Init ==
  /\ lease = [pr \in Principals |-> [p \in Leasable |-> 0]]
  /\ last = Request("none", "none", {}, FALSE)

Allowed(pr, p) == lease[pr][p] > 0 \/ lease[pr]["*"] > 0

Ask(pr, p) ==
  /\ last' = Request("check", pr, {p}, Allowed(pr, p))
  /\ UNCHANGED lease

Grant(pr, P, ttl) ==
  /\ lease' = [lease EXCEPT ![pr] =
                 [p \in Leasable |-> IF p \in P THEN ttl + 1 ELSE 0]]
  /\ last' = Request("set", pr, P, TRUE)

(* Naming no purpose, or the wildcard, revokes all leases of the principal. *)
Revokes(W, p) == W = {} \/ "*" \in W \/ p \in W

Revoke(pr, W) ==
  /\ lease' = [lease EXCEPT ![pr] =
                 [p \in Leasable |-> IF Revokes(W, p) THEN 0 ELSE lease[pr][p]]]
  /\ last' = Request("invalidate", pr, W, TRUE)

RevokeEverything ==
  /\ lease' = [pr \in Principals |-> [p \in Leasable |-> 0]]
  /\ last' = Request("clear", "none", {}, TRUE)

Pass ==
  /\ lease' = [pr \in Principals |-> [p \in Leasable |->
                 IF lease[pr][p] > 0 THEN lease[pr][p] - 1 ELSE 0]]
  /\ UNCHANGED last

Next ==
  \/ \E pr \in Principals, p \in Purposes : Ask(pr, p)
  \/ \E pr \in Principals, P \in Grants, ttl \in 0..MaxTtl : Grant(pr, P, ttl)
  \/ \E pr \in Principals, W \in Withdrawals : Revoke(pr, W)
  \/ RevokeEverything
  \/ Pass

Spec == Init /\ [][Next]_<<lease, last>>
=============================================================================
