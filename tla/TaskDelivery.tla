---------------------------- MODULE TaskDelivery ----------------------------
(***************************************************************************)
(* What the task queue between the control plane and its agents promises:  *)
(* a task is processed at most once and only by its owner, whatever is     *)
(* pending for an agent is handed over all together, and a task that got   *)
(* lost on the way is never offered again.                                 *)
(***************************************************************************)
EXTENDS Naturals

CONSTANTS
  Tasks,    \* the tasks there can be
  Owner     \* the agent each is for

VARIABLES
  fate,     \* NEW, QUEUED, TAKEN, DONE or LOST, by task
  runs      \* how often each was processed

Init ==
  /\ fate = [t \in Tasks |-> "NEW"]
  /\ runs = [t \in Tasks |-> 0]

Move(S, from, to) ==
  /\ \A t \in S : fate[t] = from
  /\ fate' = [t \in Tasks |-> IF t \in S THEN to ELSE fate[t]]

Queue(S) == Move(S, "NEW", "QUEUED") /\ UNCHANGED runs

(* An agent takes all that is queued for it; a take whose answer has nowhere
   to go loses it. *)
Take(a, to) ==
  /\ Move({t \in Tasks : Owner[t] = a /\ fate[t] = "QUEUED"}, "QUEUED", to)
  /\ UNCHANGED runs

(* Processing one task may cost others of its agent. *)
Process(t, S) ==
  /\ fate[t] = "TAKEN"
  /\ t \notin S
  /\ \A u \in S : fate[u] = "TAKEN" /\ Owner[u] = Owner[t]
  /\ fate' = [u \in Tasks |-> IF u = t THEN "DONE"
                              ELSE IF u \in S THEN "LOST" ELSE fate[u]]
  /\ runs' = [runs EXCEPT ![t] = 1]

Lose(S) == Move(S, "TAKEN", "LOST") /\ UNCHANGED runs

Owners == {Owner[t] : t \in Tasks}

Next ==
  \/ \E S \in SUBSET Tasks : Queue(S)
  \/ \E a \in Owners : Take(a, "TAKEN")
  \/ \E a \in Owners : Take(a, "LOST")
  \/ \E t \in Tasks, S \in SUBSET Tasks : Process(t, S)
  \/ \E a \in Owners, S \in SUBSET Tasks :
        (\A t \in S : Owner[t] = a) /\ Lose(S)

Spec == Init /\ [][Next]_<<fate, runs>>
=============================================================================
