------------------------- MODULE InstancePublisher -------------------------
(***************************************************************************)
(* What integrated.go and runtime.go promise of Reconcile for the Mieru    *)
(* instances together: a call publishes the documents it has planned one   *)
(* at a time, each as a whole or not at all, withdraws what it has not     *)
(* planned only when all it has planned is published, and reports success  *)
(* only when no difference is left.  A call that fails leaves what it has  *)
(* published so far.  A rollback that fails itself and the death of the    *)
(* panel or of the host break the promise, for one instance.               *)
(***************************************************************************)
CONSTANTS Callers, Ids, Tables, Faults, Broken, Nothing, Damaged

VARIABLES
    want,     \* want[i]: what the tables say instance i should run
    stored,   \* stored[i]: the published document of instance i
    planning, \* the calls that know what they will publish
    plan,     \* plan[p]: what p's last call found wanted, per instance
    outcome   \* outcome[p]: what p's last call reported, "none" while it has not

vars == <<want, stored, planning, plan, outcome>>

Init ==
    /\ want \in Tables
    /\ stored = [i \in Ids |-> Nothing]
    /\ planning = {}
    /\ plan = [p \in Callers |-> [i \in Ids |-> Nothing]]
    /\ outcome = [p \in Callers |-> "none"]

(* A call begins, possibly together with the change that caused it.        *)
Begin(p) ==
    /\ p \notin planning
    /\ want' \in Tables
    /\ outcome' = [outcome EXCEPT ![p] = "none"]
    /\ UNCHANGED <<stored, planning, plan>>

Plan(p) ==
    /\ p \notin planning
    /\ outcome[p] = "none"
    /\ \A i \in Ids : want[i] # Broken
    /\ planning' = planning \union {p}
    /\ plan' = [plan EXCEPT ![p] = want]
    /\ UNCHANGED <<want, stored, outcome>>

Wanted(p) == {i \in Ids : plan[p][i] # Nothing}

Publish(p, i) ==
    /\ p \in planning /\ i \in Wanted(p)
    /\ stored' = [stored EXCEPT ![i] = plan[p][i]]
    /\ UNCHANGED <<want, planning, plan, outcome>>

Withdraw(p, i) ==
    /\ p \in planning /\ i \notin Wanted(p)
    /\ \A j \in Wanted(p) : stored[j] = plan[p][j]
    /\ stored' = [stored EXCEPT ![i] = Nothing]
    /\ UNCHANGED <<want, planning, plan, outcome>>

End(p, r) ==
    /\ outcome[p] = "none"
    /\ outcome' = [outcome EXCEPT ![p] = r]
    /\ planning' = planning \ {p}
    /\ UNCHANGED <<want, plan>>

Finish(p) == p \in planning /\ stored = plan[p] /\ End(p, "ok") /\ UNCHANGED stored

GiveUp(p) == End(p, "err") /\ UNCHANGED stored

(* The document is in place although its instance did not start, or cut    *)
(* short.                                                                  *)
Spoil(p, i) ==
    /\ p \in planning /\ i \in Wanted(p)
    /\ \E content \in {plan[p][i], Damaged} : stored' = [stored EXCEPT ![i] = content]

RollbackFails(p, i) ==
    /\ "rollback" \in Faults
    /\ Spoil(p, i)
    /\ End(p, "err")

Die ==
    /\ Faults \intersect {"crash", "reboot"} # {}
    /\ \/ UNCHANGED stored
       \/ \E p \in Callers, i \in Ids : Spoil(p, i)
    /\ planning' = {}
    /\ outcome' = [p \in Callers |-> "none"]
    /\ UNCHANGED <<want, plan>>

Next ==
    \/ \E p \in Callers : Begin(p) \/ Plan(p) \/ Finish(p) \/ GiveUp(p)
    \/ \E p \in Callers, i \in Ids :
          Publish(p, i) \/ Withdraw(p, i) \/ RollbackFails(p, i)
    \/ Die

Spec == Init /\ [][Next]_vars

=============================================================================
