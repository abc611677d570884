-------------------------- MODULE ConfigPublisher --------------------------
(***************************************************************************)
(* What runtime.go promises of Apply: a configuration is published as a    *)
(* whole or not at all, only after the check accepted it, and the value    *)
(* returned tells which.  Any number of calls may be under way and offer   *)
(* what they made of the database, which may change at any moment and      *)
(* which a call need not have read all at once.  Two things only break the *)
(* promise: a rollback that fails itself, and the death of the panel.      *)
(***************************************************************************)
CONSTANTS Callers, Databases, InboundRows, Render, Valid, Faults, Nothing, Damaged

VARIABLES
    db,       \* the native tables
    stored,   \* the published configuration
    offered,  \* offered[p]: what p's call wants to publish, or Nothing
    outcome   \* outcome[p]: what p's last call reported, "none" while it has not

vars == <<db, stored, offered, outcome>>

Init ==
    /\ db \in Databases
    /\ offered = [p \in Callers |-> Nothing]
    /\ outcome = [p \in Callers |-> "none"]

Change ==
    /\ db' \in Databases
    /\ UNCHANGED <<stored, offered, outcome>>

(* A call begins, possibly together with the change that caused it.        *)
Begin(p) ==
    /\ offered[p] = Nothing
    /\ db' \in Databases
    /\ outcome' = [outcome EXCEPT ![p] = "none"]
    /\ UNCHANGED <<stored, offered>>

Offer(p) ==
    /\ offered[p] = Nothing
    /\ outcome[p] = "none"
    /\ \E rows \in InboundRows :
          offered' = [offered EXCEPT ![p] = Render[<<rows, db.clients>>]]
    /\ UNCHANGED <<db, stored, outcome>>

End(p, r) ==
    /\ outcome[p] = "none"
    /\ outcome' = [outcome EXCEPT ![p] = r]
    /\ offered' = [offered EXCEPT ![p] = Nothing]
    /\ UNCHANGED db

Publish(p) ==
    /\ offered[p] \in Valid
    /\ stored' = offered[p]
    /\ End(p, "ok")

Refuse(p) == End(p, "err") /\ UNCHANGED stored

(* The error is reported, but the old configuration is not back.           *)
RollbackFails(p) ==
    /\ "rollback" \in Faults
    /\ offered[p] \in Valid
    /\ stored' \in {offered[p], Damaged}
    /\ End(p, "err")

(* The panel is killed: no call under way reports any more, and one of     *)
(* them may have got through, or half way back.                            *)
Die ==
    /\ "crash" \in Faults
    /\ \/ UNCHANGED stored
       \/ \E p \in Callers : offered[p] \in Valid /\ stored' \in {offered[p], Damaged}
    /\ offered' = [p \in Callers |-> Nothing]
    /\ outcome' = [p \in Callers |-> "none"]
    /\ UNCHANGED db

Next ==
    \/ \E p \in Callers :
          Begin(p) \/ Offer(p) \/ Publish(p) \/ Refuse(p) \/ RollbackFails(p)
    \/ Change
    \/ Die

Spec == Init /\ [][Next]_vars

=============================================================================
