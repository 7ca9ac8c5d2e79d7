---------------------------- MODULE EventPromise ----------------------------
(***************************************************************************)
(* What the transactional outbox promises of an event, without leases,     *)
(* batches or publishers: an accepted event is handed to the queue at      *)
(* least once and then confirmed, or it is refused because its type or     *)
(* payload is invalid. An event is never confirmed before it was handed    *)
(* over, an invalid one is never handed over, and both outcomes are final. *)
(***************************************************************************)
EXTENDS Naturals

CONSTANTS Events, Invalid

VARIABLES
    state,   \* "absent", "owed", "confirmed" or "refused"
    handed   \* events handed to the queue at least once

vars == <<state, handed>>

Init ==
    /\ state = [e \in Events |-> "absent"]
    /\ handed = {}

Accept(e) ==
    /\ state[e] = "absent"
    /\ state' = [state EXCEPT ![e] = "owed"]
    /\ UNCHANGED handed

(* At least once: also again, and also after the confirmation. *)
HandOver(e) ==
    /\ state[e] \in {"owed", "confirmed"}
    /\ e \notin Invalid
    /\ handed' = handed \cup {e}
    /\ UNCHANGED state

Confirm(e) ==
    /\ state[e] = "owed"
    /\ e \in handed
    /\ state' = [state EXCEPT ![e] = "confirmed"]
    /\ UNCHANGED handed

Refuse(e) ==
    /\ state[e] = "owed"
    /\ e \in Invalid
    /\ state' = [state EXCEPT ![e] = "refused"]
    /\ UNCHANGED handed

Next == \E e \in Events : Accept(e) \/ HandOver(e) \/ Confirm(e) \/ Refuse(e)

(* The promise kept: nothing stays owed. *)
Fairness ==
    \A e \in Events : /\ WF_vars(e \notin handed /\ HandOver(e))
                      /\ WF_vars(Confirm(e) \/ Refuse(e))

Spec == Init /\ [][Next]_vars /\ Fairness
=============================================================================
