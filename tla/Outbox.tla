------------------------------- MODULE Outbox -------------------------------
(***************************************************************************)
(* The transactional outbox: rows of outbox_events written by business     *)
(* transactions and the publishers of the worker processes, each with its  *)
(* interval timer, its batch and its lease of five minutes on every row of *)
(* the batch. Redis and the database are called outside any transaction,   *)
(* one call per action: a publisher may crash, stall past its lease or get *)
(* an error (with or without effect) at each of them.                      *)
(*                                                                         *)
(* Event ids are numbers in the order of created_at, the transaction's     *)
(* start; transactions may commit in any order. attempts and last_error    *)
(* are written and never read, and left out.                               *)
(***************************************************************************)
EXTENDS Naturals, FiniteSets

CONSTANTS
    Events,      \* outbox rows, numbered by created_at
    Invalid,     \* those with an unknown type or an invalid payload
    Publishers,  \* worker processes that run a publisher
    BatchSize,   \* rows claimed per tick (20 in the code)
    MaxFaults,   \* bound: crashes, errors, leases that expire under a live holder
    MaxStops     \* bound: graceful shutdowns

ASSUME OutboxAssumption ==
    /\ Events \subseteq Nat
    /\ Invalid \subseteq Events
    /\ BatchSize \in Nat \ {0}
    /\ MaxFaults \in Nat
    /\ MaxStops \in Nat

VARIABLES
    row,         \* outbox_events.status, "absent" before the commit
    stale,       \* attempted_at is more than five minutes ago
    batch,       \* the rest of the batch a publisher's tick works on
    pc,          \* where that tick is
    mode,        \* "up", "stopping" (shutdown requested) or "down"
    deliveries,  \* history: successful queue.add calls per event
    faults, stops

pubVars == <<batch, pc, mode>>
vars == <<row, stale, pubVars, deliveries, faults, stops>>

Rows == {"absent", "pending", "publishing", "published", "failed"}

TypeOK ==
    /\ row        \in [Events -> Rows]
    /\ stale      \in [Events -> BOOLEAN]
    /\ batch      \in [Publishers -> SUBSET Events]
    /\ pc         \in [Publishers -> {"idle", "event", "confirm", "release"}]
    /\ mode       \in [Publishers -> {"up", "stopping", "down"}]
    /\ deliveries \in [Events -> Nat]
    /\ faults \in 0..MaxFaults
    /\ stops \in 0..MaxStops
    \* a tick runs exactly while it has events left
    /\ \A p \in Publishers : pc[p] = "idle" <=> batch[p] = {}

Init ==
    /\ row        = [e \in Events |-> "absent"]
    /\ stale      = [e \in Events |-> FALSE]
    /\ batch      = [p \in Publishers |-> {}]
    /\ pc         = [p \in Publishers |-> "idle"]
    /\ mode       = [p \in Publishers |-> "up"]
    /\ deliveries = [e \in Events |-> 0]
    /\ faults     = 0
    /\ stops      = 0

Fault == faults < MaxFaults /\ faults' = faults + 1

(* The business transaction that inserts the row commits. *)
Commit(e) ==
    /\ row[e] = "absent"
    /\ row' = [row EXCEPT ![e] = "pending"]
    /\ UNCHANGED <<stale, pubVars, deliveries, faults, stops>>

(* Five minutes pass since the claim. While the holder is alive that means  *)
(* it is unusually slow, which counts as a fault.                           *)
Held(e) == \E p \in Publishers : e \in batch[p]

ExpireLease(e) ==
    /\ row[e] = "publishing"
    /\ ~stale[e]
    /\ stale' = [stale EXCEPT ![e] = TRUE]
    /\ IF Held(e) THEN Fault ELSE UNCHANGED faults
    /\ UNCHANGED <<row, pubVars, deliveries, stops>>

\* Mutant: a claimed row can be claimed again at once.
ClaimableAnyLease(e) == row[e] \in {"pending", "publishing"}

\* Mutant: rows left by a crashed publisher are never taken over.
ClaimablePendingOnly(e) == row[e] = "pending"

Claimable(e) == row[e] = "pending" \/ (row[e] = "publishing" /\ stale[e])

(* The oldest BatchSize claimable rows (ORDER BY created_at LIMIT). *)
IsBatch(S) ==
    LET all == {e \in Events : Claimable(e)} IN
    /\ S \subseteq all
    /\ Cardinality(S) = IF Cardinality(all) < BatchSize THEN Cardinality(all) ELSE BatchSize
    /\ \A e \in S, f \in all \ S : e < f

(* The timer fires and no tick is running: claimBatch.                      *)
Tick(p) ==
    /\ mode[p] = "up"
    /\ pc[p] = "idle"
    /\ \E S \in SUBSET Events :
         /\ S # {}
         /\ IsBatch(S)
         /\ row' = [e \in Events |-> IF e \in S THEN "publishing" ELSE row[e]]
         /\ stale' = [e \in Events |-> stale[e] /\ e \notin S]
         /\ batch' = [batch EXCEPT ![p] = S]
    /\ pc' = [pc EXCEPT ![p] = "event"]
    /\ UNCHANGED <<mode, deliveries, faults, stops>>

(* The event the tick is at: the batch is worked off in its order. *)
Current(p, e) == e \in batch[p] /\ \A f \in batch[p] : e <= f

(* The for loop over the batch ends after this event. *)
LastEvent(S, e) == S = {e}

Advance(p, e) ==
    /\ batch' = [batch EXCEPT ![p] = @ \ {e}]
    /\ pc' = [pc EXCEPT ![p] = IF LastEvent(batch[p], e) THEN "idle" ELSE "event"]

\* Mutant: the update does not check that the row is still being published.
OwnedUnchecked(s) == TRUE

(* WHERE status = 'publishing' of markPublished and markDeliveryError. *)
Owned(s) == s = "publishing"

Settle(e, s) == row' = [row EXCEPT ![e] = IF Owned(@) THEN s ELSE @]

(* parseOutboxEvent refuses the event: markDeliveryError, not retryable.    *)
Reject(p, e) ==
    /\ pc[p] = "event"
    /\ Current(p, e)
    /\ e \in Invalid
    /\ Settle(e, "failed")
    /\ Advance(p, e)
    /\ UNCHANGED <<stale, mode, deliveries, faults, stops>>

(* parseOutboxEvent accepts type and payload. *)
Accepted(e) == e \notin Invalid

(* queue.add succeeds. *)
Add(p, e) ==
    /\ pc[p] = "event"
    /\ Current(p, e)
    /\ Accepted(e)
    /\ deliveries' = [deliveries EXCEPT ![e] = @ + 1]
    /\ pc' = [pc EXCEPT ![p] = "confirm"]
    /\ UNCHANGED <<row, stale, batch, mode, faults, stops>>

(* queue.add throws; the job may have been added all the same.              *)
AddFails(p, e) ==
    /\ pc[p] = "event"
    /\ Current(p, e)
    /\ Accepted(e)
    /\ Fault
    /\ \/ deliveries' = [deliveries EXCEPT ![e] = @ + 1]
       \/ UNCHANGED deliveries
    /\ pc' = [pc EXCEPT ![p] = "release"]
    /\ UNCHANGED <<row, stale, batch, mode, stops>>

(* markPublished *)
Confirm(p, e) ==
    /\ pc[p] = "confirm"
    /\ Current(p, e)
    /\ Settle(e, "published")
    /\ Advance(p, e)
    /\ UNCHANGED <<stale, mode, deliveries, faults, stops>>

(* markPublished throws, before or after the database applied it: the same  *)
(* catch block as for queue.add.                                            *)
ConfirmFails(p, e) ==
    /\ pc[p] = "confirm"
    /\ Current(p, e)
    /\ Fault
    /\ \/ Settle(e, "published")
       \/ UNCHANGED row
    /\ pc' = [pc EXCEPT ![p] = "release"]
    /\ UNCHANGED <<stale, batch, mode, deliveries, stops>>

(* markDeliveryError, retryable *)
Release(p, e) ==
    /\ pc[p] = "release"
    /\ Current(p, e)
    /\ Settle(e, "pending")
    /\ Advance(p, e)
    /\ UNCHANGED <<stale, mode, deliveries, faults, stops>>

(* markDeliveryError throws: the tick ends and drops the rest of its batch, *)
(* whose rows stay "publishing" until their lease expires. (An update that   *)
(* was applied although the call failed looks like Release and a Crash.)    *)
WriteFails(p) ==
    /\ \/ pc[p] = "release"
       \/ pc[p] = "event" /\ \E e \in Invalid : Current(p, e)
    /\ Fault
    /\ batch' = [batch EXCEPT ![p] = {}]
    /\ pc' = [pc EXCEPT ![p] = "idle"]
    /\ UNCHANGED <<row, stale, mode, deliveries, stops>>

Crash(p) ==
    /\ mode[p] # "down"
    /\ Fault
    /\ batch' = [batch EXCEPT ![p] = {}]
    /\ pc' = [pc EXCEPT ![p] = "idle"]
    /\ mode' = [mode EXCEPT ![p] = "down"]
    /\ UNCHANGED <<row, stale, deliveries, stops>>

(* SIGTERM: no further tick. *)
Stop(p) ==
    /\ mode[p] = "up"
    /\ stops < MaxStops
    /\ stops' = stops + 1
    /\ mode' = [mode EXCEPT ![p] = "stopping"]
    /\ UNCHANGED <<row, stale, batch, pc, deliveries, faults>>

\* Mutant: the shutdown does not wait for a running tick.
MayCloseAtOnce(p) == TRUE

(* while (running) wait *)
MayClose(p) == pc[p] = "idle"

(* The queue is closed and the process exits; a tick still at work dies.    *)
Close(p) ==
    /\ mode[p] = "stopping"
    /\ MayClose(p)
    /\ mode' = [mode EXCEPT ![p] = "down"]
    /\ batch' = [batch EXCEPT ![p] = {}]
    /\ pc' = [pc EXCEPT ![p] = "idle"]
    /\ UNCHANGED <<row, stale, deliveries, faults, stops>>

(* The deployment restarts the worker (restart: unless-stopped). *)
Start(p) ==
    /\ mode[p] = "down"
    /\ mode' = [mode EXCEPT ![p] = "up"]
    /\ UNCHANGED <<row, stale, batch, pc, deliveries, faults, stops>>

(* One call of a tick that succeeds. *)
TickStep(p) ==
    \E e \in Events : Reject(p, e) \/ Add(p, e) \/ Confirm(p, e) \/ Release(p, e)

TickFault(p) ==
    \/ \E e \in Events : AddFails(p, e) \/ ConfirmFails(p, e)
    \/ WriteFails(p) \/ Crash(p)

Next ==
    \/ \E e \in Events : Commit(e) \/ ExpireLease(e)
    \/ \E p \in Publishers :
         Tick(p) \/ TickStep(p) \/ TickFault(p) \/ Stop(p) \/ Close(p) \/ Start(p)

Spec == Init /\ [][Next]_vars

(* Timers fire, calls return, leases run out and dead workers are started   *)
(* again. Nobody owes a commit, a shutdown or a fault.                      *)
Fairness ==
    /\ \A p \in Publishers : WF_vars(Tick(p)) /\ WF_vars(TickStep(p))
                             /\ WF_vars(Close(p)) /\ WF_vars(Start(p))
    /\ \A e \in Events : WF_vars(~Held(e) /\ ExpireLease(e))

FairSpec == Spec /\ Fairness

-----------------------------------------------------------------------------
\* Properties

(* The outbox keeps its promise: leases, batches, takeovers and stale        *)
(* publishers are invisible from outside.                                    *)
Promise == INSTANCE EventPromise WITH
    state  <- [e \in Events |-> CASE row[e] \in {"pending", "publishing"} -> "owed"
                                  [] row[e] = "published" -> "confirmed"
                                  [] row[e] = "failed" -> "refused"
                                  [] OTHER -> "absent"],
    handed <- {e \in Events : deliveries[e] > 0}

PromiseKept == Promise!Spec

(* The safety half of the promise, proved in Worker_proofs. *)
PromiseSafe == Promise!Init /\ [][Promise!Next]_(Promise!vars)

(* The lease is exclusive: a second delivery of an event needs a crash, an   *)
(* error or a publisher slower than its lease; several publishers alone, or  *)
(* shutdowns at any moment, deliver every event once.                        *)
DeliveredOnceWithoutFaults == faults = 0 => \A e \in Events : deliveries[e] <= 1

(* What a publisher does after it lost its lease cannot take an outcome      *)
(* back: published and failed rows never change (the test of terminal rows   *)
(* in publisher.integration.test.ts has one publisher only).                 *)
OutcomeFinal ==
    [][\A e \in Events : row[e] \in {"published", "failed"} => row'[e] = row[e]]_vars

(* A graceful shutdown leaves nothing behind: without faults a row is        *)
(* "publishing" only while a live publisher works on it, so no restart waits *)
(* for a lease (stopPublisher awaits the running tick).                      *)
ShutdownLeavesNoLease ==
    faults = 0 => \A e \in Events : row[e] = "publishing" => Held(e)
=============================================================================
