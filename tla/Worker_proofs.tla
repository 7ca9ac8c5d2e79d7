--------------------------- MODULE Worker_proofs ---------------------------
(***************************************************************************)
(* Proofs about the two halves of the worker: the outbox publisher that    *)
(* hands every event to a queue, and the stages a document goes through.   *)
(*                                                                         *)
(* Outbox, for every set of events and publishers, every batch size and    *)
(* every number of faults: type correctness, the final outcomes, the two   *)
(* guarantees of a run without faults, and the safety half of the          *)
(* refinement of EventPromise. The promise needs to know what a tick in    *)
(* progress has done (Honest): an event about to be confirmed has been     *)
(* added, and only invalid events fail. The guarantees without faults need *)
(* that leases are exclusive (Exclusive): no lease expires, every row      *)
(* being published is in exactly one batch, and an event delivered once is *)
(* published or about to be.                                               *)
(*                                                                         *)
(* Ingest, for every document, line size, script, token estimate and       *)
(* limit: the chunks are the document's text in order, and their vectors   *)
(* and summaries are of them. The stages are folds over sequences. A fold  *)
(* is proved about through the row of its intermediate values (FoldRow),   *)
(* which exists and is unique by induction over the naturals (SetInduction,*)
(* from the well-foundedness of <); each stage then has a lemma on what    *)
(* one element does to its accumulator, carried along the row. In order:   *)
(* sentences and windows split a text into its own parts; packing keeps    *)
(* them in order, an overlap only repeats what the previous piece ends     *)
(* with; the trail of headings locates every unit (Located); raw chunks,   *)
(* their merging and their numbering keep the text; the cleaned blocks are *)
(* the kept paragraphs of the pages. The runs then keep Ready (what each   *)
(* stage has is what it was given to make) and Staged (the stage reached   *)
(* has what the stages before it store).                                   *)
(***************************************************************************)
EXTENDS Outbox, Ingest, FiniteSetTheorems, SequenceTheorems, WellFoundedInduction, TLAPS


-----------------------------------------------------------------------------
(* A row that is not there is in no batch; an event about to be confirmed   *)
(* has been handed over; an event that failed is invalid.                   *)
Honest ==
    /\ \A e \in Events : row[e] = "absent" => ~Held(e)
    /\ \A e \in Events : row[e] = "failed" => e \in Invalid
    /\ \A p \in Publishers, e \in Events :
         pc[p] = "confirm" /\ Current(p, e) => deliveries[e] > 0


(* The initial state is well typed and honest. *)
LEMMA InitSound == Init => TypeOK /\ Honest
BY OutboxAssumption DEF Init, TypeOK, Honest, Rows, Held

(* Every step keeps the types. *)
LEMMA NextTyped == TypeOK /\ [Next]_vars => TypeOK'
<1> SUFFICES ASSUME TypeOK, [Next]_vars PROVE TypeOK'
  OBVIOUS
<1> USE OutboxAssumption DEF pubVars
<1>1. ASSUME NEW e \in Events, Commit(e) PROVE TypeOK'
  BY <1>1 DEF Commit, TypeOK, Rows
<1>2. ASSUME NEW e \in Events, ExpireLease(e) PROVE TypeOK'
  BY <1>2 DEF ExpireLease, Fault, Held, TypeOK, Rows
<1>3. ASSUME NEW p \in Publishers, Tick(p) PROVE TypeOK'
  BY <1>3 DEF Tick, IsBatch, Claimable, TypeOK, Rows
<1>4. ASSUME NEW p \in Publishers, WriteFails(p) PROVE TypeOK'
  BY <1>4 DEF WriteFails, Fault, Current, TypeOK, Rows
<1>5. ASSUME NEW p \in Publishers, Crash(p) PROVE TypeOK'
  BY <1>5 DEF Crash, Fault, TypeOK, Rows
<1>6. ASSUME NEW p \in Publishers, Stop(p) PROVE TypeOK'
  BY <1>6 DEF Stop, TypeOK, Rows
<1>7. ASSUME NEW p \in Publishers, Close(p) PROVE TypeOK'
  BY <1>7 DEF Close, MayClose, TypeOK, Rows
<1>8. ASSUME NEW p \in Publishers, Start(p) PROVE TypeOK'
  BY <1>8 DEF Start, TypeOK, Rows
<1>9. ASSUME NEW p \in Publishers, NEW e \in Events, Reject(p, e) PROVE TypeOK'
  BY <1>9 DEF Reject, Current, Settle, Advance, LastEvent, Owned, TypeOK, Rows
<1>10. ASSUME NEW p \in Publishers, NEW e \in Events, Add(p, e) PROVE TypeOK'
  BY <1>10 DEF Add, Current, Accepted, TypeOK, Rows
<1>11. ASSUME NEW p \in Publishers, NEW e \in Events, AddFails(p, e) PROVE TypeOK'
  BY <1>11 DEF AddFails, Current, Accepted, Fault, TypeOK, Rows
<1>12. ASSUME NEW p \in Publishers, NEW e \in Events, Confirm(p, e) PROVE TypeOK'
  BY <1>12 DEF Confirm, Current, Settle, Advance, LastEvent, Owned, TypeOK, Rows
<1>13. ASSUME NEW p \in Publishers, NEW e \in Events, ConfirmFails(p, e) PROVE TypeOK'
  BY <1>13 DEF ConfirmFails, Current, Settle, Owned, Fault, TypeOK, Rows
<1>14. ASSUME NEW p \in Publishers, NEW e \in Events, Release(p, e) PROVE TypeOK'
  BY <1>14 DEF Release, Current, Settle, Advance, LastEvent, Owned, TypeOK, Rows
<1>15. CASE UNCHANGED vars
  BY <1>15 DEF vars, TypeOK
<1> QED
  BY <1>1, <1>2, <1>3, <1>4, <1>5, <1>6, <1>7, <1>8, <1>9, <1>10, <1>11, <1>12, <1>13, <1>14, <1>15 DEF Next, TickStep, TickFault

(* Every step of a well-typed state keeps it honest. *)
LEMMA NextHonest == TypeOK /\ Honest /\ [Next]_vars => Honest'
<1> SUFFICES ASSUME TypeOK, Honest, [Next]_vars PROVE Honest'
  OBVIOUS
<1> USE OutboxAssumption DEF pubVars
<1>1. ASSUME NEW e \in Events, Commit(e) PROVE Honest'
  BY <1>1 DEF Commit, TypeOK, Honest, Rows, Current, Held
<1>2. ASSUME NEW e \in Events, ExpireLease(e) PROVE Honest'
  BY <1>2 DEF ExpireLease, Fault, Held, TypeOK, Honest, Rows, Current
<1>3. ASSUME NEW p \in Publishers, Tick(p) PROVE Honest'
  BY <1>3 DEF Tick, IsBatch, Claimable, TypeOK, Honest, Rows, Current, Held
<1>4. ASSUME NEW p \in Publishers, WriteFails(p) PROVE Honest'
  BY <1>4 DEF WriteFails, Fault, Current, TypeOK, Honest, Rows, Held
<1>5. ASSUME NEW p \in Publishers, Crash(p) PROVE Honest'
  BY <1>5 DEF Crash, Fault, TypeOK, Honest, Rows, Current, Held
<1>6. ASSUME NEW p \in Publishers, Stop(p) PROVE Honest'
  BY <1>6 DEF Stop, TypeOK, Honest, Rows, Current, Held
<1>7. ASSUME NEW p \in Publishers, Close(p) PROVE Honest'
  BY <1>7 DEF Close, MayClose, TypeOK, Honest, Rows, Current, Held
<1>8. ASSUME NEW p \in Publishers, Start(p) PROVE Honest'
  BY <1>8 DEF Start, TypeOK, Honest, Rows, Current, Held
<1>9. ASSUME NEW p \in Publishers, NEW e \in Events, Reject(p, e) PROVE Honest'
  BY <1>9 DEF Reject, Current, Settle, Advance, LastEvent, Owned, TypeOK, Honest, Rows, Held
<1>10. ASSUME NEW p \in Publishers, NEW e \in Events, Add(p, e) PROVE Honest'
  BY <1>10 DEF Add, Current, Accepted, TypeOK, Honest, Rows, Held
<1>11. ASSUME NEW p \in Publishers, NEW e \in Events, AddFails(p, e) PROVE Honest'
  BY <1>11 DEF AddFails, Current, Accepted, Fault, TypeOK, Honest, Rows, Held
<1>12. ASSUME NEW p \in Publishers, NEW e \in Events, Confirm(p, e) PROVE Honest'
  BY <1>12 DEF Confirm, Current, Settle, Advance, LastEvent, Owned, TypeOK, Honest, Rows, Held
<1>13. ASSUME NEW p \in Publishers, NEW e \in Events, ConfirmFails(p, e) PROVE Honest'
  BY <1>13 DEF ConfirmFails, Current, Settle, Owned, Fault, TypeOK, Honest, Rows, Held
<1>14. ASSUME NEW p \in Publishers, NEW e \in Events, Release(p, e) PROVE Honest'
  BY <1>14 DEF Release, Current, Settle, Advance, LastEvent, Owned, TypeOK, Honest, Rows, Held
<1>15. CASE UNCHANGED vars
  BY <1>15 DEF vars, Honest, Held, Current
<1> QED
  BY <1>1, <1>2, <1>3, <1>4, <1>5, <1>6, <1>7, <1>8, <1>9, <1>10, <1>11, <1>12, <1>13, <1>14, <1>15 DEF Next, TickStep, TickFault

(* Typed and honest is inductive. *)
LEMMA SpecSound == Spec => [](TypeOK /\ Honest)
<1>1. TypeOK /\ Honest /\ [Next]_vars => (TypeOK /\ Honest)'
  BY NextTyped, NextHonest
<1> QED
  BY InitSound, <1>1, PTL DEF Spec

(* Every variable keeps its type, and a publisher is in a tick exactly      *)
(* while it has events of its batch left (tick, claimBatch).                *)
THEOREM TypeCorrect == Spec => []TypeOK
BY SpecSound, PTL


(* Published and failed rows never change, whatever a publisher that lost   *)
(* its lease still does (WHERE status = 'publishing').                      *)
THEOREM OutcomesAreFinal == Spec => OutcomeFinal
<1>1. TypeOK /\ [Next]_vars =>
       \A e \in Events : row[e] \in {"published", "failed"} => row'[e] = row[e]
  <2> DEFINE P(c) == row[c] \in {"published", "failed"} => row'[c] = row[c]
  <2> SUFFICES ASSUME TypeOK, [Next]_vars, NEW c \in Events PROVE P(c)
    OBVIOUS
  <2> USE DEF pubVars
  <2>1. ASSUME NEW e \in Events, Commit(e) PROVE P(c)
    BY <2>1 DEF Commit, TypeOK
  <2>2. ASSUME NEW e \in Events, ExpireLease(e) PROVE P(c)
    BY <2>2 DEF ExpireLease, Fault, Held, TypeOK
  <2>3. ASSUME NEW p \in Publishers, Tick(p) PROVE P(c)
    BY <2>3 DEF Tick, IsBatch, Claimable, TypeOK
  <2>4. ASSUME NEW p \in Publishers, WriteFails(p) PROVE P(c)
    BY <2>4 DEF WriteFails, Fault, Current, TypeOK
  <2>5. ASSUME NEW p \in Publishers, Crash(p) PROVE P(c)
    BY <2>5 DEF Crash, Fault, TypeOK
  <2>6. ASSUME NEW p \in Publishers, Stop(p) PROVE P(c)
    BY <2>6 DEF Stop, TypeOK
  <2>7. ASSUME NEW p \in Publishers, Close(p) PROVE P(c)
    BY <2>7 DEF Close, MayClose, TypeOK
  <2>8. ASSUME NEW p \in Publishers, Start(p) PROVE P(c)
    BY <2>8 DEF Start, TypeOK
  <2>9. ASSUME NEW p \in Publishers, NEW e \in Events, Reject(p, e) PROVE P(c)
    BY <2>9 DEF Reject, Current, Settle, Advance, LastEvent, Owned, TypeOK
  <2>10. ASSUME NEW p \in Publishers, NEW e \in Events, Add(p, e) PROVE P(c)
    BY <2>10 DEF Add, Current, Accepted, TypeOK
  <2>11. ASSUME NEW p \in Publishers, NEW e \in Events, AddFails(p, e) PROVE P(c)
    BY <2>11 DEF AddFails, Current, Accepted, Fault, TypeOK
  <2>12. ASSUME NEW p \in Publishers, NEW e \in Events, Confirm(p, e) PROVE P(c)
    BY <2>12 DEF Confirm, Current, Settle, Advance, LastEvent, Owned, TypeOK
  <2>13. ASSUME NEW p \in Publishers, NEW e \in Events, ConfirmFails(p, e) PROVE P(c)
    BY <2>13 DEF ConfirmFails, Current, Settle, Owned, Fault, TypeOK
  <2>14. ASSUME NEW p \in Publishers, NEW e \in Events, Release(p, e) PROVE P(c)
    BY <2>14 DEF Release, Current, Settle, Advance, LastEvent, Owned, TypeOK
  <2>15. CASE UNCHANGED vars
    BY <2>15 DEF vars
  <2> QED
    BY <2>1, <2>2, <2>3, <2>4, <2>5, <2>6, <2>7, <2>8, <2>9, <2>10, <2>11, <2>12, <2>13, <2>14, <2>15 DEF Next, TickStep, TickFault
<1> QED
  BY <1>1, SpecSound, PTL DEF Spec, OutcomeFinal

-----------------------------------------------------------------------------
(* Without faults: no error path is taken, no lease runs out, a row is being *)
(* published exactly while it is in a batch, in one batch only, and an event *)
(* delivered already is published or about to be confirmed.                 *)
Confirming(e) == \E p \in Publishers : pc[p] = "confirm" /\ Current(p, e)

Exclusive ==
    /\ \A p \in Publishers : pc[p] # "release"
    /\ \A e \in Events : ~stale[e]
    /\ \A e \in Events : row[e] = "publishing" <=> Held(e)
    /\ \A p, q \in Publishers, e \in Events : e \in batch[p] /\ e \in batch[q] => p = q
    /\ \A e \in Events : deliveries[e] = 0 \/ deliveries[e] = 1
    /\ \A e \in Events : deliveries[e] = 1 => row[e] = "published" \/ Confirming(e)

FaultFree == faults = 0 => Exclusive

(* The initial state is exclusive. *)
LEMMA InitClean == Init => FaultFree
BY DEF Init, FaultFree, Exclusive, Held

(* The events of a batch are numbers, so only one is current. *)
LEMMA OneCurrent ==
  ASSUME TypeOK, NEW p \in Publishers, NEW e \in Events, NEW f \in Events,
         Current(p, e), Current(p, f)
  PROVE  e = f
<1>1. e <= f /\ f <= e /\ e \in Nat /\ f \in Nat
  BY OutboxAssumption DEF Current
<1> QED
  BY <1>1

(* While faults is zero a step is none of the faults. *)
LEMMA FaultSpent == TypeOK /\ Fault => faults' # 0
BY DEF TypeOK, Fault


(* Faults are only ever counted up. *)
LEMMA NextFaults == TypeOK /\ [Next]_vars => faults' \in Nat /\ faults' >= faults
<1> SUFFICES ASSUME TypeOK, [Next]_vars PROVE faults' \in Nat /\ faults' >= faults
  OBVIOUS
<1>0. faults' \in Nat
  BY NextTyped, OutboxAssumption DEF TypeOK
<1>1. ASSUME NEW e \in Events, Commit(e) PROVE faults' >= faults
  BY <1>1 DEF Commit, TypeOK, Fault
<1>2. ASSUME NEW e \in Events, ExpireLease(e) PROVE faults' >= faults
  BY <1>2 DEF ExpireLease, Fault, Held, TypeOK
<1>3. ASSUME NEW p \in Publishers, Tick(p) PROVE faults' >= faults
  BY <1>3 DEF Tick, IsBatch, Claimable, TypeOK, Fault
<1>4. ASSUME NEW p \in Publishers, WriteFails(p) PROVE faults' >= faults
  BY <1>4 DEF WriteFails, Fault, Current, TypeOK
<1>5. ASSUME NEW p \in Publishers, Crash(p) PROVE faults' >= faults
  BY <1>5 DEF Crash, Fault, TypeOK
<1>6. ASSUME NEW p \in Publishers, Stop(p) PROVE faults' >= faults
  BY <1>6 DEF Stop, TypeOK, Fault
<1>7. ASSUME NEW p \in Publishers, Close(p) PROVE faults' >= faults
  BY <1>7 DEF Close, MayClose, TypeOK, Fault
<1>8. ASSUME NEW p \in Publishers, Start(p) PROVE faults' >= faults
  BY <1>8 DEF Start, TypeOK, Fault
<1>9. ASSUME NEW p \in Publishers, NEW e \in Events, Reject(p, e) PROVE faults' >= faults
  BY <1>9 DEF Reject, Current, Settle, Advance, LastEvent, Owned, TypeOK, Fault
<1>10. ASSUME NEW p \in Publishers, NEW e \in Events, Add(p, e) PROVE faults' >= faults
  BY <1>10 DEF Add, Current, Accepted, TypeOK, Fault
<1>11. ASSUME NEW p \in Publishers, NEW e \in Events, AddFails(p, e) PROVE faults' >= faults
  BY <1>11 DEF AddFails, Current, Accepted, Fault, TypeOK
<1>12. ASSUME NEW p \in Publishers, NEW e \in Events, Confirm(p, e) PROVE faults' >= faults
  BY <1>12 DEF Confirm, Current, Settle, Advance, LastEvent, Owned, TypeOK, Fault
<1>13. ASSUME NEW p \in Publishers, NEW e \in Events, ConfirmFails(p, e) PROVE faults' >= faults
  BY <1>13 DEF ConfirmFails, Current, Settle, Owned, Fault, TypeOK
<1>14. ASSUME NEW p \in Publishers, NEW e \in Events, Release(p, e) PROVE faults' >= faults
  BY <1>14 DEF Release, Current, Settle, Advance, LastEvent, Owned, TypeOK, Fault
<1>15. CASE UNCHANGED vars
  BY <1>15 DEF vars, TypeOK
<1> QED
  BY <1>0, <1>1, <1>2, <1>3, <1>4, <1>5, <1>6, <1>7, <1>8, <1>9, <1>10, <1>11, <1>12, <1>13, <1>14, <1>15 DEF Next, TickStep, TickFault

(* Every step that is no fault keeps it so. *)
LEMMA NextClean == TypeOK /\ FaultFree /\ [Next]_vars => FaultFree'
<1> SUFFICES ASSUME TypeOK, Exclusive, [Next]_vars, faults = 0, faults' = 0 PROVE Exclusive'
  BY NextFaults, OutboxAssumption DEF FaultFree, TypeOK
<1> USE OutboxAssumption DEF pubVars, TypeOK
<1>1. ASSUME NEW e \in Events, Commit(e) PROVE Exclusive'
  <2>1. \A q \in Publishers : pc'[q] # "release"
    BY <1>1 DEF Commit, Exclusive, Held, Confirming, Current
  <2>2. \A f \in Events : ~stale'[f]
    BY <1>1 DEF Commit, Exclusive, Held, Confirming, Current
  <2>3. \A f \in Events : row'[f] = "publishing" <=> Held(f)'
    BY <1>1 DEF Commit, Exclusive, Held, Confirming, Current
  <2>4. \A q, r \in Publishers, f \in Events : f \in batch'[q] /\ f \in batch'[r] => q = r
    BY <1>1 DEF Commit, Exclusive, Held, Confirming, Current
  <2>5. \A f \in Events : deliveries'[f] = 0 \/ deliveries'[f] = 1
    BY <1>1 DEF Commit, Exclusive, Held, Confirming, Current
  <2>6. \A f \in Events : deliveries'[f] = 1 => row'[f] = "published" \/ Confirming(f)'
    BY <1>1 DEF Commit, Exclusive, Held, Confirming, Current
  <2> QED
    BY <2>1, <2>2, <2>3, <2>4, <2>5, <2>6 DEF Exclusive
<1>2. ASSUME NEW e \in Events, ExpireLease(e) PROVE Exclusive'
  BY <1>2 DEF ExpireLease, Fault, Held, Exclusive
<1>3. ASSUME NEW p \in Publishers, Tick(p) PROVE Exclusive'
  <2>1. \A q \in Publishers : pc'[q] # "release"
    BY <1>3 DEF Tick, IsBatch, Claimable, Exclusive, Held, Confirming, Current
  <2>2. \A f \in Events : ~stale'[f]
    BY <1>3 DEF Tick, IsBatch, Claimable, Exclusive, Held, Confirming, Current
  <2>3. \A f \in Events : row'[f] = "publishing" <=> Held(f)'
    BY <1>3 DEF Tick, IsBatch, Claimable, Exclusive, Held, Confirming, Current
  <2>4. \A q, r \in Publishers, f \in Events : f \in batch'[q] /\ f \in batch'[r] => q = r
    BY <1>3 DEF Tick, IsBatch, Claimable, Exclusive, Held, Confirming, Current
  <2>5. \A f \in Events : deliveries'[f] = 0 \/ deliveries'[f] = 1
    BY <1>3 DEF Tick, IsBatch, Claimable, Exclusive, Held, Confirming, Current
  <2>6. \A f \in Events : deliveries'[f] = 1 => row'[f] = "published" \/ Confirming(f)'
    BY <1>3 DEF Tick, IsBatch, Claimable, Exclusive, Held, Confirming, Current
  <2> QED
    BY <2>1, <2>2, <2>3, <2>4, <2>5, <2>6 DEF Exclusive
<1>4. ASSUME NEW p \in Publishers, NEW e \in Events, Reject(p, e) PROVE Exclusive'
  <2>1. \A f \in Events : Current(p, f) => f = e
    BY <1>4, OneCurrent DEF Reject
  <2>2. \A q \in Publishers : pc'[q] # "release"
    BY <1>4, <2>1 DEF Reject, Current, Settle, Advance, LastEvent, Owned, Exclusive, Held, Confirming
  <2>3. \A f \in Events : ~stale'[f]
    BY <1>4, <2>1 DEF Reject, Current, Settle, Advance, LastEvent, Owned, Exclusive, Held, Confirming
  <2>4. \A f \in Events : row'[f] = "publishing" <=> Held(f)'
    BY <1>4, <2>1 DEF Reject, Current, Settle, Advance, LastEvent, Owned, Exclusive, Held, Confirming
  <2>5. \A q, r \in Publishers, f \in Events : f \in batch'[q] /\ f \in batch'[r] => q = r
    BY <1>4, <2>1 DEF Reject, Current, Settle, Advance, LastEvent, Owned, Exclusive, Held, Confirming
  <2>6. \A f \in Events : deliveries'[f] = 0 \/ deliveries'[f] = 1
    BY <1>4, <2>1 DEF Reject, Current, Settle, Advance, LastEvent, Owned, Exclusive, Held, Confirming
  <2>7. \A f \in Events : deliveries'[f] = 1 => row'[f] = "published" \/ Confirming(f)'
    BY <1>4, <2>1 DEF Reject, Current, Settle, Advance, LastEvent, Owned, Exclusive, Held, Confirming
  <2> QED
    BY <2>2, <2>3, <2>4, <2>5, <2>6, <2>7 DEF Exclusive
<1>5. ASSUME NEW p \in Publishers, NEW e \in Events, Add(p, e) PROVE Exclusive'
  <2>1. \A f \in Events : Current(p, f) => f = e
    BY <1>5, OneCurrent DEF Add
  <2>2. \A q \in Publishers : pc'[q] # "release"
    BY <1>5, <2>1 DEF Add, Current, Accepted, Exclusive, Held, Confirming
  <2>3. \A f \in Events : ~stale'[f]
    BY <1>5, <2>1 DEF Add, Current, Accepted, Exclusive, Held, Confirming
  <2>4. \A f \in Events : row'[f] = "publishing" <=> Held(f)'
    BY <1>5, <2>1 DEF Add, Current, Accepted, Exclusive, Held, Confirming
  <2>5. \A q, r \in Publishers, f \in Events : f \in batch'[q] /\ f \in batch'[r] => q = r
    BY <1>5, <2>1 DEF Add, Current, Accepted, Exclusive, Held, Confirming
  <2>6. \A f \in Events : deliveries'[f] = 0 \/ deliveries'[f] = 1
    BY <1>5, <2>1 DEF Add, Current, Accepted, Exclusive, Held, Confirming
  <2>7. \A f \in Events : deliveries'[f] = 1 => row'[f] = "published" \/ Confirming(f)'
    BY <1>5, <2>1 DEF Add, Current, Accepted, Exclusive, Held, Confirming
  <2> QED
    BY <2>2, <2>3, <2>4, <2>5, <2>6, <2>7 DEF Exclusive
<1>6. ASSUME NEW p \in Publishers, NEW e \in Events, Confirm(p, e) PROVE Exclusive'
  <2>1. \A f \in Events : Current(p, f) => f = e
    BY <1>6, OneCurrent DEF Confirm
  <2>2. \A q \in Publishers : pc'[q] # "release"
    BY <1>6, <2>1 DEF Confirm, Current, Settle, Advance, LastEvent, Owned, Exclusive, Held, Confirming
  <2>3. \A f \in Events : ~stale'[f]
    BY <1>6, <2>1 DEF Confirm, Current, Settle, Advance, LastEvent, Owned, Exclusive, Held, Confirming
  <2>4. \A f \in Events : row'[f] = "publishing" <=> Held(f)'
    BY <1>6, <2>1 DEF Confirm, Current, Settle, Advance, LastEvent, Owned, Exclusive, Held, Confirming
  <2>5. \A q, r \in Publishers, f \in Events : f \in batch'[q] /\ f \in batch'[r] => q = r
    BY <1>6, <2>1 DEF Confirm, Current, Settle, Advance, LastEvent, Owned, Exclusive, Held, Confirming
  <2>6. \A f \in Events : deliveries'[f] = 0 \/ deliveries'[f] = 1
    BY <1>6, <2>1 DEF Confirm, Current, Settle, Advance, LastEvent, Owned, Exclusive, Held, Confirming
  <2>7. \A f \in Events : deliveries'[f] = 1 => row'[f] = "published" \/ Confirming(f)'
    BY <1>6, <2>1 DEF Confirm, Current, Settle, Advance, LastEvent, Owned, Exclusive, Held, Confirming
  <2> QED
    BY <2>2, <2>3, <2>4, <2>5, <2>6, <2>7 DEF Exclusive
<1>7. ASSUME NEW p \in Publishers, NEW e \in Events, Release(p, e) PROVE Exclusive'
  BY <1>7 DEF Release, Current, Settle, Advance, LastEvent, Owned, Exclusive
<1>8. ASSUME NEW p \in Publishers, Stop(p) PROVE Exclusive'
  <2>1. \A q \in Publishers : pc'[q] # "release"
    BY <1>8 DEF Stop, Exclusive, Held, Confirming, Current
  <2>2. \A f \in Events : ~stale'[f]
    BY <1>8 DEF Stop, Exclusive, Held, Confirming, Current
  <2>3. \A f \in Events : row'[f] = "publishing" <=> Held(f)'
    BY <1>8 DEF Stop, Exclusive, Held, Confirming, Current
  <2>4. \A q, r \in Publishers, f \in Events : f \in batch'[q] /\ f \in batch'[r] => q = r
    BY <1>8 DEF Stop, Exclusive, Held, Confirming, Current
  <2>5. \A f \in Events : deliveries'[f] = 0 \/ deliveries'[f] = 1
    BY <1>8 DEF Stop, Exclusive, Held, Confirming, Current
  <2>6. \A f \in Events : deliveries'[f] = 1 => row'[f] = "published" \/ Confirming(f)'
    BY <1>8 DEF Stop, Exclusive, Held, Confirming, Current
  <2> QED
    BY <2>1, <2>2, <2>3, <2>4, <2>5, <2>6 DEF Exclusive
<1>9. ASSUME NEW p \in Publishers, Close(p) PROVE Exclusive'
  <2>1. \A q \in Publishers : pc'[q] # "release"
    BY <1>9 DEF Close, MayClose, Exclusive, Held, Confirming, Current
  <2>2. \A f \in Events : ~stale'[f]
    BY <1>9 DEF Close, MayClose, Exclusive, Held, Confirming, Current
  <2>3. \A f \in Events : row'[f] = "publishing" <=> Held(f)'
    BY <1>9 DEF Close, MayClose, Exclusive, Held, Confirming, Current
  <2>4. \A q, r \in Publishers, f \in Events : f \in batch'[q] /\ f \in batch'[r] => q = r
    BY <1>9 DEF Close, MayClose, Exclusive, Held, Confirming, Current
  <2>5. \A f \in Events : deliveries'[f] = 0 \/ deliveries'[f] = 1
    BY <1>9 DEF Close, MayClose, Exclusive, Held, Confirming, Current
  <2>6. \A f \in Events : deliveries'[f] = 1 => row'[f] = "published" \/ Confirming(f)'
    BY <1>9 DEF Close, MayClose, Exclusive, Held, Confirming, Current
  <2> QED
    BY <2>1, <2>2, <2>3, <2>4, <2>5, <2>6 DEF Exclusive
<1>10. ASSUME NEW p \in Publishers, Start(p) PROVE Exclusive'
  <2>1. \A q \in Publishers : pc'[q] # "release"
    BY <1>10 DEF Start, Exclusive, Held, Confirming, Current
  <2>2. \A f \in Events : ~stale'[f]
    BY <1>10 DEF Start, Exclusive, Held, Confirming, Current
  <2>3. \A f \in Events : row'[f] = "publishing" <=> Held(f)'
    BY <1>10 DEF Start, Exclusive, Held, Confirming, Current
  <2>4. \A q, r \in Publishers, f \in Events : f \in batch'[q] /\ f \in batch'[r] => q = r
    BY <1>10 DEF Start, Exclusive, Held, Confirming, Current
  <2>5. \A f \in Events : deliveries'[f] = 0 \/ deliveries'[f] = 1
    BY <1>10 DEF Start, Exclusive, Held, Confirming, Current
  <2>6. \A f \in Events : deliveries'[f] = 1 => row'[f] = "published" \/ Confirming(f)'
    BY <1>10 DEF Start, Exclusive, Held, Confirming, Current
  <2> QED
    BY <2>1, <2>2, <2>3, <2>4, <2>5, <2>6 DEF Exclusive
<1>11. CASE UNCHANGED vars
  BY <1>11 DEF vars, Exclusive, Held, Confirming, Current
<1> QED
  BY <1>1, <1>2, <1>3, <1>4, <1>5, <1>6, <1>7, <1>8, <1>9, <1>10, <1>11, FaultSpent DEF Next, TickStep, TickFault, AddFails, ConfirmFails, WriteFails, Crash

(* The whole inductive invariant. *)
LEMMA SpecClean == Spec => [](TypeOK /\ FaultFree)
<1>1. TypeOK /\ FaultFree /\ [Next]_vars => (TypeOK /\ FaultFree)'
  BY NextTyped, NextClean
<1> QED
  BY InitSound, InitClean, <1>1, PTL DEF Spec

(* Without a crash, an error or a slow publisher every event is delivered   *)
(* once, with any number of publishers and shutdowns (claimBatch).          *)
THEOREM DeliveredOnce == Spec => []DeliveredOnceWithoutFaults
<1>1. TypeOK /\ FaultFree => DeliveredOnceWithoutFaults
  BY DEF FaultFree, Exclusive, DeliveredOnceWithoutFaults, TypeOK
<1> QED
  BY <1>1, SpecClean, PTL

(* A graceful shutdown leaves no row to be waited for (stopPublisher).      *)
THEOREM ShutdownIsClean == Spec => []ShutdownLeavesNoLease
<1>1. FaultFree => ShutdownLeavesNoLease
  BY DEF FaultFree, Exclusive, ShutdownLeavesNoLease
<1> QED
  BY <1>1, SpecClean, PTL

-----------------------------------------------------------------------------

(* Every step of the publishers is a step of the promise or invisible: a     *)
(* claim, a release, a crash or an expired lease change nothing it can see. *)
LEMMA NextPromise == TypeOK /\ Honest /\ [Next]_vars => [Promise!Next]_(Promise!vars)
<1> SUFFICES ASSUME TypeOK, Honest, [Next]_vars PROVE [Promise!Next]_(Promise!vars)
  OBVIOUS
<1> USE OutboxAssumption DEF pubVars, TypeOK, Rows
<1>1. ASSUME NEW e \in Events, Commit(e) PROVE Promise!Accept(e)
  BY <1>1 DEF Commit, Honest, Held, Promise!Accept
<1>2. ASSUME NEW e \in Events, ExpireLease(e) PROVE UNCHANGED Promise!vars
  BY <1>2 DEF ExpireLease, Fault, Held, Promise!vars
<1>3. ASSUME NEW p \in Publishers, Tick(p) PROVE UNCHANGED Promise!vars
  BY <1>3 DEF Tick, IsBatch, Claimable, Promise!vars
<1>4. ASSUME NEW p \in Publishers, WriteFails(p) PROVE UNCHANGED Promise!vars
  BY <1>4 DEF WriteFails, Fault, Current, Promise!vars
<1>5. ASSUME NEW p \in Publishers, Crash(p) PROVE UNCHANGED Promise!vars
  BY <1>5 DEF Crash, Fault, Promise!vars
<1>6. ASSUME NEW p \in Publishers, Stop(p) PROVE UNCHANGED Promise!vars
  BY <1>6 DEF Stop, Promise!vars
<1>7. ASSUME NEW p \in Publishers, Close(p) PROVE UNCHANGED Promise!vars
  BY <1>7 DEF Close, MayClose, Promise!vars
<1>8. ASSUME NEW p \in Publishers, Start(p) PROVE UNCHANGED Promise!vars
  BY <1>8 DEF Start, Promise!vars
<1>9. ASSUME NEW p \in Publishers, NEW e \in Events, Reject(p, e) PROVE Promise!Refuse(e) \/ UNCHANGED Promise!vars
  <2>1. CASE row[e] = "publishing"
    BY <1>9, <2>1 DEF Reject, Honest, Settle, Owned, Promise!Refuse
  <2>2. CASE row[e] # "publishing"
    <3>1. UNCHANGED row
      BY <1>9, <2>2 DEF Reject, Settle, Owned
    <3> QED
      BY <1>9, <3>1 DEF Reject, Promise!vars
  <2> QED
    BY <2>1, <2>2
<1>10. ASSUME NEW p \in Publishers, NEW e \in Events, Add(p, e) PROVE Promise!HandOver(e)
  BY <1>10 DEF Add, Current, Accepted, Honest, Held, Promise!HandOver
<1>11. ASSUME NEW p \in Publishers, NEW e \in Events, AddFails(p, e) PROVE Promise!HandOver(e) \/ UNCHANGED Promise!vars
  <2>1. CASE UNCHANGED deliveries
    BY <1>11, <2>1 DEF AddFails, Promise!vars
  <2>2. CASE deliveries' = [deliveries EXCEPT ![e] = @ + 1]
    BY <1>11, <2>2 DEF AddFails, Current, Accepted, Honest, Held, Promise!HandOver
  <2> QED
    BY <1>11, <2>1, <2>2 DEF AddFails
<1>12. ASSUME NEW p \in Publishers, NEW e \in Events, Confirm(p, e) PROVE Promise!Confirm(e) \/ UNCHANGED Promise!vars
  <2>1. CASE row[e] = "publishing"
    BY <1>12, <2>1 DEF Confirm, Honest, Settle, Owned, Promise!Confirm
  <2>2. CASE row[e] # "publishing"
    <3>1. UNCHANGED row
      BY <1>12, <2>2 DEF Confirm, Settle, Owned
    <3> QED
      BY <1>12, <3>1 DEF Confirm, Promise!vars
  <2> QED
    BY <2>1, <2>2
<1>13. ASSUME NEW p \in Publishers, NEW e \in Events, ConfirmFails(p, e) PROVE Promise!Confirm(e) \/ UNCHANGED Promise!vars
  <2>1. CASE UNCHANGED row
    BY <1>13, <2>1 DEF ConfirmFails, Promise!vars
  <2>2. CASE Settle(e, "published") /\ row[e] # "publishing"
    <3>1. UNCHANGED row
      BY <2>2 DEF Settle, Owned
    <3> QED
      BY <1>13, <3>1 DEF ConfirmFails, Promise!vars
  <2>3. CASE Settle(e, "published") /\ row[e] = "publishing"
    BY <1>13, <2>3 DEF ConfirmFails, Settle, Owned, Honest, Promise!Confirm
  <2> QED
    BY <1>13, <2>1, <2>2, <2>3 DEF ConfirmFails
<1>14. ASSUME NEW p \in Publishers, NEW e \in Events, Release(p, e) PROVE UNCHANGED Promise!vars
  BY <1>14 DEF Release, Current, Settle, Advance, LastEvent, Owned, Promise!vars
<1>15. CASE UNCHANGED vars
  BY <1>15 DEF vars, Promise!vars
<1> QED
  BY <1>1, <1>2, <1>3, <1>4, <1>5, <1>6, <1>7, <1>8, <1>9, <1>10, <1>11, <1>12, <1>13, <1>14, <1>15 DEF Next, TickStep, TickFault, Promise!Next

(* The outbox implements the safety half of EventPromise: at least once,     *)
(* confirmed only after the hand-over, invalid events refused, and both      *)
(* outcomes final.                                                          *)
THEOREM PromiseIsSafe == Spec => PromiseSafe
<1>1. Init => Promise!Init
  BY DEF Init, Promise!Init
<1>2. TypeOK /\ Honest /\ [Next]_vars => [Promise!Next]_(Promise!vars)
  BY NextPromise
<1> QED
  BY <1>1, <1>2, SpecSound, PTL DEF Spec, PromiseSafe

-----------------------------------------------------------------------------
(* The stages of the worker. *)

Less == {ss \in Nat \X Nat : ss[1] < ss[2]}
LEMMA LessWF == IsWellFoundedOn(Less, Nat)
BY NatLessThanWellFounded DEF OpToRel, Less
LEMMA SetInduction ==
  ASSUME NEW S, 0 \in S, \A n \in Nat : n \in S => n + 1 \in S
  PROVE  Nat \subseteq S
<1> SUFFICES ASSUME Nat \ S # {} PROVE FALSE
  OBVIOUS
<1>1. PICK x \in Nat \ S : \A y \in Nat \ S : ~ (<<y, x>> \in Less)
  <2>1. Nat \ S \subseteq Nat
    OBVIOUS
  <2> QED
    BY <2>1, LessWF, WFMin
<1>2. x # 0 /\ x - 1 \in Nat /\ <<x - 1, x>> \in Less
  BY <1>1 DEF Less
<1>3. x - 1 \in S
  BY <1>1, <1>2
<1>4. (x - 1) + 1 \in S
  BY <1>2, <1>3
<1> QED
  BY <1>1, <1>2, <1>4

LEMMA FirstExists ==
  ASSUME NEW S, S \subseteq Nat, S # {}
  PROVE  \E i \in S : \A j \in S : i <= j
<1>1. PICK i \in S : \A j \in S : ~ (<<j, i>> \in Less)
  BY LessWF, WFMin
<1>2. ASSUME NEW j \in S, j < i PROVE FALSE
  <2>1. j \in Nat /\ i \in Nat
    OBVIOUS
  <2>2. <<j, i>> \in Less
    BY <1>2, <2>1 DEF Less
  <2> QED
    BY <1>1, <2>2
<1>3. \A j \in S : j \in Nat /\ i \in Nat
  OBVIOUS
<1> QED
  BY <1>2, <1>3

LEMMA LastExists ==
  ASSUME NEW n \in Nat, NEW S, S \subseteq 0..n, S # {}
  PROVE  \E i \in S : \A j \in S : j <= i
<1> DEFINE T == {n - i : i \in S}
<1>1. T \subseteq Nat /\ T # {}
  <2>1. \A i \in S : i \in 0..n /\ n - i \in Nat
    OBVIOUS
  <2>2. PICK i \in S : TRUE
    OBVIOUS
  <2>3. n - i \in T
    OBVIOUS
  <2> QED
    BY <2>1, <2>3
<1>2. PICK t \in T : \A u \in T : t <= u
  BY <1>1, FirstExists
<1>3. PICK i \in S : t = n - i
  BY <1>2
<1>4. ASSUME NEW j \in S PROVE j <= i
  <2>1. n - j \in T
    OBVIOUS
  <2>2. t <= n - j /\ i \in 0..n /\ j \in 0..n
    BY <1>2, <2>1
  <2> QED
    BY <1>3, <2>2
<1> QED
  BY <1>4


-----------------------------------------------------------------------------
\* Ingest: recursion over the first numbers

(* G makes each value of a made in S from the one before it, and f is that made. *)
Makes(G, S, a, n) == n \in Nat /\ a \in S /\ G \in [S \X (1..n) -> S]
Made(f, G, S, a, n) == f \in [0..n -> S] /\ f[0] = a /\ \A i \in 1..n : f[i] = G[<<f[i - 1], i>>]

(* There is such a made. *)
LEMMA Recursion ==
  ASSUME NEW n, NEW S, NEW a, NEW G, Makes(G, S, a, n)
  PROVE  \E f : Made(f, G, S, a, n)
<1> USE DEF Makes, Made
<1> DEFINE Upto(m, f) == /\ f \in [0..m -> S] /\ f[0] = a
                         /\ \A i \in 1..m : f[i] = G[<<f[i - 1], i>>]
           Good == {m \in Nat : m <= n => \E f : Upto(m, f)}
<1>1. 0 \in Good
  <2> DEFINE z == [i \in 0..0 |-> a]
  <2>1. Upto(0, z)
    OBVIOUS
  <2> QED
    BY <2>1
<1>2. ASSUME NEW m \in Nat, m \in Good PROVE m + 1 \in Good
  <2> SUFFICES ASSUME m + 1 <= n PROVE \E f : Upto(m + 1, f)
    <3> HIDE DEF Upto
    <3>1. m + 1 \in Nat
      OBVIOUS
    <3> QED
      BY <3>1
  <2>1. PICK f : Upto(m, f)
    BY <1>2
  <2> DEFINE v == G[<<f[m], m + 1>>]
             g == [i \in 0..(m + 1) |-> IF i = m + 1 THEN v ELSE f[i]]
  <2>2. v \in S
    BY <2>1
  <2>3. g \in [0..(m + 1) -> S] /\ g[0] = a
    BY <2>1, <2>2
  <2>4. ASSUME NEW i \in 1..(m + 1) PROVE g[i] = G[<<g[i - 1], i>>]
    <3>1. i - 1 \in 0..(m + 1) /\ i - 1 # m + 1 /\ g[i - 1] = f[i - 1]
      OBVIOUS
    <3>2. CASE i = m + 1
      <4>1. i - 1 = m /\ g[i] = v
        BY <3>2
      <4> QED
        BY <3>1, <3>2, <4>1
    <3>3. CASE i # m + 1
      <4>1. i \in 1..m /\ g[i] = f[i]
        BY <3>3
      <4>2. f[i] = G[<<f[i - 1], i>>]
        BY <2>1, <4>1
      <4> QED
        BY <3>1, <4>1, <4>2
    <3> QED
      BY <3>2, <3>3
  <2>5. Upto(m + 1, g)
    BY <2>3, <2>4
  <2> QED
    BY <2>5
<1>3. Nat \subseteq Good
  <2> HIDE DEF Good
  <2> QED
    BY <1>1, <1>2, SetInduction
<1>4. n \in Good
  BY <1>3
<1> QED
  BY <1>4

(* And what is made that way as long as it is in S is in S all along. *)
LEMMA RowStays ==
  ASSUME NEW n, NEW S, NEW a, NEW G, Makes(G, S, a, n), NEW h, h = [i \in 0..n |-> h[i]],
         h[0] = a, \A i \in 1..n : h[i - 1] \in S => h[i] = G[<<h[i - 1], i>>]
  PROVE  Made(h, G, S, a, n)
<1> USE DEF Makes
<1> DEFINE Good == {m \in Nat : m <= n => h[m] \in S}
<1>1. 0 \in Good
  OBVIOUS
<1>2. ASSUME NEW m \in Nat, m \in Good PROVE m + 1 \in Good
  <2> SUFFICES ASSUME m + 1 <= n PROVE h[m + 1] \in S
    OBVIOUS
  <2>1. h[m] \in S /\ m + 1 \in 1..n /\ (m + 1) - 1 = m
    BY <1>2, SMTT(60)
  <2>2. h[m + 1] = G[<<h[m], m + 1>>]
    BY <2>1
  <2> QED
    BY <2>1, <2>2
<1>3. Nat \subseteq Good
  <2> HIDE DEF Good
  <2> QED
    BY <1>1, <1>2, SetInduction
<1>4. \A i \in 0..n : h[i] \in S
  BY <1>3
<1>5. h \in [0..n -> S]
  BY <1>4
<1>6. ASSUME NEW i \in 1..n PROVE h[i] = G[<<h[i - 1], i>>]
  <2>1. i - 1 \in 0..n
    OBVIOUS
  <2>2. h[i - 1] \in S
    BY <1>4, <2>1
  <2> QED
    BY <2>2
<1> QED
  BY <1>5, <1>6 DEF Made

-----------------------------------------------------------------------------
\* Ingest: folds over a sequence

(* Two rows made the same way for a while are the same for that while. *)
LEMMA RowsAgree ==
  ASSUME NEW n \in Nat, NEW m \in Nat, n <= m, NEW S, NEW a, NEW G, NEW H, NEW f, NEW g,
         Made(f, G, S, a, n), Made(g, H, S, a, m),
         \A i \in 1..n : \A x \in S : G[<<x, i>>] = H[<<x, i>>]
  PROVE  \A i \in 0..n : f[i] = g[i]
<1> DEFINE Good == {k \in Nat : k <= n => f[k] = g[k]}
<1>1. 0 \in Good
  BY DEF Made
<1>2. ASSUME NEW k \in Nat, k \in Good PROVE k + 1 \in Good
  <2> SUFFICES ASSUME k + 1 <= n PROVE f[k + 1] = g[k + 1]
    OBVIOUS
  <2>1. k + 1 \in 1..n /\ k + 1 \in 1..m /\ (k + 1) - 1 = k /\ f[k] = g[k] /\ k \in 0..n
    BY <1>2
  <2>2. f[k] \in S
    BY <2>1 DEF Made
  <2>3. f[k + 1] = G[<<f[k], k + 1>>] /\ g[k + 1] = H[<<g[k], k + 1>>]
    BY <2>1 DEF Made
  <2> QED
    BY <2>1, <2>2, <2>3
<1>3. Nat \subseteq Good
  <2> HIDE DEF Good
  <2> QED
    BY <1>1, <1>2, SetInduction
<1> QED
  BY <1>3

(* F takes a value of S and an element of T to a value of S. *)
Folds(F, S, T, a) == a \in S /\ F \in [S \X T -> S]
FoldRow(f, F, S, a, s) ==
  /\ f \in [0..Len(s) -> S] /\ f[0] = a
  /\ \A i \in 1..Len(s) : f[i] = F[<<f[i - 1], s[i]>>]
FoldOver(F, S, a, s) == CHOOSE v : \E f : FoldRow(f, F, S, a, s) /\ v = f[Len(s)]

Steps(G, F, S, s) == \A i \in 1..Len(s) : \A x \in S : G[<<x, i>>] = F[<<x, s[i]>>]

LEMMA FoldGives ==
  ASSUME NEW S, NEW T, NEW F, NEW a, Folds(F, S, T, a), NEW s \in Seq(T)
  PROVE  \E G : Makes(G, S, a, Len(s)) /\ Steps(G, F, S, s)
<1> DEFINE G == [x \in S \X (1..Len(s)) |-> F[<<x[1], s[x[2]]>>]]
<1>1. Steps(G, F, S, s)
  BY DEF Steps
<1>2. \A x \in S, i \in 1..Len(s) : F[<<x, s[i]>>] \in S
  BY DEF Folds
<1>3. G \in [S \X (1..Len(s)) -> S]
  BY <1>2
<1>4. a \in S /\ Len(s) \in Nat
  BY DEF Folds
<1>5. Makes(G, S, a, Len(s))
  BY <1>3, <1>4 DEF Makes
<1> HIDE DEF G
<1> QED
  BY <1>1, <1>5

LEMMA FoldRowExists ==
  ASSUME NEW S, NEW T, NEW F, NEW a, Folds(F, S, T, a), NEW s \in Seq(T)
  PROVE  \E f : FoldRow(f, F, S, a, s)
<1>1. PICK G : Makes(G, S, a, Len(s)) /\ Steps(G, F, S, s)
  BY FoldGives
<1>2. PICK f : Made(f, G, S, a, Len(s))
  BY <1>1, Recursion
<1>3. Len(s) \in Nat
  OBVIOUS
<1>4. f \in [0..Len(s) -> S] /\ f[0] = a /\ \A i \in 1..Len(s) : f[i] = G[<<f[i - 1], i>>]
  BY <1>2 DEF Made
<1>5. \A i \in 1..Len(s) : f[i - 1] \in S
  BY <1>3, <1>4
<1>6. \A i \in 1..Len(s) : f[i] = F[<<f[i - 1], s[i]>>]
  BY <1>1, <1>4, <1>5 DEF Steps
<1>7. FoldRow(f, F, S, a, s)
  BY <1>4, <1>6 DEF FoldRow
<1> QED
  BY <1>7

LEMMA FoldRowsAgree ==
  ASSUME NEW S, NEW T, NEW F, NEW a, Folds(F, S, T, a), NEW s \in Seq(T), NEW t \in Seq(T),
         Len(s) <= Len(t), \A i \in 1..Len(s) : s[i] = t[i],
         NEW f, NEW g, FoldRow(f, F, S, a, s), FoldRow(g, F, S, a, t)
  PROVE  f[Len(s)] = g[Len(s)]
<1>1. PICK G : Makes(G, S, a, Len(s)) /\ Steps(G, F, S, s)
  BY FoldGives
<1>2. PICK H : Makes(H, S, a, Len(t)) /\ Steps(H, F, S, t)
  BY FoldGives
<1>3. Len(s) \in Nat /\ Len(t) \in Nat
  OBVIOUS
<1>4. (\A i \in 1..Len(s) : f[i - 1] \in S) /\ (\A i \in 1..Len(t) : g[i - 1] \in S)
  <2>1. f \in [0..Len(s) -> S] /\ g \in [0..Len(t) -> S]
    BY DEF FoldRow
  <2>2. (\A i \in 1..Len(s) : i - 1 \in 0..Len(s)) /\ (\A i \in 1..Len(t) : i - 1 \in 0..Len(t))
    BY <1>3
  <2> QED
    BY <2>1, <2>2
<1>5. Made(f, G, S, a, Len(s)) /\ Made(g, H, S, a, Len(t))
  <2>1. \A i \in 1..Len(s) : f[i] = G[<<f[i - 1], i>>]
    BY <1>1, <1>4 DEF FoldRow, Steps
  <2>2. \A i \in 1..Len(t) : g[i] = H[<<g[i - 1], i>>]
    BY <1>2, <1>4 DEF FoldRow, Steps
  <2> QED
    BY <2>1, <2>2 DEF FoldRow, Made
<1>6. \A i \in 1..Len(s) : \A x \in S : G[<<x, i>>] = H[<<x, i>>]
  <2>1. \A i \in 1..Len(s) : i \in 1..Len(t) /\ s[i] = t[i]
    BY <1>3
  <2> TAKE i \in 1..Len(s)
  <2>2. i \in 1..Len(t) /\ s[i] = t[i]
    BY <2>1
  <2>3. \A x \in S : G[<<x, i>>] = F[<<x, s[i]>>]
    BY <1>1 DEF Steps
  <2>4. \A x \in S : H[<<x, i>>] = F[<<x, t[i]>>]
    BY <1>2, <2>2 DEF Steps
  <2> QED
    BY <2>2, <2>3, <2>4
<1>7. \A i \in 0..Len(s) : f[i] = g[i]
  <2> DEFINE n == Len(s)
             m == Len(t)
  <2>1. /\ n \in Nat /\ m \in Nat /\ n <= m /\ Made(f, G, S, a, n) /\ Made(g, H, S, a, m)
        /\ \A i \in 1..n : \A x \in S : G[<<x, i>>] = H[<<x, i>>]
    BY <1>3, <1>5, <1>6
  <2> HIDE DEF n, m
  <2>2. \A i \in 0..n : f[i] = g[i]
    BY ONLY <2>1, RowsAgree
  <2> QED
    BY <2>2 DEF n
<1> QED
  BY <1>3, <1>7

LEMMA FoldLast ==
  ASSUME NEW S, NEW T, NEW F, NEW a, Folds(F, S, T, a), NEW s \in Seq(T), NEW f, FoldRow(f, F, S, a, s)
  PROVE  FoldOver(F, S, a, s) = f[Len(s)]
<1> DEFINE v == FoldOver(F, S, a, s)
<1>1. \E w : \E g : FoldRow(g, F, S, a, s) /\ w = g[Len(s)]
  OBVIOUS
<1>2. PICK g : FoldRow(g, F, S, a, s) /\ v = g[Len(s)]
  BY <1>1 DEF FoldOver
<1>3. Len(s) <= Len(s)
  OBVIOUS
<1>4. f[Len(s)] = g[Len(s)]
  BY <1>2, <1>3, FoldRowsAgree
<1> QED
  BY <1>2, <1>4

LEMMA FoldType ==
  ASSUME NEW S, NEW T, NEW F, NEW a, Folds(F, S, T, a), NEW s \in Seq(T)
  PROVE  FoldOver(F, S, a, s) \in S
<1>1. PICK f : FoldRow(f, F, S, a, s)
  BY FoldRowExists
<1>2. f[Len(s)] \in S
  BY <1>1 DEF FoldRow
<1> QED
  BY <1>1, <1>2, FoldLast

LEMMA FoldEmpty ==
  ASSUME NEW S, NEW T, NEW F, NEW a, Folds(F, S, T, a)
  PROVE  FoldOver(F, S, a, <<>>) = a
<1> SUFFICES ASSUME NEW e, e = <<>> PROVE FoldOver(F, S, a, e) = a
  OBVIOUS
<1>1. e \in Seq(T)
  OBVIOUS
<1>5. Len(e) = 0
  OBVIOUS
<1>2. PICK f : FoldRow(f, F, S, a, e)
  BY <1>1, FoldRowExists
<1>3. f[0] = a
  BY <1>2 DEF FoldRow
<1>4. FoldOver(F, S, a, e) = f[Len(e)]
  BY ONLY Folds(F, S, T, a), <1>1, <1>2, FoldLast
<1> QED
  BY <1>3, <1>4, <1>5

LEMMA FoldAppend ==
  ASSUME NEW S, NEW T, NEW F, NEW a, Folds(F, S, T, a), NEW s \in Seq(T), NEW x \in T
  PROVE  FoldOver(F, S, a, Append(s, x)) = F[<<FoldOver(F, S, a, s), x>>]
<1> DEFINE t == Append(s, x)
<1>1. /\ t \in Seq(T) /\ Len(t) = Len(s) + 1 /\ Len(s) \in Nat
      /\ t[Len(s) + 1] = x /\ \A i \in 1..Len(s) : s[i] = t[i]
  OBVIOUS
<1>2. PICK f : FoldRow(f, F, S, a, s)
  BY FoldRowExists
<1> HIDE DEF t
<1>3. PICK g : FoldRow(g, F, S, a, t)
  BY <1>1, FoldRowExists
<1>4. Len(s) <= Len(t)
  BY <1>1
<1>5. f[Len(s)] = g[Len(s)]
  BY <1>1, <1>2, <1>3, <1>4, FoldRowsAgree
<1>6. g[Len(t)] = F[<<g[Len(t) - 1], t[Len(t)]>>]
  BY <1>1, <1>3 DEF FoldRow
<1>7. FoldOver(F, S, a, s) = f[Len(s)]
  BY <1>2, FoldLast
<1>8. FoldOver(F, S, a, t) = g[Len(t)]
  BY <1>1, <1>3, FoldLast
<1> QED
  BY <1>1, <1>5, <1>6, <1>7, <1>8 DEF t

RunsAs(h, F, S, a, s) ==
  /\ h = [i \in 0..Len(s) |-> h[i]] /\ h[0] = a
  /\ \A i \in 1..Len(s) : h[i - 1] \in S => h[i] = F[<<h[i - 1], s[i]>>]

(* A function that obeys the equations of a fold is it. *)
LEMMA FoldIs ==
  ASSUME NEW S, NEW T, NEW F, NEW a, Folds(F, S, T, a), NEW s \in Seq(T),
         NEW h, RunsAs(h, F, S, a, s)
  PROVE  FoldRow(h, F, S, a, s) /\ FoldOver(F, S, a, s) = h[Len(s)]
<1>1. PICK G : Makes(G, S, a, Len(s)) /\ Steps(G, F, S, s)
  BY FoldGives
<1>2. \A i \in 1..Len(s) : h[i - 1] \in S => h[i] = G[<<h[i - 1], i>>]
  BY <1>1 DEF Steps, RunsAs
<1>3. Made(h, G, S, a, Len(s))
  <2> DEFINE n == Len(s)
  <2>1. Makes(G, S, a, n) /\ h = [i \in 0..n |-> h[i]] /\ \A i \in 1..n : h[i - 1] \in S => h[i] = G[<<h[i - 1], i>>]
    BY <1>1, <1>2 DEF RunsAs
  <2>3. h[0] = a
    BY DEF RunsAs
  <2> HIDE DEF n
  <2>2. Made(h, G, S, a, n)
    BY <2>1, <2>3, RowStays
  <2> QED
    BY <2>2 DEF n
<1>4. h \in [0..Len(s) -> S] /\ \A i \in 1..Len(s) : h[i] = G[<<h[i - 1], i>>]
  BY <1>3 DEF Made
<1>5. \A i \in 1..Len(s) : h[i - 1] \in S
  <2>1. Len(s) \in Nat
    OBVIOUS
  <2> QED
    BY <1>4, <2>1
<1>7. \A i \in 1..Len(s) : h[i] = F[<<h[i - 1], s[i]>>]
  BY <1>5 DEF RunsAs
<1>6. FoldRow(h, F, S, a, s)
  BY <1>4, <1>7 DEF FoldRow
<1> QED
  BY <1>6, FoldLast

(* What holds of the empty sequence and stays when an element is added holds of all. *)
LEMMA SeqInduction ==
  ASSUME NEW T, NEW P, <<>> \in P, \A s \in Seq(T), x \in T : s \in P => Append(s, x) \in P
  PROVE  Seq(T) \subseteq P
<1> DEFINE Good == {n \in Nat : \A s \in Seq(T) : Len(s) = n => s \in P}
<1>1. 0 \in Good
  <2>1. \A s \in Seq(T) : Len(s) = 0 => s = <<>>
    OBVIOUS
  <2> QED
    BY <2>1
<1>2. ASSUME NEW n \in Nat, n \in Good PROVE n + 1 \in Good
  <2> SUFFICES ASSUME NEW s \in Seq(T), Len(s) = n + 1 PROVE s \in P
    OBVIOUS
  <2> DEFINE f == SubSeq(s, 1, n)
  <2>1. f \in Seq(T) /\ Len(f) = n /\ s[n + 1] \in T
    OBVIOUS
  <2>2. s = Append(f, s[n + 1])
    OBVIOUS
  <2>3. f \in P
    BY <1>2, <2>1
  <2> HIDE DEF f
  <2> QED
    BY <2>1, <2>2, <2>3
<1>3. Nat \subseteq Good
  <2> HIDE DEF Good
  <2> QED
    BY <1>1, <1>2, SetInduction
<1>4. \A s \in Seq(T) : Len(s) \in Nat
  OBVIOUS
<1> QED
  BY <1>3, <1>4

-----------------------------------------------------------------------------
\* Ingest: sums and joined sequences

Plus == [x \in Nat \X Nat |-> x[1] + x[2]]

LEMMA PlusFolds ==
  /\ Folds(Plus, Nat, Nat, 0)
  /\ \A a, b \in Nat : Plus[<<a, b>>] = a + b
<1>1. \A a, b \in Nat : Plus[<<a, b>>] = a + b
  BY DEF Plus
<1>2. Plus \in [Nat \X Nat -> Nat]
  BY DEF Plus
<1> QED
  BY <1>1, <1>2 DEF Folds

LEMMA SumIs ==
  ASSUME NEW s \in Seq(Nat)
  PROVE  SumOver(s) = FoldOver(Plus, Nat, 0, s)
<1> DEFINE n == Len(s)
           Filled(f) == [i \in 0..n |-> IF i = 0 THEN 0 ELSE f[i - 1] + s[i]]
           sum == CHOOSE f : f = Filled(f)
<1>1. SumOver(s) = sum[n]
  BY DEF SumOver
<1>2. PICK f : FoldRow(f, Plus, Nat, 0, s)
  BY PlusFolds, FoldRowExists
<1>3. \A i \in 1..n : s[i] \in Nat /\ i - 1 \in 0..n
  OBVIOUS
<1>4. \A i \in 1..n : f[i] = f[i - 1] + s[i]
  <2>1. \A i \in 1..n : f[i - 1] \in Nat
    BY <1>2, <1>3 DEF FoldRow
  <2> QED
    BY <1>2, <1>3, <2>1, PlusFolds DEF FoldRow
<1>5. f = Filled(f)
  <2>1. \A i \in 0..n : f[i] = IF i = 0 THEN 0 ELSE f[i - 1] + s[i]
    BY <1>2, <1>4 DEF FoldRow
  <2>2. f = [i \in 0..n |-> f[i]]
    BY <1>2 DEF FoldRow
  <2> QED
    BY <2>1, <2>2
<1> HIDE DEF Filled
<1>6. sum = Filled(sum)
  BY <1>5
<1> HIDE DEF sum
<1>7. sum = [i \in 0..n |-> IF i = 0 THEN 0 ELSE sum[i - 1] + s[i]]
  BY <1>6 DEF Filled
<1>8. /\ sum = [i \in 0..n |-> sum[i]] /\ sum[0] = 0
      /\ \A i \in 1..n : sum[i] = sum[i - 1] + s[i]
  <2>1. \A i \in 0..n : sum[i] = IF i = 0 THEN 0 ELSE sum[i - 1] + s[i]
    BY <1>7
  <2>2. sum = [i \in 0..n |-> sum[i]]
    BY <1>7
  <2>3. sum[0] = 0
    BY <2>1
  <2>4. \A i \in 1..n : sum[i] = sum[i - 1] + s[i]
    BY <2>1
  <2> QED
    BY <2>2, <2>3, <2>4
<1>9. RunsAs(sum, Plus, Nat, 0, s)
  BY <1>3, <1>8, PlusFolds DEF RunsAs
<1>10. FoldOver(Plus, Nat, 0, s) = sum[Len(s)]
  BY <1>9, PlusFolds, FoldIs
<1> QED
  BY <1>1, <1>10

LEMMA SumOf ==
  /\ SumOver(<<>>) = 0
  /\ \A s \in Seq(Nat) : SumOver(s) \in Nat
  /\ \A s \in Seq(Nat), x \in Nat : SumOver(Append(s, x)) = SumOver(s) + x
<1>1. <<>> \in Seq(Nat)
  OBVIOUS
<1>2. SumOver(<<>>) = 0
  <2>1. SumOver(<<>>) = FoldOver(Plus, Nat, 0, <<>>)
    BY <1>1, SumIs
  <2> QED
    BY <2>1, PlusFolds, FoldEmpty
<1>3. ASSUME NEW s \in Seq(Nat) PROVE SumOver(s) \in Nat
  BY SumIs, FoldType, PlusFolds
<1>4. ASSUME NEW s \in Seq(Nat), NEW x \in Nat PROVE SumOver(Append(s, x)) = SumOver(s) + x
  <2>1. Append(s, x) \in Seq(Nat)
    OBVIOUS
  <2>2. SumOver(Append(s, x)) = FoldOver(Plus, Nat, 0, Append(s, x))
    BY <2>1, SumIs
  <2>3. FoldOver(Plus, Nat, 0, Append(s, x)) = Plus[<<FoldOver(Plus, Nat, 0, s), x>>]
    BY PlusFolds, FoldAppend
  <2>4. FoldOver(Plus, Nat, 0, s) = SumOver(s) /\ SumOver(s) \in Nat
    BY <1>3, SumIs
  <2> QED
    BY <2>2, <2>3, <2>4, PlusFolds
<1> QED
  BY <1>2, <1>3, <1>4

LEMMA SumConcat ==
  ASSUME NEW s \in Seq(Nat), NEW t \in Seq(Nat)
  PROVE  SumOver(s \o t) = SumOver(s) + SumOver(t)
<1> DEFINE P == {u \in Seq(Nat) : SumOver(s \o u) = SumOver(s) + SumOver(u)}
<1>1. <<>> \in P
  <2>1. s \o <<>> = s /\ <<>> \in Seq(Nat)
    OBVIOUS
  <2> QED
    BY <2>1, SumOf
<1>2. ASSUME NEW u \in Seq(Nat), NEW x \in Nat, u \in P PROVE Append(u, x) \in P
  <2>1. s \o Append(u, x) = Append(s \o u, x) /\ s \o u \in Seq(Nat) /\ Append(u, x) \in Seq(Nat)
    OBVIOUS
  <2>2. SumOver(s \o Append(u, x)) = SumOver(s \o u) + x /\ SumOver(Append(u, x)) = SumOver(u) + x
    BY <2>1, SumOf
  <2>3. SumOver(s) \in Nat /\ SumOver(u) \in Nat
    BY SumOf
  <2> QED
    <3>1. SumOver(s \o u) = SumOver(s) + SumOver(u)
      BY <1>2
    <3>2. SumOver(s \o Append(u, x)) = SumOver(s) + SumOver(Append(u, x))
      BY <2>2, <2>3, <3>1
    <3> QED
      BY <2>1, <3>2
<1>3. Seq(Nat) \subseteq P
  <2> HIDE DEF P
  <2> QED
    BY <1>1, <1>2, SeqInduction
<1> QED
  BY <1>3

Joins(T) == [x \in Seq(T) \X Seq(T) |-> x[1] \o x[2]]

LEMMA JoinsFolds ==
  ASSUME NEW T
  PROVE  /\ Folds(Joins(T), Seq(T), Seq(T), <<>>)
         /\ \A a, b \in Seq(T) : Joins(T)[<<a, b>>] = a \o b
<1>1. \A a, b \in Seq(T) : Joins(T)[<<a, b>>] = a \o b
  BY DEF Joins
<1>2. Joins(T) \in [Seq(T) \X Seq(T) -> Seq(T)]
  BY DEF Joins
<1>3. <<>> \in Seq(T)
  OBVIOUS
<1>4. Folds(Joins(T), Seq(T), Seq(T), <<>>)
  BY <1>2, <1>3 DEF Folds
<1> HIDE DEF Joins
<1> QED
  BY <1>1, <1>4

LEMMA FlattenIs ==
  ASSUME NEW T, NEW s \in Seq(Seq(T))
  PROVE  Flatten(s) = FoldOver(Joins(T), Seq(T), <<>>, s)
<1> DEFINE n == Len(s)
           Filled(f) == [i \in 0..n |-> IF i = 0 THEN <<>> ELSE f[i - 1] \o s[i]]
           join == CHOOSE f : f = Filled(f)
<1>1. Flatten(s) = join[n]
  BY DEF Flatten
<1>2. PICK f : FoldRow(f, Joins(T), Seq(T), <<>>, s)
  BY JoinsFolds, FoldRowExists
<1>3. \A i \in 1..n : s[i] \in Seq(T) /\ i - 1 \in 0..n
  OBVIOUS
<1>4. \A i \in 1..n : f[i] = f[i - 1] \o s[i]
  <2>1. \A i \in 1..n : f[i - 1] \in Seq(T)
    BY <1>2, <1>3 DEF FoldRow
  <2> QED
    BY <1>2, <1>3, <2>1, JoinsFolds, ZenonT(60) DEF FoldRow
<1>5. f = Filled(f)
  <2>1. \A i \in 0..n : f[i] = IF i = 0 THEN <<>> ELSE f[i - 1] \o s[i]
    <3> TAKE i \in 0..n
    <3>1. CASE i = 0
      BY <1>2, <3>1 DEF FoldRow
    <3>2. CASE i # 0
      <4>1. i \in 1..n
        BY <3>2
      <4> QED
        BY <1>4, <3>2, <4>1
    <3> QED
      BY <3>1, <3>2
  <2>2. f = [i \in 0..n |-> f[i]]
    BY <1>2 DEF FoldRow
  <2> QED
    BY <2>1, <2>2
<1> HIDE DEF Filled
<1>6. join = Filled(join)
  BY <1>5
<1> HIDE DEF join
<1>7. join = [i \in 0..n |-> IF i = 0 THEN <<>> ELSE join[i - 1] \o s[i]]
  BY <1>6 DEF Filled
<1>8. /\ join = [i \in 0..n |-> join[i]] /\ join[0] = <<>>
      /\ \A i \in 1..n : join[i] = join[i - 1] \o s[i]
  <2>1. \A i \in 0..n : join[i] = IF i = 0 THEN <<>> ELSE join[i - 1] \o s[i]
    BY <1>7
  <2>2. join = [i \in 0..n |-> join[i]]
    BY <1>7
  <2>3. join[0] = <<>>
    BY <2>1
  <2>4. \A i \in 1..n : join[i] = join[i - 1] \o s[i]
    <3> TAKE i \in 1..n
    <3>1. i \in 0..n /\ i # 0
      OBVIOUS
    <3> QED
      BY <2>1, <3>1
  <2> QED
    BY <2>2, <2>3, <2>4
<1>11. \A i \in 1..Len(s) : join[i - 1] \in Seq(T) => join[i] = Joins(T)[<<join[i - 1], s[i]>>]
  <2> TAKE i \in 1..Len(s)
  <2>1. s[i] \in Seq(T) /\ join[i] = join[i - 1] \o s[i]
    BY <1>3, <1>8
  <2> QED
    BY <2>1, JoinsFolds
<1>9. RunsAs(join, Joins(T), Seq(T), <<>>, s)
  BY <1>8, <1>11 DEF RunsAs
<1>10. FoldOver(Joins(T), Seq(T), <<>>, s) = join[Len(s)]
  BY <1>9, JoinsFolds, FoldIs
<1> QED
  BY <1>1, <1>10

LEMMA FlattenEmpty == Flatten(<<>>) = <<>>
<1> DEFINE T == {}
<1>1. <<>> \in Seq(Seq(T))
  OBVIOUS
<1> HIDE DEF T
<1>2. Flatten(<<>>) = FoldOver(Joins(T), Seq(T), <<>>, <<>>)
  BY <1>1, FlattenIs
<1> QED
  BY <1>2, JoinsFolds, FoldEmpty

LEMMA FlattenType ==
  ASSUME NEW T, NEW s \in Seq(Seq(T))
  PROVE  Flatten(s) \in Seq(T)
BY FlattenIs, FoldType, JoinsFolds

LEMMA FlattenAppend ==
  ASSUME NEW T, NEW s \in Seq(Seq(T)), NEW x \in Seq(T)
  PROVE  Flatten(Append(s, x)) = Flatten(s) \o x
<1>1. Append(s, x) \in Seq(Seq(T))
  OBVIOUS
<1>2. Flatten(Append(s, x)) = FoldOver(Joins(T), Seq(T), <<>>, Append(s, x))
  BY <1>1, FlattenIs
<1>3. FoldOver(Joins(T), Seq(T), <<>>, Append(s, x)) = Joins(T)[<<FoldOver(Joins(T), Seq(T), <<>>, s), x>>]
  BY JoinsFolds, FoldAppend
<1>4. FoldOver(Joins(T), Seq(T), <<>>, s) = Flatten(s) /\ Flatten(s) \in Seq(T)
  BY FlattenIs, FlattenType
<1> QED
  BY <1>2, <1>3, <1>4, JoinsFolds, ZenonT(60)

LEMMA FlattenOne ==
  ASSUME NEW T, NEW x \in Seq(T)
  PROVE  Flatten(<<x>>) = x
<1>1. <<>> \in Seq(Seq(T)) /\ <<x>> = Append(<<>>, x) /\ <<>> \o x = x
  OBVIOUS
<1> QED
  BY <1>1, FlattenEmpty, FlattenAppend

LEMMA FlattenConcat ==
  ASSUME NEW T, NEW s \in Seq(Seq(T)), NEW t \in Seq(Seq(T))
  PROVE  Flatten(s \o t) = Flatten(s) \o Flatten(t)
<1> DEFINE P == {u \in Seq(Seq(T)) : Flatten(s \o u) = Flatten(s) \o Flatten(u)}
<1>1. <<>> \in P
  <2>1. s \o <<>> = s /\ <<>> \in Seq(Seq(T)) /\ Flatten(s) \in Seq(T)
    BY FlattenType
  <2>2. Flatten(s) \o <<>> = Flatten(s)
    BY <2>1
  <2> QED
    BY <2>1, <2>2, FlattenEmpty
<1>2. ASSUME NEW u \in Seq(Seq(T)), NEW x \in Seq(T), u \in P PROVE Append(u, x) \in P
  <2>1. s \o Append(u, x) = Append(s \o u, x) /\ s \o u \in Seq(Seq(T)) /\ Append(u, x) \in Seq(Seq(T))
    BY SMTT(60)
  <2>2. Flatten(s \o Append(u, x)) = Flatten(s \o u) \o x /\ Flatten(Append(u, x)) = Flatten(u) \o x
    BY <2>1, FlattenAppend
  <2>3. Flatten(s) \in Seq(T) /\ Flatten(u) \in Seq(T)
    BY FlattenType
  <2>4. (Flatten(s) \o Flatten(u)) \o x = Flatten(s) \o (Flatten(u) \o x)
    <3> DEFINE p == Flatten(s)
               q == Flatten(u)
    <3>1. p \in Seq(T) /\ q \in Seq(T) /\ x \in Seq(T)
      BY <2>3
    <3> HIDE DEF p, q
    <3>2. (p \o q) \o x = p \o (q \o x)
      BY ONLY <3>1, ConcatAssociative, SMTT(60)
    <3> QED
      BY <3>2 DEF p, q
  <2>5. Flatten(s \o u) = Flatten(s) \o Flatten(u)
    BY <1>2
  <2>6. Flatten(s \o Append(u, x)) = Flatten(s) \o Flatten(Append(u, x))
    BY <2>2, <2>4, <2>5
  <2> QED
    BY <2>1, <2>6
<1>3. Seq(Seq(T)) \subseteq P
  <2> HIDE DEF P
  <2> QED
    BY <1>1, <1>2, SeqInduction
<1> QED
  BY <1>3

-----------------------------------------------------------------------------
\* Ingest: vectors and groups

Regroups(a, b, c) == (a \o b) \o c = a \o (b \o c)

LEMMA Regroup ==
  ASSUME NEW T, NEW a \in Seq(T), NEW b \in Seq(T), NEW c \in Seq(T)
  PROVE  Regroups(a, b, c)
BY ConcatAssociative, SMTT(60) DEF Regroups

(* Adding to the last of several sequences adds to what they are together. *)
LEMMA FlattenGrows ==
  ASSUME NEW T, NEW s \in Seq(Seq(T)), s # <<>>, NEW y \in Seq(T)
  PROVE  Flatten([s EXCEPT ![Len(s)] = @ \o y]) = Flatten(s) \o y
<1> DEFINE n == Len(s)
           f == SubSeq(s, 1, n - 1)
           t == [s EXCEPT ![n] = @ \o y]
<1>1. n \in Nat /\ n > 0 /\ n \in 1..n /\ s[n] \in Seq(T)
  OBVIOUS
<1>2. f \in Seq(Seq(T)) /\ Len(f) = n - 1 /\ \A i \in 1..(n - 1) : f[i] = s[i]
  <2> HIDE DEF n
  <2>1. n = Len(s)
    BY DEF n
  <2> QED
    BY <1>1, <2>1
<1>3. s = Append(f, s[n])
  BY <1>1, <1>2, SMTT(60)
<1>4. t = Append(f, s[n] \o y)
  BY <1>1, <1>2, SMTT(60)
<1>5. s[n] \o y \in Seq(T)
  BY <1>1
<1>6. Flatten(f) \in Seq(T)
  BY <1>2, FlattenType
<1> HIDE DEF f, t, n
<1>7. Flatten(s) = Flatten(f) \o s[n] /\ Flatten(t) = Flatten(f) \o (s[n] \o y)
  BY <1>1, <1>2, <1>3, <1>4, <1>5, FlattenAppend
<1>8. Flatten(t) = Flatten(s) \o y
  <2>1. (Flatten(f) \o s[n]) \o y = Flatten(f) \o (s[n] \o y)
    <3>1. Regroups(Flatten(f), s[n], y)
      BY <1>1, <1>6, Regroup
    <3> QED
      BY <3>1 DEF Regroups
  <2> QED
    BY <1>7, <2>1
<1> QED
  BY <1>8 DEF t, n

LEMMA AppendJoins ==
  ASSUME NEW T, NEW s \in Seq(T), NEW x \in T
  PROVE  Append(s, x) = s \o <<x>> /\ <<x>> \in Seq(T)
OBVIOUS

(* What the groups need of the chunks, whatever is in their texts. *)
Stored ==
  /\ Len(chunks) \in Nat /\ DOMAIN chunks = 1..Len(chunks)
  /\ \A i \in 1..Len(chunks) : chunks[i].tokenCount \in Nat

Numbers == 1..Len(chunks)
Counts(cs) == [i \in DOMAIN cs |-> chunks[cs[i]].tokenCount]

LEMMA CountsAppend ==
  ASSUME Stored, NEW cs \in Seq(Numbers), NEW i \in Numbers
  PROVE  /\ Counts(cs) \in Seq(Nat)
         /\ Counts(Append(cs, i)) = Append(Counts(cs), chunks[i].tokenCount)
<1>1. \A k \in 1..Len(cs) : cs[k] \in Numbers
  OBVIOUS
<1>2. DOMAIN cs = 1..Len(cs) /\ Len(cs) \in Nat
  OBVIOUS
<1>3. \A k \in 1..Len(cs) : chunks[cs[k]].tokenCount \in Nat
  BY <1>1 DEF Stored, Numbers
<1>4. Counts(cs) = [k \in 1..Len(cs) |-> chunks[cs[k]].tokenCount]
  BY <1>2 DEF Counts
<1>5. Counts(cs) \in Seq(Nat) /\ Len(Counts(cs)) = Len(cs)
  BY <1>2, <1>3, <1>4
<1> DEFINE t == Append(cs, i)
<1>6. DOMAIN t = 1..(Len(cs) + 1) /\ t[Len(cs) + 1] = i /\ \A k \in 1..Len(cs) : t[k] = cs[k]
  BY <1>2
<1> HIDE DEF t
<1>7. Counts(t) = [k \in 1..(Len(cs) + 1) |-> chunks[t[k]].tokenCount]
  BY <1>6 DEF Counts
<1>8. Counts(t) = Append(Counts(cs), chunks[i].tokenCount)
  BY <1>2, <1>4, <1>5, <1>6, <1>7
<1> QED
  BY <1>5, <1>8 DEF t

LEMMA TokensAppend ==
  ASSUME Stored, NEW cs \in Seq(Numbers), NEW i \in Numbers
  PROVE  Tokens(cs) \in Nat /\ Tokens(Append(cs, i)) = Tokens(cs) + chunks[i].tokenCount
<1>1. Tokens(cs) = SumOver(Counts(cs)) /\ Tokens(Append(cs, i)) = SumOver(Counts(Append(cs, i)))
  BY DEF Tokens, Counts
<1>2. chunks[i].tokenCount \in Nat
  BY DEF Stored, Numbers
<1>3. Counts(cs) \in Seq(Nat) /\ Counts(Append(cs, i)) = Append(Counts(cs), chunks[i].tokenCount)
  BY CountsAppend
<1> QED
  BY <1>1, <1>2, <1>3, SumOf

(* A group: of one section, and within the budget or of one chunk. *)
OneGroup(g) ==
  /\ g # <<>>
  /\ \A i, j \in DOMAIN g : Section(g[i]) = Section(g[j])
  /\ Len(g) = 1 \/ Tokens(g) <= SectionTokens
GroupSet == {g \in Seq(Numbers) : OneGroup(g)}
Grouped(gs, i) ==
  IF Len(gs) > 0 /\ Fits(gs[Len(gs)], i)
  THEN [gs EXCEPT ![Len(gs)] = Append(@, i)]
  ELSE Append(gs, <<i>>)
Grouping == [x \in Seq(GroupSet) \X Numbers |-> Grouped(x[1], x[2])]

LEMMA FitsGroup ==
  ASSUME Stored, NEW g \in GroupSet, NEW i \in Numbers, Fits(g, i)
  PROVE  Append(g, i) \in GroupSet
<1>1. g \in Seq(Numbers) /\ g # <<>> /\ Len(g) \in Nat /\ Len(g) > 0 /\ Append(g, i) \in Seq(Numbers)
  BY DEF GroupSet, OneGroup
<1>2. \A j \in 1..Len(g) : Section(g[j]) = Section(i)
  BY <1>1 DEF GroupSet, OneGroup, Fits
<1> DEFINE t == Append(g, i)
<1>3. DOMAIN t = 1..(Len(g) + 1) /\ t[Len(g) + 1] = i /\ t # <<>> /\ \A k \in 1..Len(g) : t[k] = g[k]
  BY <1>1
<1> HIDE DEF t
<1>4. \A j \in DOMAIN t : Section(t[j]) = Section(i)
  BY <1>1, <1>2, <1>3
<1>5. Tokens(t) <= SectionTokens
  <2>1. Tokens(t) = Tokens(g) + chunks[i].tokenCount
    BY <1>1, TokensAppend DEF t
  <2> QED
    BY <2>1 DEF Fits
<1>6. OneGroup(t)
  BY <1>3, <1>4, <1>5 DEF OneGroup
<1> QED
  BY <1>1, <1>6 DEF GroupSet, t

LEMMA NewGroup ==
  ASSUME NEW i \in Numbers
  PROVE  <<i>> \in GroupSet
<1>1. <<i>> \in Seq(Numbers) /\ <<i>> # <<>> /\ Len(<<i>>) = 1 /\ DOMAIN <<i>> = 1..1
  OBVIOUS
<1>2. \A j, k \in 1..1 : Section(<<i>>[j]) = Section(<<i>>[k])
  <2>1. \A j \in 1..1 : <<i>>[j] = i
    OBVIOUS
  <2> QED
    BY <2>1
<1> QED
  BY <1>1, <1>2 DEF GroupSet, OneGroup

LEMMA GroupedStays ==
  ASSUME Stored, NEW gs \in Seq(GroupSet), NEW i \in Numbers
  PROVE  Grouped(gs, i) \in Seq(GroupSet) /\ Flatten(Grouped(gs, i)) = Append(Flatten(gs), i)
<1> DEFINE n == Len(gs)
<1>1. n \in Nat /\ GroupSet \subseteq Seq(Numbers) /\ <<i>> \in Seq(Numbers)
  BY DEF GroupSet
<1>2. gs \in Seq(Seq(Numbers))
  BY <1>1
<1>3. Flatten(gs) \in Seq(Numbers)
  BY <1>2, FlattenType
<1>4. Append(Flatten(gs), i) = Flatten(gs) \o <<i>>
  BY <1>3, AppendJoins
<1>5. CASE n > 0 /\ Fits(gs[n], i)
  <2>1. n \in 1..n /\ gs[n] \in GroupSet /\ gs # <<>>
    BY <1>1, <1>5
  <2>2. Append(gs[n], i) \in GroupSet /\ Append(gs[n], i) = gs[n] \o <<i>>
    BY <1>1, <1>5, <2>1, FitsGroup, AppendJoins
  <2>3. Grouped(gs, i) = [gs EXCEPT ![n] = Append(@, i)]
    BY <1>5 DEF Grouped
  <2>4. Grouped(gs, i) = [gs EXCEPT ![n] = @ \o <<i>>]
    BY <2>1, <2>2, <2>3
  <2>5. Grouped(gs, i) \in Seq(GroupSet)
    BY <2>1, <2>2, <2>3
  <2>6. Flatten(Grouped(gs, i)) = Flatten(gs) \o <<i>>
    BY <1>1, <1>2, <2>1, <2>4, FlattenGrows, ZenonT(60)
  <2> QED
    BY <1>4, <2>5, <2>6
<1>6. CASE ~(n > 0 /\ Fits(gs[n], i))
  <2>1. Grouped(gs, i) = Append(gs, <<i>>)
    BY <1>6 DEF Grouped
  <2>2. <<i>> \in GroupSet
    BY NewGroup
  <2>3. Flatten(Append(gs, <<i>>)) = Flatten(gs) \o <<i>>
    BY <1>1, <1>2, FlattenAppend
  <2>4. Append(gs, <<i>>) \in Seq(GroupSet)
    BY <2>2
  <2> QED
    BY <1>4, <2>1, <2>3, <2>4
<1> QED
  BY <1>5, <1>6

LEMMA GroupingFolds ==
  ASSUME Stored
  PROVE  Folds(Grouping, Seq(GroupSet), Numbers, <<>>)
<1>1. \A gs \in Seq(GroupSet), i \in Numbers : Grouped(gs, i) \in Seq(GroupSet)
  BY GroupedStays
<1>2. Grouping \in [Seq(GroupSet) \X Numbers -> Seq(GroupSet)]
  BY <1>1 DEF Grouping
<1>3. <<>> \in Seq(GroupSet)
  OBVIOUS
<1> QED
  BY <1>2, <1>3 DEF Folds

LEMMA AllIs ==
  ASSUME Stored
  PROVE  All \in Seq(Numbers) /\ Len(All) = Len(chunks) /\ \A i \in 1..Len(chunks) : All[i] = i
BY DEF Stored, All, Numbers

LEMMA GroupsFold ==
  ASSUME Stored
  PROVE  Groups = FoldOver(Grouping, Seq(GroupSet), <<>>, All)
<1> DEFINE n == Len(chunks)
           Step(gs, i) ==
               LET k == Len(gs)
               IN  IF k > 0 /\ Fits(gs[k], i) THEN [gs EXCEPT ![k] = Append(@, i)] ELSE Append(gs, <<i>>)
           Filled(f) == [i \in 0..n |-> IF i = 0 THEN <<>> ELSE Grouped(f[i - 1], i)]
           made == CHOOSE f : f = Filled(f)
<1>1. Groups = made[n]
  BY DEF Groups, Grouped
<1>2. n \in Nat /\ All \in Seq(Numbers) /\ Len(All) = n /\ \A i \in 1..n : All[i] = i /\ i \in Numbers
  BY AllIs DEF Stored, Numbers
<1>3. PICK f : FoldRow(f, Grouping, Seq(GroupSet), <<>>, All)
  BY <1>2, GroupingFolds, FoldRowExists
<1> HIDE DEF n
<1>4. f \in [0..n -> Seq(GroupSet)] /\ f[0] = <<>> /\ \A i \in 1..n : f[i] = Grouping[<<f[i - 1], All[i]>>]
  BY <1>2, <1>3 DEF FoldRow
<1>5. \A gs \in Seq(GroupSet), i \in Numbers : Grouping[<<gs, i>>] = Grouped(gs, i)
  BY DEF Grouping
<1>6. \A i \in 1..n : f[i] = Grouped(f[i - 1], i)
  <2> TAKE i \in 1..n
  <2>1. i - 1 \in 0..n
    BY <1>2
  <2>2. f[i - 1] \in Seq(GroupSet) /\ All[i] = i /\ i \in Numbers
    BY <1>2, <1>4, <2>1
  <2> QED
    BY <1>4, <1>5, <2>2
<1>7. f = Filled(f)
  <2>1. \A i \in 0..n : f[i] = IF i = 0 THEN <<>> ELSE Grouped(f[i - 1], i)
    <3> TAKE i \in 0..n
    <3>1. CASE i = 0
      BY <1>4, <3>1
    <3>2. CASE i # 0
      <4>1. i \in 1..n
        BY <1>2, <3>2
      <4> QED
        BY <1>6, <3>2, <4>1
    <3> QED
      BY <3>1, <3>2
  <2>2. f = [i \in 0..n |-> f[i]]
    BY <1>4
  <2> QED
    BY <2>1, <2>2
<1> HIDE DEF Filled
<1>8. made = Filled(made)
  BY <1>7
<1> HIDE DEF made
<1>9. made = [i \in 0..n |-> IF i = 0 THEN <<>> ELSE Grouped(made[i - 1], i)]
  BY <1>8 DEF Filled
<1>10. made = [i \in 0..n |-> made[i]]
  BY <1>9
<1>11. made[0] = <<>>
  BY <1>2, <1>9
<1>12. \A i \in 1..n : made[i] = Grouped(made[i - 1], i)
  <2> TAKE i \in 1..n
  <2>1. i \in 0..n /\ i # 0
    BY <1>2
  <2> QED
    BY <1>9, <2>1
<1>13. \A i \in 1..n : made[i - 1] \in Seq(GroupSet) => made[i] = Grouping[<<made[i - 1], All[i]>>]
  BY <1>2, <1>5, <1>12
<1>14. RunsAs(made, Grouping, Seq(GroupSet), <<>>, All)
  BY <1>2, <1>10, <1>11, <1>13 DEF RunsAs
<1>15. FoldOver(Grouping, Seq(GroupSet), <<>>, All) = made[Len(All)]
  BY <1>2, <1>14, GroupingFolds, FoldIs
<1> QED
  BY <1>1, <1>2, <1>15

LEMMA GroupsSound ==
  ASSUME Stored
  PROVE  Groups \in Seq(GroupSet) /\ Flatten(Groups) = All
<1> DEFINE P == {s \in Seq(Numbers) : Flatten(FoldOver(Grouping, Seq(GroupSet), <<>>, s)) = s}
<1>1. <<>> \in P
  <2>1. FoldOver(Grouping, Seq(GroupSet), <<>>, <<>>) = <<>> /\ <<>> \in Seq(Numbers)
    BY GroupingFolds, FoldEmpty
  <2> QED
    BY <2>1, FlattenEmpty
<1>2. ASSUME NEW s \in Seq(Numbers), NEW i \in Numbers, s \in P PROVE Append(s, i) \in P
  <2> DEFINE gs == FoldOver(Grouping, Seq(GroupSet), <<>>, s)
  <2>1. gs \in Seq(GroupSet)
    BY GroupingFolds, FoldType
  <2>2. FoldOver(Grouping, Seq(GroupSet), <<>>, Append(s, i)) = Grouping[<<gs, i>>]
    BY GroupingFolds, FoldAppend
  <2>3. Flatten(gs) = s
    BY <1>2
  <2> HIDE DEF gs
  <2>4. Grouping[<<gs, i>>] = Grouped(gs, i)
    BY <2>1 DEF Grouping
  <2>5. Flatten(Grouped(gs, i)) = Append(s, i)
    BY <2>1, <2>3, GroupedStays
  <2>6. Append(s, i) \in Seq(Numbers)
    OBVIOUS
  <2> QED
    BY <2>2, <2>4, <2>5, <2>6
<1>3. Seq(Numbers) \subseteq P
  <2> HIDE DEF P
  <2> QED
    BY <1>1, <1>2, SeqInduction
<1>4. All \in Seq(Numbers)
  BY AllIs
<1>5. FoldOver(Grouping, Seq(GroupSet), <<>>, All) \in Seq(GroupSet)
  BY <1>4, GroupingFolds, FoldType
<1> QED
  BY <1>3, <1>4, <1>5, GroupsFold

Returned(order, a, n) == [j \in 1..n |-> [index |-> order[j], chunk |-> a + order[j]]]

(* Every vector of a batch is put where its index says, whatever the order they come in. *)
LEMMA PlacedByIndex ==
  ASSUME NEW n \in Nat, NEW a \in Nat, NEW order \in [1..n -> 1..n],
         \A k \in 1..n : Placed(Returned(order, a, n), n)[k] # 0
  PROVE  Placed(Returned(order, a, n), n) = [k \in 1..n |-> a + k]
<1> DEFINE data == Returned(order, a, n)
<1>3. data = [j \in 1..n |-> [index |-> order[j], chunk |-> a + order[j]]]
  BY DEF Returned
<1>4. \A k \in 1..n : Placed(data, n)[k] # 0
  OBVIOUS
<1> HIDE DEF data
<1>1. ASSUME NEW k \in 1..n PROVE Placed(data, n)[k] = a + k
  <2> DEFINE from == {j \in 1..n : data[j].index = k}
             c == CHOOSE j \in from : \A i \in from : i <= j
  <2>1. Placed(data, n)[k] = IF from = {} THEN 0 ELSE data[c].chunk
    BY DEF Placed
  <2> HIDE DEF c
  <2>6. Placed(data, n)[k] # 0
    BY <1>4
  <2>7. from # {}
    BY <2>1, <2>6
  <2>9. \A j \in from : j \in 1..n
    OBVIOUS
  <2>2. from # {} /\ from \subseteq 0..n
    <3> HIDE DEF from
    <3> QED
      BY <2>7, <2>9
  <2>3. \E j \in from : \A i \in from : i <= j
    BY <2>2, LastExists
  <2>4. c \in from
    BY <2>3 DEF c
  <2>5. c \in 1..n /\ data[c].index = k
    BY <2>4
  <2>8. data[c].index = order[c] /\ data[c].chunk = a + order[c]
    BY <1>3, <2>5
  <2> QED
    BY <2>1, <2>2, <2>5, <2>8
<1>2. Placed(data, n) = [k \in 1..n |-> Placed(data, n)[k]]
  BY DEF Placed
<1> QED
  BY <1>1, <1>2 DEF data

VectorsIn(v, cs) == v \in Seq(Nat) /\ (\A i \in DOMAIN v : v[i] = i) /\ Len(v) <= Len(cs)
AskedInOrder == Len(asked) \in 0..Len(Groups) /\ asked = SubSeq(Groups, 1, Len(asked))

(* What the stages after the chunking leave, at every point of them. *)
Staged ==
  /\ stage \in RunStages
  /\ VectorsIn(vectors, chunks)
  /\ stage \in {"parse", "clean", "chunk"} => vectors = <<>>
  /\ stage \in {"summarize", "save"} => Len(vectors) = Len(chunks)
  /\ stage \notin {"summarize", "save"} => asked = <<>>
  /\ stage \in {"summarize", "save"} => IF Small THEN asked \in {<<>>, <<All>>} ELSE AskedInOrder
  /\ stage = "summarize" /\ Small => asked = <<>>
  /\ stage = "save" /\ error = NoError => asked = IF Small THEN <<All>> ELSE Groups

LEMMA StagedInit ==
  ASSUME IngestInit
  PROVE  Staged
<1>1. <<>> \in Seq(Nat) /\ Len(<<>>) = 0
  OBVIOUS
<1>2. VectorsIn(vectors, chunks)
  <2>1. vectors = <<>> /\ chunks = <<>>
    BY DEF IngestInit
  <2> QED
    BY <2>1 DEF VectorsIn
<1> QED
  BY <1>2 DEF IngestInit, Staged, RunStages

LEMMA EmptyVectors ==
  ASSUME NEW cs, Len(cs) \in Nat
  PROVE  VectorsIn(<<>>, cs)
BY DEF VectorsIn

LEMMA BatchPlaced ==
  ASSUME IngestAssumption, Stored, Staged, EmbedBatch
  PROVE  VectorsIn(vectors', chunks)
<1> DEFINE a == Len(vectors)
           n == Cardinality(Batch)
<1>1. a \in Nat /\ a <= Len(chunks) /\ Len(chunks) \in Nat /\ EmbedBatchSize \in Nat
  BY DEF Staged, VectorsIn, Stored, IngestAssumption
<1>2. /\ Smaller(a + EmbedBatchSize, Len(chunks)) \in Nat
      /\ Smaller(a + EmbedBatchSize, Len(chunks)) <= Len(chunks)
      /\ Smaller(a + EmbedBatchSize, Len(chunks)) >= a
  BY <1>1 DEF Smaller
<1>3. n \in Nat /\ a + n <= Len(chunks)
  <2> DEFINE z == Smaller(a + EmbedBatchSize, Len(chunks))
  <2> HIDE DEF z
  <2>1. Cardinality((a + 1)..z) = IF a + 1 > z THEN 0 ELSE z - (a + 1) + 1
    <3>1. a + 1 \in Int /\ z \in Int
      BY <1>1, <1>2 DEF z
    <3> QED
      BY <3>1, FS_Interval
  <2>2. Batch = (a + 1)..z
    BY DEF Batch, z
  <2> QED
    BY <1>1, <1>2, <2>1, <2>2 DEF z
<1>4. CASE UNCHANGED vectors
  BY <1>4 DEF Staged
<1>5. CASE ~UNCHANGED vectors
  <2> HIDE DEF n
  <2> DEFINE Data(order) == [j \in 1..n |-> [index |-> order[j], chunk |-> a + order[j]]]
  <2>1. PICK order \in [1..n -> 1..n] :
          LET data == Data(order) IN
          /\ ~(\E k \in 1..n : Placed(data, n)[k] = 0)
          /\ vectors' = vectors \o Placed(data, n)
    BY <1>5 DEF EmbedBatch, EndRun, n
  <2> DEFINE data == Data(order)
  <2>2. Placed(data, n) = [k \in 1..n |-> a + k]
    <3>1. \A k \in 1..n : Placed(data, n)[k] # 0
      BY <2>1
    <3>2. n \in Nat /\ a \in Nat
      BY <1>1, <1>3
    <3>3. data = Returned(order, a, n)
      BY DEF Returned
    <3>4. \A k \in 1..n : Placed(Returned(order, a, n), n)[k] # 0
      BY <3>1, <3>3
    <3>5. Placed(Returned(order, a, n), n) = [k \in 1..n |-> a + k]
      <4> HIDE DEF data, a
      <4> QED
        BY <3>2, <3>4, PlacedByIndex, SMTT(60)
    <3> QED
      BY <3>3, <3>5
  <2> DEFINE p == [k \in 1..n |-> a + k]
  <2>3. p \in Seq(Nat) /\ Len(p) = n /\ \A k \in 1..n : p[k] = a + k
    BY <1>1, <1>3
  <2>4. vectors' = vectors \o p
    BY <2>1, <2>2
  <2> HIDE DEF p
  <2>5. vectors \in Seq(Nat) /\ \A i \in 1..a : vectors[i] = i
    BY DEF Staged, VectorsIn
  <2>6. vectors' \in Seq(Nat) /\ Len(vectors') = a + n
    <3> HIDE DEF a
    <3>1. Len(vectors) = a /\ vectors \in Seq(Nat) /\ p \in Seq(Nat) /\ Len(p) = n
      BY <2>3, <2>5 DEF a
    <3>2. vectors \o p \in Seq(Nat) /\ Len(vectors \o p) = a + n
      <4>1. vectors \o p \in Seq(Nat) /\ Len(vectors \o p) = Len(vectors) + Len(p)
        BY <3>1, ConcatProperties, ZenonT(60)
      <4> QED
        BY <3>1, <4>1
    <3> QED
      BY <2>4, <3>2
  <2>7. \A i \in 1..(a + n) : vectors'[i] = i
    <3> TAKE i \in 1..(a + n)
    <3>1. CASE i <= a
      BY <1>1, <2>3, <2>4, <2>5, <3>1
    <3>2. CASE i > a
      <4>1. i - a \in 1..n
        BY <1>1, <1>3, <3>2
      <4>2. vectors'[i] = p[i - a]
        BY <1>1, <1>3, <2>3, <2>4, <2>5, <3>2
      <4> QED
        BY <1>1, <1>3, <2>3, <4>1, <4>2
    <3> QED
      BY <1>1, <1>3, <3>1, <3>2
  <2> QED
    BY <1>3, <2>6, <2>7 DEF VectorsIn
<1> QED
  BY <1>4, <1>5

LEMMA NoBatchLeft ==
  ASSUME IngestAssumption, Stored, Staged, Batch = {}
  PROVE  Len(vectors) = Len(chunks)
<1>1. Len(vectors) \in Nat /\ Len(vectors) <= Len(chunks) /\ Len(chunks) \in Nat
  BY DEF Staged, VectorsIn, Stored
<1>2. EmbedBatchSize \in Nat /\ EmbedBatchSize > 0
  BY DEF IngestAssumption
<1>3. CASE Len(vectors) < Len(chunks)
  <2>1. Len(vectors) + 1 \in Batch
    BY <1>1, <1>2, <1>3 DEF Batch, Smaller
  <2> QED
    BY <2>1
<1> QED
  BY <1>1, <1>3

(* The summaries' inputs read the chunks alone. *)
LEMMA SameGroups ==
  ASSUME UNCHANGED chunks
  PROVE  Groups' = Groups /\ All' = All /\ Small' = Small /\ Tokens(All)' = Tokens(All)
BY DEF Groups, All, Small, Tokens, Fits, Section

LEMMA StagedStep ==
  ASSUME IngestAssumption, Stored, Stored', Staged, IngestNext
  PROVE  Staged'
<1> USE DEF RunStages
<1>0. Len(chunks) \in Nat /\ Len(chunks') \in Nat
  BY DEF Stored
<1>1. CASE Parse
  <2>1. stage = "parse" /\ UNCHANGED <<chunks, vectors, asked>> /\ stage' \in {"clean", "failed"}
    BY <1>1 DEF Parse, EndRun
  <2>2. vectors' = <<>> /\ asked' = <<>>
    BY <2>1 DEF Staged
  <2> QED
    BY <1>0, <2>1, <2>2, EmptyVectors DEF Staged
<1>2. CASE Clean
  <2>1. stage = "clean" /\ UNCHANGED <<chunks, vectors, asked>> /\ stage' \in {"chunk", "failed"}
    BY <1>2 DEF Clean, EndRun
  <2>2. vectors' = <<>> /\ asked' = <<>>
    BY <2>1 DEF Staged
  <2> QED
    BY <1>0, <2>1, <2>2, EmptyVectors DEF Staged
<1>3. CASE Chunk
  <2>1. stage = "chunk" /\ UNCHANGED <<vectors, asked>> /\ stage' \in {"embed", "failed"}
    BY <1>3 DEF Chunk, EndRun
  <2>2. vectors' = <<>> /\ asked' = <<>>
    BY <2>1 DEF Staged
  <2> QED
    BY <1>0, <2>1, <2>2, EmptyVectors DEF Staged
<1>4. CASE EmbedBatch
  <2>1. stage = "embed" /\ UNCHANGED <<chunks, asked>> /\ stage' \in {"embed", "failed"}
    BY <1>4 DEF EmbedBatch, EndRun
  <2>2. asked' = <<>>
    BY <2>1 DEF Staged
  <2>3. VectorsIn(vectors', chunks')
    BY <1>4, <2>1, BatchPlaced
  <2> QED
    BY <2>1, <2>2, <2>3 DEF Staged
<1>5. CASE EmbedFails
  <2>1. stage = "embed" /\ UNCHANGED <<chunks, vectors, asked>> /\ stage' = "failed"
    BY <1>5 DEF EmbedFails, EndRun
  <2> QED
    BY <2>1 DEF Staged, VectorsIn
<1>6. CASE Embedded
  <2>1. stage = "embed" /\ UNCHANGED <<chunks, vectors, asked>> /\ stage' = "summarize" /\ Batch = {}
    BY <1>6 DEF Embedded
  <2>2. Len(vectors) = Len(chunks)
    BY <2>1, NoBatchLeft
  <2>3. asked = <<>>
    BY <2>1 DEF Staged
  <2>4. (AskedInOrder)'
    <3>1. Groups' \in Seq(GroupSet)
      BY <2>1, SameGroups, GroupsSound
    <3>2. Len(Groups') \in Nat /\ SubSeq(Groups', 1, 0) = <<>> /\ asked' = <<>> /\ Len(asked') = 0
      BY <2>1, <2>3, <3>1
    <3> QED
      BY <3>2 DEF AskedInOrder
  <2> QED
    BY <2>1, <2>2, <2>3, <2>4 DEF Staged, VectorsIn
<1>7. CASE SummarizeGroup
  <2>1. /\ stage = "summarize" /\ ~Small /\ Len(asked) < Len(Groups)
        /\ UNCHANGED <<chunks, vectors>> /\ stage' \in {"summarize", "save"}
    BY <1>7 DEF SummarizeGroup
  <2>2. Small' = Small /\ Groups' = Groups
    BY <2>1, SameGroups
  <2>3. AskedInOrder /\ VectorsIn(vectors, chunks) /\ Len(vectors) = Len(chunks)
    BY <2>1 DEF Staged
  <2>4. CASE asked' = Append(asked, Groups[Len(asked) + 1]) /\ UNCHANGED <<stage, error>>
    <3>1. Groups \in Seq(GroupSet) /\ Len(asked) \in Nat /\ Len(Groups) \in Nat
      <4>1. Groups \in Seq(GroupSet)
        BY GroupsSound
      <4> QED
        BY <2>3, <4>1 DEF AskedInOrder
    <3>2. Len(asked') = Len(asked) + 1 /\ asked' = SubSeq(Groups, 1, Len(asked) + 1)
      BY <2>1, <2>3, <2>4, <3>1 DEF AskedInOrder
    <3>3. (AskedInOrder)'
      BY <2>1, <2>2, <3>1, <3>2 DEF AskedInOrder
    <3> QED
      BY <2>1, <2>2, <2>3, <2>4, <3>3 DEF Staged, VectorsIn
  <2>5. CASE stage' = "save" /\ error' = [code |-> "SUMMARY_FAILED", retryable |-> FALSE] /\ UNCHANGED asked
    <3>1. error' # NoError
      BY <2>5 DEF IngestAssumption
    <3>2. (AskedInOrder)'
      BY <2>2, <2>3, <2>5 DEF AskedInOrder
    <3> QED
      BY <2>1, <2>2, <2>3, <2>5, <3>1, <3>2 DEF Staged, VectorsIn
  <2> QED
    BY <1>7, <2>4, <2>5 DEF SummarizeGroup
<1>8. CASE SummarizeDocument
  <2>1. stage = "summarize" /\ UNCHANGED <<chunks, vectors>> /\ stage' = "save" /\ (Small \/ Len(asked) = Len(Groups))
    BY <1>8 DEF SummarizeDocument
  <2>2. Small' = Small /\ Groups' = Groups /\ All' = All
    BY <2>1, SameGroups
  <2>3. VectorsIn(vectors', chunks') /\ Len(vectors') = Len(chunks')
    BY <2>1 DEF Staged, VectorsIn
  <2>4. IF Small THEN asked = <<>> ELSE AskedInOrder
    BY <2>1 DEF Staged
  <2>5. CASE Small
    <3>1. asked' = <<All>> \/ (asked' = <<>> /\ error' # NoError)
      <4>1. [code |-> "SUMMARY_FAILED", retryable |-> FALSE] # NoError
        BY DEF IngestAssumption
      <4> QED
        BY <1>8, <2>4, <2>5, <4>1 DEF SummarizeDocument
    <3> QED
      BY <2>1, <2>2, <2>3, <2>5, <3>1 DEF Staged
  <2>6. CASE ~Small
    <3>1. asked' = asked
      BY <1>8, <2>6 DEF SummarizeDocument
    <3>2. asked = Groups
      <4>1. Groups \in Seq(GroupSet) /\ asked = SubSeq(Groups, 1, Len(Groups))
        BY <2>1, <2>4, <2>6, GroupsSound DEF AskedInOrder
      <4> QED
        BY <4>1
    <3>3. (AskedInOrder)'
      BY <2>2, <2>4, <2>6, <3>1 DEF AskedInOrder
    <3> QED
      BY <2>1, <2>2, <2>3, <2>6, <3>1, <3>2, <3>3 DEF Staged
  <2> QED
    BY <2>5, <2>6
<1> QED
  BY <1>1, <1>2, <1>3, <1>4, <1>5, <1>6, <1>7, <1>8 DEF IngestNext

LEMMA StagedStutters ==
  ASSUME Staged, UNCHANGED ingestVars
  PROVE  Staged'
<1>1. UNCHANGED <<stage, chunks, vectors, asked, error>>
  BY DEF ingestVars
<1>2. Groups' = Groups /\ All' = All /\ Small' = Small
  BY <1>1, SameGroups
<1> QED
  BY <1>1, <1>2 DEF Staged, AskedInOrder, VectorsIn

LEMMA StagedAligns ==
  ASSUME Stored, Staged
  PROVE  StagesAlign
<1>1. VectorsAlign
  BY DEF Staged, VectorsIn, VectorsAlign
<1>2. stage = "save" /\ error = NoError => Flatten(asked) = All
  <2> SUFFICES ASSUME stage = "save", error = NoError PROVE Flatten(asked) = All
    OBVIOUS
  <2>1. CASE Small
    <3>1. asked = <<All>> /\ All \in Seq(Numbers)
      BY <2>1, AllIs DEF Staged
    <3> QED
      BY <3>1, FlattenOne
  <2>2. CASE ~Small
    <3>1. asked = Groups
      BY <2>2 DEF Staged
    <3> QED
      BY <3>1, GroupsSound
  <2> QED
    BY <2>1, <2>2
<1>3. ASSUME NEW g \in DOMAIN asked, ~Small
      PROVE  OneGroup(asked[g])
  <2>1. AskedInOrder
    BY <1>3 DEF Staged, RunStages
  <2>2. Groups \in Seq(GroupSet)
    BY GroupsSound
  <2>3. g \in 1..Len(Groups) /\ asked[g] = Groups[g]
    BY <1>3, <2>1, <2>2 DEF AskedInOrder
  <2> QED
    BY <2>2, <2>3 DEF GroupSet
<1>4. SummaryCoversText
  BY <1>2, <1>3 DEF SummaryCoversText, OneGroup
<1> QED
  BY <1>1, <1>4 DEF StagesAlign

-----------------------------------------------------------------------------
\* Ingest: texts, their characters and what they weigh

Mapped(g, s) == [i \in DOMAIN s |-> g[s[i]]]

Agrees(s, t) == s = t

LEMMA SameParts ==
  ASSUME NEW T, NEW s \in Seq(T), NEW t \in Seq(T), Len(s) = Len(t), \A i \in 1..Len(s) : s[i] = t[i]
  PROVE  Agrees(s, t)
BY SeqEqual DEF Agrees

MapOf(m, g, s, U) == m \in Seq(U) /\ Len(m) = Len(s) /\ \A i \in 1..Len(s) : m[i] = g[s[i]]

LEMMA MappedIs ==
  ASSUME NEW T, NEW U, NEW g \in [T -> U], NEW s \in Seq(T)
  PROVE  MapOf(Mapped(g, s), g, s, U)
<1>1. DOMAIN s = 1..Len(s) /\ Len(s) \in Nat /\ \A i \in 1..Len(s) : s[i] \in T
  OBVIOUS
<1>2. \A i \in 1..Len(s) : g[s[i]] \in U
  BY <1>1
<1>3. Mapped(g, s) = [i \in 1..Len(s) |-> g[s[i]]]
  BY <1>1 DEF Mapped
<1> QED
  BY <1>1, <1>2, <1>3 DEF MapOf

LEMMA MappedType ==
  ASSUME NEW T, NEW U, NEW g \in [T -> U], NEW s \in Seq(T)
  PROVE  /\ Mapped(g, s) \in Seq(U) /\ Len(Mapped(g, s)) = Len(s)
         /\ \A i \in 1..Len(s) : Mapped(g, s)[i] = g[s[i]]
<1>1. MapOf(Mapped(g, s), g, s, U)
  BY MappedIs
<1> QED
  BY <1>1 DEF MapOf

LEMMA MappedEmpty ==
  ASSUME NEW g
  PROVE  Mapped(g, <<>>) = <<>>
BY DEF Mapped

LEMMA MappedAppend ==
  ASSUME NEW T, NEW U, NEW g \in [T -> U], NEW s \in Seq(T), NEW x \in T
  PROVE  Mapped(g, Append(s, x)) = Append(Mapped(g, s), g[x])
<1> DEFINE t == Append(s, x)
           n == Len(s)
<1>1. t \in Seq(T) /\ Len(t) = n + 1 /\ n \in Nat /\ t[n + 1] = x /\ \A i \in 1..n : t[i] = s[i]
  OBVIOUS
<1> HIDE DEF t
<1>2. MapOf(Mapped(g, s), g, s, U)
  BY MappedIs
<1>3. MapOf(Mapped(g, t), g, t, U)
  BY <1>1, MappedIs
<1> DEFINE a == Mapped(g, s)
           b == Mapped(g, t)
<1>4. g[x] \in U
  OBVIOUS
<1>5. b[n + 1] = g[x] /\ \A i \in 1..n : b[i] = a[i]
  <2>1. b[n + 1] = g[x]
    BY <1>1, <1>3 DEF MapOf
  <2>2. ASSUME NEW i \in 1..n PROVE b[i] = a[i]
    <3>1. i \in 1..(n + 1)
      BY <1>1
    <3> QED
      BY <1>1, <1>2, <1>3, <3>1 DEF MapOf
  <2> QED
    BY <2>1, <2>2
<1>6. a \in Seq(U) /\ b \in Seq(U) /\ Len(a) = n /\ Len(b) = n + 1
  BY <1>1, <1>2, <1>3 DEF MapOf
<1> HIDE DEF a, b, n
<1>7. b = Append(a, g[x])
  BY <1>1, <1>4, <1>5, <1>6
<1> QED
  BY <1>7 DEF a, b, t, n

MapsAppend(g, s, x) == Mapped(g, Append(s, x)) = Append(Mapped(g, s), g[x])

LEMMA MappedStep ==
  ASSUME NEW T, NEW U, NEW g \in [T -> U], NEW s \in Seq(T), NEW x \in T
  PROVE  MapsAppend(g, s, x)
<1>1. g \in [T -> U] /\ s \in Seq(T) /\ x \in T
  OBVIOUS
<1>2. Mapped(g, Append(s, x)) = Append(Mapped(g, s), g[x])
  BY ONLY <1>1, MappedAppend, ZenonT(60)
<1> QED
  BY <1>2 DEF MapsAppend

AppendsJoin(a, b, x) == Append(a \o b, x) = a \o Append(b, x)

LEMMA AppendAtEnd ==
  ASSUME NEW T, NEW a \in Seq(T), NEW b \in Seq(T), NEW x \in T
  PROVE  AppendsJoin(a, b, x)
BY DEF AppendsJoin

MapsJoin(g, s, t) == Mapped(g, s \o t) = Mapped(g, s) \o Mapped(g, t)

LEMMA MappedConcat ==
  ASSUME NEW T, NEW U, NEW g \in [T -> U], NEW s \in Seq(T), NEW t \in Seq(T)
  PROVE  MapsJoin(g, s, t)
<1> USE DEF MapsJoin
<1> DEFINE P == {u \in Seq(T) : Mapped(g, s \o u) = Mapped(g, s) \o Mapped(g, u)}
<1>1. <<>> \in P
  <2>1. s \o <<>> = s /\ <<>> \in Seq(T)
    OBVIOUS
  <2>2. Mapped(g, s) \in Seq(U)
    BY MappedType
  <2>3. Mapped(g, s) \o <<>> = Mapped(g, s)
    BY <2>2
  <2> QED
    BY <2>1, <2>3, MappedEmpty
<1>2. ASSUME NEW u \in Seq(T), NEW x \in T, u \in P PROVE Append(u, x) \in P
  <2>1. s \o Append(u, x) = Append(s \o u, x) /\ s \o u \in Seq(T) /\ Append(u, x) \in Seq(T)
    OBVIOUS
  <2>2. Mapped(g, s \o Append(u, x)) = Append(Mapped(g, s \o u), g[x])
    BY <2>1, MappedAppend, ZenonT(60)
  <2>3. Mapped(g, Append(u, x)) = Append(Mapped(g, u), g[x])
    <3>1. MapsAppend(g, u, x)
      BY MappedStep
    <3> QED
      BY <3>1 DEF MapsAppend
  <2>4. Mapped(g, s \o u) = Mapped(g, s) \o Mapped(g, u)
    BY <1>2
  <2>5. Mapped(g, s) \in Seq(U) /\ Mapped(g, u) \in Seq(U) /\ g[x] \in U
    BY MappedType
  <2>6. Append(Mapped(g, s) \o Mapped(g, u), g[x]) = Mapped(g, s) \o Append(Mapped(g, u), g[x])
    <3>1. AppendsJoin(Mapped(g, s), Mapped(g, u), g[x])
      BY <2>5, AppendAtEnd
    <3> QED
      BY <3>1 DEF AppendsJoin
  <2>7. Mapped(g, s \o Append(u, x)) = Mapped(g, s) \o Mapped(g, Append(u, x))
    BY <2>2, <2>3, <2>4, <2>6
  <2> QED
    BY <2>1, <2>7
<1>3. Seq(T) \subseteq P
  <2> HIDE DEF P
  <2> QED
    BY <1>1, <1>2, SeqInduction
<1> QED
  BY <1>3

(* Fragments, and what a window leaves of them, which may be nothing. *)
Frags == [line : Lines, from : Nat, chars : Nat \ {0}]
Slices == [line : Lines, from : Nat, chars : Int]
Texts == Seq(Frags)
Marks == Lines \X Nat

LEMMA FragsAreSlices == Frags \subseteq Slices /\ Texts \subseteq Seq(Slices)
<1>1. Frags \subseteq Slices
  BY DEF Frags, Slices
<1> QED
  BY <1>1 DEF Texts

Run(x) == [k \in 1..x.chars |-> <<x.line, x.from + k - 1>>]
Runs == [x \in Slices |-> Run(x)]

LEMMA RunsType ==
  /\ Runs \in [Slices -> Seq(Marks)]
  /\ \A x \in Slices : Runs[x] = Run(x) /\ Run(x) \in Seq(Marks) /\ (x.chars <= 0 => Run(x) = <<>>)
  /\ \A x \in Slices : x.chars > 0 => Len(Run(x)) = x.chars
<1>1. ASSUME NEW x \in Slices
      PROVE  /\ Run(x) \in Seq(Marks) /\ (x.chars <= 0 => Run(x) = <<>>)
             /\ x.chars > 0 => Len(Run(x)) = x.chars
  <2>1. x.line \in Lines /\ x.from \in Nat /\ x.chars \in Int
    BY DEF Slices
  <2>2. \A k \in 1..x.chars : <<x.line, x.from + k - 1>> \in Marks
    BY <2>1 DEF Marks
  <2>3. CASE x.chars <= 0
    <3>1. 1..x.chars = {}
      BY <2>1, <2>3
    <3>2. Run(x) = <<>>
      BY <3>1 DEF Run
    <3> QED
      BY <2>1, <2>3, <3>2
  <2>4. CASE x.chars > 0
    <3>1. x.chars \in Nat
      BY <2>1, <2>4
    <3> QED
      BY <2>2, <2>4, <3>1 DEF Run
  <2> QED
    BY <2>1, <2>3, <2>4
<1>2. \A x \in Slices : Runs[x] = Run(x)
  BY DEF Runs
<1>3. Runs \in [Slices -> Seq(Marks)]
  BY <1>1 DEF Runs
<1> QED
  BY <1>1, <1>2, <1>3

LEMMA CharactersMapped ==
  ASSUME NEW t \in Seq(Slices)
  PROVE  Characters(t) = Flatten(Mapped(Runs, t))
<1>1. \A i \in DOMAIN t : t[i] \in Slices
  OBVIOUS
<1>2. [i \in DOMAIN t |-> Run(t[i])] = Mapped(Runs, t)
  BY <1>1, RunsType DEF Mapped
<1>3. Characters(t) = Flatten([i \in DOMAIN t |-> Run(t[i])])
  BY DEF Characters, Run
<1> QED
  BY <1>2, <1>3

LEMMA CharactersType ==
  ASSUME NEW t \in Seq(Slices)
  PROVE  Characters(t) \in Seq(Marks) /\ Len(Characters(t)) \in Nat
<1>1. Mapped(Runs, t) \in Seq(Seq(Marks))
  BY RunsType, MappedType
<1>2. Characters(t) \in Seq(Marks)
  BY <1>1, CharactersMapped, FlattenType
<1> QED
  BY <1>2

LEMMA CharactersEmpty == Characters(<<>>) = <<>>
<1>1. <<>> \in Seq(Slices)
  OBVIOUS
<1>2. Characters(<<>>) = Flatten(Mapped(Runs, <<>>))
  BY <1>1, CharactersMapped
<1> QED
  BY <1>2, MappedEmpty, FlattenEmpty

LEMMA CharactersConcat ==
  ASSUME NEW s \in Seq(Slices), NEW t \in Seq(Slices)
  PROVE  /\ Characters(s \o t) = Characters(s) \o Characters(t)
         /\ Len(Characters(s \o t)) = Len(Characters(s)) + Len(Characters(t))
<1>1. s \o t \in Seq(Slices)
  OBVIOUS
<1>2. Characters(s \o t) = Flatten(Mapped(Runs, s \o t))
  BY <1>1, CharactersMapped
<1>3. Mapped(Runs, s \o t) = Mapped(Runs, s) \o Mapped(Runs, t)
  <2>1. Runs \in [Slices -> Seq(Marks)]
    BY RunsType
  <2>2. MapsJoin(Runs, s, t)
    BY <2>1, MappedConcat
  <2> QED
    BY <2>2 DEF MapsJoin
<1>4. Mapped(Runs, s) \in Seq(Seq(Marks)) /\ Mapped(Runs, t) \in Seq(Seq(Marks))
  BY RunsType, MappedType
<1>5. Flatten(Mapped(Runs, s) \o Mapped(Runs, t)) = Flatten(Mapped(Runs, s)) \o Flatten(Mapped(Runs, t))
  BY <1>4, FlattenConcat
<1>6. Characters(s \o t) = Characters(s) \o Characters(t)
  BY <1>2, <1>3, <1>5, CharactersMapped
<1>7. Characters(s) \in Seq(Marks) /\ Characters(t) \in Seq(Marks)
  BY CharactersType
<1>8. Len(Characters(s) \o Characters(t)) = Len(Characters(s)) + Len(Characters(t))
  BY <1>7, ConcatProperties
<1> QED
  BY <1>6, <1>8

LEMMA CharactersAppend ==
  ASSUME NEW s \in Seq(Slices), NEW x \in Slices
  PROVE  Characters(Append(s, x)) = Characters(s) \o Run(x)
<1>1. Append(s, x) \in Seq(Slices)
  OBVIOUS
<1>2. Characters(Append(s, x)) = Flatten(Mapped(Runs, Append(s, x)))
  BY <1>1, CharactersMapped
<1>3. Mapped(Runs, Append(s, x)) = Append(Mapped(Runs, s), Runs[x])
  <2>1. MapsAppend(Runs, s, x)
    BY RunsType, MappedStep
  <2> QED
    BY <2>1 DEF MapsAppend
<1>4. Mapped(Runs, s) \in Seq(Seq(Marks)) /\ Runs[x] \in Seq(Marks)
  BY RunsType, MappedType
<1>5. Flatten(Append(Mapped(Runs, s), Runs[x])) = Flatten(Mapped(Runs, s)) \o Runs[x]
  BY <1>4, FlattenAppend
<1> QED
  BY <1>2, <1>3, <1>5, CharactersMapped, RunsType

(* A text that is there has a character. *)
LEMMA TextHasCharacters ==
  ASSUME NEW t \in Texts, t # <<>>
  PROVE  Len(Characters(t)) > 0
<1> DEFINE n == Len(t)
           f == SubSeq(t, 1, n - 1)
<1>1. f \in Seq(Frags) /\ t[n] \in Frags /\ t = Append(f, t[n])
  BY DEF Texts
<1> HIDE DEF f
<1>2. f \in Seq(Slices) /\ t[n] \in Slices
  BY <1>1, FragsAreSlices
<1>3. Characters(t) = Characters(f) \o Run(t[n])
  BY <1>1, <1>2, CharactersAppend
<1>4. Len(Run(t[n])) > 0 /\ Run(t[n]) \in Seq(Marks)
  <2>1. t[n].chars \in Nat /\ t[n].chars > 0
    BY <1>1 DEF Frags
  <2> QED
    BY <1>2, <2>1, RunsType
<1>5. Characters(f) \in Seq(Marks) /\ Len(Characters(f)) \in Nat
  BY <1>2, CharactersType
<1>6. Len(Characters(f) \o Run(t[n])) = Len(Characters(f)) + Len(Run(t[n]))
  BY <1>4, <1>5, ConcatProperties
<1>7. Len(Run(t[n])) \in Nat
  BY <1>4
<1> QED
  BY <1>3, <1>4, <1>5, <1>6, <1>7

-----------------------------------------------------------------------------
\* Ingest: estimates of tokens

LEMMA Division ==
  ASSUME NEW a \in Nat, NEW b \in Nat \ {0}
  PROVE  a \div b \in Nat /\ b * (a \div b) <= a /\ a < b * (a \div b) + b
OBVIOUS

LEMMA CeilingIs ==
  ASSUME NEW a \in Nat, NEW b \in Nat \ {0}
  PROVE  /\ Ceiling(a, b) \in Nat
         /\ a <= b * Ceiling(a, b) /\ b * Ceiling(a, b) < a + b
<1> DEFINE m == a + b - 1
<1>1. m \in Nat
  OBVIOUS
<1>2. m \div b \in Nat /\ b * (m \div b) <= m /\ m < b * (m \div b) + b
  BY <1>1, Division
<1>3. Ceiling(a, b) = m \div b
  BY DEF Ceiling
<1> DEFINE q == m \div b
           p == b * q
<1>4. p \in Nat
  BY <1>2
<1> HIDE DEF q
<1>5. p <= m /\ m < p + b
  BY <1>2 DEF q
<1> HIDE DEF p
<1>6. a <= p /\ p < a + b
  BY <1>4, <1>5
<1> QED
  BY <1>2, <1>3, <1>6 DEF p, q

(* A product of naturals is ordered as its factor is. *)
LEMMA ProductOrder ==
  ASSUME NEW b \in Nat \ {0}, NEW x \in Nat, NEW y \in Nat
  PROVE  b * x \in Nat /\ (x < y => b * x + b <= b * y)
<1>1. b * x \in Nat
  OBVIOUS
<1>2. ASSUME x < y PROVE b * x + b <= b * y
  <2> DEFINE d == y - (x + 1)
  <2>1. d \in Nat /\ y = (x + 1) + d
    BY <1>2
  <2> HIDE DEF d
  <2>2. b * y = b * (x + 1) + b * d
    BY <2>1
  <2>3. b * (x + 1) = b * x + b
    OBVIOUS
  <2>4. b * d \in Nat /\ b * d >= 0
    BY <2>1
  <2> QED
    BY <1>1, <2>2, <2>3, <2>4
<1> QED
  BY <1>1, <1>2

LEMMA CeilingOrder ==
  ASSUME NEW a \in Nat, NEW c \in Nat, a <= c, NEW b \in Nat \ {0}
  PROVE  Ceiling(a, b) <= Ceiling(c, b)
<1> DEFINE x == Ceiling(a, b)
           y == Ceiling(c, b)
<1>1. x \in Nat /\ y \in Nat /\ b * x < a + b /\ c <= b * y
  BY CeilingIs
<1> HIDE DEF x, y
<1>2. CASE y < x
  <2>1. b * y + b <= b * x /\ b * y \in Nat /\ b * x \in Nat
    BY <1>1, <1>2, ProductOrder
  <2> QED
    BY <1>1, <2>1
<1> QED
  BY <1>1, <1>2 DEF x, y

LEMMA CeilingShift ==
  ASSUME NEW a \in Nat, NEW m \in Nat, NEW b \in Nat \ {0}
  PROVE  Ceiling(m * b + a, b) = m + Ceiling(a, b)
<1> DEFINE x == Ceiling(a, b)
           s == m * b + a
           y == Ceiling(s, b)
<1>1. m * b \in Nat /\ s \in Nat
  OBVIOUS
<1>2. x \in Nat /\ a <= b * x /\ b * x < a + b
  BY CeilingIs
<1>3. y \in Nat /\ s <= b * y /\ b * y < s + b
  BY <1>1, CeilingIs
<1> DEFINE z == m + x
<1>4. b * z = m * b + b * x /\ z \in Nat
  BY <1>2
<1> HIDE DEF x, y, z
<1>5. b * x \in Nat /\ b * y \in Nat /\ b * z \in Nat
  BY <1>2, <1>3, <1>4
<1>6. s <= b * z /\ b * z < s + b
  BY <1>1, <1>2, <1>4, <1>5
<1>7. ~(y < z)
  <2> SUFFICES ASSUME y < z PROVE FALSE
    OBVIOUS
  <2>1. b * y + b <= b * z
    BY <1>3, <1>4, ProductOrder
  <2> QED
    BY <1>1, <1>3, <1>5, <1>6, <2>1
<1>8. ~(z < y)
  <2> SUFFICES ASSUME z < y PROVE FALSE
    OBVIOUS
  <2>1. b * z + b <= b * y
    BY <1>3, <1>4, ProductOrder
  <2> QED
    BY <1>1, <1>3, <1>5, <1>6, <2>1
<1>9. y = z
  BY <1>3, <1>4, <1>7, <1>8
<1> QED
  BY <1>9 DEF x, y, z

Weights(ls) == [x \in Frags |-> IF x.line \in ls THEN x.chars ELSE 0]

LEMMA CharsInIs ==
  ASSUME NEW ls, NEW t \in Texts
  PROVE  /\ Weights(ls) \in [Frags -> Nat]
         /\ CharsIn(t, ls) = SumOver(Mapped(Weights(ls), t)) /\ CharsIn(t, ls) \in Nat
<1>1. Weights(ls) \in [Frags -> Nat]
  BY DEF Weights, Frags
<1>2. \A i \in DOMAIN t : t[i] \in Frags
  BY DEF Texts
<1>3. Mapped(Weights(ls), t) = [i \in DOMAIN t |-> IF t[i].line \in ls THEN t[i].chars ELSE 0]
  BY <1>2 DEF Mapped, Weights
<1>4. CharsIn(t, ls) = SumOver(Mapped(Weights(ls), t))
  BY <1>3 DEF CharsIn
<1>5. Mapped(Weights(ls), t) \in Seq(Nat)
  BY <1>1, MappedType DEF Texts
<1> QED
  BY <1>1, <1>4, <1>5, SumOf

LEMMA CharsInAppend ==
  ASSUME NEW ls
  PROVE  /\ CharsIn(<<>>, ls) = 0
         /\ \A t \in Texts, x \in Frags :
              CharsIn(Append(t, x), ls) = CharsIn(t, ls) + (IF x.line \in ls THEN x.chars ELSE 0)
<1>1. CharsIn(<<>>, ls) = 0
  <2>1. <<>> \in Texts
    BY DEF Texts
  <2>2. CharsIn(<<>>, ls) = SumOver(Mapped(Weights(ls), <<>>))
    BY <2>1, CharsInIs
  <2> QED
    BY <2>2, MappedEmpty, SumOf
<1>2. ASSUME NEW t \in Texts, NEW x \in Frags
      PROVE  CharsIn(Append(t, x), ls) = CharsIn(t, ls) + (IF x.line \in ls THEN x.chars ELSE 0)
  <2> DEFINE w == Weights(ls)
  <2>1. t \in Seq(Frags) /\ Append(t, x) \in Texts
    BY DEF Texts
  <2>2. w \in [Frags -> Nat]
    BY <2>1, CharsInIs
  <2>3. CharsIn(Append(t, x), ls) = SumOver(Mapped(w, Append(t, x))) /\ CharsIn(t, ls) = SumOver(Mapped(w, t))
    BY <2>1, CharsInIs
  <2>4. w[x] = IF x.line \in ls THEN x.chars ELSE 0
    BY DEF Weights
  <2> HIDE DEF w
  <2>5. Mapped(w, Append(t, x)) = Append(Mapped(w, t), w[x]) /\ Mapped(w, t) \in Seq(Nat) /\ w[x] \in Nat
    <3>1. Mapped(w, Append(t, x)) = Append(Mapped(w, t), w[x])
      <4>1. MapsAppend(w, t, x)
        BY <2>1, <2>2, MappedStep
      <4> QED
        BY <4>1 DEF MapsAppend
    <3>2. Mapped(w, t) \in Seq(Nat)
      BY <2>1, <2>2, MappedType
    <3>3. w[x] \in Nat
      BY <2>2
    <3> QED
      BY <3>1, <3>2, <3>3
  <2>6. SumOver(Append(Mapped(w, t), w[x])) = SumOver(Mapped(w, t)) + w[x]
    BY <2>5, SumOf
  <2> QED
    BY <2>3, <2>4, <2>5, <2>6
<1> QED
  BY <1>1, <1>2

Narrow(t) == \A i \in DOMAIN t : ~Wide(t[i])

LEMMA NarrowAppend ==
  ASSUME NEW T, NEW t \in Seq(T), NEW x \in T
  PROVE  Narrow(Append(t, x)) <=> Narrow(t) /\ ~Wide(x)
<1> DEFINE u == Append(t, x)
<1>1. DOMAIN u = 1..(Len(t) + 1) /\ u[Len(t) + 1] = x /\ Len(t) \in Nat /\ \A i \in 1..Len(t) : u[i] = t[i]
  OBVIOUS
<1>2. DOMAIN t = 1..Len(t)
  OBVIOUS
<1> HIDE DEF u
<1>3. (\A i \in DOMAIN u : ~Wide(u[i])) <=> (\A i \in DOMAIN t : ~Wide(t[i])) /\ ~Wide(x)
  BY <1>1, <1>2
<1> QED
  BY <1>3 DEF Narrow, u

(* The characters counted are those of the text. *)
LEMMA CharsCounted ==
  ASSUME NEW t \in Texts
  PROVE  /\ CharsIn(t, CJK) + CharsIn(t, Lines \ CJK) = Len(Characters(t))
         /\ Narrow(t) => CharsIn(t, CJK) = 0
<1> DEFINE Counted(u) == CharsIn(u, CJK) + CharsIn(u, Lines \ CJK) = Len(Characters(u))
           Zero(u) == Narrow(u) => CharsIn(u, CJK) = 0
           P == {u \in Texts : Counted(u) /\ Zero(u)}
<1>1. <<>> \in P
  <2>1. <<>> \in Texts
    BY DEF Texts
  <2>2. CharsIn(<<>>, CJK) = 0 /\ CharsIn(<<>>, Lines \ CJK) = 0 /\ Len(Characters(<<>>)) = 0
    BY CharsInAppend, CharactersEmpty
  <2> QED
    BY <2>1, <2>2
<1>2. ASSUME NEW u \in Seq(Frags), NEW x \in Frags, u \in P PROVE Append(u, x) \in P
  <2>1. u \in Texts /\ Append(u, x) \in Texts /\ u \in Seq(Slices) /\ x \in Slices
    BY FragsAreSlices DEF Texts
  <2>2. x.line \in Lines /\ x.chars \in Nat /\ x.chars > 0
    BY DEF Frags
  <2>3. /\ CharsIn(Append(u, x), CJK) = CharsIn(u, CJK) + (IF x.line \in CJK THEN x.chars ELSE 0)
        /\ CharsIn(Append(u, x), Lines \ CJK) = CharsIn(u, Lines \ CJK) + (IF x.line \in Lines \ CJK THEN x.chars ELSE 0)
    BY <2>1, CharsInAppend, ZenonT(60)
  <2>4. CharsIn(u, CJK) \in Nat /\ CharsIn(u, Lines \ CJK) \in Nat
    BY <2>1, CharsInIs
  <2>5. Characters(Append(u, x)) = Characters(u) \o Run(x)
    BY <2>1, CharactersAppend
  <2>6. Characters(u) \in Seq(Marks) /\ Len(Run(x)) = x.chars /\ Run(x) \in Seq(Marks)
    BY <2>1, <2>2, CharactersType, RunsType
  <2>7. Len(Characters(Append(u, x))) = Len(Characters(u)) + x.chars
    <3>1. Len(Characters(u) \o Run(x)) = Len(Characters(u)) + Len(Run(x))
      BY <2>6, ConcatProperties
    <3> QED
      BY <2>5, <2>6, <3>1
  <2>8. Counted(u) /\ Zero(u)
    BY <1>2
  <2>9. Counted(Append(u, x))
    <3>1. Len(Characters(u)) \in Nat
      BY <2>1, CharactersType
    <3> QED
      BY <2>2, <2>3, <2>4, <2>7, <2>8, <3>1, SMTT(60)
  <2>10. Zero(Append(u, x))
    <3> SUFFICES ASSUME Narrow(Append(u, x)) PROVE CharsIn(Append(u, x), CJK) = 0
      OBVIOUS
    <3>1. Narrow(u) /\ ~Wide(x)
      BY NarrowAppend
    <3>2. CharsIn(u, CJK) = 0 /\ x.line \notin CJK
      BY <2>8, <3>1 DEF Wide
    <3> QED
      BY <2>3, <3>2
  <2> HIDE DEF Counted, Zero
  <2> QED
    BY <2>1, <2>9, <2>10
<1>3. Seq(Frags) \subseteq P
  <2> HIDE DEF P
  <2> QED
    BY <1>1, <1>2, SeqInduction
<1> QED
  BY <1>3 DEF Texts

LEMMA EstimateType ==
  ASSUME ChunkingAssumption, NEW t \in Texts
  PROVE  EstimateTokens(t) \in Nat
<1> DEFINE S == {i \in DOMAIN t : ~Wide(t[i])}
<1>1. IsFiniteSet(S) /\ Cardinality(S) \in Nat
  <2>1. DOMAIN t = 1..Len(t) /\ Len(t) \in Nat
    BY DEF Texts
  <2>2. IsFiniteSet(1..Len(t))
    BY <2>1, FS_Interval
  <2>3. S \subseteq 1..Len(t)
    BY <2>1
  <2>4. IsFiniteSet(S)
    BY <2>2, <2>3, FS_Subset
  <2> QED
    BY <2>4, FS_CardinalityType
<1> DEFINE narrow == Cardinality(S)
           joins == IF narrow = 0 THEN 0 ELSE narrow - 1
<1>2. joins \in Nat
  BY <1>1
<1>3. CharsIn(t, CJK) \in Nat /\ CharsIn(t, Lines \ CJK) \in Nat /\ CharsPerToken \in Nat \ {0}
  BY CharsInIs DEF ChunkingAssumption
<1>4. EstimateTokens(t) = CharsIn(t, CJK) + Ceiling(CharsIn(t, Lines \ CJK) + joins, CharsPerToken)
  BY DEF EstimateTokens
<1> HIDE DEF joins
<1>5. CharsIn(t, Lines \ CJK) + joins \in Nat
  BY <1>2, <1>3
<1>6. Ceiling(CharsIn(t, Lines \ CJK) + joins, CharsPerToken) \in Nat
  BY <1>3, <1>5, CeilingIs
<1> QED
  BY <1>3, <1>4, <1>6

(* Without wide fragments the estimate is the characters and the joins over the ratio. *)
LEMMA NarrowEstimate ==
  ASSUME ChunkingAssumption, NEW t \in Texts, Narrow(t)
  PROVE  EstimateTokens(t) = Ceiling(Len(Characters(t)) + (IF Len(t) = 0 THEN 0 ELSE Len(t) - 1), CharsPerToken)
<1> DEFINE S == {i \in DOMAIN t : ~Wide(t[i])}
<1>1. DOMAIN t = 1..Len(t) /\ Len(t) \in Nat
  BY DEF Texts
<1>2. S = 1..Len(t)
  BY <1>1 DEF Narrow
<1>3. Cardinality(S) = Len(t)
  <2>1. Cardinality(1..Len(t)) = IF 1 > Len(t) THEN 0 ELSE Len(t) - 1 + 1
    BY <1>1, FS_Interval, SMTT(60)
  <2> QED
    BY <1>1, <1>2, <2>1, SMTT(60)
<1>4. CharsIn(t, CJK) = 0 /\ CharsIn(t, Lines \ CJK) = Len(Characters(t))
  <2>1. CharsIn(t, CJK) = 0 /\ CharsIn(t, CJK) + CharsIn(t, Lines \ CJK) = Len(Characters(t))
    BY CharsCounted
  <2>2. CharsIn(t, Lines \ CJK) \in Nat
    BY CharsInIs
  <2> QED
    BY <2>1, <2>2
<1>5. EstimateTokens(t) = CharsIn(t, CJK) + Ceiling(CharsIn(t, Lines \ CJK) + (IF Cardinality(S) = 0 THEN 0 ELSE Cardinality(S) - 1), CharsPerToken)
  BY DEF EstimateTokens
<1>6. EstimateTokens(t) \in Nat
  BY EstimateType
<1> DEFINE e == Ceiling(Len(Characters(t)) + (IF Len(t) = 0 THEN 0 ELSE Len(t) - 1), CharsPerToken)
<1>7. EstimateTokens(t) = 0 + e
  BY <1>3, <1>4, <1>5
<1>8. e \in Nat
  <2> DEFINE j == IF Len(t) = 0 THEN 0 ELSE Len(t) - 1
  <2>1. j \in Nat
    BY <1>1
  <2> HIDE DEF j
  <2>2. Len(Characters(t)) + j \in Nat /\ CharsPerToken \in Nat \ {0}
    BY <2>1, FragsAreSlices, CharactersType DEF ChunkingAssumption
  <2> QED
    BY <2>2, CeilingIs DEF j
<1> HIDE DEF e
<1>9. EstimateTokens(t) = e
  BY <1>7, <1>8
<1> QED
  BY <1>9 DEF e

-----------------------------------------------------------------------------
\* Ingest: sentences and overlaps

Parts == Texts \ {<<>>}
Reads == [done : Seq(Parts), buf : Texts]
Begun == [done |-> <<>>, buf |-> <<>>]
ReadOne(r, x) ==
  LET buf == Append(r.buf, x)
  IN  IF EndsSentence(x) THEN [done |-> Append(r.done, buf), buf |-> <<>>] ELSE [done |-> r.done, buf |-> buf]
Reading == [x \in Reads \X Frags |-> ReadOne(x[1], x[2])]
ReadOf(t) == FoldOver(Reading, Reads, Begun, t)

LEMMA PartsAreTexts ==
  /\ Parts \subseteq Texts /\ Parts \subseteq Seq(Frags) /\ Seq(Parts) \subseteq Seq(Seq(Frags))
  /\ <<>> \in Texts /\ <<>> \in Seq(Parts)
<1>1. Parts \subseteq Texts /\ Parts \subseteq Seq(Frags) /\ <<>> \in Texts
  BY DEF Parts, Texts
<1> QED
  BY <1>1

LEMMA ReadStays ==
  ASSUME NEW r \in Reads, NEW x \in Frags
  PROVE  /\ ReadOne(r, x) \in Reads
         /\ Append(r.buf, x) \in Parts /\ Append(r.buf, x) \in Texts
<1>1. r.done \in Seq(Parts) /\ r.buf \in Texts
  BY DEF Reads
<1>2. Append(r.buf, x) \in Parts /\ Append(r.buf, x) \in Texts
  <2>1. r.buf \in Seq(Frags)
    BY <1>1 DEF Texts
  <2>2. Append(r.buf, x) \in Seq(Frags) /\ Len(Append(r.buf, x)) = Len(r.buf) + 1 /\ Len(r.buf) \in Nat
    BY <2>1
  <2>3. Append(r.buf, x) # <<>>
    BY <2>2
  <2> QED
    BY <2>2, <2>3 DEF Texts, Parts
<1>3. Append(r.done, Append(r.buf, x)) \in Seq(Parts)
  BY <1>1, <1>2
<1>4. CASE EndsSentence(x)
  <2>1. ReadOne(r, x) = [done |-> Append(r.done, Append(r.buf, x)), buf |-> <<>>]
    BY <1>4 DEF ReadOne
  <2> QED
    BY <1>2, <1>3, <2>1, PartsAreTexts DEF Reads
<1>5. CASE ~EndsSentence(x)
  <2>1. ReadOne(r, x) = [done |-> r.done, buf |-> Append(r.buf, x)]
    BY <1>5 DEF ReadOne
  <2> QED
    BY <1>1, <1>2, <2>1 DEF Reads
<1> QED
  BY <1>2, <1>4, <1>5

LEMMA ReadingFolds == Folds(Reading, Reads, Frags, Begun)
<1>1. Reading \in [Reads \X Frags -> Reads]
  BY ReadStays DEF Reading
<1>2. Begun \in Reads
  BY PartsAreTexts DEF Begun, Reads
<1> QED
  BY <1>1, <1>2 DEF Folds

LEMMA ReadOfIs ==
  /\ ReadOf(<<>>) = Begun
  /\ \A t \in Texts : ReadOf(t) \in Reads
  /\ \A t \in Texts, x \in Frags : ReadOf(Append(t, x)) = ReadOne(ReadOf(t), x)
<1>1. ReadOf(<<>>) = Begun
  BY ReadingFolds, FoldEmpty DEF ReadOf
<1>2. ASSUME NEW t \in Texts PROVE ReadOf(t) \in Reads
  BY ReadingFolds, FoldType DEF ReadOf, Texts
<1>3. ASSUME NEW t \in Texts, NEW x \in Frags PROVE ReadOf(Append(t, x)) = ReadOne(ReadOf(t), x)
  <2>1. t \in Seq(Frags)
    BY DEF Texts
  <2>2. ReadOf(Append(t, x)) = Reading[<<ReadOf(t), x>>]
    BY <2>1, ReadingFolds, FoldAppend DEF ReadOf
  <2>3. ReadOf(t) \in Reads
    BY <1>2
  <2> QED
    BY <2>2, <2>3 DEF Reading
<1> QED
  BY <1>1, <1>2, <1>3

LEMMA SentencesRead ==
  ASSUME NEW t \in Texts
  PROVE  Sentences(t) = Closed(ReadOf(t))
<1> DEFINE n == Len(t)
           Filled(f) == [i \in 0..n |-> IF i = 0 THEN [done |-> <<>>, buf |-> <<>>] ELSE ReadOne(f[i - 1], t[i])]
           made == CHOOSE f : f = Filled(f)
<1>1. Sentences(t) = Closed(made[n])
  BY DEF Sentences, ReadOne
<1>2. n \in Nat /\ t \in Seq(Frags) /\ \A i \in 1..n : t[i] \in Frags
  BY DEF Texts
<1>3. PICK f : FoldRow(f, Reading, Reads, Begun, t)
  BY <1>2, ReadingFolds, FoldRowExists
<1>4. f \in [0..n -> Reads] /\ f[0] = Begun /\ \A i \in 1..n : f[i] = Reading[<<f[i - 1], t[i]>>]
  BY <1>3 DEF FoldRow
<1>5. \A r \in Reads, x \in Frags : Reading[<<r, x>>] = ReadOne(r, x)
  BY DEF Reading
<1> HIDE DEF n
<1>6. \A i \in 1..n : f[i] = ReadOne(f[i - 1], t[i])
  <2> TAKE i \in 1..n
  <2>1. i - 1 \in 0..n
    BY <1>2
  <2>2. f[i - 1] \in Reads /\ t[i] \in Frags
    BY <1>2, <1>4, <2>1
  <2> QED
    BY <1>4, <1>5, <2>2
<1>7. f = Filled(f)
  <2>1. \A i \in 0..n : f[i] = IF i = 0 THEN [done |-> <<>>, buf |-> <<>>] ELSE ReadOne(f[i - 1], t[i])
    <3> TAKE i \in 0..n
    <3>1. CASE i = 0
      BY <1>4, <3>1 DEF Begun
    <3>2. CASE i # 0
      <4>1. i \in 1..n
        BY <1>2, <3>2
      <4> QED
        BY <1>6, <3>2, <4>1
    <3> QED
      BY <3>1, <3>2
  <2>2. f = [i \in 0..n |-> f[i]]
    BY <1>4
  <2> QED
    BY <2>1, <2>2
<1> HIDE DEF Filled
<1>8. made = Filled(made)
  BY <1>7
<1> HIDE DEF made
<1>9. made = [i \in 0..n |-> IF i = 0 THEN Begun ELSE ReadOne(made[i - 1], t[i])]
  BY <1>8 DEF Filled, Begun
<1>10. made = [i \in 0..n |-> made[i]]
  BY <1>9
<1>11. made[0] = Begun
  BY <1>2, <1>9
<1>12. \A i \in 1..n : made[i] = ReadOne(made[i - 1], t[i])
  <2> TAKE i \in 1..n
  <2>1. i \in 0..n /\ i # 0
    BY <1>2
  <2> QED
    BY <1>9, <2>1
<1>13. \A i \in 1..n : made[i - 1] \in Reads => made[i] = Reading[<<made[i - 1], t[i]>>]
  BY <1>2, <1>5, <1>12
<1>14. RunsAs(made, Reading, Reads, Begun, t)
  BY <1>10, <1>11, <1>13 DEF RunsAs, n
<1>15. FoldOver(Reading, Reads, Begun, t) = made[Len(t)]
  BY <1>2, <1>14, ReadingFolds, FoldIs
<1> QED
  BY <1>1, <1>15 DEF n, ReadOf

(* Closing a text read so far leaves nothing of it out. *)
LEMMA ClosedIs ==
  ASSUME NEW r \in Reads
  PROVE  /\ Closed(r) \in Seq(Parts)
         /\ Flatten(Closed(r)) = Flatten(r.done) \o r.buf
         /\ r.buf = <<>> => Closed(r) = r.done
         /\ r.buf # <<>> => Closed(r) = Append(r.done, r.buf)
<1>1. r.done \in Seq(Parts) /\ r.buf \in Texts /\ r.done \in Seq(Seq(Frags)) /\ r.buf \in Seq(Frags)
  BY PartsAreTexts DEF Reads, Texts
<1>2. Flatten(r.done) \in Seq(Frags)
  BY <1>1, FlattenType
<1>3. CASE r.buf = <<>>
  <2>1. Closed(r) = r.done \o <<>>
    BY <1>3 DEF Closed
  <2>2. Closed(r) = r.done
    BY <1>1, <2>1
  <2>3. Flatten(r.done) \o <<>> = Flatten(r.done)
    BY <1>2
  <2> QED
    BY <1>1, <1>3, <2>2, <2>3
<1>4. CASE r.buf # <<>>
  <2>1. Closed(r) = r.done \o <<r.buf>>
    BY <1>4 DEF Closed
  <2>2. Closed(r) = Append(r.done, r.buf)
    BY <1>1, <2>1
  <2>3. r.buf \in Parts
    BY <1>1, <1>4 DEF Parts
  <2>4. Append(r.done, r.buf) \in Seq(Parts)
    BY <1>1, <2>3
  <2>5. Flatten(Append(r.done, r.buf)) = Flatten(r.done) \o r.buf
    BY <1>1, FlattenAppend
  <2> QED
    BY <1>4, <2>2, <2>4, <2>5
<1> QED
  BY <1>3, <1>4

LEMMA ReadKeeps ==
  ASSUME NEW t \in Texts
  PROVE  Flatten(ReadOf(t).done) \o ReadOf(t).buf = t
<1> DEFINE Keeps(u) == Flatten(ReadOf(u).done) \o ReadOf(u).buf = u
           P == {u \in Texts : Keeps(u)}
<1>1. <<>> \in P
  <2>1. Flatten(<<>>) \o <<>> = <<>>
    BY FlattenEmpty
  <2>2. ReadOf(<<>>).done = <<>> /\ ReadOf(<<>>).buf = <<>>
    BY ReadOfIs DEF Begun
  <2>3. Keeps(<<>>)
    BY <2>1, <2>2
  <2> QED
    BY <2>3, PartsAreTexts
<1>2. ASSUME NEW u \in Seq(Frags), NEW x \in Frags, u \in P PROVE Append(u, x) \in P
  <2> DEFINE r == ReadOf(u)
  <2>1. u \in Texts /\ Append(u, x) \in Texts
    BY DEF Texts
  <2>2. r \in Reads /\ ReadOf(Append(u, x)) = ReadOne(r, x)
    BY <2>1, ReadOfIs
  <2>3. Flatten(r.done) \o r.buf = u
    BY <1>2
  <2> HIDE DEF r
  <2>4. r.done \in Seq(Seq(Frags)) /\ r.buf \in Seq(Frags) /\ Append(r.buf, x) \in Seq(Frags)
    BY <2>2, PartsAreTexts DEF Reads, Texts
  <2>5. Flatten(r.done) \in Seq(Frags)
    BY <2>4, FlattenType
  <2>6. Flatten(r.done) \o Append(r.buf, x) = Append(u, x)
    <3>1. AppendsJoin(Flatten(r.done), r.buf, x)
      BY <2>4, <2>5, AppendAtEnd
    <3> QED
      BY <2>3, <3>1 DEF AppendsJoin
  <2>7. CASE EndsSentence(x)
    <3>1. ReadOne(r, x) = [done |-> Append(r.done, Append(r.buf, x)), buf |-> <<>>]
      BY <2>7 DEF ReadOne
    <3>2. Flatten(Append(r.done, Append(r.buf, x))) = Flatten(r.done) \o Append(r.buf, x)
      BY <2>4, FlattenAppend
    <3>3. Append(u, x) \o <<>> = Append(u, x)
      OBVIOUS
    <3>4. Keeps(Append(u, x))
      BY <2>2, <2>6, <3>1, <3>2, <3>3
    <3> QED
      BY <2>1, <3>4
  <2>8. CASE ~EndsSentence(x)
    <3>1. ReadOne(r, x) = [done |-> r.done, buf |-> Append(r.buf, x)]
      BY <2>8 DEF ReadOne
    <3>2. ReadOf(Append(u, x)).done = r.done /\ ReadOf(Append(u, x)).buf = Append(r.buf, x)
      BY <2>2, <3>1
    <3>4. Keeps(Append(u, x))
      BY <2>6, <3>2
    <3> QED
      BY <2>1, <3>4
  <2> QED
    BY <2>7, <2>8
<1>3. Seq(Frags) \subseteq P
  <2> HIDE DEF P
  <2> QED
    BY <1>1, <1>2, SeqInduction
<1> QED
  BY <1>3 DEF Texts

(* Sentences leave nothing of a text out. *)
LEMMA SentencesKeep ==
  ASSUME NEW t \in Texts
  PROVE  Sentences(t) \in Seq(Parts) /\ Flatten(Sentences(t)) = t
BY SentencesRead, ReadOfIs, ClosedIs, ReadKeeps

LEMMA EndOfAppend ==
  ASSUME NEW T, NEW s \in Seq(T), NEW x \in T, NEW i \in 1..(Len(s) + 1)
  PROVE  SubSeq(Append(s, x), i, Len(s) + 1) = Append(SubSeq(s, i, Len(s)), x)
<1> DEFINE n == Len(s)
           a == SubSeq(Append(s, x), i, n + 1)
           b == Append(SubSeq(s, i, n), x)
<1>1. n \in Nat /\ Append(s, x) \in Seq(T) /\ Len(Append(s, x)) = n + 1 /\ i - 1 \in 0..n
  OBVIOUS
<1>2. SubSeq(s, i, n) \in Seq(T) /\ Len(SubSeq(s, i, n)) = n - i + 1
  OBVIOUS
<1>3. \A k \in 1..(n - i + 1) : SubSeq(s, i, n)[k] = s[i + k - 1]
  OBVIOUS
<1>4. a \in Seq(T) /\ Len(a) = n - i + 2 /\ \A k \in 1..(n - i + 2) : a[k] = Append(s, x)[i + k - 1]
  OBVIOUS
<1>5. b \in Seq(T) /\ Len(b) = n - i + 2 /\ b[n - i + 2] = x /\ \A k \in 1..(n - i + 1) : b[k] = s[i + k - 1]
  BY <1>1, <1>2, <1>3
<1>6. \A k \in 1..(n - i + 2) : a[k] = b[k]
  <2> TAKE k \in 1..(n - i + 2)
  <2>1. CASE k = n - i + 2
    <3>1. Append(s, x)[i + k - 1] = x
      BY <1>1, <2>1
    <3> QED
      BY <1>4, <1>5, <2>1, <3>1
  <2>2. CASE k # n - i + 2
    <3>1. k \in 1..(n - i + 1) /\ i + k - 1 \in 1..n
      BY <1>1, <2>2
    <3>2. Append(s, x)[i + k - 1] = s[i + k - 1]
      BY <3>1
    <3> QED
      BY <1>4, <1>5, <3>1, <3>2
  <2> QED
    BY <2>1, <2>2
<1> HIDE DEF a, b, n
<1>7. a = b
  BY <1>1, <1>4, <1>5, <1>6, SMTT(60)
<1> QED
  BY <1>7, SMTT(60) DEF a, b, n

(* A text read from the beginning of one of its sentences is read as before. *)
Resumes(t) ==
  LET r == ReadOf(t)
      n == Len(r.done)
  IN  \A i \in 1..(n + 1) :
        ReadOf(Flatten(SubSeq(r.done, i, n)) \o r.buf) = [done |-> SubSeq(r.done, i, n), buf |-> r.buf]

LEMMA ReadResumes ==
  ASSUME NEW t \in Texts
  PROVE  Resumes(t)
<1> DEFINE P == {u \in Texts : Resumes(u)}
<1>1. <<>> \in P
  <2>1. ReadOf(<<>>) = [done |-> <<>>, buf |-> <<>>]
    BY ReadOfIs DEF Begun
  <2>2. \A i \in 1..1 : SubSeq(<<>>, i, 0) = <<>>
    OBVIOUS
  <2>3. Flatten(<<>>) \o <<>> = <<>>
    BY FlattenEmpty
  <2>4. Resumes(<<>>)
    <3>1. ReadOf(<<>>).done = <<>> /\ ReadOf(<<>>).buf = <<>> /\ Len(<<>>) = 0
      BY <2>1
    <3>2. ASSUME NEW i \in 1..1
          PROVE  ReadOf(Flatten(SubSeq(<<>>, i, 0)) \o <<>>) = [done |-> SubSeq(<<>>, i, 0), buf |-> <<>>]
      <4>1. SubSeq(<<>>, i, 0) = <<>>
        BY <2>2
      <4> QED
        BY <2>1, <2>3, <4>1
    <3>3. 0 + 1 = 1
      OBVIOUS
    <3> QED
      BY <3>1, <3>2, <3>3 DEF Resumes
  <2> QED
    BY <2>4, PartsAreTexts
<1>2. ASSUME NEW u \in Seq(Frags), NEW x \in Frags, u \in P PROVE Append(u, x) \in P
  <2> DEFINE r == ReadOf(u)
             d == r.done
             b == r.buf
             n == Len(d)
             y == Append(b, x)
  <2>1. u \in Texts /\ Append(u, x) \in Texts /\ Resumes(u)
    BY <1>2 DEF Texts
  <2>2. r \in Reads /\ ReadOf(Append(u, x)) = ReadOne(r, x)
    BY <2>1, ReadOfIs
  <2>3. \A i \in 1..(n + 1) : ReadOf(Flatten(SubSeq(d, i, n)) \o b) = [done |-> SubSeq(d, i, n), buf |-> b]
    BY <2>1 DEF Resumes
  <2>4. d \in Seq(Parts) /\ d \in Seq(Seq(Frags)) /\ b \in Seq(Frags) /\ y \in Seq(Frags) /\ y \in Parts /\ n \in Nat
    BY <2>2, PartsAreTexts, ReadStays DEF Reads, Texts
  <2>5. ReadOne(r, x) = IF EndsSentence(x) THEN [done |-> Append(d, y), buf |-> <<>>] ELSE [done |-> d, buf |-> y]
    BY DEF ReadOne
  <2> HIDE DEF r, d, b, n, y
  <2>6. ASSUME NEW i \in 1..(n + 1)
        PROVE  /\ SubSeq(d, i, n) \in Seq(Parts) /\ SubSeq(d, i, n) \in Seq(Seq(Frags))
               /\ ReadOf(Flatten(SubSeq(d, i, n)) \o y)
                    = IF EndsSentence(x) THEN [done |-> Append(SubSeq(d, i, n), y), buf |-> <<>>]
                      ELSE [done |-> SubSeq(d, i, n), buf |-> y]
    <3> DEFINE e == SubSeq(d, i, n)
               f == Flatten(e) \o b
    <3>1. e \in Seq(Parts)
      BY <2>4 DEF n
    <3>2. e \in Seq(Seq(Frags))
      BY <3>1, PartsAreTexts
    <3> HIDE DEF e
    <3>3. Flatten(e) \in Seq(Frags) /\ f \in Texts
      BY <2>4, <3>2, FlattenType DEF Texts
    <3>4. AppendsJoin(Flatten(e), b, x)
      BY <2>4, <3>3, AppendAtEnd
    <3>5. Flatten(e) \o y = Append(f, x)
      BY <3>4 DEF AppendsJoin, y
    <3>6. ReadOf(f) = [done |-> e, buf |-> b]
      BY <2>3 DEF e
    <3>7. ReadOf(Append(f, x)) = ReadOne(ReadOf(f), x)
      <4> HIDE DEF f
      <4> QED
        BY <3>3, ReadOfIs
    <3>8. ReadOne([done |-> e, buf |-> b], x) = IF EndsSentence(x) THEN [done |-> Append(e, y), buf |-> <<>>] ELSE [done |-> e, buf |-> y]
      BY DEF ReadOne, y
    <3>9. ReadOf(Flatten(e) \o y) = IF EndsSentence(x) THEN [done |-> Append(e, y), buf |-> <<>>] ELSE [done |-> e, buf |-> y]
      BY <3>5, <3>6, <3>7, <3>8
    <3> QED
      BY <3>1, <3>2, <3>9 DEF e
  <2>7. CASE EndsSentence(x)
    <3> DEFINE D == Append(d, y)
    <3>1. ReadOf(Append(u, x)) = [done |-> D, buf |-> <<>>]
      BY <2>2, <2>5, <2>7
    <3>2. Len(D) = n + 1 /\ D \in Seq(Parts)
      BY <2>4 DEF n
    <3>3. ASSUME NEW i \in 1..(n + 2)
          PROVE  ReadOf(Flatten(SubSeq(D, i, n + 1)) \o <<>>) = [done |-> SubSeq(D, i, n + 1), buf |-> <<>>]
      <4>1. CASE i \in 1..(n + 1)
        <5> DEFINE e == SubSeq(d, i, n)
        <5>1. SubSeq(D, i, n + 1) = Append(e, y)
          BY <2>4, <4>1, EndOfAppend DEF n
        <5>2. e \in Seq(Seq(Frags)) /\ ReadOf(Flatten(e) \o y) = [done |-> Append(e, y), buf |-> <<>>]
          BY <2>6, <2>7, <4>1
        <5> HIDE DEF e
        <5>3. Flatten(Append(e, y)) = Flatten(e) \o y /\ Flatten(e) \in Seq(Frags)
          BY <2>4, <5>2, FlattenAppend, FlattenType
        <5>4. (Flatten(e) \o y) \o <<>> = Flatten(e) \o y
          <6>1. Flatten(e) \o y \in Seq(Frags)
            BY <2>4, <5>3
          <6> HIDE DEF y
          <6> QED
            BY <6>1, ConcatEmptySeq
        <5> QED
          BY <5>1, <5>2, <5>3, <5>4
      <4>2. CASE i = n + 2
        <5>1. SubSeq(D, i, n + 1) = <<>>
          BY <2>4, <3>2, <4>2
        <5>2. Flatten(<<>>) \o <<>> = <<>> /\ ReadOf(<<>>) = [done |-> <<>>, buf |-> <<>>]
          BY FlattenEmpty, ReadOfIs DEF Begun
        <5> QED
          BY <5>1, <5>2
      <4> QED
        BY <2>4, <4>1, <4>2
    <3> HIDE DEF D
    <3>4. (n + 1) + 1 = n + 2
      BY <2>4
    <3>6. ReadOf(Append(u, x)).done = D /\ ReadOf(Append(u, x)).buf = <<>>
      BY <3>1
    <3>5. Resumes(Append(u, x))
      BY <3>6, <3>2, <3>3, <3>4 DEF Resumes
    <3> QED
      BY <2>1, <3>5
  <2>8. CASE ~EndsSentence(x)
    <3>1. ReadOf(Append(u, x)) = [done |-> d, buf |-> y]
      BY <2>2, <2>5, <2>8
    <3>2. \A i \in 1..(n + 1) : ReadOf(Flatten(SubSeq(d, i, n)) \o y) = [done |-> SubSeq(d, i, n), buf |-> y]
      BY <2>6, <2>8
    <3>3. Resumes(Append(u, x))
      BY <3>1, <3>2 DEF Resumes, n
    <3> QED
      BY <2>1, <3>3
  <2> QED
    BY <2>7, <2>8
<1>3. Seq(Frags) \subseteq P
  <2> HIDE DEF P
  <2> QED
    BY <1>1, <1>2, SeqInduction
<1> QED
  BY <1>3 DEF Texts

(* The end of a text from one of its sentences on has the sentences the text has there. *)
LEMMA SentencesOfEnd ==
  ASSUME NEW t \in Texts, NEW i \in 1..Len(Sentences(t))
  PROVE  LET ss == Sentences(t)
             e == SubSeq(ss, i, Len(ss))
         IN  Sentences(Flatten(e)) = e
<1> DEFINE r == ReadOf(t)
           d == r.done
           b == r.buf
           n == Len(d)
           ss == Sentences(t)
           f == SubSeq(d, i, n)
<1>1. r \in Reads /\ ss = Closed(r)
  BY ReadOfIs, SentencesRead
<1>2. d \in Seq(Parts) /\ d \in Seq(Seq(Frags)) /\ b \in Texts /\ b \in Seq(Frags) /\ n \in Nat
  BY <1>1, PartsAreTexts DEF Reads, Texts
<1>3. \A k \in 1..(n + 1) : ReadOf(Flatten(SubSeq(d, k, n)) \o b) = [done |-> SubSeq(d, k, n), buf |-> b]
  BY ReadResumes DEF Resumes
<1>4. (b = <<>> => ss = d) /\ (b # <<>> => ss = Append(d, b))
  BY <1>1, ClosedIs
<1>9. Len(ss) = Len(Sentences(t))
  OBVIOUS
<1> HIDE DEF r, d, b, n, ss
<1>5. ASSUME i \in 1..(n + 1) PROVE f \in Seq(Parts) /\ f \in Seq(Seq(Frags)) /\ Flatten(f) \in Seq(Frags)
  <2>1. f \in Seq(Parts)
    BY <1>2, <1>5 DEF n
  <2> HIDE DEF f
  <2> QED
    BY <2>1, PartsAreTexts, FlattenType
<1>6. CASE b = <<>>
  <2>1. ss = d /\ i \in 1..(n + 1) /\ Len(ss) = n
    BY <1>2, <1>4, <1>6, <1>9 DEF n
  <2>2. ReadOf(Flatten(f) \o <<>>) = [done |-> f, buf |-> <<>>]
    BY <1>3, <1>6, <2>1
  <2>3. Flatten(f) \o <<>> = Flatten(f) /\ Flatten(f) \in Texts
    BY <1>5, <2>1 DEF Texts
  <2>4. Sentences(Flatten(f)) = Closed([done |-> f, buf |-> <<>>])
    BY <2>2, <2>3, SentencesRead
  <2>5. [done |-> f, buf |-> <<>>] \in Reads
    BY <1>5, <2>1, PartsAreTexts DEF Reads
  <2>6. Closed([done |-> f, buf |-> <<>>]) = f
    BY <2>5, ClosedIs
  <2>7. SubSeq(ss, i, Len(ss)) = f
    BY <2>1
  <2> QED
    BY <2>4, <2>6, <2>7 DEF ss
<1>7. CASE b # <<>>
  <2>1. ss = Append(d, b) /\ b \in Parts
    BY <1>2, <1>4, <1>7 DEF Parts
  <2>2. Len(ss) = n + 1 /\ i \in 1..(n + 1)
    BY <1>2, <1>9, <2>1 DEF n
  <2>3. SubSeq(ss, i, Len(ss)) = Append(f, b)
    BY <1>2, <2>1, <2>2, EndOfAppend DEF n
  <2>4. ReadOf(Flatten(f) \o b) = [done |-> f, buf |-> b]
    BY <1>3, <2>2
  <2>5. f \in Seq(Parts) /\ f \in Seq(Seq(Frags)) /\ Flatten(f) \in Seq(Frags)
    BY <1>5, <2>2
  <2>6. [done |-> f, buf |-> b] \in Reads
    BY <1>2, <2>5 DEF Reads
  <2> HIDE DEF f
  <2>7. Flatten(Append(f, b)) = Flatten(f) \o b /\ Flatten(f) \o b \in Texts
    BY <1>2, <2>5, FlattenAppend, SMTT(60) DEF Texts
  <2>8. Sentences(Flatten(Append(f, b))) = Closed([done |-> f, buf |-> b])
    BY <2>4, <2>7, SentencesRead
  <2>9. Closed([done |-> f, buf |-> b]) = Append(f, b)
    BY <1>7, <2>6, ClosedIs
  <2> QED
    BY <2>3, <2>8, <2>9 DEF ss
<1> QED
  BY <1>6, <1>7

Splits(s, i) == s = SubSeq(s, 1, i - 1) \o SubSeq(s, i, Len(s))
TailIs(s, i) == Tail(SubSeq(s, i, Len(s))) = SubSeq(s, i + 1, Len(s))

LEMMA CutAt ==
  ASSUME NEW T, NEW s \in Seq(T), NEW i \in 1..Len(s)
  PROVE  /\ SubSeq(s, 1, i - 1) \in Seq(T)
         /\ SubSeq(s, i, Len(s)) \in Seq(T) /\ Len(SubSeq(s, i, Len(s))) = Len(s) - i + 1
         /\ SubSeq(s, i, Len(s)) # <<>>
         /\ Splits(s, i) /\ TailIs(s, i)
<1> DEFINE n == Len(s)
           a == SubSeq(s, 1, i - 1)
           b == SubSeq(s, i, n)
           c == SubSeq(s, i + 1, n)
<1>1. n \in Nat /\ i \in Nat /\ i >= 1 /\ i <= n
  OBVIOUS
<1>2. a \in Seq(T) /\ Len(a) = i - 1 /\ \A k \in 1..(i - 1) : a[k] = s[k]
  <2>1. Len(a) = i - 1
    OBVIOUS
  <2>2. \A k \in 1..(i - 1) : a[k] = s[1 + k - 1]
    OBVIOUS
  <2>3. \A k \in 1..(i - 1) : 1 + k - 1 = k
    OBVIOUS
  <2> QED
    BY <2>1, <2>2, <2>3
<1>3. b \in Seq(T) /\ Len(b) = n - i + 1 /\ \A k \in 1..(n - i + 1) : b[k] = s[i + k - 1]
  BY SMTT(60)
<1>4. c \in Seq(T) /\ Len(c) = n - i /\ \A k \in 1..(n - i) : c[k] = s[i + 1 + k - 1]
  OBVIOUS
<1> HIDE DEF a, b, c
<1>5. b # <<>>
  BY <1>1, <1>3
<1>6. a \o b = s
  <2> DEFINE p == a \o b
  <2>1. p \in Seq(T) /\ Len(p) = n
    <3>1. a \o b \in Seq(T) /\ Len(a \o b) = Len(a) + Len(b)
      BY <1>2, <1>3, ConcatProperties
    <3> QED
      BY <1>1, <1>2, <1>3, <3>1
  <2>2. \A k \in 1..n : p[k] = s[k]
    <3> TAKE k \in 1..n
    <3>1. k \in 1..(Len(a) + Len(b))
      BY <1>1, <1>2, <1>3
    <3>2. p[k] = IF k <= Len(a) THEN a[k] ELSE b[k - Len(a)]
      BY <1>2, <1>3, <3>1, ConcatProperties, SMTT(60)
    <3>3. CASE k <= i - 1
      BY <1>1, <1>2, <3>2, <3>3
    <3>4. CASE k > i - 1
      <4>1. k - (i - 1) \in 1..(n - i + 1) /\ i + (k - (i - 1)) - 1 = k
        BY <1>1, <3>4
      <4> QED
        BY <1>1, <1>2, <1>3, <3>2, <3>4, <4>1
    <3>5. k <= i - 1 \/ k > i - 1
      BY <1>1
    <3> QED
      BY <3>3, <3>4, <3>5
  <2> HIDE DEF p
  <2>3. p = s
    BY <2>1, <2>2
  <2> QED
    BY <2>3 DEF p
<1>7. Tail(b) = c
  <2>1. Tail(b) \in Seq(T) /\ Len(Tail(b)) = n - i /\ \A k \in 1..(n - i) : Tail(b)[k] = b[k + 1]
    BY <1>1, <1>3, <1>5
  <2>2. \A k \in 1..(n - i) : Tail(b)[k] = c[k]
    <3> TAKE k \in 1..(n - i)
    <3>1. k + 1 \in 1..(n - i + 1) /\ i + (k + 1) - 1 = i + 1 + k - 1
      BY <1>1
    <3> QED
      BY <1>3, <1>4, <2>1, <3>1
  <2> DEFINE t == Tail(b)
  <2> HIDE DEF t
  <2>3. t = c
    BY <1>1, <1>4, <2>1, <2>2, SMTT(60) DEF t
  <2> QED
    BY <2>3 DEF t
<1> QED
  BY <1>2, <1>3, <1>5, <1>6, <1>7 DEF Splits, TailIs, a, b, c, n

LEMMA AfterLast ==
  ASSUME NEW T, NEW s \in Seq(T)
  PROVE  SubSeq(s, Len(s) + 1, Len(s)) = <<>>
OBVIOUS

Estimating == [x \in Parts |-> EstimateTokens(x)]

LEMMA EstimatesType ==
  ASSUME ChunkingAssumption, NEW ss \in Seq(Parts)
  PROVE  EstimatesOf(ss) \in Nat
<1>1. Estimating \in [Parts -> Nat]
  BY EstimateType, PartsAreTexts DEF Estimating
<1>2. \A i \in DOMAIN ss : ss[i] \in Parts
  OBVIOUS
<1>3. Mapped(Estimating, ss) = [i \in DOMAIN ss |-> EstimateTokens(ss[i])]
  BY <1>2 DEF Mapped, Estimating
<1>4. Mapped(Estimating, ss) \in Seq(Nat)
  BY <1>1, MappedType
<1> QED
  BY <1>3, <1>4, SumOf DEF EstimatesOf

LEMMA NoEstimates == EstimatesOf(<<>>) = 0
<1>1. [i \in DOMAIN <<>> |-> EstimateTokens(<<>>[i])] = <<>>
  OBVIOUS
<1> QED
  BY <1>1, SumOf DEF EstimatesOf

\* o is the end of p.
EndOf(o, p) == Len(o) \in 1..Len(p) /\ o = SubSeq(p, Len(p) - Len(o) + 1, Len(p))

LEMMA EndOfJoined ==
  ASSUME NEW T, NEW a \in Seq(T), NEW o \in Seq(T), o # <<>>
  PROVE  EndOf(o, a \o o)
<1> DEFINE p == a \o o
           m == Len(a)
           n == Len(o)
           s == SubSeq(p, m + 1, m + n)
<1>1. m \in Nat /\ n \in Nat /\ n > 0
  OBVIOUS
<1>2. p \in Seq(T) /\ Len(p) = m + n
  BY ConcatProperties
<1>3. \A k \in 1..(m + n) : p[k] = IF k <= m THEN a[k] ELSE o[k - m]
  BY ConcatProperties
<1> HIDE DEF p
<1>4. s \in Seq(T) /\ Len(s) = n /\ \A k \in 1..n : s[k] = p[m + k]
  <2> HIDE DEF m, n
  <2>1. m + 1 \in 1..(m + n)
    BY <1>1
  <2>2. Len(s) = (m + n) - (m + 1) + 1
    BY <1>1, <1>2
  <2>3. \A k \in 1..n : s[k] = p[(m + 1) + k - 1]
    BY <1>1, <1>2
  <2>4. s \in Seq(T)
    BY <1>1, <1>2
  <2>5. \A k \in 1..n : (m + 1) + k - 1 = m + k
    BY <1>1
  <2> QED
    BY <1>1, <2>2, <2>3, <2>4, <2>5
<1>5. \A k \in 1..n : s[k] = o[k]
  <2> TAKE k \in 1..n
  <2>1. m + k \in 1..(m + n) /\ ~(m + k <= m) /\ (m + k) - m = k
    BY <1>1
  <2> QED
    BY <1>3, <1>4, <2>1
<1> HIDE DEF s, m, n
<1>6. s = o
  BY <1>1, <1>4, <1>5 DEF n
<1>7. Len(p) - Len(o) + 1 = m + 1 /\ Len(o) \in 1..Len(p)
  BY <1>1, <1>2 DEF n
<1>8. EndOf(o, p)
  BY <1>2, <1>6, <1>7 DEF EndOf, s
<1> QED
  BY <1>8 DEF p

(* The overlap: whole sentences from the end, no more than it takes to have enough. *)
TailOf(o, p) ==
  /\ EndOf(o, p)
  /\ o = p \/ EstimatesOf(Sentences(o)) >= OverlapTokens
  /\ EstimatesOf(Tail(Sentences(o))) < OverlapTokens

LEMMA TakeTailSound ==
  ASSUME ChunkingAssumption, NEW p \in Parts
  PROVE  TakeTail(p) \in Parts /\ TailOf(TakeTail(p), p)
<1> DEFINE ss == Sentences(p)
           n == Len(ss)
           End(i) == SubSeq(ss, i, n)
           Enough == {i \in DOMAIN ss : EstimatesOf(End(i)) >= OverlapTokens}
<1>1. p \in Texts /\ p # <<>> /\ p \in Seq(Frags)
  BY PartsAreTexts DEF Parts
<1>2. ss \in Seq(Parts) /\ Flatten(ss) = p /\ ss \in Seq(Seq(Frags))
  BY <1>1, SentencesKeep, PartsAreTexts
<1>3. n \in Nat /\ n > 0 /\ DOMAIN ss = 1..n
  <2>1. ss # <<>>
    BY <1>1, <1>2, FlattenEmpty
  <2> QED
    BY <1>2, <2>1
<1>4. TakeTail(p) = IF Enough = {} THEN p ELSE Flatten(End(CHOOSE i \in Enough : \A j \in Enough : j <= i))
  BY DEF TakeTail
<1>5. OverlapTokens \in Nat /\ OverlapTokens > 0
  BY DEF ChunkingAssumption
<1>6. \A i \in 1..n : EstimatesOf(End(i)) \in Nat
  <2> TAKE i \in 1..n
  <2>1. End(i) \in Seq(Parts)
    BY <1>2, <1>3
  <2> QED
    BY <2>1, EstimatesType
\* What follows the last sentence but i is too little, where it starts too late to be enough.
<1>7. ASSUME NEW i \in 1..n, \A j \in Enough : j <= i
      PROVE  EstimatesOf(Tail(End(i))) < OverlapTokens
  <2>0. Tail(End(i)) = End(i + 1)
    BY <1>2, CutAt DEF TailIs
  <2>1. CASE i = n
    <3>1. End(n + 1) = <<>>
      BY <1>2, AfterLast
    <3>2. Tail(End(i)) = <<>>
      BY <2>0, <2>1, <3>1
    <3> HIDE DEF End, n
    <3> QED
      BY <1>5, <3>2, NoEstimates
  <2>2. CASE i # n
    <3>0. i \in 1..n /\ n \in Nat
      BY <1>3
    <3>1. i + 1 \in 1..n
      BY <2>2, <3>0
    <3>2. i + 1 \notin Enough
      <4> HIDE DEF Enough
      <4> QED
        BY <1>7, <3>0
    <3>3. ~(EstimatesOf(End(i + 1)) >= OverlapTokens)
      BY <1>3, <3>1, <3>2
    <3>4. EstimatesOf(End(i + 1)) \in Nat
      BY <1>6, <3>1
    <3> HIDE DEF End
    <3>5. EstimatesOf(End(i + 1)) < OverlapTokens
      BY <1>5, <3>3, <3>4
    <3> QED
      BY <2>0, <3>5
  <2> QED
    BY <2>1, <2>2
<1>8. \A i \in 1..n : Sentences(Flatten(End(i))) = End(i)
  BY <1>1, SentencesOfEnd
<1>9. CASE Enough = {}
  <2>1. TakeTail(p) = p
    BY <1>4, <1>9
  <2>2. End(1) = ss
    BY <1>2, <1>3
  <2>3. EstimatesOf(Tail(ss)) < OverlapTokens
    <3>1. 1 \in 1..n /\ \A j \in Enough : j <= 1
      BY <1>3, <1>9
    <3> HIDE DEF Enough
    <3>2. EstimatesOf(Tail(End(1))) < OverlapTokens
      BY <1>7, <3>1
    <3> QED
      BY <2>2, <3>2
  <2>4. EndOf(p, p)
    BY <1>1 DEF EndOf
  <2> QED
    BY <2>1, <2>3, <2>4 DEF TailOf
<1>10. CASE Enough # {}
  <2> DEFINE c == CHOOSE i \in Enough : \A j \in Enough : j <= i
             o == Flatten(End(c))
  <2>1. c \in Enough /\ \A j \in Enough : j <= c
    <3>1. \A i \in Enough : i \in 0..n
      BY <1>3
    <3>2. Enough \subseteq 0..n
      <4> HIDE DEF Enough
      <4> QED
        BY <3>1
    <3>3. \E i \in Enough : \A j \in Enough : j <= i
      <4> HIDE DEF Enough
      <4> QED
        BY <1>3, <1>10, <3>2, LastExists
    <3> HIDE DEF Enough
    <3> QED
      BY <3>3
  <2>2. c \in 1..n /\ EstimatesOf(End(c)) >= OverlapTokens
    BY <1>3, <2>1
  <2>3. EstimatesOf(Tail(End(c))) < OverlapTokens
    <3> HIDE DEF Enough
    <3> QED
      BY <1>7, <2>1, <2>2
  <2>4. TakeTail(p) = o
    BY <1>4, <1>10
  <2> HIDE DEF c, Enough
  <2>5. Sentences(o) = End(c)
    BY <1>8, <2>2
  <2> DEFINE before == SubSeq(ss, 1, c - 1)
             after == SubSeq(ss, c, n)
  <2>6. before \in Seq(Parts) /\ after \in Seq(Parts) /\ after # <<>>
    BY <1>2, <2>2, CutAt
  <2>7. ss = before \o after
    <3>1. Splits(ss, c)
      BY <1>2, <2>2, CutAt
    <3> QED
      BY <3>1 DEF Splits
  <2> HIDE DEF before
  <2>8. before \in Seq(Seq(Frags)) /\ after \in Seq(Seq(Frags))
    BY <2>6, PartsAreTexts
  <2> HIDE DEF after
  <2>9. p = Flatten(before) \o Flatten(after)
    BY <1>2, <2>7, <2>8, FlattenConcat
  <2>10. o = Flatten(after)
    BY DEF after
  <2>11. Flatten(before) \in Seq(Frags) /\ o \in Seq(Frags)
    BY <2>8, <2>10, FlattenType
  <2>12. o # <<>>
    <3> SUFFICES ASSUME o = <<>> PROVE FALSE
      OBVIOUS
    <3>1. Sentences(<<>>) = <<>>
      <4>1. Sentences(<<>>) = Closed([done |-> <<>>, buf |-> <<>>])
        BY SentencesRead, PartsAreTexts, ReadOfIs DEF Begun
      <4>2. [done |-> <<>>, buf |-> <<>>] \in Reads
        BY PartsAreTexts DEF Reads
      <4> QED
        BY <4>1, <4>2, ClosedIs
    <3>2. Sentences(o) = after
      BY <2>5 DEF after
    <3> QED
      BY <2>6, <3>1, <3>2 DEF after
  <2>13. EndOf(o, p)
    <3> HIDE DEF o
    <3> QED
      BY <2>9, <2>10, <2>11, <2>12, EndOfJoined
  <2>14. TailOf(o, p)
    BY <2>2, <2>3, <2>5, <2>13 DEF TailOf
  <2>15. o \in Parts
    BY <2>11, <2>12 DEF Parts, Texts
  <2> QED
    BY <2>4, <2>14, <2>15
<1> QED
  BY <1>9, <1>10

-----------------------------------------------------------------------------
\* Ingest: what is selected of a sequence

Pick(T, V) == [x \in T |-> IF x \in V THEN <<x>> ELSE <<>>]
Sift(T, V, s) == Flatten(Mapped(Pick(T, V), s))

LEMMA PickType ==
  ASSUME NEW T, NEW V, V \subseteq T
  PROVE  /\ Pick(T, V) \in [T -> Seq(V)] /\ Pick(T, V) \in [T -> Seq(T)]
         /\ \A x \in T : Pick(T, V)[x] = IF x \in V THEN <<x>> ELSE <<>>
<1>1. \A x \in T : Pick(T, V)[x] = IF x \in V THEN <<x>> ELSE <<>>
  BY DEF Pick
<1>2. \A x \in T : (IF x \in V THEN <<x>> ELSE <<>>) \in Seq(V)
  OBVIOUS
<1>3. Pick(T, V) \in [T -> Seq(V)]
  BY <1>2 DEF Pick
<1>4. Seq(V) \subseteq Seq(T)
  OBVIOUS
<1>5. Pick(T, V) \in [T -> Seq(T)]
  BY <1>3, <1>4
<1> QED
  BY <1>1, <1>3, <1>5

LEMMA SelectedIs ==
  ASSUME NEW T, NEW V, V \subseteq T, NEW s \in Seq(T), NEW places,
         \A i \in DOMAIN s : i \in places <=> s[i] \in V
  PROVE  Selected(s, places) = Sift(T, V, s)
<1>1. \A i \in DOMAIN s : s[i] \in T
  OBVIOUS
<1>2. Mapped(Pick(T, V), s) = [i \in DOMAIN s |-> IF i \in places THEN <<s[i]>> ELSE <<>>]
  <2>1. \A i \in DOMAIN s : Pick(T, V)[s[i]] = IF i \in places THEN <<s[i]>> ELSE <<>>
    BY <1>1 DEF Pick
  <2> QED
    BY <2>1 DEF Mapped
<1> QED
  BY <1>2 DEF Selected, Sift

LEMMA SiftType ==
  ASSUME NEW T, NEW V, V \subseteq T, NEW s \in Seq(T)
  PROVE  Sift(T, V, s) \in Seq(V)
<1>1. Pick(T, V) \in [T -> Seq(V)]
  BY PickType
<1>2. Mapped(Pick(T, V), s) \in Seq(Seq(V))
  BY <1>1, MappedType
<1> QED
  BY <1>2, FlattenType DEF Sift

LEMMA SiftEmpty ==
  ASSUME NEW T, NEW V
  PROVE  Sift(T, V, <<>>) = <<>>
BY MappedEmpty, FlattenEmpty DEF Sift

LEMMA SiftAppend ==
  ASSUME NEW T, NEW V, V \subseteq T, NEW s \in Seq(T), NEW x \in T
  PROVE  Sift(T, V, Append(s, x)) = IF x \in V THEN Append(Sift(T, V, s), x) ELSE Sift(T, V, s)
<1> DEFINE g == Pick(T, V)
           a == Sift(T, V, s)
<1>1. g \in [T -> Seq(V)] /\ g[x] = IF x \in V THEN <<x>> ELSE <<>>
  BY PickType
<1>2. a \in Seq(V) /\ a = Flatten(Mapped(g, s))
  BY SiftType DEF Sift
<1>3. Sift(T, V, Append(s, x)) = Flatten(Mapped(g, Append(s, x)))
  BY DEF Sift
<1> HIDE DEF g, a
<1>4. Mapped(g, Append(s, x)) = Append(Mapped(g, s), g[x])
  <2>1. MapsAppend(g, s, x)
    BY <1>1, MappedStep
  <2> QED
    BY <2>1 DEF MapsAppend
<1>5. Mapped(g, s) \in Seq(Seq(V)) /\ g[x] \in Seq(V)
  <2>1. Mapped(g, s) \in Seq(Seq(V))
    BY <1>1, MappedType, SMTT(60)
  <2>2. g[x] \in Seq(V)
    BY <1>1
  <2> QED
    BY <2>1, <2>2
<1>6. Flatten(Append(Mapped(g, s), g[x])) = a \o g[x]
  BY <1>2, <1>5, FlattenAppend
<1>7. CASE x \in V
  <2>1. a \o <<x>> = Append(a, x)
    BY <1>2, <1>7, AppendJoins
  <2> QED
    BY <1>1, <1>3, <1>4, <1>6, <1>7, <2>1 DEF a
<1>8. CASE x \notin V
  <2>1. a \o <<>> = a
    BY <1>2
  <2> QED
    BY <1>1, <1>3, <1>4, <1>6, <1>8, <2>1 DEF a
<1> QED
  BY <1>7, <1>8

(* Sifting keeps every element it is to keep. *)
LEMMA SiftKeeps ==
  ASSUME NEW T, NEW V, V \subseteq T, NEW s \in Seq(T), NEW i \in 1..Len(s), s[i] \in V
  PROVE  \E k \in 1..Len(Sift(T, V, s)) : Sift(T, V, s)[k] = s[i]
<1> DEFINE Has(u, y) == \E k \in 1..Len(Sift(T, V, u)) : Sift(T, V, u)[k] = y
           All0(u) == \A j \in 1..Len(u) : u[j] \in V => Has(u, u[j])
           P == {u \in Seq(T) : All0(u)}
<1>1. <<>> \in P
  OBVIOUS
<1>2. ASSUME NEW u \in Seq(T), NEW x \in T, u \in P PROVE Append(u, x) \in P
  <2> DEFINE a == Sift(T, V, u)
             b == Sift(T, V, Append(u, x))
  <2>1. a \in Seq(V) /\ b = IF x \in V THEN Append(a, x) ELSE a
    <3>1. a \in Seq(V)
      BY SiftType
    <3>2. b = IF x \in V THEN Append(a, x) ELSE a
      <4>1. u \in Seq(T) /\ x \in T /\ V \subseteq T
        OBVIOUS
      <4> QED
        BY ONLY <4>1, SiftAppend
    <3> QED
      BY <3>1, <3>2
  <2>2. ASSUME NEW j \in 1..Len(Append(u, x)), Append(u, x)[j] \in V
        PROVE  Has(Append(u, x), Append(u, x)[j])
    <3>1. CASE j = Len(u) + 1
      <4>1. Append(u, x)[j] = x /\ x \in V
        BY <2>2, <3>1
      <4>2. b = Append(a, x)
        BY <2>1, <4>1
      <4> HIDE DEF a, b
      <4>3. Len(a) + 1 \in 1..Len(b) /\ b[Len(a) + 1] = x
        BY <2>1, <4>2
      <4> QED
        BY <4>1, <4>3 DEF b
    <3>2. CASE j # Len(u) + 1
      <4>1. j \in 1..Len(u) /\ Append(u, x)[j] = u[j]
        BY <3>2
      <4>2. Has(u, u[j])
        BY <1>2, <2>2, <4>1
      <4>3. PICK k \in 1..Len(a) : a[k] = u[j]
        BY <4>2
      <4> HIDE DEF a, b
      <4>4. k \in 1..Len(b) /\ b[k] = a[k]
        BY <2>1
      <4> QED
        BY <4>1, <4>3, <4>4 DEF b
    <3> QED
      BY <3>1, <3>2
  <2>3. Append(u, x) \in Seq(T)
    OBVIOUS
  <2> HIDE DEF Has
  <2> QED
    BY <2>2, <2>3
<1>3. Seq(T) \subseteq P
  <2> HIDE DEF P
  <2> QED
    BY <1>1, <1>2, SeqInduction
<1>4. s \in P
  BY <1>3
<1> HIDE DEF Has
<1>5. Has(s, s[i])
  BY <1>4
<1> QED
  BY <1>5 DEF Has

(* What a window leaves nothing of has no characters. *)
LEMMA SiftCharacters ==
  ASSUME NEW w \in Seq(Slices)
  PROVE  Sift(Slices, Frags, w) \in Texts /\ Characters(Sift(Slices, Frags, w)) = Characters(w)
<1> DEFINE Same(u) == Characters(Sift(Slices, Frags, u)) = Characters(u)
           P == {u \in Seq(Slices) : Same(u)}
<1>1. <<>> \in P
  BY SiftEmpty
<1>2. ASSUME NEW u \in Seq(Slices), NEW x \in Slices, u \in P PROVE Append(u, x) \in P
  <2> DEFINE a == Sift(Slices, Frags, u)
  <2>1. a \in Seq(Frags) /\ a \in Seq(Slices)
    BY SiftType, FragsAreSlices DEF Texts
  <2>2. Sift(Slices, Frags, Append(u, x)) = IF x \in Frags THEN Append(a, x) ELSE a
    BY SiftAppend, FragsAreSlices
  <2>3. Characters(a) = Characters(u)
    BY <1>2
  <2> HIDE DEF a
  <2>4. Characters(Append(u, x)) = Characters(u) \o Run(x) /\ Characters(Append(a, x)) = Characters(a) \o Run(x)
    BY <2>1, CharactersAppend
  <2>5. CASE x \in Frags
    <3>1. Same(Append(u, x))
      BY <2>2, <2>3, <2>4, <2>5
    <3> QED
      BY <3>1
  <2>6. CASE x \notin Frags
    <3>1. Run(x) = <<>>
      <4>1. x.chars <= 0
        BY <2>6 DEF Slices, Frags
      <4> QED
        BY <4>1, RunsType
    <3>2. Characters(u) \o <<>> = Characters(u)
      <4>1. Characters(u) \in Seq(Marks)
        BY CharactersType
      <4> QED
        BY <4>1, ConcatEmptySeq
    <3>3. Same(Append(u, x))
      BY <2>2, <2>3, <2>4, <2>6, <3>1, <3>2
    <3> QED
      BY <3>3
  <2> QED
    BY <2>5, <2>6
<1>3. Seq(Slices) \subseteq P
  <2> HIDE DEF P
  <2> QED
    BY <1>1, <1>2, SeqInduction
<1>4. Sift(Slices, Frags, w) \in Texts
  BY SiftType, FragsAreSlices DEF Texts
<1> QED
  BY <1>3, <1>4

-----------------------------------------------------------------------------
\* Ingest: the characters of a text between two places

\* What is between lo and hi of a fragment that begins at at.
Clip(x, at, lo, hi) == Fragment(x.line, x.from + Larger(at, lo) - at, Smaller(at + x.chars, hi) - Larger(at, lo))
Window(t, lo, hi) == [i \in DOMAIN t |-> Clip(t[i], Offset(t, i), lo, hi)]
Beyond(t) == Offset(t, Len(t) + 1)

LEMMA OffsetIs ==
  ASSUME NEW t \in Texts, NEW x \in Frags
  PROVE  /\ \A i \in 1..(Len(t) + 1) : Offset(t, i) \in Nat /\ Offset(Append(t, x), i) = Offset(t, i)
         /\ Beyond(<<>>) = 0 /\ Beyond(t) \in Nat
         /\ Beyond(Append(t, x)) = Beyond(t) + x.chars + 1
<1> DEFINE n == Len(t)
           u == Append(t, x)
           C(s, i) == [j \in 1..(i - 1) |-> s[j].chars]
<1>1. n \in Nat /\ (\A i \in 1..n : t[i].chars \in Nat) /\ x.chars \in Nat
  <2>1. n \in Nat /\ \A i \in 1..n : t[i] \in Frags
    BY DEF Texts
  <2>2. \A f \in Frags : f.chars \in Nat
    BY DEF Frags
  <2> QED
    BY <2>1, <2>2
<1>2. Len(u) = n + 1 /\ u[n + 1] = x /\ \A i \in 1..n : u[i] = t[i]
  BY DEF Texts
<1> HIDE DEF u
<1>3. ASSUME NEW i \in 1..(n + 1)
      PROVE  C(t, i) \in Seq(Nat) /\ C(u, i) = C(t, i)
  <2>1. i - 1 \in Nat /\ \A j \in 1..(i - 1) : j \in 1..n
    BY <1>1
  <2>2. C(t, i) \in Seq(Nat)
    BY <1>1, <2>1
  <2>3. C(u, i) = C(t, i)
    BY <1>2, <2>1
  <2> QED
    BY <2>2, <2>3
<1>4. ASSUME NEW i \in 1..(n + 1)
      PROVE  Offset(t, i) \in Nat /\ Offset(u, i) = Offset(t, i)
  <2>1. SumOver(C(t, i)) \in Nat
    BY <1>3, SumOf
  <2>2. Offset(t, i) = SumOver(C(t, i)) + i - 1 /\ Offset(u, i) = SumOver(C(u, i)) + i - 1
    BY DEF Offset
  <2>3. C(u, i) = C(t, i)
    BY <1>3
  <2> HIDE DEF C
  <2> QED
    BY <1>1, <2>1, <2>2, <2>3
<1>5. Beyond(<<>>) = 0
  <2>1. Beyond(<<>>) = SumOver([j \in 1..(1 - 1) |-> <<>>[j].chars]) + 1 - 1
    BY DEF Beyond, Offset
  <2>2. [j \in 1..(1 - 1) |-> <<>>[j].chars] = <<>>
    OBVIOUS
  <2> QED
    BY <2>1, <2>2, SumOf
<1>6. Beyond(u) = Beyond(t) + x.chars + 1
  <2> DEFINE c == C(t, n + 1)
  <2>1. c \in Seq(Nat) /\ Len(c) = n /\ \A j \in 1..n : c[j] = t[j].chars
    BY <1>1
  <2>2. C(u, n + 2) = Append(c, x.chars)
    <3>1. (n + 2) - 1 = n + 1
      BY <1>1
    <3>2. C(u, n + 2) = [j \in 1..(n + 1) |-> u[j].chars]
      BY <3>1
    <3> HIDE DEF c
    <3> QED
      BY <1>1, <1>2, <2>1, <3>2
  <2>3. Offset(u, n + 2) = SumOver(C(u, n + 2)) + (n + 2) - 1 /\ Offset(t, n + 1) = SumOver(c) + (n + 1) - 1
    BY DEF Offset
  <2> HIDE DEF c
  <2>4. SumOver(Append(c, x.chars)) = SumOver(c) + x.chars /\ SumOver(c) \in Nat
    BY <1>1, <2>1, SumOf
  <2>5. Beyond(u) = Offset(u, n + 2) /\ Beyond(t) = Offset(t, n + 1)
    BY <1>1, <1>2 DEF Beyond
  <2> QED
    <3> DEFINE a == SumOver(c)
               b == x.chars
    <3>1. a \in Nat /\ b \in Nat /\ n \in Nat
      BY <1>1, <2>4
    <3>2. Beyond(u) = (a + b) + (n + 2) - 1 /\ Beyond(t) = a + (n + 1) - 1
      BY <2>2, <2>3, <2>4, <2>5
    <3> HIDE DEF a, b, n
    <3>3. Beyond(u) = Beyond(t) + b + 1
      BY <3>1, <3>2
    <3> QED
      BY <3>3 DEF b
<1>7. n + 1 \in 1..(n + 1)
  BY <1>1
<1>8. Beyond(t) \in Nat
  BY <1>4, <1>7 DEF Beyond
<1> QED
  BY <1>4, <1>5, <1>6, <1>8 DEF u

LEMMA ClipType ==
  ASSUME NEW x \in Frags, NEW at \in Nat, NEW lo \in Nat, NEW hi \in Nat
  PROVE  Clip(x, at, lo, hi) \in Slices
<1>1. x.line \in Lines /\ x.from \in Nat /\ x.chars \in Nat
  BY DEF Frags
<1>2. Larger(at, lo) \in Nat /\ Larger(at, lo) >= at /\ Smaller(at + x.chars, hi) \in Nat
  BY <1>1 DEF Larger, Smaller
<1>3. x.from + Larger(at, lo) - at \in Nat /\ Smaller(at + x.chars, hi) - Larger(at, lo) \in Int
  BY <1>1, <1>2
<1> QED
  BY <1>1, <1>3 DEF Clip, Fragment, Slices

LEMMA WindowIs ==
  ASSUME NEW lo \in Nat, NEW hi \in Nat
  PROVE  /\ Window(<<>>, lo, hi) = <<>>
         /\ \A t \in Texts : Window(t, lo, hi) \in Seq(Slices)
         /\ \A t \in Texts, x \in Frags :
              Window(Append(t, x), lo, hi) = Append(Window(t, lo, hi), Clip(x, Beyond(t), lo, hi))
<1>1. Window(<<>>, lo, hi) = <<>>
  BY DEF Window
<1>2. ASSUME NEW t \in Texts PROVE Window(t, lo, hi) \in Seq(Slices)
  <2>1. DOMAIN t = 1..Len(t) /\ Len(t) \in Nat /\ \A i \in 1..Len(t) : t[i] \in Frags
    BY DEF Texts
  <2>2. \A i \in 1..Len(t) : Offset(t, i) \in Nat
    <3>1. CASE t = <<>>
      BY <3>1
    <3>2. CASE t # <<>>
      <4>1. t[1] \in Frags
        BY <2>1, <3>2 DEF Texts
      <4>2. \A i \in 1..(Len(t) + 1) : Offset(t, i) \in Nat
        BY <4>1, OffsetIs
      <4>3. \A i \in 1..Len(t) : i \in 1..(Len(t) + 1)
        BY <2>1
      <4> QED
        BY <4>2, <4>3
    <3> QED
      BY <3>1, <3>2
  <2>3. \A i \in 1..Len(t) : Clip(t[i], Offset(t, i), lo, hi) \in Slices
    BY <2>1, <2>2, ClipType
  <2>4. Window(t, lo, hi) = [i \in 1..Len(t) |-> Clip(t[i], Offset(t, i), lo, hi)]
    BY <2>1 DEF Window
  <2> QED
    BY <2>1, <2>3, <2>4
<1>3. ASSUME NEW t \in Texts, NEW x \in Frags
      PROVE  Window(Append(t, x), lo, hi) = Append(Window(t, lo, hi), Clip(x, Beyond(t), lo, hi))
  <2> DEFINE n == Len(t)
             u == Append(t, x)
  <2>1. n \in Nat /\ DOMAIN t = 1..n /\ DOMAIN u = 1..(n + 1) /\ u[n + 1] = x /\ \A i \in 1..n : u[i] = t[i]
    BY DEF Texts
  <2>2. \A i \in 1..(n + 1) : Offset(u, i) = Offset(t, i)
    BY OffsetIs
  <2>3. Window(t, lo, hi) \in Seq(Slices)
    BY <1>2
  <2>4. Window(t, lo, hi) = [i \in 1..n |-> Clip(t[i], Offset(t, i), lo, hi)]
    BY <2>1 DEF Window
  <2>5. Window(u, lo, hi) = [i \in 1..(n + 1) |-> Clip(u[i], Offset(u, i), lo, hi)]
    BY <2>1 DEF Window
  <2>6. Len(Window(t, lo, hi)) = n
    BY <2>1, <2>4
  <2> HIDE DEF u
  <2>7. \A i \in 1..n : Clip(u[i], Offset(u, i), lo, hi) = Clip(t[i], Offset(t, i), lo, hi)
    BY <2>1, <2>2
  <2>8. Clip(u[n + 1], Offset(u, n + 1), lo, hi) = Clip(x, Beyond(t), lo, hi)
    BY <2>1, <2>2 DEF Beyond
  <2> DEFINE w == Window(t, lo, hi)
             v == Window(u, lo, hi)
             y == Clip(x, Beyond(t), lo, hi)
  <2>9. \A i \in 1..n : v[i] = w[i]
    BY <2>1, <2>4, <2>5, <2>7
  <2>10. v[n + 1] = y
    BY <2>1, <2>5, <2>8
  <2>11. v = [i \in 1..(n + 1) |-> v[i]]
    BY <2>5
  <2>12. w \in Seq(Slices) /\ Len(w) = n
    BY <2>3, <2>6
  <2> HIDE DEF w, v, y
  <2>13. v = Append(w, y)
    <3>1. y \in Slices
      <4>1. Beyond(t) \in Nat
        BY OffsetIs
      <4> QED
        BY <4>1, ClipType DEF y
    <3>2. Append(w, y) \in Seq(Slices) /\ Len(Append(w, y)) = n + 1
      BY <2>12, <3>1
    <3>3. \A i \in 1..(n + 1) : v[i] = Append(w, y)[i]
      <4> TAKE i \in 1..(n + 1)
      <4>1. CASE i = n + 1
        BY <2>10, <2>12, <3>1, <4>1
      <4>2. CASE i # n + 1
        <5>1. i \in 1..n
          BY <2>1, <4>2
        <5> QED
          BY <2>9, <2>12, <3>1, <5>1
      <4> QED
        BY <4>1, <4>2
    <3>4. Append(w, y) = [i \in 1..(n + 1) |-> Append(w, y)[i]]
      <4> DEFINE z == Append(w, y)
      <4>1. z \in Seq(Slices) /\ Len(z) = n + 1
        BY <3>2
      <4> HIDE DEF z
      <4>2. z = [i \in 1..(n + 1) |-> z[i]]
        BY <2>1, <4>1
      <4> QED
        BY <4>2 DEF z
    <3> QED
      BY <2>11, <3>3, <3>4
  <2> QED
    BY <2>13 DEF w, v, y, u
<1> QED
  BY <1>1, <1>2, <1>3

Seen(t, lo, hi) == Characters(Window(t, lo, hi))

LEMMA SeenIs ==
  ASSUME NEW lo \in Nat, NEW hi \in Nat
  PROVE  /\ Seen(<<>>, lo, hi) = <<>>
         /\ \A t \in Texts : Seen(t, lo, hi) \in Seq(Marks)
         /\ \A t \in Texts, x \in Frags :
              Seen(Append(t, x), lo, hi) = Seen(t, lo, hi) \o Run(Clip(x, Beyond(t), lo, hi))
<1>1. Seen(<<>>, lo, hi) = <<>>
  BY WindowIs, CharactersEmpty DEF Seen
<1>2. \A t \in Texts : Seen(t, lo, hi) \in Seq(Marks)
  BY WindowIs, CharactersType DEF Seen
<1>3. ASSUME NEW t \in Texts, NEW x \in Frags
      PROVE  Seen(Append(t, x), lo, hi) = Seen(t, lo, hi) \o Run(Clip(x, Beyond(t), lo, hi))
  <2>1. Beyond(t) \in Nat
    BY OffsetIs
  <2>2. Clip(x, Beyond(t), lo, hi) \in Slices
    BY <2>1, ClipType
  <2>3. Window(Append(t, x), lo, hi) = Append(Window(t, lo, hi), Clip(x, Beyond(t), lo, hi))
    BY WindowIs
  <2>4. Window(t, lo, hi) \in Seq(Slices)
    BY WindowIs
  <2> QED
    BY <2>2, <2>3, <2>4, CharactersAppend DEF Seen
<1> QED
  BY <1>1, <1>2, <1>3

(* A window behind the text shows nothing of it. *)
LEMMA SeenBeyond ==
  ASSUME NEW lo \in Nat, NEW hi \in Nat, NEW t \in Texts, Beyond(t) <= lo
  PROVE  Seen(t, lo, hi) = <<>>
<1> DEFINE Out(u) == Beyond(u) <= lo => Seen(u, lo, hi) = <<>>
           P == {u \in Texts : Out(u)}
<1>1. <<>> \in P
  <2>1. Seen(<<>>, lo, hi) = <<>>
    BY SeenIs
  <2>2. <<>> \in Texts
    BY PartsAreTexts
  <2>3. Out(<<>>)
    BY <2>1
  <2> HIDE DEF Out
  <2> QED
    BY <2>2, <2>3
<1>2. ASSUME NEW u \in Seq(Frags), NEW x \in Frags, u \in P PROVE Append(u, x) \in P
  <2> DEFINE at == Beyond(u)
             c == Clip(x, at, lo, hi)
  <2>1. u \in Texts /\ Append(u, x) \in Texts
    BY DEF Texts
  <2>2. at \in Nat /\ Beyond(Append(u, x)) = at + x.chars + 1 /\ x.chars \in Nat
    BY <2>1, OffsetIs DEF Frags
  <2>3. Seen(Append(u, x), lo, hi) = Seen(u, lo, hi) \o Run(c)
    BY <2>1, SeenIs
  <2>4. ASSUME Beyond(Append(u, x)) <= lo PROVE Seen(Append(u, x), lo, hi) = <<>>
    <3>1. at <= lo /\ at + x.chars <= lo
      BY <2>2, <2>4
    <3>2. Seen(u, lo, hi) = <<>>
      BY <1>2, <3>1
    <3>3. c \in Slices
      BY <2>2, ClipType
    <3>4. c.chars = Smaller(at + x.chars, hi) - Larger(at, lo)
      BY DEF Clip, Fragment
    <3> HIDE DEF at, c
    <3>5. c.chars <= 0
      BY <2>2, <3>1, <3>4 DEF Smaller, Larger
    <3>6. Run(c) = <<>>
      BY <3>3, <3>5, RunsType
    <3> QED
      BY <2>3, <3>2, <3>6 DEF c, at
  <2> QED
    BY <2>1, <2>4
<1>3. Seq(Frags) \subseteq P
  <2> HIDE DEF P
  <2> QED
    BY <1>1, <1>2, SeqInduction
<1> QED
  BY <1>3 DEF Texts

LEMMA RowIs ==
  ASSUME NEW T, NEW n \in Nat, NEW f \in [1..n -> T]
  PROVE  f \in Seq(T) /\ Len(f) = n
OBVIOUS

(* The characters of a fragment in two parts. *)
RunInTwo(l, f, c, d) == Run(Fragment(l, f, c)) \o Run(Fragment(l, f + c, d)) = Run(Fragment(l, f, c + d))

LEMMA RunSplits ==
  ASSUME NEW l \in Lines, NEW f \in Nat, NEW c \in Nat, NEW d \in Nat
  PROVE  RunInTwo(l, f, c, d)
<1> DEFINE a == Run(Fragment(l, f, c))
           b == Run(Fragment(l, f + c, d))
           e == Run(Fragment(l, f, c + d))
           p == a \o b
<1>1. a = [k \in 1..c |-> <<l, f + k - 1>>] /\ b = [k \in 1..d |-> <<l, (f + c) + k - 1>>] /\ e = [k \in 1..(c + d) |-> <<l, f + k - 1>>]
  BY DEF Run, Fragment
<1>2. a \in Seq(Marks) /\ Len(a) = c /\ \A k \in 1..c : a[k] = <<l, f + k - 1>>
  <2>1. \A k \in 1..c : <<l, f + k - 1>> \in Marks
    BY DEF Marks
  <2>3. a \in [1..c -> Marks]
    BY <1>1, <2>1
  <2>4. \A k \in 1..c : a[k] = <<l, f + k - 1>>
    BY <1>1
  <2> HIDE DEF a
  <2> QED
    BY <2>3, <2>4, RowIs
<1>3. b \in Seq(Marks) /\ Len(b) = d /\ \A k \in 1..d : b[k] = <<l, (f + c) + k - 1>>
  <2>1. \A k \in 1..d : <<l, (f + c) + k - 1>> \in Marks
    BY DEF Marks
  <2>3. b \in [1..d -> Marks]
    BY <1>1, <2>1
  <2>4. \A k \in 1..d : b[k] = <<l, (f + c) + k - 1>>
    BY <1>1
  <2> HIDE DEF b
  <2> QED
    BY <2>3, <2>4, RowIs
<1>4. e \in Seq(Marks) /\ Len(e) = c + d /\ \A k \in 1..(c + d) : e[k] = <<l, f + k - 1>>
  <2>1. \A k \in 1..(c + d) : <<l, f + k - 1>> \in Marks
    BY DEF Marks
  <2>2. c + d \in Nat
    OBVIOUS
  <2>3. e \in [1..(c + d) -> Marks]
    BY <1>1, <2>1
  <2>4. \A k \in 1..(c + d) : e[k] = <<l, f + k - 1>>
    BY <1>1
  <2> HIDE DEF e
  <2> QED
    BY <2>3, <2>4, RowIs, <2>2
<1> HIDE DEF a, b, e
<1>5. p \in Seq(Marks) /\ Len(p) = c + d
  BY <1>2, <1>3, ConcatProperties
<1>6. \A k \in 1..(c + d) : p[k] = e[k]
  <2> TAKE k \in 1..(c + d)
  <2>0. k \in Nat /\ (k <= c \/ k > c)
    OBVIOUS
  <2>1. p[k] = IF k <= c THEN a[k] ELSE b[k - c]
    <3>1. k \in 1..(Len(a) + Len(b))
      BY <1>2, <1>3
    <3> QED
      BY <1>2, <1>3, <3>1, ConcatProperties
  <2>2. CASE k <= c
    <3>1. k \in 1..c
      BY <2>2
    <3> QED
      BY <1>2, <1>4, <2>1, <2>2, <3>1
  <2>3. CASE k > c
    <3>1. k - c \in 1..d /\ (f + c) + (k - c) - 1 = f + k - 1 /\ ~(k <= c)
      BY <2>3
    <3>2. b[k - c] = <<l, f + k - 1>>
      BY <1>3, <3>1
    <3>3. e[k] = <<l, f + k - 1>>
      BY <1>4
    <3> QED
      BY <2>1, <3>1, <3>2, <3>3
  <2> QED
    BY <2>0, <2>2, <2>3
<1> HIDE DEF p
<1>7. p = e
  BY <1>4, <1>5, <1>6
<1> QED
  BY <1>7 DEF RunInTwo, a, b, e, p

(* What two windows side by side show is what one over both shows. *)
LEMMA SeenJoins ==
  ASSUME NEW m \in Nat, NEW h \in Nat, m <= h, NEW t \in Texts
  PROVE  Seen(t, 0, m) \o Seen(t, m, h) = Seen(t, 0, h)
<1> DEFINE Joined(u) == Seen(u, 0, m) \o Seen(u, m, h) = Seen(u, 0, h)
           P == {u \in Texts : Joined(u)}
<1>1. <<>> \in P
  <2>1. Seen(<<>>, 0, m) = <<>> /\ Seen(<<>>, m, h) = <<>> /\ Seen(<<>>, 0, h) = <<>>
    BY SeenIs
  <2>2. <<>> \o <<>> = <<>> /\ <<>> \in Texts
    BY PartsAreTexts
  <2>3. Joined(<<>>)
    BY <2>1, <2>2
  <2> HIDE DEF Joined
  <2> QED
    BY <2>2, <2>3
<1>2. ASSUME NEW u \in Seq(Frags), NEW x \in Frags, u \in P PROVE Append(u, x) \in P
  <2> DEFINE at == Beyond(u)
             v == Append(u, x)
             A == Seen(u, 0, m)
             B == Seen(u, m, h)
             C == Seen(u, 0, h)
             ra == Run(Clip(x, at, 0, m))
             rb == Run(Clip(x, at, m, h))
             rc == Run(Clip(x, at, 0, h))
  <2>1. u \in Texts /\ v \in Texts /\ A \o B = C
    BY <1>2 DEF Texts
  <2>2. at \in Nat /\ x.line \in Lines /\ x.from \in Nat /\ x.chars \in Nat /\ x.chars > 0
    BY <2>1, OffsetIs DEF Frags
  <2>3. A \in Seq(Marks) /\ B \in Seq(Marks) /\ C \in Seq(Marks)
    BY <2>1, SeenIs
  <2>4. Seen(v, 0, m) = A \o ra /\ Seen(v, m, h) = B \o rb /\ Seen(v, 0, h) = C \o rc
    BY <2>1, SeenIs, ZenonT(60)
  <2>5. ra \in Seq(Marks) /\ rb \in Seq(Marks) /\ rc \in Seq(Marks)
    BY <2>2, ClipType, RunsType
  <2>6. /\ Clip(x, at, 0, m) = Fragment(x.line, x.from, Smaller(at + x.chars, m) - at)
        /\ Clip(x, at, 0, h) = Fragment(x.line, x.from, Smaller(at + x.chars, h) - at)
    <3>1. Larger(at, 0) = at /\ x.from + at - at = x.from
      BY <2>2 DEF Larger
    <3> QED
      BY <3>1 DEF Clip
  <2>7. CASE at >= m
    <3>1. ra = <<>>
      <4> DEFINE c == Clip(x, at, 0, m)
      <4>1. c \in Slices
        BY <2>2, ClipType
      <4>2. c.chars = Smaller(at + x.chars, m) - at
        BY <2>6 DEF Fragment
      <4> HIDE DEF c, at
      <4>3. c.chars <= 0
        BY <2>2, <2>7, <4>2 DEF Smaller
      <4>4. Run(c) = <<>>
        BY <4>1, <4>3, RunsType
      <4> QED
        BY <4>4 DEF c, at
    <3>2. rb = rc
      <4>1. Larger(at, m) = at /\ Larger(at, 0) = at
        BY <2>2, <2>7 DEF Larger
      <4> QED
        BY <4>1 DEF Clip
    <3>3. A \o ra = A
      BY <2>3, <3>1, SMTT(60)
    <3>4. A \o (B \o rb) = C \o rc
      <4>1. Regroups(A, B, rb)
        BY <2>3, <2>5, Regroup
      <4> QED
        BY <2>1, <3>2, <4>1 DEF Regroups
    <3>5. Joined(v)
      BY <2>4, <3>3, <3>4
    <3> QED
      BY <2>1, <3>5
  <2>8. CASE at < m
    <3>1. B = <<>>
      BY <2>1, <2>2, <2>8, SeenBeyond
    <3>2. A = C /\ B \o rb = rb
      BY <2>1, <2>3, <2>5, <3>1
    <3>3. ra \o rb = rc
      <4> HIDE DEF at
      <4>1. Clip(x, at, m, h) = Fragment(x.line, x.from + m - at, Smaller(at + x.chars, h) - m)
        <5>1. Larger(at, m) = m
          BY <2>2, <2>8 DEF Larger
        <5> QED
          BY <5>1 DEF Clip
      <4>2. CASE at + x.chars <= m
        <5>1. Smaller(at + x.chars, m) = at + x.chars /\ Smaller(at + x.chars, h) = at + x.chars
          BY <2>2, <4>2 DEF Smaller
        <5>2. ra = rc
          BY <2>6, <5>1
        <5>3. rb = <<>>
          <6> DEFINE c == Clip(x, at, m, h)
          <6>1. c \in Slices
            BY <2>2, ClipType
          <6>2. c.chars = (at + x.chars) - m
            BY <4>1, <5>1 DEF Fragment
          <6> HIDE DEF c
          <6>3. c.chars <= 0
            BY <2>2, <4>2, <6>2
          <6>4. Run(c) = <<>>
            BY <6>1, <6>3, RunsType
          <6> QED
            BY <6>4 DEF c
        <5> QED
          BY <2>5, <5>2, <5>3
      <4>3. CASE at + x.chars > m
        <5> DEFINE c == m - at
                   d == Smaller(at + x.chars, h) - m
        <5>1. c \in Nat /\ d \in Nat /\ Smaller(at + x.chars, m) = m /\ Smaller(at + x.chars, h) - at = c + d
          BY <2>2, <2>8, <4>3, SMTT(60) DEF Smaller
        <5>2. x.from + m - at = x.from + c
          BY <2>2
        <5>3. /\ ra = Run(Fragment(x.line, x.from, c)) /\ rb = Run(Fragment(x.line, x.from + c, d))
              /\ rc = Run(Fragment(x.line, x.from, c + d))
          BY <2>6, <4>1, <5>1, <5>2
        <5> HIDE DEF c, d, ra, rb, rc
        <5>4. RunInTwo(x.line, x.from, c, d)
          BY <2>2, <5>1, RunSplits
        <5> QED
          BY <5>3, <5>4 DEF RunInTwo
      <4> QED
        BY <2>2, <4>2, <4>3, SMTT(60)
    <3>4. (A \o ra) \o rb = C \o rc
      <4>1. Regroups(A, ra, rb)
        BY <2>3, <2>5, Regroup
      <4> QED
        BY <3>2, <3>3, <4>1 DEF Regroups
    <3>5. Joined(v)
      BY <2>4, <3>2, <3>4
    <3> QED
      BY <2>1, <3>5
  <2> QED
    BY <2>2, <2>7, <2>8
<1>3. Seq(Frags) \subseteq P
  <2> HIDE DEF P
  <2> QED
    BY <1>1, <1>2, SeqInduction
<1> QED
  BY <1>3 DEF Texts

(* A window over the whole text shows it all. *)
LEMMA SeenWhole ==
  ASSUME NEW h \in Nat, NEW t \in Texts, Beyond(t) <= h + 1
  PROVE  Seen(t, 0, h) = Characters(t)
<1> DEFINE Whole0(u) == Beyond(u) <= h + 1 => Seen(u, 0, h) = Characters(u)
           P == {u \in Texts : Whole0(u)}
<1>1. <<>> \in P
  BY SeenIs, CharactersEmpty, PartsAreTexts
<1>2. ASSUME NEW u \in Seq(Frags), NEW x \in Frags, u \in P PROVE Append(u, x) \in P
  <2> DEFINE at == Beyond(u)
  <2>1. u \in Texts /\ Append(u, x) \in Texts /\ u \in Seq(Slices) /\ x \in Slices
    BY FragsAreSlices DEF Texts
  <2>2. at \in Nat /\ Beyond(Append(u, x)) = at + x.chars + 1 /\ x.from \in Nat /\ x.chars \in Nat
    BY <2>1, OffsetIs DEF Frags
  <2>3. Seen(Append(u, x), 0, h) = Seen(u, 0, h) \o Run(Clip(x, at, 0, h))
    BY <2>1, SeenIs
  <2>4. ASSUME Beyond(Append(u, x)) <= h + 1 PROVE Seen(Append(u, x), 0, h) = Characters(Append(u, x))
    <3>1. Seen(u, 0, h) = Characters(u)
      BY <1>2, <2>2, <2>4
    <3>2. Larger(at, 0) = at /\ Smaller(at + x.chars, h) = at + x.chars
      BY <2>2, <2>4 DEF Larger, Smaller
    <3>3. x.from + at - at = x.from /\ (at + x.chars) - at = x.chars
      BY <2>2
    <3>4. Clip(x, at, 0, h) = Fragment(x.line, x.from, x.chars)
      BY <3>2, <3>3 DEF Clip
    <3>5. Run(Clip(x, at, 0, h)) = Run(x)
      BY <3>4 DEF Run, Fragment
    <3>6. Characters(Append(u, x)) = Characters(u) \o Run(x)
      BY <2>1, CharactersAppend
    <3> QED
      BY <2>3, <3>1, <3>5, <3>6
  <2> QED
    BY <2>1, <2>4
<1>3. Seq(Frags) \subseteq P
  <2> HIDE DEF P
  <2> QED
    BY <1>1, <1>2, SeqInduction
<1> QED
  BY <1>3 DEF Texts

(* A window shows no more characters than it is wide. *)
LEMMA SeenFits ==
  ASSUME NEW lo \in Nat, NEW hi \in Nat, lo <= hi, NEW t \in Texts
  PROVE  Len(Seen(t, lo, hi)) <= hi - lo
<1> DEFINE Fit(u) == Len(Seen(u, lo, hi)) <= IF Beyond(u) < lo THEN 0 ELSE Smaller(Beyond(u), hi) - lo
           P == {u \in Texts : Fit(u)}
<1>1. <<>> \in P
  <2>1. Len(Seen(<<>>, lo, hi)) = 0 /\ Beyond(<<>>) = 0
    <3>1. Seen(<<>>, lo, hi) = <<>>
      BY SeenIs
    <3>2. Beyond(<<>>) = 0
      <4>1. Beyond(<<>>) = SumOver([j \in 1..(1 - 1) |-> <<>>[j].chars]) + 1 - 1
        BY DEF Beyond, Offset
      <4>2. [j \in 1..(1 - 1) |-> <<>>[j].chars] = <<>>
        OBVIOUS
      <4> QED
        BY <4>1, <4>2, SumOf
    <3> QED
      BY <3>1, <3>2
  <2> QED
    BY <2>1, PartsAreTexts DEF Smaller
<1>2. ASSUME NEW u \in Seq(Frags), NEW x \in Frags, u \in P PROVE Append(u, x) \in P
  <2> DEFINE at == Beyond(u)
             c == Clip(x, at, lo, hi)
             z == Beyond(Append(u, x))
             a == Seen(u, lo, hi)
             b == Seen(Append(u, x), lo, hi)
  <2>1. u \in Texts /\ Append(u, x) \in Texts
    BY DEF Texts
  <2>2. at \in Nat /\ z = at + x.chars + 1 /\ x.chars \in Nat
    BY <2>1, OffsetIs DEF Frags
  <2>3. b = a \o Run(c)
    BY <2>1, SeenIs
  <2>4. c \in Slices
    BY <2>2, ClipType
  <2>5. c.chars = Smaller(at + x.chars, hi) - Larger(at, lo)
    BY DEF Clip, Fragment
  <2>6. Len(a) <= IF at < lo THEN 0 ELSE Smaller(at, hi) - lo
    BY <1>2
  <2>7. a \in Seq(Marks) /\ Run(c) \in Seq(Marks)
    BY <2>1, <2>4, SeenIs, RunsType
  <2> HIDE DEF a, b, c, z, at
  <2>8. Len(Run(c)) = IF c.chars > 0 THEN c.chars ELSE 0
    <3>1. CASE c.chars > 0
      BY <2>4, <3>1, RunsType
    <3>2. CASE ~(c.chars > 0)
      <4>1. c.chars <= 0
        BY <2>4, <3>2 DEF Slices
      <4>2. Run(c) = <<>>
        BY <2>4, <4>1, RunsType
      <4> QED
        BY <3>2, <4>2
    <3> QED
      BY <3>1, <3>2
  <2>9. Len(b) = Len(a) + Len(Run(c)) /\ Len(a) \in Nat
    BY <2>3, <2>7, ConcatProperties
  <2>10. Len(b) <= IF z < lo THEN 0 ELSE Smaller(z, hi) - lo
    <3> DEFINE n == x.chars
               la == Len(a)
               lr == Len(Run(c))
               lb == Len(b)
               ch == c.chars
    <3>1. ch \in Int /\ n \in Nat /\ la \in Nat
      BY <2>2, <2>4, <2>9 DEF Slices
    <3>2. /\ z = at + n + 1 /\ ch = Smaller(at + n, hi) - Larger(at, lo) /\ lb = la + lr
          /\ la <= (IF at < lo THEN 0 ELSE Smaller(at, hi) - lo) /\ lr = IF ch > 0 THEN ch ELSE 0
      BY <2>2, <2>5, <2>6, <2>8, <2>9
    <3> HIDE DEF n, la, lr, lb, ch
    <3>3. lb <= IF z < lo THEN 0 ELSE Smaller(z, hi) - lo
      <4>1. CASE at < lo
        <5>1. la = 0 /\ Larger(at, lo) = lo
          BY <2>2, <3>1, <3>2, <4>1 DEF Larger
        <5> QED
          BY <2>2, <3>1, <3>2, <4>1, <5>1, SMTT(60) DEF Smaller
      <4>2. CASE at >= lo
        <5>1. la <= Smaller(at, hi) - lo /\ Larger(at, lo) = at
          BY <2>2, <3>1, <3>2, <4>2 DEF Larger
        <5>2. ~(z < lo)
          BY <2>2, <3>1, <3>2, <4>2, SMTT(60)
        <5> QED
          BY <2>2, <3>1, <3>2, <4>2, <5>1, <5>2, SMTT(60) DEF Smaller
      <4> QED
        BY <2>2, <4>1, <4>2
    <3> QED
      BY <3>3 DEF lb
  <2> QED
    BY <2>1, <2>10 DEF z, b
<1>3. Seq(Frags) \subseteq P
  <2> HIDE DEF P
  <2> QED
    BY <1>1, <1>2, SeqInduction
<1>4. Fit(t)
  BY <1>3 DEF Texts
<1>5. Len(Seen(t, lo, hi)) \in Nat /\ Beyond(t) \in Nat
  <2>1. Seen(t, lo, hi) \in Seq(Marks)
    BY SeenIs
  <2>2. Beyond(t) \in Nat
    <3>1. CASE t = <<>>
      <4>1. Beyond(<<>>) = SumOver([j \in 1..(1 - 1) |-> <<>>[j].chars]) + 1 - 1
        BY DEF Beyond, Offset
      <4>2. [j \in 1..(1 - 1) |-> <<>>[j].chars] = <<>>
        OBVIOUS
      <4> QED
        BY <3>1, <4>1, <4>2, SumOf
    <3>2. CASE t # <<>>
      <4>1. t[1] \in Frags
        BY <3>2 DEF Texts
      <4> QED
        BY <4>1, OffsetIs
    <3> QED
      BY <3>1, <3>2
  <2> QED
    BY <2>1, <2>2
<1> QED
  BY <1>4, <1>5 DEF Smaller


-----------------------------------------------------------------------------
\* Ingest: sentences cut into pieces

PieceSize == MaxTokens * CharsPerToken
PieceOf(t, k) == Sift(Slices, Frags, Window(t, PieceSize * (k - 1), PieceSize * k))

LEMMA PieceSizeType ==
  ASSUME ChunkingAssumption
  PROVE  PieceSize \in Nat \ {0} /\ PieceSize = CharsPerToken * MaxTokens
<1>1. MaxTokens \in Nat /\ MaxTokens > 0 /\ CharsPerToken \in Nat /\ CharsPerToken > 0
  BY DEF ChunkingAssumption
<1>2. \A a, b \in Nat : a > 0 /\ b > 0 => a * b \in Nat /\ a * b > 0 /\ a * b = b * a
  OBVIOUS
<1> QED
  BY <1>1, <1>2 DEF PieceSize

LEMMA WindowSize ==
  ASSUME NEW b \in Nat \ {0}, NEW k \in Nat \ {0}
  PROVE  b * (k - 1) \in Nat /\ b * k \in Nat /\ b * k = b * (k - 1) + b
<1>1. \A x, y \in Nat : x * y \in Nat /\ x * (y + 1) = x * y + x
  OBVIOUS
<1>2. k - 1 \in Nat /\ (k - 1) + 1 = k
  OBVIOUS
<1> QED
  BY <1>1, <1>2

LEMMA BeyondOfSome ==
  ASSUME NEW t \in Texts
  PROVE  Beyond(t) \in Nat /\ (t # <<>> => Beyond(t) > 0)
<1>1. CASE t = <<>>
  <2>1. Beyond(<<>>) = SumOver([j \in 1..(1 - 1) |-> <<>>[j].chars]) + 1 - 1
    BY DEF Beyond, Offset
  <2>2. [j \in 1..(1 - 1) |-> <<>>[j].chars] = <<>>
    OBVIOUS
  <2> QED
    BY <1>1, <2>1, <2>2, SumOf
<1>2. CASE t # <<>>
  <2> DEFINE n == Len(t)
             f == SubSeq(t, 1, n - 1)
  <2>1. f \in Seq(Frags) /\ t[n] \in Frags /\ t = Append(f, t[n])
    BY <1>2 DEF Texts
  <2> HIDE DEF f, n
  <2>2. f \in Texts /\ t[n].chars \in Nat
    BY <2>1 DEF Texts, Frags
  <2>3. Beyond(f) \in Nat /\ Beyond(Append(f, t[n])) = Beyond(f) + t[n].chars + 1
    BY <2>1, <2>2, OffsetIs
  <2>4. Beyond(t) = Beyond(f) + t[n].chars + 1
    BY <2>1, <2>3
  <2> DEFINE c == t[n].chars
             b == Beyond(f)
             z == Beyond(t)
  <2>5. b \in Nat /\ c \in Nat /\ z = b + c + 1
    BY <2>2, <2>3, <2>4
  <2> HIDE DEF b, c, z
  <2>6. z \in Nat /\ z > 0
    BY <2>5
  <2> QED
    BY <2>6 DEF z
<1> QED
  BY <1>1, <1>2

(* hardSplit in terms of windows on the text. *)
LEMMA HardSplitIs ==
  ASSUME ChunkingAssumption, NEW t \in Texts
  PROVE  HardSplit(t) = IF EstimateTokens(t) <= MaxTokens THEN <<t>>
                        ELSE [k \in 1..Cuts(Beyond(t) - 1, PieceSize) |-> PieceOf(t, k)]
<1> DEFINE Slice(i, k) ==
             LET at == Offset(t, i)
                 lo == Larger(at, PieceSize * (k - 1))
             IN  Fragment(t[i].line, t[i].from + lo - at, Smaller(at + t[i].chars, PieceSize * k) - lo)
           Piece(k) == Selected([i \in DOMAIN t |-> Slice(i, k)], {i \in DOMAIN t : Slice(i, k).chars > 0})
<1>1. HardSplit(t) = IF EstimateTokens(t) <= MaxTokens THEN <<t>>
                     ELSE [k \in 1..Cuts(Beyond(t) - 1, PieceSize) |-> Piece(k)]
  BY DEF HardSplit, PieceSize, Beyond
<1>2. \A i, k : Slice(i, k) = Clip(t[i], Offset(t, i), PieceSize * (k - 1), PieceSize * k)
  BY DEF Clip
<1>3. ASSUME NEW k \in Nat \ {0} PROVE Piece(k) = PieceOf(t, k)
  <2> DEFINE lo == PieceSize * (k - 1)
             hi == PieceSize * k
             w == Window(t, lo, hi)
             places == {i \in DOMAIN t : Slice(i, k).chars > 0}
  <2>1. lo \in Nat /\ hi \in Nat
    BY PieceSizeType, WindowSize
  <2>2. w = [i \in DOMAIN t |-> Slice(i, k)]
    BY <1>2 DEF Window
  <2>3. w \in Seq(Slices)
    BY <2>1, WindowIs
  <2>4. DOMAIN w = DOMAIN t /\ \A i \in DOMAIN t : w[i] = Slice(i, k)
    BY <2>2
  <2> HIDE DEF Slice, w
  <2>5. \A i \in DOMAIN w : w[i] \in Slices
    BY <2>3
  <2>6. \A x \in Slices : x.chars > 0 <=> x \in Frags
    <3> TAKE x \in Slices
    <3>1. x.chars \in Int /\ x = [line |-> x.line, from |-> x.from, chars |-> x.chars] /\ x.line \in Lines /\ x.from \in Nat
      BY DEF Slices
    <3>2. x \in Frags => x.chars \in Nat \ {0}
      BY DEF Frags
    <3>3. x.chars > 0 => x \in Frags
      BY <3>1 DEF Frags
    <3> QED
      BY <3>1, <3>2, <3>3
  <2>7. \A i \in DOMAIN w : i \in places <=> w[i] \in Frags
    BY <2>4, <2>5, <2>6
  <2>8. Selected(w, places) = Sift(Slices, Frags, w)
    BY <2>3, <2>7, FragsAreSlices, SelectedIs
  <2> QED
    BY <2>2, <2>8 DEF PieceOf, w
<1> HIDE DEF Piece
<1>4. [k \in 1..Cuts(Beyond(t) - 1, PieceSize) |-> Piece(k)] = [k \in 1..Cuts(Beyond(t) - 1, PieceSize) |-> PieceOf(t, k)]
  <2>1. \A k \in 1..Cuts(Beyond(t) - 1, PieceSize) : k \in Nat \ {0}
    OBVIOUS
  <2> QED
    BY <1>3, <2>1
<1> QED
  BY <1>1, <1>4

(* The first pieces together are what the windows up to there show. *)
LEMMA PiecesShow ==
  ASSUME ChunkingAssumption, NEW t \in Texts, NEW n \in Nat
  PROVE  /\ [k \in 1..n |-> PieceOf(t, k)] \in Seq(Texts)
         /\ Characters(Flatten([k \in 1..n |-> PieceOf(t, k)])) = Seen(t, 0, PieceSize * n)
<1> DEFINE Ps(m) == [k \in 1..m |-> PieceOf(t, k)]
           Good == {m \in Nat : Characters(Flatten(Ps(m))) = Seen(t, 0, PieceSize * m)}
<1>1. ASSUME NEW k \in Nat \ {0}
      PROVE  /\ PieceOf(t, k) \in Texts
             /\ Characters(PieceOf(t, k)) = Seen(t, PieceSize * (k - 1), PieceSize * k)
  <2>1. PieceSize * (k - 1) \in Nat /\ PieceSize * k \in Nat
    BY PieceSizeType, WindowSize
  <2>2. Window(t, PieceSize * (k - 1), PieceSize * k) \in Seq(Slices)
    BY <2>1, WindowIs
  <2> QED
    BY <2>2, SiftCharacters DEF PieceOf, Seen
<1>2. ASSUME NEW m \in Nat PROVE Ps(m) \in Seq(Texts)
  <2>1. \A k \in 1..m : k \in Nat \ {0}
    OBVIOUS
  <2>2. Ps(m) \in [1..m -> Texts]
    BY <1>1, <2>1
  <2> QED
    BY <2>2, RowIs
<1>3. 0 \in Good
  <2>1. Ps(0) = <<>>
    OBVIOUS
  <2>2. Characters(Flatten(Ps(0))) = <<>>
    BY <2>1, FlattenEmpty, CharactersEmpty
  <2>3. PieceSize * 0 = 0
    BY PieceSizeType
  <2>4. Seen(t, 0, 0) = <<>>
    <3>1. Seen(t, 0, 0) \in Seq(Marks) /\ Len(Seen(t, 0, 0)) <= 0 - 0
      BY SeenIs, SeenFits
    <3> QED
      BY <3>1
  <2> QED
    BY <2>2, <2>3, <2>4
<1>4. ASSUME NEW m \in Nat, m \in Good PROVE m + 1 \in Good
  <2> DEFINE q == PieceOf(t, m + 1)
  <2>1. m + 1 \in Nat \ {0} /\ (m + 1) - 1 = m
    OBVIOUS
  <2>2. q \in Texts /\ Characters(q) = Seen(t, PieceSize * m, PieceSize * (m + 1))
    BY <1>1, <2>1
  <2>3. Ps(m + 1) = Append(Ps(m), q)
    OBVIOUS
  <2>4. Ps(m) \in Seq(Texts)
    BY <1>2
  <2> HIDE DEF q, Ps
  <2>5. Flatten(Ps(m + 1)) = Flatten(Ps(m)) \o q /\ Flatten(Ps(m)) \in Texts
    BY <2>2, <2>3, <2>4, FlattenAppend, FlattenType DEF Texts
  <2>6. Characters(Flatten(Ps(m)) \o q) = Characters(Flatten(Ps(m))) \o Characters(q)
    BY <2>2, <2>5, CharactersConcat, FragsAreSlices
  <2>7. PieceSize * m \in Nat /\ PieceSize * (m + 1) \in Nat /\ PieceSize * m <= PieceSize * (m + 1)
    BY <2>1, PieceSizeType, WindowSize
  <2>8. Seen(t, 0, PieceSize * m) \o Seen(t, PieceSize * m, PieceSize * (m + 1)) = Seen(t, 0, PieceSize * (m + 1))
    BY <2>7, SeenJoins
  <2>9. Characters(Flatten(Ps(m))) = Seen(t, 0, PieceSize * m)
    BY <1>4
  <2>10. Characters(Flatten(Ps(m + 1))) = Seen(t, 0, PieceSize * (m + 1))
    BY <2>2, <2>5, <2>6, <2>8, <2>9
  <2> QED
    BY <2>1, <2>10
<1>5. Nat \subseteq Good
  <2> HIDE DEF Good
  <2> QED
    BY <1>3, <1>4, SetInduction
<1> QED
  BY <1>2, <1>5

-----------------------------------------------------------------------------
\* Ingest: how long a text can be

(* A text of narrow fragments is no longer than so many tokens. *)
Weighs(t, m) == Narrow(t) => Len(Characters(t)) <= CharsPerToken * m
Bodies == {t \in Parts : Weighs(t, MaxTokens)}

LEMMA NarrowConcat ==
  ASSUME NEW T, NEW a \in Seq(T), NEW b \in Seq(T), Narrow(a \o b)
  PROVE  Narrow(a) /\ Narrow(b)
<1> DEFINE p == a \o b
<1>1. p \in Seq(T) /\ Len(p) = Len(a) + Len(b) /\ Len(a) \in Nat /\ Len(b) \in Nat
  OBVIOUS
<1>2. (\A i \in 1..Len(a) : p[i] = a[i]) /\ (\A i \in 1..Len(b) : p[Len(a) + i] = b[i])
  OBVIOUS
<1>3. Narrow(p)
  OBVIOUS
<1> HIDE DEF p
<1>4. \A i \in 1..Len(p) : ~Wide(p[i])
  BY <1>1, <1>3 DEF Narrow
<1>5. \A i \in 1..Len(a) : ~Wide(a[i])
  <2> TAKE i \in 1..Len(a)
  <2>1. i \in 1..Len(p)
    BY <1>1
  <2> QED
    BY <1>2, <1>4, <2>1
<1>6. \A i \in 1..Len(b) : ~Wide(b[i])
  <2> TAKE i \in 1..Len(b)
  <2>1. Len(a) + i \in 1..Len(p)
    BY <1>1
  <2> QED
    BY <1>2, <1>4, <2>1
<1> QED
  BY <1>5, <1>6, SMTT(60) DEF Narrow

LEMMA ProductSum ==
  ASSUME NEW b \in Nat, NEW x \in Nat, NEW y \in Nat
  PROVE  b * (x + y) = b * x + b * y /\ b * x \in Nat /\ b * y \in Nat
OBVIOUS

LEMMA WeighsLaws ==
  ASSUME ChunkingAssumption
  PROVE  /\ \A t \in Texts : EstimateTokens(t) \in Nat /\ Weighs(t, EstimateTokens(t))
         /\ \A t \in Texts, m, n \in Nat : m <= n /\ Weighs(t, m) => Weighs(t, n)
         /\ \A a, b \in Texts, m, n \in Nat : Weighs(a, m) /\ Weighs(b, n) => Weighs(a \o b, m + n)
         /\ \A t \in Texts : Weighs(t, 0) /\ t # <<>> => ~Narrow(t)
<1>0. CharsPerToken \in Nat \ {0}
  BY DEF ChunkingAssumption
<1>1. ASSUME NEW t \in Texts PROVE EstimateTokens(t) \in Nat /\ Weighs(t, EstimateTokens(t))
  <2>1. EstimateTokens(t) \in Nat
    BY EstimateType
  <2>2. ASSUME Narrow(t) PROVE Len(Characters(t)) <= CharsPerToken * EstimateTokens(t)
    <3> DEFINE c == Len(Characters(t))
               j == IF Len(t) = 0 THEN 0 ELSE Len(t) - 1
    <3>1. c \in Nat
      BY CharactersType, FragsAreSlices
    <3>2. j \in Nat
      BY DEF Texts
    <3>3. EstimateTokens(t) = Ceiling(c + j, CharsPerToken)
      BY <2>2, NarrowEstimate
    <3> HIDE DEF c, j
    <3>4. c + j \in Nat /\ c <= c + j
      BY <3>1, <3>2
    <3>5. c + j <= CharsPerToken * Ceiling(c + j, CharsPerToken)
      BY <1>0, <3>4, CeilingIs
    <3>6. CharsPerToken * Ceiling(c + j, CharsPerToken) \in Nat
      BY <1>0, <2>1, <3>3, ProductSum
    <3> QED
      BY <3>1, <3>3, <3>4, <3>5, <3>6 DEF c
  <2> QED
    BY <2>1, <2>2 DEF Weighs
<1>2. ASSUME NEW t \in Texts, NEW m \in Nat, NEW n \in Nat, m <= n, Weighs(t, m) PROVE Weighs(t, n)
  <2>1. CharsPerToken * m \in Nat /\ CharsPerToken * n \in Nat /\ CharsPerToken * m <= CharsPerToken * n
    <3>1. n - m \in Nat /\ m + (n - m) = n
      BY <1>2
    <3>2. CharsPerToken * (m + (n - m)) = CharsPerToken * m + CharsPerToken * (n - m) /\ CharsPerToken * m \in Nat /\ CharsPerToken * (n - m) \in Nat
      BY <1>0, <3>1, ProductSum
    <3> QED
      BY <3>1, <3>2
  <2>2. Len(Characters(t)) \in Nat
    BY CharactersType, FragsAreSlices
  <2> QED
    BY <1>2, <2>1, <2>2 DEF Weighs
<1>3. ASSUME NEW a \in Texts, NEW b \in Texts, NEW m \in Nat, NEW n \in Nat, Weighs(a, m), Weighs(b, n)
      PROVE  Weighs(a \o b, m + n)
  <2> SUFFICES ASSUME Narrow(a \o b) PROVE Len(Characters(a \o b)) <= CharsPerToken * (m + n)
    BY DEF Weighs
  <2>1. a \in Seq(Frags) /\ b \in Seq(Frags) /\ a \in Seq(Slices) /\ b \in Seq(Slices)
    BY FragsAreSlices DEF Texts
  <2>2. Narrow(a) /\ Narrow(b)
    BY <2>1, NarrowConcat
  <2>3. Len(Characters(a)) <= CharsPerToken * m /\ Len(Characters(b)) <= CharsPerToken * n
    BY <1>3, <2>2 DEF Weighs
  <2>4. Len(Characters(a \o b)) = Len(Characters(a)) + Len(Characters(b)) /\ Len(Characters(a)) \in Nat /\ Len(Characters(b)) \in Nat
    BY <2>1, CharactersConcat, CharactersType
  <2>5. CharsPerToken * (m + n) = CharsPerToken * m + CharsPerToken * n /\ CharsPerToken * m \in Nat /\ CharsPerToken * n \in Nat
    BY <1>0, ProductSum
  <2> QED
    BY <2>3, <2>4, <2>5
<1>4. ASSUME NEW t \in Texts, Weighs(t, 0), t # <<>> PROVE ~Narrow(t)
  <2>1. Len(Characters(t)) \in Nat /\ Len(Characters(t)) > 0
    BY <1>4, TextHasCharacters, CharactersType, FragsAreSlices
  <2>2. CharsPerToken * 0 = 0
    BY <1>0
  <2> QED
    BY <1>4, <2>1, <2>2 DEF Weighs
<1> QED
  BY <1>1, <1>2, <1>3, <1>4

(* hardSplit loses no character, and leaves no piece too long. *)
LEMMA HardSplitSound ==
  ASSUME ChunkingAssumption, NEW t \in Texts
  PROVE  /\ HardSplit(t) \in Seq({p \in Texts : Weighs(p, MaxTokens)})
         /\ Characters(Flatten(HardSplit(t))) = Characters(t)
<1> DEFINE L == {p \in Texts : Weighs(p, MaxTokens)}
<1>0. MaxTokens \in Nat
  BY DEF ChunkingAssumption
<1>1. CASE EstimateTokens(t) <= MaxTokens
  <2>1. HardSplit(t) = <<t>>
    BY <1>1, HardSplitIs
  <2>2. Weighs(t, MaxTokens)
    BY <1>0, <1>1, WeighsLaws
  <2>3. t \in L
    BY <2>2
  <2>4. Flatten(<<t>>) = t
    BY FlattenOne DEF Texts
  <2> HIDE DEF L
  <2>5. <<t>> \in Seq(L)
    BY <2>3
  <2> QED
    BY <2>1, <2>4, <2>5 DEF L
<1>2. CASE ~(EstimateTokens(t) <= MaxTokens)
  <2> DEFINE n == Cuts(Beyond(t) - 1, PieceSize)
  <2>1. HardSplit(t) = [k \in 1..n |-> PieceOf(t, k)]
    BY <1>2, HardSplitIs
  <2>2. t # <<>>
    <3>1. SUFFICES ASSUME t = <<>> PROVE EstimateTokens(t) <= MaxTokens
      BY <1>2
    <3>2. Narrow(<<>>)
      BY DEF Narrow
    <3>3. EstimateTokens(t) = Ceiling(Len(Characters(t)) + (IF Len(t) = 0 THEN 0 ELSE Len(t) - 1), CharsPerToken)
      BY <3>1, <3>2, NarrowEstimate
    <3>4. Len(Characters(t)) = 0 /\ Len(t) = 0
      BY <3>1, CharactersEmpty
    <3>5. CharsPerToken \in Nat \ {0}
      BY DEF ChunkingAssumption
    <3>6. Ceiling(0, CharsPerToken) \in Nat /\ CharsPerToken * Ceiling(0, CharsPerToken) < 0 + CharsPerToken
      BY <3>5, CeilingIs
    <3>7. \A b \in Nat \ {0}, x \in Nat : b * x < b => x = 0
      <4> SUFFICES ASSUME NEW b \in Nat \ {0}, NEW x \in Nat, b * x < b, x # 0 PROVE FALSE
        OBVIOUS
      <4>1. b * 0 + b <= b * x /\ b * x \in Nat
        BY ProductOrder
      <4>2. b * 0 = 0
        OBVIOUS
      <4> QED
        BY <4>1, <4>2
    <3>8. EstimateTokens(t) = 0
      BY <3>3, <3>4, <3>5, <3>6, <3>7
    <3> QED
      BY <1>0, <3>8
  <2>3. Beyond(t) - 1 \in Nat /\ Beyond(t) \in Nat
    BY <2>2, BeyondOfSome
  <2>4. n \in Nat /\ Beyond(t) - 1 <= PieceSize * n
    BY <2>3, PieceSizeType, CeilingIs DEF Cuts
  <2>5. PieceSize * n \in Nat
    BY <2>4, PieceSizeType, ProductSum
  <2> HIDE DEF n
  <2>6. Characters(Flatten(HardSplit(t))) = Seen(t, 0, PieceSize * n) /\ HardSplit(t) \in Seq(Texts)
    BY <2>1, <2>4, PiecesShow
  <2>7. Seen(t, 0, PieceSize * n) = Characters(t)
    BY <2>3, <2>4, <2>5, SeenWhole
  <2>8. ASSUME NEW k \in 1..n PROVE PieceOf(t, k) \in L
    <3> DEFINE lo == PieceSize * (k - 1)
               hi == PieceSize * k
    <3>1. k \in Nat \ {0}
      OBVIOUS
    <3>2. lo \in Nat /\ hi \in Nat /\ hi = lo + PieceSize
      BY <3>1, PieceSizeType, WindowSize
    <3>3. Window(t, lo, hi) \in Seq(Slices)
      BY <3>2, WindowIs
    <3>4. PieceOf(t, k) \in Texts /\ Characters(PieceOf(t, k)) = Seen(t, lo, hi)
      BY <3>3, SiftCharacters DEF PieceOf, Seen
    <3> HIDE DEF lo, hi
    <3>8. lo <= hi
      BY <3>2, PieceSizeType
    <3>5. Len(Seen(t, lo, hi)) <= hi - lo
      BY <3>2, <3>8, SeenFits
    <3>6. hi - lo = CharsPerToken * MaxTokens
      BY <3>2, PieceSizeType
    <3>7. Weighs(PieceOf(t, k), MaxTokens)
      BY <3>4, <3>5, <3>6 DEF Weighs
    <3> QED
      BY <3>4, <3>7
  <2> HIDE DEF L
  <2>9. [k \in 1..n |-> PieceOf(t, k)] \in [1..n -> L]
    BY <2>8
  <2>10. HardSplit(t) \in Seq(L)
    BY <2>1, <2>4, <2>9, RowIs
  <2> QED
    BY <2>6, <2>7, <2>10 DEF L
<1> QED
  BY <1>1, <1>2

-----------------------------------------------------------------------------
\* Ingest: pieces packed into units

Bits == {p \in Texts : Weighs(p, MaxTokens)}
Packs == [done : Seq(Bodies), buf : Bits]
PackOne(r, p) ==
  IF r.buf # <<>> /\ EstimateTokens(r.buf) + EstimateTokens(p) > MaxTokens
  THEN [done |-> Closed(r), buf |-> p]
  ELSE [r EXCEPT !.buf = @ \o p]

LEMMA BitsAreTexts ==
  /\ Bits \subseteq Texts /\ Bits \subseteq Seq(Frags) /\ Bodies \subseteq Parts /\ Bodies \subseteq Seq(Frags)
  /\ \A t \in Bits : t # <<>> => t \in Bodies
  /\ Seq(Bodies) \subseteq Seq(Parts) /\ Seq(Bodies) \subseteq Seq(Seq(Frags)) /\ Seq(Bits) \subseteq Seq(Seq(Frags))
  /\ Packs \subseteq Reads
<1>1. /\ Bits \subseteq Texts /\ Bits \subseteq Seq(Frags) /\ Bodies \subseteq Parts /\ Bodies \subseteq Seq(Frags)
      /\ \A t \in Bits : t # <<>> => t \in Bodies
  BY DEF Bits, Bodies, Parts, Texts
<1>2. Seq(Bodies) \subseteq Seq(Parts) /\ Seq(Bodies) \subseteq Seq(Seq(Frags)) /\ Seq(Bits) \subseteq Seq(Seq(Frags))
  BY <1>1
<1>3. Packs \subseteq Reads
  BY <1>1, <1>2 DEF Packs, Reads
<1> QED
  BY <1>1, <1>2, <1>3

LEMMA NothingLight ==
  ASSUME ChunkingAssumption
  PROVE  <<>> \in Bits
<1>1. Characters(<<>>) = <<>> /\ <<>> \in Texts
  BY CharactersEmpty, PartsAreTexts
<1>2. CharsPerToken * MaxTokens \in Nat
  BY ProductSum DEF ChunkingAssumption
<1>3. Len(Characters(<<>>)) <= CharsPerToken * MaxTokens
  BY <1>1, <1>2
<1> QED
  BY <1>1, <1>3 DEF Bits, Weighs

(* Two texts that together are within the limit make one that is not too long. *)
LEMMA JoinedLight ==
  ASSUME ChunkingAssumption, NEW a \in Texts, NEW b \in Texts,
         EstimateTokens(a) + EstimateTokens(b) <= MaxTokens
  PROVE  a \o b \in Bits
<1> DEFINE x == EstimateTokens(a)
           y == EstimateTokens(b)
<1>1. x \in Nat /\ Weighs(a, x) /\ y \in Nat /\ Weighs(b, y)
  BY WeighsLaws
<1>2. Weighs(a \o b, x + y)
  BY <1>1, WeighsLaws
<1>3. a \o b \in Texts
  BY DEF Texts
<1>4. x + y <= MaxTokens /\ MaxTokens \in Nat
  BY DEF ChunkingAssumption
<1> HIDE DEF x, y
<1>5. x + y \in Nat
  BY <1>1
<1>6. Weighs(a \o b, MaxTokens)
  BY <1>2, <1>3, <1>4, <1>5, WeighsLaws
<1> QED
  BY <1>3, <1>6 DEF Bits

PackKeeps(r, p) ==
  LET q == PackOne(r, p) IN Flatten(q.done) \o q.buf = (Flatten(r.done) \o r.buf) \o p

LEMMA PackStays ==
  ASSUME ChunkingAssumption, NEW r \in Packs, NEW p \in Bits
  PROVE  PackOne(r, p) \in Packs /\ PackKeeps(r, p)
<1>1. /\ r.done \in Seq(Bodies) /\ r.buf \in Bits /\ r \in Reads /\ r.buf \in Seq(Frags) /\ p \in Seq(Frags)
      /\ r.buf \in Texts /\ p \in Texts /\ r.done \in Seq(Seq(Frags)) /\ r = [done |-> r.done, buf |-> r.buf]
  BY BitsAreTexts DEF Packs
<1>2. Flatten(r.done) \in Seq(Frags)
  BY <1>1, FlattenType
<1>3. CASE r.buf # <<>> /\ EstimateTokens(r.buf) + EstimateTokens(p) > MaxTokens
  <2>1. PackOne(r, p) = [done |-> Closed(r), buf |-> p]
    BY <1>3 DEF PackOne
  <2>2. Closed(r) = Append(r.done, r.buf) /\ Flatten(Closed(r)) = Flatten(r.done) \o r.buf
    BY <1>1, <1>3, ClosedIs
  <2>3. r.buf \in Bodies
    BY <1>1, <1>3, BitsAreTexts
  <2>4. Closed(r) \in Seq(Bodies)
    BY <1>1, <2>2, <2>3
  <2>5. PackOne(r, p) \in Packs
    BY <2>1, <2>4 DEF Packs
  <2> DEFINE q == PackOne(r, p)
  <2>7. q.done = Closed(r) /\ q.buf = p
    BY <2>1
  <2> HIDE DEF q
  <2>8. Flatten(q.done) \o q.buf = (Flatten(r.done) \o r.buf) \o p
    BY <2>2, <2>7
  <2>6. PackKeeps(r, p)
    BY <2>8 DEF PackKeeps, q
  <2> QED
    BY <2>5, <2>6
<1>4. CASE ~(r.buf # <<>> /\ EstimateTokens(r.buf) + EstimateTokens(p) > MaxTokens)
  <2>1. PackOne(r, p) = [done |-> r.done, buf |-> r.buf \o p]
    BY <1>1, <1>4 DEF PackOne
  <2>2. r.buf \o p \in Bits
    <3>1. CASE r.buf = <<>>
      <4>1. r.buf \o p = p
        BY <1>1, <3>1
      <4> QED
        BY <4>1
    <3>2. CASE r.buf # <<>>
      <4> DEFINE x == EstimateTokens(r.buf) + EstimateTokens(p)
      <4>1. ~(x > MaxTokens) /\ x \in Nat /\ MaxTokens \in Nat
        BY <1>1, <1>4, <3>2, WeighsLaws, SMTT(60) DEF ChunkingAssumption
      <4> HIDE DEF x
      <4>2. x <= MaxTokens
        BY <4>1
      <4> QED
        BY <1>1, <4>2, JoinedLight DEF x
    <3> QED
      BY <3>1, <3>2
  <2>3. PackOne(r, p) \in Packs
    BY <1>1, <2>1, <2>2 DEF Packs
  <2>4. Regroups(Flatten(r.done), r.buf, p)
    BY <1>1, <1>2, Regroup
  <2> DEFINE q == PackOne(r, p)
  <2>7. q.done = r.done /\ q.buf = r.buf \o p
    BY <2>1
  <2> HIDE DEF q
  <2>8. Flatten(q.done) \o q.buf = (Flatten(r.done) \o r.buf) \o p
    BY <2>4, <2>7 DEF Regroups
  <2>5. PackKeeps(r, p)
    BY <2>8 DEF PackKeeps, q
  <2> QED
    BY <2>3, <2>5
<1> QED
  BY <1>3, <1>4

Packing == [x \in Packs \X Bits |-> PackOne(x[1], x[2])]
PackOf(s) == FoldOver(Packing, Packs, Begun, s)

LEMMA PackingFolds ==
  ASSUME ChunkingAssumption
  PROVE  Folds(Packing, Packs, Bits, Begun)
<1>1. Packing \in [Packs \X Bits -> Packs]
  BY PackStays DEF Packing
<1>2. Begun \in Packs
  BY NothingLight DEF Begun, Packs
<1> QED
  BY <1>1, <1>2 DEF Folds

LEMMA PackOfIs ==
  ASSUME ChunkingAssumption
  PROVE  /\ PackOf(<<>>) = Begun
         /\ \A t \in Seq(Bits) : PackOf(t) \in Packs
         /\ \A t \in Seq(Bits), x \in Bits : PackOf(Append(t, x)) = PackOne(PackOf(t), x)
<1>1. PackOf(<<>>) = Begun
  BY PackingFolds, FoldEmpty DEF PackOf
<1>2. \A t \in Seq(Bits) : PackOf(t) \in Packs
  BY PackingFolds, FoldType DEF PackOf
<1>3. ASSUME NEW t \in Seq(Bits), NEW x \in Bits PROVE PackOf(Append(t, x)) = PackOne(PackOf(t), x)
  <2>1. PackOf(Append(t, x)) = Packing[<<PackOf(t), x>>]
    BY PackingFolds, FoldAppend DEF PackOf
  <2>2. PackOf(t) \in Packs
    BY <1>2
  <2>3. Packing[<<PackOf(t), x>>] = PackOne(PackOf(t), x)
    BY <2>2 DEF Packing
  <2> QED
    BY <2>1, <2>3
<1> QED
  BY <1>1, <1>2, <1>3

LEMMA PackedIs ==
  ASSUME ChunkingAssumption, NEW t \in Seq(Bits)
  PROVE  Packed(t) = Closed(PackOf(t))
<1> DEFINE n == Len(t)
           Filled(f) == [i \in 0..n |-> IF i = 0 THEN [done |-> <<>>, buf |-> <<>>] ELSE PackOne(f[i - 1], t[i])]
           made == CHOOSE f : f = Filled(f)
<1>1. Packed(t) = Closed(made[n])
  BY DEF Packed, PackOne
<1>2. n \in Nat /\ \A i \in 1..n : t[i] \in Bits
  OBVIOUS
<1>3. PICK f : FoldRow(f, Packing, Packs, Begun, t)
  BY <1>2, PackingFolds, FoldRowExists
<1>4. f \in [0..n -> Packs] /\ f[0] = Begun /\ \A i \in 1..n : f[i] = Packing[<<f[i - 1], t[i]>>]
  BY <1>3 DEF FoldRow
<1>5. \A r \in Packs, x \in Bits : Packing[<<r, x>>] = PackOne(r, x)
  BY DEF Packing
<1> HIDE DEF n
<1>6. \A i \in 1..n : f[i] = PackOne(f[i - 1], t[i])
  <2> TAKE i \in 1..n
  <2>1. i - 1 \in 0..n
    BY <1>2
  <2>2. f[i - 1] \in Packs /\ t[i] \in Bits
    BY <1>2, <1>4, <2>1
  <2> QED
    BY <1>4, <1>5, <2>2
<1>7. f = Filled(f)
  <2>1. \A i \in 0..n : f[i] = IF i = 0 THEN [done |-> <<>>, buf |-> <<>>] ELSE PackOne(f[i - 1], t[i])
    <3> TAKE i \in 0..n
    <3>1. CASE i = 0
      BY <1>4, <3>1 DEF Begun
    <3>2. CASE i # 0
      <4>1. i \in 1..n
        BY <1>2, <3>2
      <4> QED
        BY <1>6, <3>2, <4>1
    <3> QED
      BY <3>1, <3>2
  <2>2. f = [i \in 0..n |-> f[i]]
    BY <1>4
  <2> QED
    BY <2>1, <2>2
<1> HIDE DEF Filled
<1>8. made = Filled(made)
  BY <1>7
<1> HIDE DEF made
<1>9. made = [i \in 0..n |-> IF i = 0 THEN Begun ELSE PackOne(made[i - 1], t[i])]
  BY <1>8 DEF Filled, Begun
<1>10. made = [i \in 0..n |-> made[i]]
  BY <1>9
<1>11. made[0] = Begun
  BY <1>2, <1>9
<1>12. \A i \in 1..n : made[i] = PackOne(made[i - 1], t[i])
  <2> TAKE i \in 1..n
  <2>1. i \in 0..n /\ i # 0
    BY <1>2
  <2> QED
    BY <1>9, <2>1
<1>13. \A i \in 1..n : made[i - 1] \in Packs => made[i] = Packing[<<made[i - 1], t[i]>>]
  BY <1>2, <1>5, <1>12
<1>14. RunsAs(made, Packing, Packs, Begun, t)
  BY <1>10, <1>11, <1>13 DEF RunsAs, n
<1>15. FoldOver(Packing, Packs, Begun, t) = made[Len(t)]
  BY <1>2, <1>14, PackingFolds, FoldIs
<1> QED
  BY <1>1, <1>15 DEF PackOf, n

(* Packing leaves nothing of the pieces out. *)
LEMMA PackedSound ==
  ASSUME ChunkingAssumption, NEW t \in Seq(Bits)
  PROVE  Packed(t) \in Seq(Bodies) /\ Flatten(Packed(t)) = Flatten(t)
<1> DEFINE Keeps(u) == Flatten(PackOf(u).done) \o PackOf(u).buf = Flatten(u)
           P == {u \in Seq(Bits) : Keeps(u)}
<1>1. <<>> \in P
  <2>1. Flatten(<<>>) \o <<>> = Flatten(<<>>)
    BY FlattenEmpty
  <2>2. PackOf(<<>>).done = <<>> /\ PackOf(<<>>).buf = <<>>
    BY PackOfIs DEF Begun
  <2>3. Keeps(<<>>)
    BY <2>1, <2>2
  <2>4. <<>> \in Seq(Bits)
    OBVIOUS
  <2> HIDE DEF Keeps
  <2> QED
    BY <2>3, <2>4
<1>2. ASSUME NEW u \in Seq(Bits), NEW p \in Bits, u \in P PROVE Append(u, p) \in P
  <2>1. PackOf(u) \in Packs /\ PackOf(Append(u, p)) = PackOne(PackOf(u), p)
    BY PackOfIs
  <2>2. PackKeeps(PackOf(u), p)
    BY <2>1, PackStays
  <2>3. Flatten(Append(u, p)) = Flatten(u) \o p
    BY BitsAreTexts, FlattenAppend
  <2>4. Keeps(u)
    BY <1>2
  <2>5. Keeps(Append(u, p))
    BY <2>1, <2>2, <2>3, <2>4 DEF PackKeeps
  <2>6. Append(u, p) \in Seq(Bits)
    OBVIOUS
  <2> HIDE DEF Keeps
  <2> QED
    BY <2>5, <2>6
<1>3. Seq(Bits) \subseteq P
  <2> HIDE DEF P
  <2> QED
    BY <1>1, <1>2, SeqInduction
<1>4. Keeps(t)
  BY <1>3
<1> DEFINE r == PackOf(t)
<1>5. r \in Packs /\ Packed(t) = Closed(r)
  BY PackOfIs, PackedIs
<1> HIDE DEF r
<1>6. r \in Reads /\ r.done \in Seq(Bodies) /\ r.buf \in Bits
  BY <1>5, BitsAreTexts DEF Packs
<1>7. Closed(r) \in Seq(Bodies)
  <2>1. r.buf # <<>> => r.buf \in Bodies
    BY <1>6, BitsAreTexts
  <2>2. (r.buf = <<>> => Closed(r) = r.done) /\ (r.buf # <<>> => Closed(r) = Append(r.done, r.buf))
    BY <1>6, ClosedIs
  <2>3. CASE r.buf = <<>>
    BY <1>6, <2>2, <2>3
  <2>4. CASE r.buf # <<>>
    <3>1. r.buf \in Bodies /\ Closed(r) = Append(r.done, r.buf)
      BY <2>1, <2>2, <2>4
    <3>2. Append(r.done, r.buf) \in Seq(Bodies)
      BY <1>6, <3>1
    <3> QED
      BY <3>1, <3>2
  <2> QED
    BY <2>3, <2>4
<1>8. Flatten(Closed(r)) = Flatten(r.done) \o r.buf
  BY <1>6, ClosedIs
<1> QED
  BY <1>4, <1>5, <1>7, <1>8 DEF r

HardSplits == [x \in Texts |-> HardSplit(x)]

LEMMA PiecesSound ==
  ASSUME ChunkingAssumption, NEW ss \in Seq(Texts)
  PROVE  Pieces(ss) \in Seq(Bits) /\ Characters(Flatten(Pieces(ss))) = Characters(Flatten(ss))
<1> DEFINE Ps(u) == Flatten(Mapped(HardSplits, u))
           Keeps(u) == Characters(Flatten(Ps(u))) = Characters(Flatten(u))
           P == {u \in Seq(Texts) : Keeps(u)}
<1>1. HardSplits \in [Texts -> Seq(Bits)]
  BY HardSplitSound DEF HardSplits, Bits
<1>2. \A u \in Seq(Texts) : Mapped(HardSplits, u) \in Seq(Seq(Bits)) /\ Ps(u) \in Seq(Bits)
  BY <1>1, MappedType, FlattenType
<1>3. <<>> \in P
  <2>1. Ps(<<>>) = <<>>
    BY MappedEmpty, FlattenEmpty
  <2>2. Keeps(<<>>)
    BY <2>1
  <2>3. <<>> \in Seq(Texts)
    OBVIOUS
  <2> HIDE DEF Keeps
  <2> QED
    BY <2>2, <2>3
<1>4. ASSUME NEW u \in Seq(Texts), NEW x \in Texts, u \in P PROVE Append(u, x) \in P
  <2> DEFINE hs == HardSplits[x]
             a == Ps(u)
  <2>1. hs \in Seq(Bits) /\ Characters(Flatten(hs)) = Characters(x)
    BY HardSplitSound DEF HardSplits, Bits
  <2>2. Mapped(HardSplits, Append(u, x)) = Append(Mapped(HardSplits, u), hs)
    <3>1. MapsAppend(HardSplits, u, x)
      BY <1>1, MappedStep
    <3> QED
      BY <3>1 DEF MapsAppend
  <2>3. Ps(Append(u, x)) = a \o hs
    BY <1>2, <2>1, <2>2, FlattenAppend
  <2>4. a \in Seq(Seq(Frags)) /\ hs \in Seq(Seq(Frags)) /\ u \in Seq(Seq(Frags)) /\ x \in Seq(Frags)
    BY <1>2, <2>1, BitsAreTexts DEF Texts
  <2>5. Characters(Flatten(a)) = Characters(Flatten(u))
    BY <1>4
  <2> HIDE DEF a, hs, Ps
  <2>6. Flatten(a \o hs) = Flatten(a) \o Flatten(hs) /\ Flatten(Append(u, x)) = Flatten(u) \o x
    BY <2>4, FlattenConcat, FlattenAppend, ZenonT(60)
  <2>7. Flatten(a) \in Seq(Frags) /\ Flatten(hs) \in Seq(Frags) /\ Flatten(u) \in Seq(Frags)
    BY <2>4, FlattenType
  <2>8. Flatten(a) \in Seq(Slices) /\ Flatten(hs) \in Seq(Slices) /\ Flatten(u) \in Seq(Slices) /\ x \in Seq(Slices)
    BY <2>4, <2>7, FragsAreSlices DEF Texts
  <2>9. /\ Characters(Flatten(a) \o Flatten(hs)) = Characters(Flatten(a)) \o Characters(Flatten(hs))
        /\ Characters(Flatten(u) \o x) = Characters(Flatten(u)) \o Characters(x)
    BY <2>8, CharactersConcat
  <2>10. Keeps(Append(u, x))
    BY <2>1, <2>3, <2>5, <2>6, <2>9
  <2>11. Append(u, x) \in Seq(Texts)
    OBVIOUS
  <2> HIDE DEF Keeps
  <2> QED
    BY <2>10, <2>11
<1>5. Seq(Texts) \subseteq P
  <2> HIDE DEF P
  <2> QED
    BY <1>3, <1>4, SeqInduction
<1>6. Pieces(ss) = Ps(ss)
  <2>1. \A i \in DOMAIN ss : HardSplits[ss[i]] = HardSplit(ss[i])
    BY DEF HardSplits
  <2>2. Mapped(HardSplits, ss) = [i \in DOMAIN ss |-> HardSplit(ss[i])]
    BY <2>1 DEF Mapped
  <2> QED
    BY <2>2 DEF Pieces
<1> QED
  BY <1>2, <1>5, <1>6

(* splitBlock: units that are not too long, of all the characters of the block. *)
LEMMA SplitBlockSound ==
  ASSUME ChunkingAssumption, NEW t \in Parts
  PROVE  /\ SplitBlock(t) \in Seq(Bodies)
         /\ Characters(Flatten(SplitBlock(t))) = Characters(t)
<1>0. t \in Texts /\ t \in Seq(Frags) /\ MaxTokens \in Nat
  BY PartsAreTexts DEF ChunkingAssumption
<1>1. CASE EstimateTokens(t) <= MaxTokens
  <2>1. SplitBlock(t) = <<t>>
    BY <1>1 DEF SplitBlock
  <2>2. Weighs(t, MaxTokens)
    BY <1>0, <1>1, WeighsLaws
  <2>3. t \in Bodies
    BY <2>2 DEF Bodies
  <2>4. <<t>> \in Seq(Bodies) /\ Flatten(<<t>>) = t
    BY <1>0, <2>3, FlattenOne
  <2> QED
    BY <2>1, <2>4
<1>2. CASE ~(EstimateTokens(t) <= MaxTokens)
  <2> DEFINE ss == Sentences(t)
             ps == Pieces(ss)
  <2>1. SplitBlock(t) = Packed(ps)
    BY <1>2 DEF SplitBlock
  <2>2. ss \in Seq(Texts) /\ Flatten(ss) = t
    <3>1. ss \in Seq(Parts) /\ Flatten(ss) = t
      BY <1>0, SentencesKeep
    <3>2. Seq(Parts) \subseteq Seq(Texts)
      BY PartsAreTexts
    <3> QED
      BY <3>1, <3>2
  <2> HIDE DEF ss
  <2>3. ps \in Seq(Bits) /\ Characters(Flatten(ps)) = Characters(t)
    BY <2>2, PiecesSound
  <2> HIDE DEF ps
  <2> QED
    BY <2>1, <2>3, PackedSound
<1> QED
  BY <1>1, <1>2

-----------------------------------------------------------------------------
\* Ingest: units gathered into chunks

Titles == Seq(Lines) \ {<<>>}
Blocks == [heading : BOOLEAN, text : Titles, page : Nat]
ItemSet == {x \in [heading : Seq(Lines), text : Texts, page : Nat] : x.heading # <<>> \/ x.text \in Bodies}
Raws == [body : Bodies, path : Seq(Titles), pageStart : Nat, pageEnd : Nat]
Accs == {acc \in [chunks : Seq(Raws), stack : Seq(Titles), buf : Bits, tokens : Nat, first : Nat, last : Nat] :
           Weighs(acc.buf, acc.tokens)}
BuildOne(acc, item) == IF item.heading # <<>> THEN AtHeading(acc, item.heading) ELSE AtUnit(acc, item)

LEMMA AccIs ==
  ASSUME NEW acc \in Accs
  PROVE  /\ acc.chunks \in Seq(Raws) /\ acc.stack \in Seq(Titles) /\ acc.buf \in Bits /\ acc.tokens \in Nat
         /\ acc.first \in Nat /\ acc.last \in Nat /\ Weighs(acc.buf, acc.tokens)
         /\ acc.buf \in Texts /\ acc.buf \in Seq(Frags)
         /\ acc = [chunks |-> acc.chunks, stack |-> acc.stack, buf |-> acc.buf, tokens |-> acc.tokens,
                   first |-> acc.first, last |-> acc.last]
BY BitsAreTexts DEF Accs

LEMMA AccMade ==
  ASSUME NEW c \in Seq(Raws), NEW s \in Seq(Titles), NEW b \in Bits, NEW t \in Nat, NEW f \in Nat, NEW l \in Nat, Weighs(b, t)
  PROVE  [chunks |-> c, stack |-> s, buf |-> b, tokens |-> t, first |-> f, last |-> l] \in Accs
BY DEF Accs

LEMMA NothingWeighs ==
  ASSUME ChunkingAssumption
  PROVE  Weighs(<<>>, 0) /\ <<>> \in Bits /\ Empty \in Accs
<1>1. Characters(<<>>) = <<>>
  BY CharactersEmpty
<1>2. CharsPerToken * 0 = 0
  BY DEF ChunkingAssumption
<1>3. Weighs(<<>>, 0)
  BY <1>1, <1>2 DEF Weighs
<1>4. <<>> \in Bits
  BY NothingLight
<1>5. <<>> \in Seq(Raws) /\ <<>> \in Seq(Titles)
  OBVIOUS
<1>6. Empty \in Accs
  <2> DEFINE e == <<>>
  <2>1. e \in Seq(Raws) /\ e \in Seq(Titles) /\ e \in Bits /\ Weighs(e, 0)
    BY <1>3, <1>4, <1>5
  <2>2. Empty = [chunks |-> e, stack |-> e, buf |-> e, tokens |-> 0, first |-> 0, last |-> 0]
    BY DEF Empty
  <2> HIDE DEF e
  <2>3. [chunks |-> e, stack |-> e, buf |-> e, tokens |-> 0, first |-> 0, last |-> 0] \in Accs
    BY <2>1, AccMade
  <2> QED
    BY <2>2, <2>3
<1> QED
  BY <1>3, <1>4, <1>6

Cs(acc) == FlushUnits(acc).chunks
Pending(acc) == [body |-> acc.buf, path |-> acc.stack, pageStart |-> acc.first, pageEnd |-> acc.last]

LEMMA FlushIs ==
  ASSUME ChunkingAssumption, NEW acc \in Accs
  PROVE  /\ FlushUnits(acc) \in Accs /\ FlushUnits(acc).buf = <<>> /\ FlushUnits(acc).stack = acc.stack
         /\ acc.buf = <<>> => FlushUnits(acc) = acc
         /\ acc.buf # <<>> => /\ Pending(acc) \in Raws /\ Cs(acc) = Append(acc.chunks, Pending(acc))
                              /\ FlushUnits(acc).tokens = 0
         /\ Cs(acc) \in Seq(Raws)
         /\ FlushUnits(FlushUnits(acc)) = FlushUnits(acc) /\ Cs(FlushUnits(acc)) = Cs(acc)
<1> DEFINE f == FlushUnits(acc)
<1>1. CASE acc.buf = <<>>
  <2>1. f = acc
    BY <1>1 DEF FlushUnits
  <2>2. acc.chunks \in Seq(Raws)
    BY AccIs
  <2> HIDE DEF f
  <2> QED
    BY <1>1, <2>1, <2>2 DEF Cs, f
<1>2. CASE acc.buf # <<>>
  <2> DEFINE cs == Append(acc.chunks, Pending(acc))
             e == <<>>
  <2>1. acc.buf \in Bodies /\ acc.stack \in Seq(Titles) /\ acc.first \in Nat /\ acc.last \in Nat /\ acc.chunks \in Seq(Raws)
    BY <1>2, AccIs, BitsAreTexts
  <2>2. Pending(acc) \in Raws
    BY <2>1 DEF Pending, Raws
  <2>3. cs \in Seq(Raws)
    BY <2>1, <2>2
  <2>4. f = [chunks |-> cs, stack |-> acc.stack, buf |-> e, tokens |-> 0, first |-> 0, last |-> 0]
    BY <1>2 DEF FlushUnits, Empty, Pending
  <2>5. e \in Bits /\ Weighs(e, 0)
    BY NothingWeighs
  <2> HIDE DEF f, cs, e
  <2>6. f \in Accs
    BY <2>1, <2>3, <2>4, <2>5, AccMade
  <2>7. f.chunks = cs /\ f.buf = e /\ f.stack = acc.stack /\ f.tokens = 0
    BY <2>4
  <2>8. FlushUnits(f) = f
    BY <2>7 DEF FlushUnits, e
  <2>9. Cs(acc) = f.chunks /\ Cs(f) = FlushUnits(f).chunks
    BY DEF Cs, f
  <2> QED
    BY <1>2, <2>2, <2>3, <2>6, <2>7, <2>8, <2>9 DEF f, e, cs
<1> QED
  BY <1>1, <1>2

Shallower(h) == {x \in Titles : Depth[x[1]] < Depth[h[1]]}

LEMMA StackIs ==
  ASSUME NEW stack \in Seq(Titles), NEW h \in Titles
  PROVE  /\ UpdateSectionStack(stack, h) = Append(Sift(Titles, Shallower(h), stack), h)
         /\ UpdateSectionStack(stack, h) \in Seq(Titles)
<1> DEFINE places == {i \in DOMAIN stack : Depth[stack[i][1]] < Depth[h[1]]}
           V == Shallower(h)
<1>1. V \subseteq Titles
  BY DEF Shallower
<1>2. \A i \in DOMAIN stack : stack[i] \in Titles
  OBVIOUS
<1>3. \A i \in DOMAIN stack : i \in places <=> stack[i] \in V
  BY <1>2 DEF Shallower
<1>4. UpdateSectionStack(stack, h) = Append(Selected(stack, places), h)
  BY DEF UpdateSectionStack
<1> HIDE DEF places, V
<1>5. Selected(stack, places) = Sift(Titles, V, stack)
  BY <1>1, <1>3, SelectedIs
<1>6. Sift(Titles, V, stack) \in Seq(Titles)
  <2>1. Sift(Titles, V, stack) \in Seq(V)
    BY <1>1, SiftType
  <2> QED
    BY <1>1, <2>1
<1> QED
  BY <1>4, <1>5, <1>6 DEF V

UnitOf(acc, item) == [body |-> item.text, path |-> acc.stack, pageStart |-> item.page, pageEnd |-> item.page]
MergeLast(cs, c) == [cs EXCEPT ![Len(cs)] = Merged(cs[Len(cs)], c)]
(* A chunk is added to others: it becomes the last one, or part of it. *)
AddsTo(cs, c, ds) ==
  \/ ds = Append(cs, c)
  \/ cs # <<>> /\ cs[Len(cs)].path = c.path /\ ds = MergeLast(cs, c)

LEMMA UnitType ==
  ASSUME NEW acc \in Accs, NEW item \in ItemSet, item.heading = <<>>
  PROVE  item.text \in Bodies /\ item.text \in Texts /\ item.text \in Seq(Frags) /\ item.page \in Nat /\ UnitOf(acc, item) \in Raws
<1>1. item.text \in Bodies /\ item.page \in Nat
  BY DEF ItemSet
<1>2. acc.stack \in Seq(Titles)
  BY AccIs
<1> QED
  BY <1>1, <1>2, BitsAreTexts, PartsAreTexts DEF UnitOf, Raws

LEMMA PushStays ==
  ASSUME ChunkingAssumption, NEW acc \in Accs, NEW item \in ItemSet, item.heading = <<>>,
         acc.buf = <<>> \/ acc.tokens = 0 \/ acc.tokens + EstimateTokens(item.text) <= MaxTokens
  PROVE  Push(acc, item) \in Accs /\ Push(acc, item).stack = acc.stack /\ Push(acc, item).chunks = acc.chunks
<1> DEFINE x == EstimateTokens(item.text)
           t == acc.tokens
           b == acc.buf \o item.text
           f == IF acc.buf = <<>> THEN item.page ELSE acc.first
<1>1. item.text \in Bodies /\ item.text \in Texts /\ item.text \in Seq(Frags) /\ item.page \in Nat
  BY UnitType
<1>2. x \in Nat /\ Weighs(item.text, x) /\ MaxTokens \in Nat
  BY <1>1, WeighsLaws DEF ChunkingAssumption
<1>3. acc.buf \in Texts /\ acc.buf \in Seq(Frags) /\ t \in Nat /\ Weighs(acc.buf, t)
  BY AccIs
<1>4. Push(acc, item) = [chunks |-> acc.chunks, stack |-> acc.stack, buf |-> b, tokens |-> t + x, first |-> f, last |-> item.page]
  <2>1. acc \in [chunks : Seq(Raws), stack : Seq(Titles), buf : Bits, tokens : Nat, first : Nat, last : Nat]
    BY DEF Accs
  <2> DEFINE a1 == [acc EXCEPT !.buf = b]
             a2 == [a1 EXCEPT !.tokens = t + x]
             a3 == [a2 EXCEPT !.first = f]
             a4 == [a3 EXCEPT !.last = item.page]
  <2>2. Push(acc, item) = a4
    BY <2>1 DEF Push
  <2> HIDE DEF b, f, t, x
  <2>3. a1 = [chunks |-> acc.chunks, stack |-> acc.stack, buf |-> b, tokens |-> acc.tokens, first |-> acc.first, last |-> acc.last]
    <3> DEFINE c0 == acc.chunks
               s0 == acc.stack
               b0 == acc.buf
               t0 == acc.tokens
               f0 == acc.first
               l0 == acc.last
    <3>1. acc = [chunks |-> c0, stack |-> s0, buf |-> b0, tokens |-> t0, first |-> f0, last |-> l0]
      BY AccIs
    <3> HIDE DEF c0, s0, b0, t0, f0, l0
    <3>2. a1 = [chunks |-> c0, stack |-> s0, buf |-> b, tokens |-> t0, first |-> f0, last |-> l0]
      BY <3>1
    <3> QED
      BY <3>2 DEF c0, s0, b0, t0, f0, l0
  <2> HIDE DEF a1
  <2>4. a2 = [chunks |-> acc.chunks, stack |-> acc.stack, buf |-> b, tokens |-> t + x, first |-> acc.first, last |-> acc.last]
    BY <2>3
  <2> HIDE DEF a2
  <2>5. a3 = [chunks |-> acc.chunks, stack |-> acc.stack, buf |-> b, tokens |-> t + x, first |-> f, last |-> acc.last]
    BY <2>4
  <2> HIDE DEF a3
  <2>6. a4 = [chunks |-> acc.chunks, stack |-> acc.stack, buf |-> b, tokens |-> t + x, first |-> f, last |-> item.page]
    BY <2>5
  <2> QED
    BY <2>2, <2>6
<1> HIDE DEF x, t
<1>5. t + x \in Nat /\ Weighs(b, t + x)
  <2>1. \A q, r \in Texts, m, n \in Nat : Weighs(q, m) /\ Weighs(r, n) => Weighs(q \o r, m + n)
    BY WeighsLaws
  <2> DEFINE q == acc.buf
             r == item.text
  <2>2. q \in Texts /\ r \in Texts /\ t \in Nat /\ x \in Nat /\ Weighs(q, t) /\ Weighs(r, x) /\ b = q \o r
    BY <1>1, <1>2, <1>3
  <2> HIDE DEF q, r
  <2>3. Weighs(q \o r, t + x)
    BY ONLY <2>1, <2>2
  <2> QED
    BY <2>2, <2>3
<1>6. b \in Texts
  BY <1>1, <1>3 DEF Texts
<1>7. Weighs(b, MaxTokens)
  <2>1. CASE acc.buf = <<>>
    <3>1. b = item.text
      BY <1>1, <2>1
    <3> QED
      BY <1>1, <3>1 DEF Bodies
  <2>2. CASE acc.buf # <<>> /\ t = 0
    <3>1. ~Narrow(acc.buf)
      BY <1>3, <2>2, WeighsLaws
    <3>2. ~Narrow(b)
      BY <1>1, <1>3, <3>1, NarrowConcat
    <3> QED
      BY <3>2 DEF Weighs
  <2>3. CASE t + x <= MaxTokens
    BY <1>2, <1>5, <1>6, <2>3, WeighsLaws
  <2> QED
    BY <2>1, <2>2, <2>3 DEF t, x
<1>8. b \in Bits
  BY <1>6, <1>7 DEF Bits
<1>9. f \in Nat
  BY <1>1, AccIs
<1>10. acc.chunks \in Seq(Raws) /\ acc.stack \in Seq(Titles)
  BY AccIs
<1> HIDE DEF b, f
<1>11. Push(acc, item) \in Accs
  BY <1>1, <1>4, <1>5, <1>8, <1>9, <1>10, AccMade, SMTT(60)
<1> QED
  BY <1>4, <1>11

Replaces(cs, q, z) == [Append(cs, q) EXCEPT ![Len(Append(cs, q))] = z] = Append(cs, z)

LEMMA LastReplaced ==
  ASSUME NEW T, NEW cs \in Seq(T), NEW q \in T, NEW z \in T
  PROVE  Replaces(cs, q, z)
<1> DEFINE ds == Append(cs, q)
           n == Len(cs)
<1>1. ds \in Seq(T) /\ Len(ds) = n + 1 /\ n \in Nat /\ \A i \in 1..n : ds[i] = cs[i]
  OBVIOUS
<1> HIDE DEF ds
<1> DEFINE es == [ds EXCEPT ![n + 1] = z]
<1>2. es \in Seq(T) /\ Len(es) = n + 1 /\ es[n + 1] = z /\ \A i \in 1..n : es[i] = cs[i]
  BY <1>1
<1> HIDE DEF es
<1>3. es = Append(cs, z)
  BY <1>1, <1>2
<1> QED
  BY <1>1, <1>3 DEF Replaces, es, ds

LEMMA PushAdds ==
  ASSUME ChunkingAssumption, NEW acc \in Accs, NEW item \in ItemSet, item.heading = <<>>
  PROVE  AddsTo(Cs(acc), UnitOf(acc, item), Cs(Push(acc, item)))
<1> DEFINE p == Push(acc, item)
           c == UnitOf(acc, item)
           cs == acc.chunks
<1>1. item.text \in Bodies /\ item.text \in Seq(Frags) /\ acc.buf \in Seq(Frags) /\ acc.buf \in Bits /\ item.text # <<>>
  BY UnitType, AccIs DEF Bodies, Parts
<1>2. /\ p.buf = acc.buf \o item.text /\ p.stack = acc.stack /\ p.chunks = cs /\ p.last = item.page
      /\ p.first = IF acc.buf = <<>> THEN item.page ELSE acc.first
  <2>1. acc = [chunks |-> acc.chunks, stack |-> acc.stack, buf |-> acc.buf, tokens |-> acc.tokens,
               first |-> acc.first, last |-> acc.last]
    BY AccIs
  <2> QED
    BY <2>1 DEF Push
<1> HIDE DEF p
<1>3. p.buf # <<>>
  <2> DEFINE u == item.text
             v == acc.buf
             w == p.buf
  <2>1. u \in Seq(Frags) /\ v \in Seq(Frags) /\ u # <<>> /\ w = v \o u
    BY <1>1, <1>2
  <2> HIDE DEF u, v, w
  <2>2. w # <<>>
    BY <2>1
  <2> QED
    BY <2>2 DEF w
<1>4. Cs(p) = Append(cs, Pending(p))
  BY <1>2, <1>3 DEF Cs, FlushUnits, Empty, Pending
<1>5. cs \in Seq(Raws)
  BY AccIs
<1>6. CASE acc.buf = <<>>
  <2>1. Cs(acc) = cs
    BY <1>6 DEF Cs, FlushUnits
  <2>2. p.buf = item.text
    BY <1>1, <1>2, <1>6
  <2>3. Pending(p) = c
    BY <1>2, <1>6, <2>2 DEF Pending, UnitOf
  <2> QED
    BY <1>4, <2>1, <2>3 DEF AddsTo, p
<1>7. CASE acc.buf # <<>>
  <2> DEFINE q == Pending(acc)
             ds == Append(cs, q)
  <2>1. Cs(acc) = ds /\ q \in Raws
    BY <1>7, FlushIs
  <2>2. ds # <<>> /\ Len(ds) = Len(cs) + 1 /\ ds[Len(ds)] = q /\ Len(ds) \in DOMAIN ds
    BY <1>5, <2>1
  <2>3. q.path = c.path
    BY DEF Pending, UnitOf
  <2>4. Pending(p) = Merged(q, c)
    BY <1>2, <1>7 DEF Pending, UnitOf, Merged
  <2> DEFINE z == Pending(p)
  <2> HIDE DEF q, z
  <2>5. [ds EXCEPT ![Len(ds)] = z] = Append(cs, z)
    <3> DEFINE T == Raws \cup {z}
    <3>1. cs \in Seq(T) /\ q \in T /\ z \in T
      BY <1>5, <2>1
    <3> HIDE DEF T
    <3>2. Replaces(cs, q, z)
      BY <3>1, LastReplaced
    <3> QED
      BY <3>2 DEF Replaces
  <2>6. MergeLast(ds, c) = [ds EXCEPT ![Len(ds)] = z]
    <3> HIDE DEF ds, c
    <3> QED
      BY <2>2, <2>4 DEF MergeLast, z
  <2>7. MergeLast(ds, c) = Cs(p)
    BY <1>4, <2>5, <2>6 DEF z
  <2> HIDE DEF ds, c
  <2> QED
    BY <2>1, <2>2, <2>3, <2>7 DEF AddsTo, p, c
<1> QED
  BY <1>6, <1>7

LEMMA UnitAdds ==
  ASSUME ChunkingAssumption, NEW acc \in Accs, NEW item \in ItemSet, item.heading = <<>>
  PROVE  /\ AtUnit(acc, item) \in Accs /\ AtUnit(acc, item).stack = acc.stack
         /\ AddsTo(Cs(acc), UnitOf(acc, item), Cs(AtUnit(acc, item)))
<1> DEFINE x == EstimateTokens(item.text)
           room == IF acc.tokens > 0 /\ acc.tokens + x > MaxTokens THEN FlushUnits(acc) ELSE acc
           next == Push(room, item)
<1>1. AtUnit(acc, item) = IF next.tokens >= TargetTokens THEN FlushUnits(next) ELSE next
  BY DEF AtUnit
<1>2. item.text \in Texts /\ x \in Nat /\ MaxTokens \in Nat /\ acc.tokens \in Nat
  BY UnitType, WeighsLaws, AccIs DEF ChunkingAssumption
<1> HIDE DEF x
<1>3. /\ room \in Accs /\ room.stack = acc.stack /\ Cs(room) = Cs(acc)
      /\ room.buf = <<>> \/ room.tokens = 0 \/ room.tokens + x <= MaxTokens
  <2>1. CASE acc.tokens > 0 /\ acc.tokens + x > MaxTokens
    <3>1. room = FlushUnits(acc)
      BY <2>1
    <3> QED
      BY <3>1, FlushIs
  <2>2. CASE ~(acc.tokens > 0 /\ acc.tokens + x > MaxTokens)
    <3>1. room = acc
      BY <2>2
    <3>2. acc.tokens = 0 \/ acc.tokens + x <= MaxTokens
      BY <1>2, <2>2
    <3> QED
      BY <3>1, <3>2
  <2> QED
    BY <2>1, <2>2
<1> HIDE DEF room
<1>4. next \in Accs /\ next.stack = room.stack
  BY <1>3, PushStays DEF x
<1>5. AddsTo(Cs(acc), UnitOf(acc, item), Cs(next))
  <2>1. AddsTo(Cs(room), UnitOf(room, item), Cs(next))
    BY <1>3, PushAdds
  <2>2. UnitOf(room, item) = UnitOf(acc, item)
    BY <1>3 DEF UnitOf
  <2> HIDE DEF next
  <2> QED
    BY <1>3, <2>1, <2>2
<1> HIDE DEF next
<1>6. FlushUnits(next) \in Accs /\ FlushUnits(next).stack = next.stack /\ Cs(FlushUnits(next)) = Cs(next)
  BY <1>4, FlushIs
<1> QED
  BY <1>1, <1>3, <1>4, <1>5, <1>6

LEMMA HeadingFlushes ==
  ASSUME ChunkingAssumption, NEW acc \in Accs, NEW h \in Titles
  PROVE  /\ AtHeading(acc, h) \in Accs /\ AtHeading(acc, h).stack = UpdateSectionStack(acc.stack, h)
         /\ Cs(AtHeading(acc, h)) = Cs(acc)
<1> DEFINE f == FlushUnits(acc)
           s == UpdateSectionStack(acc.stack, h)
           a == AtHeading(acc, h)
<1>1. f \in Accs /\ f.buf = <<>> /\ f.stack = acc.stack /\ Cs(acc) = f.chunks
  BY FlushIs DEF Cs
<1>2. acc.stack \in Seq(Titles)
  BY AccIs
<1>3. s \in Seq(Titles)
  BY <1>2, StackIs
<1>4. a = [f EXCEPT !.stack = s]
  BY <1>1 DEF AtHeading
<1> HIDE DEF f, s, a
<1>5. /\ f = [chunks |-> f.chunks, stack |-> f.stack, buf |-> f.buf, tokens |-> f.tokens, first |-> f.first, last |-> f.last]
      /\ f.chunks \in Seq(Raws) /\ f.buf \in Bits /\ f.tokens \in Nat /\ f.first \in Nat /\ f.last \in Nat /\ Weighs(f.buf, f.tokens)
  BY <1>1, AccIs
<1>6. a = [chunks |-> f.chunks, stack |-> s, buf |-> f.buf, tokens |-> f.tokens, first |-> f.first, last |-> f.last]
  BY <1>4, <1>5
<1>7. a \in Accs
  BY <1>3, <1>5, <1>6, AccMade
<1>8. Cs(a) = f.chunks
  <2>1. a.buf = <<>> /\ a.chunks = f.chunks
    BY <1>1, <1>6
  <2> QED
    BY <2>1 DEF Cs, FlushUnits
<1> QED
  BY <1>1, <1>6, <1>7, <1>8 DEF a, s

LEMMA BuildStays ==
  ASSUME ChunkingAssumption, NEW acc \in Accs, NEW item \in ItemSet
  PROVE  BuildOne(acc, item) \in Accs
<1>1. CASE item.heading # <<>>
  <2>1. item.heading \in Titles
    BY <1>1 DEF ItemSet, Titles
  <2> QED
    BY <1>1, <2>1, HeadingFlushes DEF BuildOne
<1>2. CASE item.heading = <<>>
  BY <1>2, UnitAdds DEF BuildOne
<1> QED
  BY <1>1, <1>2

Building == [x \in Accs \X ItemSet |-> BuildOne(x[1], x[2])]
BuildOf(s) == FoldOver(Building, Accs, Empty, s)

LEMMA BuildingFolds ==
  ASSUME ChunkingAssumption
  PROVE  Folds(Building, Accs, ItemSet, Empty)
<1>1. Building \in [Accs \X ItemSet -> Accs]
  BY BuildStays DEF Building
<1>2. Empty \in Accs
  BY NothingWeighs
<1> QED
  BY <1>1, <1>2 DEF Folds

LEMMA BuildOfIs ==
  ASSUME ChunkingAssumption
  PROVE  /\ BuildOf(<<>>) = Empty
         /\ \A t \in Seq(ItemSet) : BuildOf(t) \in Accs
         /\ \A t \in Seq(ItemSet), x \in ItemSet : BuildOf(Append(t, x)) = BuildOne(BuildOf(t), x)
<1>1. BuildOf(<<>>) = Empty
  BY BuildingFolds, FoldEmpty DEF BuildOf
<1>2. \A t \in Seq(ItemSet) : BuildOf(t) \in Accs
  BY BuildingFolds, FoldType DEF BuildOf
<1>3. ASSUME NEW t \in Seq(ItemSet), NEW x \in ItemSet PROVE BuildOf(Append(t, x)) = BuildOne(BuildOf(t), x)
  <2>1. BuildOf(Append(t, x)) = Building[<<BuildOf(t), x>>]
    BY BuildingFolds, FoldAppend DEF BuildOf
  <2>2. BuildOf(t) \in Accs
    BY <1>2
  <2>3. Building[<<BuildOf(t), x>>] = BuildOne(BuildOf(t), x)
    BY <2>2 DEF Building
  <2> QED
    BY <2>1, <2>3
<1> QED
  BY <1>1, <1>2, <1>3

LEMMA BuiltIs ==
  ASSUME ChunkingAssumption, NEW t \in Seq(ItemSet)
  PROVE  BuildRawChunks(t) = FlushUnits(BuildOf(t)).chunks
<1> DEFINE n == Len(t)
           Filled(f) == [i \in 0..n |-> IF i = 0 THEN Empty ELSE BuildOne(f[i - 1], t[i])]
           made == CHOOSE f : f = Filled(f)
<1>1. BuildRawChunks(t) = FlushUnits(made[n]).chunks
  BY DEF BuildRawChunks, BuildOne
<1>2. n \in Nat /\ \A i \in 1..n : t[i] \in ItemSet
  OBVIOUS
<1>3. PICK f : FoldRow(f, Building, Accs, Empty, t)
  BY <1>2, BuildingFolds, FoldRowExists
<1>4. f \in [0..n -> Accs] /\ f[0] = Empty /\ \A i \in 1..n : f[i] = Building[<<f[i - 1], t[i]>>]
  BY <1>3 DEF FoldRow
<1>5. \A r \in Accs, x \in ItemSet : Building[<<r, x>>] = BuildOne(r, x)
  BY DEF Building
<1> HIDE DEF n
<1>6. \A i \in 1..n : f[i] = BuildOne(f[i - 1], t[i])
  <2> TAKE i \in 1..n
  <2>1. i - 1 \in 0..n
    BY <1>2
  <2>2. f[i - 1] \in Accs /\ t[i] \in ItemSet
    BY <1>2, <1>4, <2>1
  <2> QED
    BY <1>4, <1>5, <2>2
<1>7. f = Filled(f)
  <2>1. \A i \in 0..n : f[i] = IF i = 0 THEN Empty ELSE BuildOne(f[i - 1], t[i])
    <3> TAKE i \in 0..n
    <3>1. CASE i = 0
      BY <1>4, <3>1
    <3>2. CASE i # 0
      <4>1. i \in 1..n
        BY <1>2, <3>2
      <4> QED
        BY <1>6, <3>2, <4>1
    <3> QED
      BY <3>1, <3>2
  <2>2. f = [i \in 0..n |-> f[i]]
    BY <1>4
  <2> QED
    BY <2>1, <2>2
<1> HIDE DEF Filled
<1>8. made = Filled(made)
  BY <1>7
<1> HIDE DEF made
<1>9. made = [i \in 0..n |-> IF i = 0 THEN Empty ELSE BuildOne(made[i - 1], t[i])]
  BY <1>8 DEF Filled
<1>10. made = [i \in 0..n |-> made[i]]
  BY <1>9
<1>11. made[0] = Empty
  BY <1>2, <1>9
<1>12. \A i \in 1..n : made[i] = BuildOne(made[i - 1], t[i])
  <2> TAKE i \in 1..n
  <2>1. i \in 0..n /\ i # 0
    BY <1>2
  <2> QED
    BY <1>9, <2>1
<1>13. \A i \in 1..n : made[i - 1] \in Accs => made[i] = Building[<<made[i - 1], t[i]>>]
  BY <1>2, <1>5, <1>12
<1>14. RunsAs(made, Building, Accs, Empty, t)
  BY <1>10, <1>11, <1>13 DEF RunsAs, n
<1>15. FoldOver(Building, Accs, Empty, t) = made[Len(t)]
  BY <1>2, <1>14, BuildingFolds, FoldIs
<1> QED
  BY <1>1, <1>15 DEF BuildOf, n


-----------------------------------------------------------------------------
\* Ingest: where the text of chunks comes from

(* The characters of a chunk come from blocks, one after the other: of its section and its pages. *)
Located(c, o) ==
  /\ o \in Seq(Nat) /\ o # <<>> /\ Len(o) = Len(Characters(c.body))
  /\ \A k \in 1..Len(o) : SectionOf(o[k]) = c.path
  /\ \A k \in 1..Len(o) : blocks[o[k]].page \in Nat /\ c.pageStart <= blocks[o[k]].page /\ blocks[o[k]].page <= c.pageEnd
  /\ blocks[o[1]].page = c.pageStart /\ blocks[o[Len(o)]].page = c.pageEnd

Paged(cs) == \A i \in 1..(Len(cs) - 1) : cs[i].pageEnd <= cs[i + 1].pageStart
Locates(cs, os) == os \in Seq(Seq(Nat)) /\ Len(os) = Len(cs) /\ \A i \in 1..Len(cs) : Located(cs[i], os[i])
Trail(cs, org) == Paged(cs) /\ \E os : Locates(cs, os) /\ Flatten(os) = org
Follows(cs, c) == cs = <<>> \/ cs[Len(cs)].pageEnd <= c.pageStart

Body == [x \in Raws |-> x.body]
TextOf(cs) == Flatten(Mapped(Body, cs))

LEMMA BodyIs ==
  /\ Body \in [Raws -> Seq(Frags)]
  /\ \A c \in Raws : /\ Body[c] = c.body /\ c.body \in Bodies /\ c.body \in Seq(Frags) /\ c.body \in Seq(Slices) /\ c.body # <<>>
                     /\ c.pageStart \in Nat /\ c.pageEnd \in Nat /\ Len(Characters(c.body)) \in Nat
<1>1. \A c \in Raws : c.body \in Bodies /\ c.pageStart \in Nat /\ c.pageEnd \in Nat
  BY DEF Raws
<1>2. \A t \in Bodies : t \in Seq(Frags) /\ t # <<>> /\ t \in Seq(Slices)
  BY FragsAreSlices DEF Bodies, Parts, Texts
<1>3. \A t \in Seq(Slices) : Len(Characters(t)) \in Nat
  BY CharactersType
<1>4. Body \in [Raws -> Seq(Frags)] /\ \A c \in Raws : Body[c] = c.body
  BY <1>1, <1>2 DEF Body
<1> QED
  BY <1>1, <1>2, <1>3, <1>4

LEMMA TextOfIs ==
  /\ TextOf(<<>>) = <<>>
  /\ \A cs \in Seq(Raws) : TextOf(cs) \in Seq(Frags) /\ TextOf(cs) \in Seq(Slices)
  /\ \A cs \in Seq(Raws), c \in Raws : TextOf(Append(cs, c)) = TextOf(cs) \o c.body
<1>1. TextOf(<<>>) = <<>>
  BY MappedEmpty, FlattenEmpty DEF TextOf
<1>2. \A cs \in Seq(Raws) : TextOf(cs) \in Seq(Frags) /\ TextOf(cs) \in Seq(Slices)
  <2> TAKE cs \in Seq(Raws)
  <2>1. Mapped(Body, cs) \in Seq(Seq(Frags))
    BY BodyIs, MappedType
  <2>2. TextOf(cs) \in Seq(Frags)
    BY <2>1, FlattenType DEF TextOf
  <2> QED
    BY <2>2, FragsAreSlices DEF Texts
<1>3. ASSUME NEW cs \in Seq(Raws), NEW c \in Raws PROVE TextOf(Append(cs, c)) = TextOf(cs) \o c.body
  <2>1. Mapped(Body, Append(cs, c)) = Append(Mapped(Body, cs), Body[c])
    <3>1. MapsAppend(Body, cs, c)
      BY BodyIs, MappedStep
    <3> QED
      BY <3>1 DEF MapsAppend
  <2>2. Mapped(Body, cs) \in Seq(Seq(Frags)) /\ Body[c] = c.body /\ c.body \in Seq(Frags)
    BY BodyIs, MappedType
  <2> QED
    BY <2>1, <2>2, FlattenAppend DEF TextOf
<1> QED
  BY <1>1, <1>2, <1>3

LEMMA LocatedJoin ==
  ASSUME NEW a \in Raws, NEW c \in Raws, NEW o, NEW u, Located(a, o), Located(c, u),
         a.path = c.path, a.pageEnd <= c.pageStart
  PROVE  Located(Merged(a, c), o \o u)
<1> DEFINE p == o \o u
           m == Merged(a, c)
<1>1. o \in Seq(Nat) /\ u \in Seq(Nat) /\ Len(o) \in Nat /\ Len(u) \in Nat /\ Len(o) > 0 /\ Len(u) > 0
  BY DEF Located
<1>2. p \in Seq(Nat) /\ Len(p) = Len(o) + Len(u) /\ p # <<>>
  BY <1>1
<1>3. (\A k \in 1..Len(o) : p[k] = o[k]) /\ (\A k \in 1..Len(u) : p[Len(o) + k] = u[k])
  BY <1>1
<1> HIDE DEF p
<1>4. m.body = a.body \o c.body /\ m.path = a.path /\ m.pageStart = a.pageStart /\ m.pageEnd = c.pageEnd
  BY DEF Merged
<1> HIDE DEF m
<1>5. Len(p) = Len(Characters(m.body))
  BY <1>2, <1>4, BodyIs, CharactersConcat DEF Located
<1>6. /\ a.pageStart \in Nat /\ a.pageEnd \in Nat /\ c.pageStart \in Nat /\ c.pageEnd \in Nat
      /\ a.pageStart <= a.pageEnd /\ c.pageStart <= c.pageEnd
  <2>1. a.pageStart \in Nat /\ a.pageEnd \in Nat /\ c.pageStart \in Nat /\ c.pageEnd \in Nat
    BY BodyIs
  <2>2. 1 \in 1..Len(o) /\ 1 \in 1..Len(u)
    BY <1>1
  <2>3. a.pageStart <= a.pageEnd
    BY <2>1, <2>2 DEF Located
  <2>4. c.pageStart <= c.pageEnd
    BY <2>1, <2>2 DEF Located
  <2> QED
    BY <2>1, <2>3, <2>4
<1>7. ASSUME NEW k \in 1..Len(p)
      PROVE  /\ SectionOf(p[k]) = m.path
             /\ blocks[p[k]].page \in Nat /\ m.pageStart <= blocks[p[k]].page /\ blocks[p[k]].page <= m.pageEnd
  <2>1. CASE k <= Len(o)
    <3>1. k \in 1..Len(o) /\ p[k] = o[k]
      BY <1>1, <1>3, <2>1
    <3>2. SectionOf(o[k]) = a.path /\ blocks[o[k]].page \in Nat /\ a.pageStart <= blocks[o[k]].page /\ blocks[o[k]].page <= a.pageEnd
      BY <3>1 DEF Located
    <3> QED
      BY <1>4, <1>6, <3>1, <3>2, SMTT(60)
  <2>2. CASE k > Len(o)
    <3> DEFINE j == k - Len(o)
    <3>1. j \in 1..Len(u) /\ k = Len(o) + j
      BY <1>1, <1>2, <2>2
    <3> HIDE DEF j
    <3>2. p[k] = u[j]
      BY <1>3, <3>1
    <3>3. SectionOf(u[j]) = c.path /\ blocks[u[j]].page \in Nat /\ c.pageStart <= blocks[u[j]].page /\ blocks[u[j]].page <= c.pageEnd
      BY <3>1 DEF Located
    <3> QED
      BY <1>4, <1>6, <3>2, <3>3
  <2>3. k \in Nat
    OBVIOUS
  <2> QED
    BY <1>1, <2>1, <2>2, <2>3
<1>8. blocks[p[1]].page = m.pageStart
  <2>1. 1 \in 1..Len(o)
    BY <1>1
  <2>2. p[1] = o[1]
    BY <1>3, <2>1
  <2> QED
    BY <1>4, <2>2 DEF Located
<1>9. blocks[p[Len(p)]].page = m.pageEnd
  <2>1. Len(u) \in 1..Len(u)
    BY <1>1
  <2>2. p[Len(p)] = u[Len(u)]
    BY <1>2, <1>3, <2>1
  <2> QED
    BY <1>4, <2>2 DEF Located
<1> QED
  BY <1>2, <1>5, <1>7, <1>8, <1>9 DEF Located, p, m

Adds(cs, c, ds) ==
  /\ ds # <<>> /\ ds[Len(ds)].pageEnd = c.pageEnd /\ ds[Len(ds)].path = c.path
  /\ TextOf(ds) = TextOf(cs) \o c.body

LEMMA TrailAppends ==
  ASSUME NEW cs \in Seq(Raws), NEW c \in Raws, NEW org, NEW o, Trail(cs, org), Located(c, o), Follows(cs, c)
  PROVE  Trail(Append(cs, c), org \o o)
<1> DEFINE n == Len(cs)
           ds == Append(cs, c)
<1>1. n \in Nat /\ Len(ds) = n + 1 /\ ds[n + 1] = c /\ \A i \in 1..n : ds[i] = cs[i]
  OBVIOUS
<1>2. Paged(cs) /\ (n = 0 \/ cs[n].pageEnd <= c.pageStart)
  BY DEF Trail, Follows
<1>3. PICK os : Locates(cs, os) /\ Flatten(os) = org
  BY DEF Trail
<1>4. os \in Seq(Seq(Nat)) /\ Len(os) = n /\ o \in Seq(Nat) /\ \A i \in 1..n : Located(cs[i], os[i])
  BY <1>3 DEF Locates, Located
<1> HIDE DEF ds
<1>5. Paged(ds)
  <2> SUFFICES ASSUME NEW i \in 1..(Len(ds) - 1) PROVE ds[i].pageEnd <= ds[i + 1].pageStart
    BY DEF Paged
  <2>1. i \in 1..n /\ ds[i] = cs[i]
    BY <1>1
  <2>2. CASE i = n
    BY <1>1, <1>2, <2>1, <2>2
  <2>3. CASE i # n
    <3>1. i \in 1..(n - 1) /\ i + 1 \in 1..n /\ ds[i + 1] = cs[i + 1]
      BY <1>1, <2>1, <2>3
    <3>2. cs[i].pageEnd <= cs[i + 1].pageStart
      BY <1>2, <3>1 DEF Paged
    <3> QED
      BY <2>1, <3>1, <3>2
  <2> QED
    BY <2>2, <2>3
<1> DEFINE us == Append(os, o)
<1>6. us \in Seq(Seq(Nat)) /\ Len(us) = n + 1 /\ us[n + 1] = o /\ \A i \in 1..n : us[i] = os[i]
  BY <1>4
<1>7. Flatten(us) = org \o o
  BY <1>3, <1>4, FlattenAppend
<1> HIDE DEF us, n
<1>8. \A i \in 1..Len(ds) : Located(ds[i], us[i])
  <2> TAKE i \in 1..Len(ds)
  <2>1. CASE i = n + 1
    BY <1>1, <1>6, <2>1
  <2>2. CASE i # n + 1
    <3>1. i \in 1..n
      BY <1>1, <2>2
    <3>2. ds[i] = cs[i] /\ us[i] = os[i] /\ Located(cs[i], os[i])
      BY <1>1, <1>4, <1>6, <3>1
    <3> QED
      BY <3>2
  <2> QED
    BY <2>1, <2>2
<1>9. Locates(ds, us)
  BY <1>1, <1>6, <1>8 DEF Locates
<1> QED
  BY <1>5, <1>7, <1>9, SMTT(60) DEF Trail, ds

LEMMA TrailMerges ==
  ASSUME NEW cs \in Seq(Raws), cs # <<>>, NEW c \in Raws, NEW org, NEW o, Trail(cs, org), Located(c, o), Follows(cs, c),
         cs[Len(cs)].path = c.path
  PROVE  Trail(MergeLast(cs, c), org \o o)
<1> DEFINE n == Len(cs)
           m == Merged(cs[n], c)
           ds == MergeLast(cs, c)
<1>1. n \in Nat /\ n > 0 /\ n \in 1..n /\ cs[n] \in Raws
  OBVIOUS
<1>2. Len(ds) = n /\ ds[n] = m /\ \A i \in 1..(n - 1) : ds[i] = cs[i]
  BY <1>1 DEF MergeLast
<1>3. Paged(cs) /\ cs[n].pageEnd <= c.pageStart /\ cs[n].path = c.path
  BY DEF Trail, Follows
<1>4. PICK os : Locates(cs, os) /\ Flatten(os) = org
  BY DEF Trail
<1>5. os \in Seq(Seq(Nat)) /\ Len(os) = n /\ o \in Seq(Nat) /\ \A i \in 1..n : Located(cs[i], os[i])
  BY <1>4 DEF Locates, Located
<1>6. m.pageStart = cs[n].pageStart
  BY DEF Merged
<1> HIDE DEF ds
<1>7. Located(m, os[n] \o o)
  <2>1. Located(cs[n], os[n])
    BY <1>1, <1>5
  <2> HIDE DEF n
  <2> QED
    BY <1>1, <1>3, <2>1, LocatedJoin
<1> HIDE DEF m
<1>8. Paged(ds)
  <2> SUFFICES ASSUME NEW i \in 1..(Len(ds) - 1) PROVE ds[i].pageEnd <= ds[i + 1].pageStart
    BY DEF Paged
  <2>1. i \in 1..(n - 1) /\ ds[i] = cs[i]
    BY <1>2
  <2>2. ds[i + 1].pageStart = cs[i + 1].pageStart
    <3>1. CASE i + 1 = n
      BY <1>2, <1>6, <3>1
    <3>2. CASE i + 1 # n
      <4>1. i + 1 \in 1..(n - 1)
        BY <1>1, <2>1, <3>2
      <4> QED
        BY <1>2, <4>1
    <3> QED
      BY <3>1, <3>2
  <2>3. cs[i].pageEnd <= cs[i + 1].pageStart
    BY <1>3, <2>1 DEF Paged
  <2> QED
    BY <2>1, <2>2, <2>3
<1> DEFINE us == [os EXCEPT ![Len(os)] = @ \o o]
<1>9. us \in Seq(Seq(Nat)) /\ Len(us) = n /\ us[n] = os[n] \o o /\ \A i \in 1..(n - 1) : us[i] = os[i]
  BY <1>1, <1>5, SMTT(60)
<1>10. Flatten(us) = org \o o
  <2>1. os # <<>>
    BY <1>1, <1>5
  <2> QED
    BY <1>4, <1>5, <2>1, FlattenGrows
<1> HIDE DEF us, n
<1>11. \A i \in 1..Len(ds) : Located(ds[i], us[i])
  <2> TAKE i \in 1..Len(ds)
  <2>1. CASE i = n
    BY <1>2, <1>7, <1>9, <2>1
  <2>2. CASE i # n
    <3>1. i \in 1..(n - 1) /\ i \in 1..n
      BY <1>1, <1>2, <2>2
    <3> QED
      BY <1>2, <1>5, <1>9, <3>1
  <2> QED
    BY <2>1, <2>2
<1>12. Locates(ds, us)
  BY <1>2, <1>9, <1>11 DEF Locates
<1> QED
  BY <1>8, <1>10, <1>12, SMTT(60) DEF Trail, ds

LEMMA TextMerges ==
  ASSUME NEW cs \in Seq(Raws), cs # <<>>, NEW c \in Raws, MergeLast(cs, c) \in Seq(Raws)
  PROVE  TextOf(MergeLast(cs, c)) = TextOf(cs) \o c.body
<1> DEFINE n == Len(cs)
           ds == MergeLast(cs, c)
           s == Mapped(Body, cs)
           t == Mapped(Body, ds)
           u == [s EXCEPT ![Len(s)] = @ \o c.body]
<1>1. n \in Nat /\ n > 0 /\ n \in 1..n /\ cs[n] \in Raws
  OBVIOUS
<1>2. Len(ds) = n /\ ds[n] = Merged(cs[n], c) /\ (\A i \in 1..(n - 1) : ds[i] = cs[i]) /\ ds \in Seq(Raws)
  BY <1>1 DEF MergeLast
<1> HIDE DEF ds
<1>0. Body \in [Raws -> Seq(Frags)]
  BY BodyIs
<1>3. s \in Seq(Seq(Frags)) /\ Len(s) = n /\ \A i \in 1..n : s[i] = Body[cs[i]]
  <2>1. MapOf(s, Body, cs, Seq(Frags))
    BY <1>0, MappedIs
  <2> HIDE DEF s
  <2> QED
    BY <2>1 DEF MapOf
<1>4. t \in Seq(Seq(Frags)) /\ Len(t) = n /\ \A i \in 1..n : t[i] = Body[ds[i]]
  <2>1. t \in Seq(Seq(Frags)) /\ Len(t) = Len(ds) /\ \A i \in 1..Len(ds) : t[i] = Body[ds[i]]
    <3>1. MapOf(t, Body, ds, Seq(Frags))
      BY <1>0, <1>2, MappedIs
    <3> HIDE DEF t
    <3> QED
      BY <3>1 DEF MapOf
  <2> QED
    BY <1>2, <2>1
<1>5. c.body \in Seq(Frags)
  BY BodyIs
<1> HIDE DEF s, t, n
<1>6. s[n] = cs[n].body /\ t[n] = cs[n].body \o c.body
  <2>1. ds[n] \in Raws
    BY <1>1, <1>2
  <2>2. ds[n].body = cs[n].body \o c.body
    <3>1. Merged(cs[n], c).body = cs[n].body \o c.body
      BY DEF Merged
    <3>2. ds[n] = Merged(cs[n], c)
      BY <1>2
    <3> QED
      BY <3>1, <3>2
  <2>3. s[n] = Body[cs[n]] /\ t[n] = Body[ds[n]]
    BY <1>1, <1>3, <1>4
  <2>4. \A x \in Raws : Body[x] = x.body
    BY BodyIs
  <2> QED
    BY <1>1, <2>1, <2>2, <2>3, <2>4
<1>7. \A i \in 1..(n - 1) : t[i] = s[i]
  <2> TAKE i \in 1..(n - 1)
  <2>1. i \in 1..n
    BY <1>1
  <2>2. t[i] = Body[ds[i]] /\ s[i] = Body[cs[i]] /\ ds[i] = cs[i]
    BY <1>2, <1>3, <1>4, <2>1
  <2> QED
    BY <2>2
<1>8. t = u
  <2>1. u \in Seq(Seq(Frags)) /\ Len(u) = n /\ u[n] = s[n] \o c.body /\ \A i \in 1..(n - 1) : u[i] = s[i]
    BY <1>1, <1>3, <1>5
  <2> HIDE DEF u
  <2>2. \A i \in 1..n : t[i] = u[i]
    <3> TAKE i \in 1..n
    <3>1. CASE i = n
      BY <1>6, <2>1, <3>1
    <3>2. CASE i # n
      <4>1. i \in 1..(n - 1)
        BY <1>1, <3>2
      <4> QED
        BY <1>7, <2>1, <4>1
    <3> QED
      BY <3>1, <3>2
  <2>3. /\ t \in Seq(Seq(Frags)) /\ u \in Seq(Seq(Frags)) /\ Len(t) = Len(u)
        /\ \A i \in 1..Len(t) : t[i] = u[i]
    BY <1>4, <2>1, <2>2
  <2> HIDE DEF t
  <2>4. Agrees(t, u)
    BY ONLY <2>3, SameParts
  <2> QED
    BY <2>4 DEF Agrees
<1>9. Flatten(u) = Flatten(s) \o c.body
  <2>1. s # <<>>
    BY <1>1, <1>3
  <2> QED
    BY <1>3, <1>5, <2>1, FlattenGrows
<1> HIDE DEF u
<1> QED
  BY <1>8, <1>9 DEF TextOf, s, t, ds

LEMMA AddsTrail ==
  ASSUME NEW cs \in Seq(Raws), NEW c \in Raws, NEW ds \in Seq(Raws), AddsTo(cs, c, ds),
         NEW org, NEW o, Trail(cs, org), Located(c, o), Follows(cs, c)
  PROVE  Trail(ds, org \o o) /\ Adds(cs, c, ds)
<1>1. CASE ds = Append(cs, c)
  <2>1. ds # <<>> /\ ds[Len(ds)] = c
    BY <1>1
  <2>2. TextOf(ds) = TextOf(cs) \o c.body
    BY <1>1, TextOfIs
  <2>3. Trail(ds, org \o o)
    BY <1>1, TrailAppends
  <2> QED
    BY <2>1, <2>2, <2>3 DEF Adds
<1>2. CASE cs # <<>> /\ cs[Len(cs)].path = c.path /\ ds = MergeLast(cs, c)
  <2>1. Trail(ds, org \o o)
    BY <1>2, TrailMerges
  <2>2. TextOf(ds) = TextOf(cs) \o c.body
    BY <1>2, TextMerges
  <2> DEFINE n == Len(cs)
  <2>3. n \in Nat /\ n > 0 /\ n \in DOMAIN cs
    BY <1>2
  <2>4. Len(ds) = n /\ ds[n] = Merged(cs[n], c)
    BY <1>2, <2>3 DEF MergeLast
  <2>5. ds # <<>>
    BY <2>3, <2>4
  <2>6. ds[n].pageEnd = c.pageEnd /\ ds[n].path = c.path
    BY <1>2, <2>4 DEF Merged
  <2> HIDE DEF n
  <2>7. ds[Len(ds)].pageEnd = c.pageEnd /\ ds[Len(ds)].path = c.path
    BY <2>4, <2>6
  <2> QED
    BY <2>1, <2>2, <2>5, <2>7 DEF Adds
<1> QED
  BY <1>1, <1>2 DEF AddsTo

LEMMA TrailBack ==
  ASSUME NEW cs \in Seq(Raws), NEW c \in Raws, NEW org, Trail(Append(cs, c), org)
  PROVE  \E a, o : Trail(cs, a) /\ Located(c, o) /\ org = a \o o /\ a \in Seq(Nat) /\ o \in Seq(Nat) /\ Follows(cs, c)
<1> DEFINE n == Len(cs)
           ds == Append(cs, c)
<1>1. n \in Nat /\ Len(ds) = n + 1 /\ ds[n + 1] = c /\ \A i \in 1..n : ds[i] = cs[i]
  OBVIOUS
<1> HIDE DEF ds
<1>2. PICK us : Locates(ds, us) /\ Flatten(us) = org
  BY DEF Trail, ds
<1>3. us \in Seq(Seq(Nat)) /\ Len(us) = n + 1 /\ \A i \in 1..(n + 1) : Located(ds[i], us[i])
  BY <1>1, <1>2 DEF Locates
<1> DEFINE os == SubSeq(us, 1, n)
           o == us[n + 1]
<1>4. os \in Seq(Seq(Nat)) /\ Len(os) = n /\ o \in Seq(Nat) /\ \A i \in 1..n : os[i] = us[i]
  BY <1>1, <1>3
<1>5. us = Append(os, o)
  BY <1>1, <1>3
<1> HIDE DEF os, o
<1>6. Flatten(us) = Flatten(os) \o o /\ Flatten(os) \in Seq(Nat)
  BY <1>4, <1>5, FlattenAppend, FlattenType
<1> HIDE DEF n
<1>7. \A i \in 1..n : Located(cs[i], os[i])
  <2> TAKE i \in 1..n
  <2>1. i \in 1..(n + 1)
    BY <1>1
  <2> QED
    BY <1>1, <1>3, <1>4, <2>1
<1>8. Located(c, o)
  <2>1. n + 1 \in 1..(n + 1)
    BY <1>1
  <2>2. Located(ds[n + 1], us[n + 1])
    BY <1>3, <2>1
  <2> QED
    BY <1>1, <2>2 DEF o
<1>9. Paged(ds)
  BY DEF Trail, ds
<1>10. Paged(cs)
  <2> SUFFICES ASSUME NEW i \in 1..(n - 1) PROVE cs[i].pageEnd <= cs[i + 1].pageStart
    BY DEF Paged, n
  <2>1. i \in 1..(Len(ds) - 1) /\ i \in 1..n /\ i + 1 \in 1..n
    BY <1>1
  <2>2. ds[i].pageEnd <= ds[i + 1].pageStart
    BY <1>9, <2>1 DEF Paged
  <2> QED
    BY <1>1, <2>1, <2>2
<1>11. Follows(cs, c)
  <2>1. CASE n = 0
    <3>1. cs = <<>>
      BY <2>1 DEF n
    <3> QED
      BY <3>1 DEF Follows
  <2>2. CASE n # 0
    <3>1. n \in 1..(Len(ds) - 1) /\ n \in 1..n
      BY <1>1, <2>2
    <3>2. ds[n].pageEnd <= ds[n + 1].pageStart
      BY <1>9, <3>1 DEF Paged
    <3>3. cs[n].pageEnd <= c.pageStart
      BY <1>1, <3>1, <3>2
    <3> QED
      BY <3>3 DEF Follows, n
  <2> QED
    BY <2>1, <2>2
<1>12. Trail(cs, Flatten(os))
  <2>1. Locates(cs, os)
    BY <1>4, <1>7 DEF Locates, n
  <2> QED
    BY <1>10, <2>1 DEF Trail
<1> QED
  BY <1>2, <1>4, <1>6, <1>8, <1>11, <1>12

LEMMA TrailEmpty == Trail(<<>>, <<>>)
<1>1. <<>> \in Seq(Seq(Nat)) /\ Len(<<>>) = 0
  OBVIOUS
<1>2. Locates(<<>>, <<>>) /\ Paged(<<>>)
  BY <1>1 DEF Locates, Paged
<1> QED
  BY <1>2, FlattenEmpty DEF Trail

(* Where chunk i begins among the characters, and that its own are found there. *)
Begins(cs, i) == Len(Characters(Flatten([k \in 1..(i - 1) |-> cs[k].body])))
FoundAt(cs, org, i) ==
  \E o : /\ Located(cs[i], o) /\ Begins(cs, i) + Len(o) <= Len(org)
         /\ \A k \in 1..Len(o) : org[Begins(cs, i) + k] = o[k]

LEMMA TrailFinds ==
  ASSUME NEW cs \in Seq(Raws)
  PROVE  \A org : Trail(cs, org) => /\ org \in Seq(Nat) /\ Len(org) = Len(Characters(TextOf(cs)))
                                    /\ \A i \in 1..Len(cs) : Begins(cs, i) \in Nat /\ FoundAt(cs, org, i)
<1> DEFINE Finds(s) == \A org : Trail(s, org) => /\ org \in Seq(Nat) /\ Len(org) = Len(Characters(TextOf(s)))
                                                 /\ \A i \in 1..Len(s) : Begins(s, i) \in Nat /\ FoundAt(s, org, i)
           P == {s \in Seq(Raws) : Finds(s)}
<1>1. <<>> \in P
  <2>1. ASSUME NEW org, Trail(<<>>, org) PROVE org = <<>>
    <3>1. PICK os : Locates(<<>>, os) /\ Flatten(os) = org
      BY <2>1 DEF Trail
    <3>2. os = <<>>
      BY <3>1 DEF Locates
    <3> QED
      BY <3>1, <3>2, FlattenEmpty
  <2>2. Len(Characters(TextOf(<<>>))) = 0
    BY TextOfIs, CharactersEmpty
  <2>5. <<>> \in Seq(Nat) /\ Len(<<>>) = 0 /\ 1..Len(<<>>) = {}
    OBVIOUS
  <2>3. Finds(<<>>)
    <3> SUFFICES ASSUME NEW org, Trail(<<>>, org)
                 PROVE  /\ org \in Seq(Nat) /\ Len(org) = Len(Characters(TextOf(<<>>)))
                        /\ \A i \in 1..Len(<<>>) : Begins(<<>>, i) \in Nat /\ FoundAt(<<>>, org, i)
      OBVIOUS
    <3>1. org = <<>>
      BY <2>1
    <3>2. org \in Seq(Nat) /\ Len(org) = Len(Characters(TextOf(<<>>)))
      BY <2>2, <2>5, <3>1
    <3> QED
      BY <2>5, <3>2
  <2>4. <<>> \in Seq(Raws)
    OBVIOUS
  <2> HIDE DEF Finds
  <2> QED
    BY <2>3, <2>4
<1>2. ASSUME NEW s \in Seq(Raws), NEW c \in Raws, s \in P PROVE Append(s, c) \in P
  <2> DEFINE n == Len(s)
             ds == Append(s, c)
  <2>1. n \in Nat /\ ds \in Seq(Raws) /\ Len(ds) = n + 1 /\ ds[n + 1] = c /\ \A i \in 1..n : ds[i] = s[i]
    OBVIOUS
  <2> HIDE DEF ds
  <2>2. ASSUME NEW i \in 1..(n + 1) PROVE Begins(ds, i) = Begins(s, i)
    <3>1. \A k \in 1..(i - 1) : ds[k] = s[k]
      BY <2>1
    <3>2. [k \in 1..(i - 1) |-> ds[k].body] = [k \in 1..(i - 1) |-> s[k].body]
      BY <3>1
    <3> QED
      BY <3>2 DEF Begins
  <2>3. Begins(s, n + 1) = Len(Characters(TextOf(s)))
    <3>1. (n + 1) - 1 = n
      BY <2>1
    <3>2. \A k \in 1..n : Body[s[k]] = s[k].body
      BY BodyIs, SMTT(60)
    <3>3. DOMAIN s = 1..n
      BY <2>1
    <3>4. [k \in 1..((n + 1) - 1) |-> s[k].body] = Mapped(Body, s)
      BY <3>1, <3>2, <3>3 DEF Mapped
    <3> QED
      BY <3>4 DEF Begins, TextOf
  <2>4. Len(Characters(TextOf(ds))) = Len(Characters(TextOf(s))) + Len(Characters(c.body))
    <3>1. TextOf(ds) = TextOf(s) \o c.body /\ TextOf(s) \in Seq(Slices) /\ c.body \in Seq(Slices)
      BY TextOfIs, BodyIs DEF ds
    <3> QED
      BY <3>1, CharactersConcat
  <2>5. ASSUME NEW org, Trail(ds, org)
        PROVE  /\ org \in Seq(Nat) /\ Len(org) = Len(Characters(TextOf(ds)))
               /\ \A i \in 1..(n + 1) : Begins(ds, i) \in Nat /\ FoundAt(ds, org, i)
    <3>1. PICK a, o : Trail(s, a) /\ Located(c, o) /\ org = a \o o /\ a \in Seq(Nat) /\ o \in Seq(Nat)
      BY <2>5, TrailBack, ZenonT(60) DEF ds
    <3>2. /\ Len(a) = Len(Characters(TextOf(s))) /\ Len(a) \in Nat
          /\ \A i \in 1..n : Begins(s, i) \in Nat /\ FoundAt(s, a, i)
      BY <1>2, <3>1
    <3>3. org \in Seq(Nat) /\ Len(org) = Len(a) + Len(o) /\ Len(o) \in Nat
      BY <3>1
    <3>4. (\A k \in 1..Len(a) : org[k] = a[k]) /\ (\A k \in 1..Len(o) : org[Len(a) + k] = o[k])
      BY <3>1
    <3>5. Len(org) = Len(Characters(TextOf(ds)))
      BY <2>4, <3>1, <3>2, <3>3 DEF Located
    <3>6. ASSUME NEW i \in 1..n PROVE Begins(ds, i) \in Nat /\ FoundAt(ds, org, i)
      <4>1. i \in 1..(n + 1) /\ ds[i] = s[i]
        BY <2>1
      <4>2. Begins(ds, i) = Begins(s, i) /\ Begins(s, i) \in Nat /\ FoundAt(s, a, i)
        BY <2>2, <3>2, <4>1
      <4> DEFINE b == Begins(s, i)
      <4>3. PICK u : Located(s[i], u) /\ b + Len(u) <= Len(a) /\ \A k \in 1..Len(u) : a[b + k] = u[k]
        BY <4>2 DEF FoundAt
      <4>4. b \in Nat /\ Len(u) \in Nat
        BY <4>2, <4>3 DEF Located
      <4> HIDE DEF b
      <4>5. \A k \in 1..Len(u) : org[b + k] = u[k]
        <5> TAKE k \in 1..Len(u)
        <5>1. b + k \in 1..Len(a)
          BY <3>2, <4>3, <4>4
        <5> QED
          BY <3>4, <4>3, <5>1
      <4>6. b + Len(u) <= Len(org)
        BY <3>2, <3>3, <4>3, <4>4
      <4>7. Begins(ds, i) = b
        BY <4>2 DEF b
      <4>8. Located(ds[i], u)
        BY <4>1, <4>3
      <4>9. FoundAt(ds, org, i)
        BY <4>5, <4>6, <4>7, <4>8 DEF FoundAt
      <4> QED
        BY <4>4, <4>7, <4>9
    <3>7. Begins(ds, n + 1) \in Nat /\ FoundAt(ds, org, n + 1)
      <4>1. n + 1 \in 1..(n + 1)
        BY <2>1
      <4>2. Begins(ds, n + 1) = Len(a)
        BY <2>2, <2>3, <3>2, <4>1
      <4>3. Located(ds[n + 1], o)
        BY <2>1, <3>1
      <4>4. Len(a) + Len(o) <= Len(org)
        BY <3>2, <3>3
      <4>5. FoundAt(ds, org, n + 1)
        BY <3>4, <4>2, <4>3, <4>4 DEF FoundAt
      <4> QED
        BY <3>2, <4>2, <4>5
    <3>8. \A i \in 1..(n + 1) : i \in 1..n \/ i = n + 1
      BY <2>1
    <3> QED
      BY <3>3, <3>5, <3>6, <3>7, <3>8
  <2>6. Finds(ds)
    BY <2>1, <2>5
  <2> HIDE DEF Finds
  <2> QED
    BY <2>1, <2>6 DEF ds
<1>3. Seq(Raws) \subseteq P
  <2> HIDE DEF P
  <2> QED
    BY <1>1, <1>2, SeqInduction
<1> QED
  BY <1>3

-----------------------------------------------------------------------------
\* Ingest: sections

LEMMA SiftSame ==
  ASSUME NEW T, NEW V, NEW W, V \subseteq T, W \subseteq T, NEW s \in Seq(T), \A i \in DOMAIN s : s[i] \in V <=> s[i] \in W
  PROVE  Sift(T, V, s) = Sift(T, W, s)
<1> DEFINE places == {i \in DOMAIN s : s[i] \in V}
<1>1. \A i \in DOMAIN s : i \in places <=> s[i] \in V
  OBVIOUS
<1>2. \A i \in DOMAIN s : i \in places <=> s[i] \in W
  OBVIOUS
<1> HIDE DEF places
<1>3. Selected(s, places) = Sift(T, V, s)
  BY <1>1, SelectedIs
<1>4. Selected(s, places) = Sift(T, W, s)
  BY <1>2, SelectedIs
<1> QED
  BY <1>3, <1>4

SiftsAppend(T, V, s, x) == Sift(T, V, Append(s, x)) = IF x \in V THEN Append(Sift(T, V, s), x) ELSE Sift(T, V, s)

LEMMA SiftStep ==
  ASSUME NEW T, NEW V, V \subseteq T, NEW s \in Seq(T), NEW x \in T
  PROVE  SiftsAppend(T, V, s, x)
<1>1. V \subseteq T /\ s \in Seq(T) /\ x \in T
  OBVIOUS
<1>2. Sift(T, V, Append(s, x)) = IF x \in V THEN Append(Sift(T, V, s), x) ELSE Sift(T, V, s)
  BY ONLY <1>1, SiftAppend
<1> QED
  BY <1>2 DEF SiftsAppend

LEMMA SiftTwice ==
  ASSUME NEW T, NEW V, NEW W, V \subseteq T, W \subseteq T, NEW s \in Seq(T)
  PROVE  Sift(T, V \cap W, s) = Sift(T, W, Sift(T, V, s))
<1> DEFINE U == V \cap W
           Twice(u) == Sift(T, U, u) = Sift(T, W, Sift(T, V, u))
           P == {u \in Seq(T) : Twice(u)}
<1>0. U \subseteq T /\ \A x : x \in U <=> x \in V /\ x \in W
  OBVIOUS
<1>1. <<>> \in P
  <2>1. Twice(<<>>)
    BY SiftEmpty
  <2>2. <<>> \in Seq(T)
    OBVIOUS
  <2> HIDE DEF Twice
  <2> QED
    BY <2>1, <2>2
<1> HIDE DEF U
<1>2. ASSUME NEW u \in Seq(T), NEW x \in T, u \in P PROVE Append(u, x) \in P
  <2> DEFINE a == Sift(T, V, u)
  <2>1. a \in Seq(T)
    <3>1. a \in Seq(V)
      BY SiftType
    <3> QED
      BY <3>1
  <2>2. Sift(T, V, Append(u, x)) = IF x \in V THEN Append(a, x) ELSE a
    <3>1. V \subseteq T /\ u \in Seq(T) /\ x \in T
      OBVIOUS
    <3>2. SiftsAppend(T, V, u, x)
      BY ONLY <3>1, SiftStep
    <3> QED
      BY ONLY <3>2 DEF SiftsAppend
  <2>3. Sift(T, U, Append(u, x)) = IF x \in U THEN Append(Sift(T, U, u), x) ELSE Sift(T, U, u)
    <3>1. U \subseteq T /\ u \in Seq(T) /\ x \in T
      BY <1>0
    <3>2. SiftsAppend(T, U, u, x)
      BY ONLY <3>1, SiftStep
    <3> QED
      BY ONLY <3>2 DEF SiftsAppend
  <2>4. Sift(T, U, u) = Sift(T, W, a)
    BY <1>2
  <2> HIDE DEF a
  <2>5. Sift(T, W, Append(a, x)) = IF x \in W THEN Append(Sift(T, W, a), x) ELSE Sift(T, W, a)
    BY <2>1, SiftAppend, SMTT(60)
  <2>6. Twice(Append(u, x))
    BY <1>0, <2>2, <2>3, <2>4, <2>5
  <2>7. Append(u, x) \in Seq(T)
    OBVIOUS
  <2> HIDE DEF Twice
  <2> QED
    BY <2>6, <2>7
<1>3. Seq(T) \subseteq P
  <2> HIDE DEF P
  <2> QED
    BY <1>1, <1>2, SeqInduction
<1> QED
  BY <1>3 DEF U

LEMMA SiftMapped ==
  ASSUME NEW T, NEW U, NEW g \in [T -> U], NEW W, W \subseteq U, NEW s \in Seq(T)
  PROVE  Mapped(g, Sift(T, {x \in T : g[x] \in W}, s)) = Sift(U, W, Mapped(g, s))
<1> DEFINE V == {x \in T : g[x] \in W}
           Same(u) == Mapped(g, Sift(T, V, u)) = Sift(U, W, Mapped(g, u))
           P == {u \in Seq(T) : Same(u)}
<1>0. V \subseteq T /\ \A x \in T : x \in V <=> g[x] \in W
  OBVIOUS
<1>1. <<>> \in P
  <2>1. Same(<<>>)
    BY SiftEmpty, MappedEmpty
  <2>2. <<>> \in Seq(T)
    OBVIOUS
  <2> HIDE DEF Same
  <2> QED
    BY <2>1, <2>2
<1> HIDE DEF V
<1>2. ASSUME NEW u \in Seq(T), NEW x \in T, u \in P PROVE Append(u, x) \in P
  <2> DEFINE a == Sift(T, V, u)
             b == Mapped(g, u)
  <2>1. a \in Seq(T)
    <3>1. a \in Seq(V)
      BY <1>0, SiftType
    <3> QED
      BY <1>0, <3>1
  <2>2. b \in Seq(U) /\ Mapped(g, Append(u, x)) = Append(b, g[x]) /\ g[x] \in U
    <3>1. g \in [T -> U] /\ u \in Seq(T) /\ x \in T /\ g[x] \in U
      OBVIOUS
    <3>2. MapOf(b, g, u, U)
      BY ONLY <3>1, MappedIs
    <3>3. Mapped(g, Append(u, x)) = Append(b, g[x])
      <4>1. MapsAppend(g, u, x)
        BY ONLY <3>1, MappedStep
      <4> QED
        BY <4>1 DEF MapsAppend
    <3> QED
      BY <3>1, <3>2, <3>3 DEF MapOf
  <2>3. Sift(T, V, Append(u, x)) = IF x \in V THEN Append(a, x) ELSE a
    <3>1. V \subseteq T /\ u \in Seq(T) /\ x \in T
      BY <1>0
    <3>2. SiftsAppend(T, V, u, x)
      BY ONLY <3>1, SiftStep
    <3> QED
      BY ONLY <3>2 DEF SiftsAppend
  <2>4. Mapped(g, a) = Sift(U, W, b)
    BY <1>2
  <2> HIDE DEF a, b
  <2>5. Mapped(g, Append(a, x)) = Append(Mapped(g, a), g[x])
    <3>1. MapsAppend(g, a, x)
      BY <2>1, MappedStep
    <3> QED
      BY <3>1 DEF MapsAppend
  <2>6. Sift(U, W, Append(b, g[x])) = IF g[x] \in W THEN Append(Sift(U, W, b), g[x]) ELSE Sift(U, W, b)
    <3>1. W \subseteq U /\ b \in Seq(U) /\ g[x] \in U
      BY <2>2
    <3>2. SiftsAppend(U, W, b, g[x])
      BY ONLY <3>1, SiftStep
    <3> QED
      BY ONLY <3>2 DEF SiftsAppend
  <2>7. Same(Append(u, x))
    BY <1>0, <2>2, <2>3, <2>4, <2>5, <2>6
  <2>8. Append(u, x) \in Seq(T)
    OBVIOUS
  <2> HIDE DEF Same
  <2> QED
    BY <2>7, <2>8
<1>3. Seq(T) \subseteq P
  <2> HIDE DEF P
  <2> QED
    BY <1>1, <1>2, SeqInduction
<1> QED
  BY <1>3 DEF V

UpTo(n) == [j \in 1..n |-> j]
Places == 1..Len(blocks)
TitleAt == [j \in Places |-> blocks[j].text]
AboveSet(i) ==
  {j \in 1..(i - 1) : /\ blocks[j].heading
                      /\ \A k \in (j + 1)..(i - 1) : blocks[k].heading => DepthOf(k) > DepthOf(j)}

LEMMA BlocksAre ==
  ASSUME blocks \in Seq(Blocks)
  PROVE  /\ Len(blocks) \in Nat /\ TitleAt \in [Places -> Titles]
         /\ \A j \in Places : /\ blocks[j] \in Blocks /\ TitleAt[j] = blocks[j].text /\ blocks[j].text \in Titles
                              /\ blocks[j].page \in Nat /\ blocks[j].heading \in BOOLEAN
                              /\ blocks[j].text[1] \in Lines
<1>1. Len(blocks) \in Nat /\ \A j \in Places : blocks[j] \in Blocks
  BY DEF Places
<1>2. \A b \in Blocks : b.text \in Titles /\ b.page \in Nat /\ b.heading \in BOOLEAN
  BY DEF Blocks
<1>3. \A t \in Titles : t[1] \in Lines
  BY DEF Titles
<1>4. TitleAt \in [Places -> Titles]
  BY <1>1, <1>2 DEF TitleAt
<1> QED
  BY <1>1, <1>2, <1>3, <1>4 DEF TitleAt

LEMMA DepthType ==
  ASSUME ChunkingAssumption, NEW t \in Titles
  PROVE  Depth[t[1]] \in Nat
<1>1. t[1] \in Lines
  BY DEF Titles
<1> QED
  BY <1>1 DEF ChunkingAssumption

LEMMA UpToIs ==
  ASSUME NEW n \in Nat
  PROVE  /\ UpTo(0) = <<>> /\ UpTo(n + 1) = Append(UpTo(n), n + 1) /\ Len(UpTo(n)) = n /\ DOMAIN UpTo(n) = 1..n
         /\ \A j \in 1..n : UpTo(n)[j] = j
         /\ \A m \in Nat : n <= m => UpTo(n) \in Seq(1..m)
<1>1. UpTo(0) = <<>>
  BY DEF UpTo
<1>2. UpTo(n + 1) = Append(UpTo(n), n + 1)
  BY DEF UpTo
<1>3. Len(UpTo(n)) = n /\ DOMAIN UpTo(n) = 1..n /\ \A j \in 1..n : UpTo(n)[j] = j
  BY DEF UpTo
<1>4. ASSUME NEW m \in Nat, n <= m PROVE UpTo(n) \in Seq(1..m)
  <2>1. UpTo(n) \in [1..n -> 1..m]
    BY <1>4 DEF UpTo
  <2> QED
    BY <2>1, RowIs
<1> QED
  BY <1>1, <1>2, <1>3, <1>4

LEMMA AboveIs ==
  ASSUME blocks \in Seq(Blocks), NEW i \in 1..(Len(blocks) + 1)
  PROVE  /\ AboveSet(i) \subseteq Places /\ Above(i) = Sift(Places, AboveSet(i), UpTo(i - 1))
         /\ Above(i) \in Seq(Places) /\ SectionOf(i) = Mapped(TitleAt, Above(i))
<1>0. Len(blocks) \in Nat /\ i - 1 \in Nat /\ i - 1 <= Len(blocks)
  BY BlocksAre
<1>1. AboveSet(i) \subseteq Places
  BY <1>0 DEF AboveSet, Places
<1>2. UpTo(i - 1) \in Seq(Places) /\ DOMAIN UpTo(i - 1) = 1..(i - 1) /\ \A j \in 1..(i - 1) : UpTo(i - 1)[j] = j
  BY <1>0, UpToIs DEF Places
<1>3. Above(i) = Selected(UpTo(i - 1), AboveSet(i))
  BY DEF Above, UpTo, AboveSet
<1>4. Selected(UpTo(i - 1), AboveSet(i)) = Sift(Places, AboveSet(i), UpTo(i - 1))
  <2>1. \A j \in DOMAIN UpTo(i - 1) : j \in AboveSet(i) <=> UpTo(i - 1)[j] \in AboveSet(i)
    BY <1>2
  <2> QED
    BY <1>1, <1>2, <2>1, SelectedIs
<1>5. Above(i) \in Seq(Places)
  <2>1. Sift(Places, AboveSet(i), UpTo(i - 1)) \in Seq(AboveSet(i))
    BY <1>1, <1>2, SiftType
  <2> QED
    BY <1>1, <1>3, <1>4, <2>1
<1>6. SectionOf(i) = Mapped(TitleAt, Above(i))
  <2>1. \A j \in DOMAIN Above(i) : Above(i)[j] \in Places
    BY <1>5
  <2>2. \A j \in DOMAIN Above(i) : TitleAt[Above(i)[j]] = blocks[Above(i)[j]].text
    BY <2>1 DEF TitleAt
  <2> QED
    BY <2>2 DEF SectionOf, Mapped
<1> QED
  BY <1>1, <1>3, <1>4, <1>5, <1>6

LEMMA SectionStarts ==
  ASSUME blocks \in Seq(Blocks)
  PROVE  SectionOf(1) = <<>>
<1>1. 1 \in 1..(Len(blocks) + 1) /\ 1 - 1 = 0
  BY BlocksAre
<1>2. Above(1) = Sift(Places, AboveSet(1), UpTo(1 - 1)) /\ SectionOf(1) = Mapped(TitleAt, Above(1))
  BY <1>1, AboveIs
<1>3. UpTo(1 - 1) = <<>>
  BY <1>1 DEF UpTo
<1> QED
  BY <1>2, <1>3, SiftEmpty, MappedEmpty

(* The section of a block after text is that of the text. *)
LEMMA SectionStays ==
  ASSUME blocks \in Seq(Blocks), NEW i \in Places, ~blocks[i].heading
  PROVE  SectionOf(i + 1) = SectionOf(i)
<1> DEFINE u == UpTo(i - 1)
<1>0. Len(blocks) \in Nat /\ i \in Nat /\ i - 1 \in Nat /\ i \in 1..(Len(blocks) + 1) /\ i + 1 \in 1..(Len(blocks) + 1) /\ (i + 1) - 1 = i /\ (i - 1) + 1 = i
  BY BlocksAre DEF Places
<1>1. /\ AboveSet(i) \subseteq Places /\ Above(i) = Sift(Places, AboveSet(i), u) /\ SectionOf(i) = Mapped(TitleAt, Above(i))
      /\ AboveSet(i + 1) \subseteq Places /\ Above(i + 1) = Sift(Places, AboveSet(i + 1), UpTo(i)) /\ SectionOf(i + 1) = Mapped(TitleAt, Above(i + 1))
  BY <1>0, AboveIs
<1>2. UpTo(i) = Append(u, i) /\ u \in Seq(Places) /\ DOMAIN u = 1..(i - 1) /\ \A j \in 1..(i - 1) : u[j] = j
  <2>1. i - 1 <= Len(blocks)
    BY <1>0
  <2> QED
    BY <1>0, <2>1, UpToIs DEF Places
<1>3. i \notin AboveSet(i + 1)
  BY DEF AboveSet
<1>4. ASSUME NEW j \in 1..(i - 1) PROVE j \in AboveSet(i + 1) <=> j \in AboveSet(i)
  <2>1. \A k \in (j + 1)..i : k \in (j + 1)..(i - 1) \/ k = i
    BY <1>0
  <2>2. \A k \in (j + 1)..(i - 1) : k \in (j + 1)..i
    BY <1>0
  <2>3. j \in 1..i
    BY <1>0
  <2>4. j \in AboveSet(i) <=> blocks[j].heading /\ \A k \in (j + 1)..(i - 1) : blocks[k].heading => DepthOf(k) > DepthOf(j)
    BY DEF AboveSet
  <2>5. j \in AboveSet(i + 1) <=> blocks[j].heading /\ \A k \in (j + 1)..i : blocks[k].heading => DepthOf(k) > DepthOf(j)
    BY <1>0, <2>3 DEF AboveSet
  <2> QED
    BY <2>1, <2>2, <2>4, <2>5
<1> HIDE DEF u
<1>5. Above(i + 1) = Sift(Places, AboveSet(i + 1), u)
  <2>1. AboveSet(i + 1) \subseteq Places /\ u \in Seq(Places) /\ i \in Places
    BY <1>1, <1>2
  <2>2. SiftsAppend(Places, AboveSet(i + 1), u, i)
    BY ONLY <2>1, SiftStep
  <2> QED
    BY <1>1, <1>2, <1>3, <2>2 DEF SiftsAppend
<1>6. Sift(Places, AboveSet(i + 1), u) = Sift(Places, AboveSet(i), u)
  <2>1. \A j \in DOMAIN u : u[j] \in AboveSet(i + 1) <=> u[j] \in AboveSet(i)
    BY <1>2, <1>4
  <2> QED
    <3>1. AboveSet(i + 1) \subseteq Places /\ AboveSet(i) \subseteq Places /\ u \in Seq(Places)
      BY <1>1, <1>2
    <3> QED
      BY ONLY <2>1, <3>1, SiftSame
<1> QED
  BY <1>1, <1>5, <1>6

(* The section of a block after a heading is the stack with the heading on it. *)
LEMMA SectionMoves ==
  ASSUME ChunkingAssumption, blocks \in Seq(Blocks), NEW i \in Places, blocks[i].heading
  PROVE  /\ SectionOf(i + 1) = UpdateSectionStack(SectionOf(i), blocks[i].text)
         /\ SectionOf(i) \in Seq(Titles)
<1> DEFINE u == UpTo(i - 1)
           h == blocks[i].text
           Sh == {x \in Places : TitleAt[x] \in Shallower(h)}
<1>0. Len(blocks) \in Nat /\ i \in Nat /\ i - 1 \in Nat /\ i \in 1..(Len(blocks) + 1) /\ i + 1 \in 1..(Len(blocks) + 1) /\ (i + 1) - 1 = i /\ (i - 1) + 1 = i
  BY BlocksAre DEF Places
<1>1. /\ AboveSet(i) \subseteq Places /\ Above(i) = Sift(Places, AboveSet(i), u) /\ SectionOf(i) = Mapped(TitleAt, Above(i)) /\ Above(i) \in Seq(Places)
      /\ AboveSet(i + 1) \subseteq Places /\ Above(i + 1) = Sift(Places, AboveSet(i + 1), UpTo(i)) /\ SectionOf(i + 1) = Mapped(TitleAt, Above(i + 1))
  BY <1>0, AboveIs
<1>2. UpTo(i) = Append(u, i) /\ u \in Seq(Places) /\ DOMAIN u = 1..(i - 1) /\ \A j \in 1..(i - 1) : u[j] = j
  <2>1. i - 1 <= Len(blocks)
    BY <1>0
  <2> QED
    BY <1>0, <2>1, UpToIs DEF Places
<1>3. i \in AboveSet(i + 1)
  BY <1>0 DEF AboveSet
<1>4. ASSUME NEW j \in 1..(i - 1) PROVE j \in AboveSet(i + 1) <=> j \in AboveSet(i) /\ j \in Sh
  <2>1. \A k \in (j + 1)..i : k \in (j + 1)..(i - 1) \/ k = i
    BY <1>0
  <2>2. (\A k \in (j + 1)..(i - 1) : k \in (j + 1)..i) /\ i \in (j + 1)..i
    BY <1>0
  <2>3. j \in 1..i /\ j \in Places
    BY <1>0 DEF Places
  <2>4. j \in AboveSet(i) <=> blocks[j].heading /\ \A k \in (j + 1)..(i - 1) : blocks[k].heading => DepthOf(k) > DepthOf(j)
    BY DEF AboveSet
  <2>5. j \in AboveSet(i + 1) <=> blocks[j].heading /\ \A k \in (j + 1)..i : blocks[k].heading => DepthOf(k) > DepthOf(j)
    BY <1>0, <2>3 DEF AboveSet
  <2>6. j \in Sh <=> DepthOf(j) < DepthOf(i)
    BY <2>3, BlocksAre DEF Shallower, DepthOf
  <2>7. DepthOf(i) \in Nat /\ DepthOf(j) \in Nat
    BY <2>3, BlocksAre, DepthType DEF DepthOf
  <2> DEFINE di == DepthOf(i)
             dj == DepthOf(j)
             H(k) == blocks[k].heading
             G(k) == DepthOf(k) > DepthOf(j)
  <2>8. G(i) <=> dj < di
    BY <2>7
  <2> HIDE DEF di, dj, G
  <2> QED
    BY <2>1, <2>2, <2>4, <2>5, <2>6, <2>8 DEF G, di, dj
<1>5. h \in Titles /\ TitleAt \in [Places -> Titles] /\ TitleAt[i] = h
  BY BlocksAre
<1>6. Shallower(h) \subseteq Titles
  BY DEF Shallower
<1>7. Sh \subseteq Places
  OBVIOUS
<1> HIDE DEF u, h
<1>8. Above(i + 1) = Append(Sift(Places, AboveSet(i + 1), u), i)
  <2>1. AboveSet(i + 1) \subseteq Places /\ u \in Seq(Places) /\ i \in Places
    BY <1>1, <1>2
  <2>2. SiftsAppend(Places, AboveSet(i + 1), u, i)
    BY ONLY <2>1, SiftStep
  <2> QED
    BY <1>1, <1>2, <1>3, <2>2 DEF SiftsAppend
<1>9. Sift(Places, AboveSet(i + 1), u) = Sift(Places, AboveSet(i) \cap Sh, u)
  <2> HIDE DEF Sh
  <2>1. \A j \in DOMAIN u : u[j] \in AboveSet(i + 1) <=> u[j] \in AboveSet(i) \cap Sh
    BY <1>2, <1>4
  <2>2. AboveSet(i) \cap Sh \subseteq Places
    BY <1>1
  <2> QED
    <3>1. AboveSet(i + 1) \subseteq Places /\ u \in Seq(Places)
      BY <1>1, <1>2
    <3> QED
      BY ONLY <2>1, <2>2, <3>1, SiftSame
<1>10. Sift(Places, AboveSet(i) \cap Sh, u) = Sift(Places, Sh, Above(i))
  <2> HIDE DEF Sh
  <2> QED
    BY <1>1, <1>2, <1>7, SiftTwice, SMTT(60)
<1>11. Mapped(TitleAt, Sift(Places, Sh, Above(i))) = Sift(Titles, Shallower(h), SectionOf(i))
  BY <1>1, <1>5, <1>6, SiftMapped
<1>12. Sift(Places, Sh, Above(i)) \in Seq(Places)
  <2> HIDE DEF Sh
  <2>1. Sift(Places, Sh, Above(i)) \in Seq(Sh)
    BY <1>1, <1>7, SiftType
  <2> QED
    BY <1>7, <2>1
<1> HIDE DEF Sh
<1>13. Mapped(TitleAt, Append(Sift(Places, Sh, Above(i)), i)) = Append(Mapped(TitleAt, Sift(Places, Sh, Above(i))), TitleAt[i])
  <2>1. MapsAppend(TitleAt, Sift(Places, Sh, Above(i)), i)
    BY <1>5, <1>12, MappedStep
  <2> QED
    BY <2>1 DEF MapsAppend
<1>14. SectionOf(i) \in Seq(Titles)
  <2> DEFINE a == Above(i)
  <2>1. TitleAt \in [Places -> Titles] /\ a \in Seq(Places)
    BY <1>1, <1>5
  <2> HIDE DEF a
  <2>2. MapOf(Mapped(TitleAt, a), TitleAt, a, Titles)
    BY ONLY <2>1, MappedIs
  <2> QED
    BY <1>1, <2>2 DEF a, MapOf
<1>15. UpdateSectionStack(SectionOf(i), h) = Append(Sift(Titles, Shallower(h), SectionOf(i)), h)
  BY <1>5, <1>14, StackIs
<1> QED
  BY <1>1, <1>5, <1>8, <1>9, <1>10, <1>11, <1>13, <1>14, <1>15 DEF h

-----------------------------------------------------------------------------
\* Ingest: chunks built from blocks

Const(n, len) == [k \in 1..len |-> n]
ConstJoins(n, a, b) == Const(n, a) \o Const(n, b) = Const(n, a + b)

LEMMA ConstIs ==
  ASSUME NEW n \in Nat, NEW a \in Nat, NEW b \in Nat
  PROVE  /\ Const(n, a) \in Seq(Nat) /\ Len(Const(n, a)) = a /\ \A k \in 1..a : Const(n, a)[k] = n
         /\ ConstJoins(n, a, b)
<1>1. Const(n, a) \in [1..a -> Nat] /\ Const(n, b) \in [1..b -> Nat] /\ a + b \in Nat
  BY DEF Const
<1>2. Const(n, a + b) \in [1..(a + b) -> Nat]
  BY DEF Const
<1>3. /\ Const(n, a) \in Seq(Nat) /\ Len(Const(n, a)) = a /\ Const(n, b) \in Seq(Nat) /\ Len(Const(n, b)) = b
      /\ Const(n, a + b) \in Seq(Nat) /\ Len(Const(n, a + b)) = a + b
  BY <1>1, <1>2, RowIs
<1>4. /\ \A k \in 1..a : Const(n, a)[k] = n
      /\ \A k \in 1..b : Const(n, b)[k] = n
      /\ \A k \in 1..(a + b) : Const(n, a + b)[k] = n
  BY DEF Const
<1> DEFINE p == Const(n, a)
           q == Const(n, b)
           r == Const(n, a + b)
<1>5. /\ p \in Seq(Nat) /\ Len(p) = a /\ q \in Seq(Nat) /\ Len(q) = b /\ r \in Seq(Nat) /\ Len(r) = a + b
      /\ (\A k \in 1..a : p[k] = n) /\ (\A k \in 1..b : q[k] = n) /\ \A k \in 1..(a + b) : r[k] = n
  BY <1>3, <1>4
<1> HIDE DEF p, q, r
<1>6. p \o q \in Seq(Nat) /\ Len(p \o q) = a + b
  BY <1>5
<1>7. ASSUME NEW k \in 1..(a + b) PROVE (p \o q)[k] = n
  <2>1. CASE k <= a
    <3>1. (p \o q)[k] = p[k] /\ k \in 1..a
      BY <1>5, <2>1
    <3> QED
      BY <1>5, <3>1
  <2>2. CASE ~(k <= a)
    <3>1. (p \o q)[k] = q[k - a] /\ k - a \in 1..b
      BY <1>5, <2>2
    <3> QED
      BY <1>5, <3>1
  <2> QED
    BY <2>1, <2>2
<1>8. p \o q = r
  BY <1>5, <1>6, <1>7
<1> QED
  BY <1>3, <1>4, <1>8 DEF p, q, r, ConstJoins

LEMMA WholeIs ==
  ASSUME CleaningAssumption, NEW t \in Titles
  PROVE  Whole(t) \in Parts
<1>1. t \in Seq(Lines) /\ t # <<>>
  BY DEF Titles
<1>2. \A l \in Lines : Fragment(l, 0, Size[l]) \in Frags
  BY DEF CleaningAssumption, Fragment, Frags
<1>3. Len(t) \in Nat /\ Len(t) # 0 /\ \A i \in 1..Len(t) : t[i] \in Lines
  BY <1>1
<1>4. Whole(t) = [i \in 1..Len(t) |-> Fragment(t[i], 0, Size[t[i]])]
  BY <1>1 DEF Whole
<1>5. Whole(t) \in [1..Len(t) -> Frags]
  BY <1>2, <1>3, <1>4
<1>6. Whole(t) \in Seq(Frags) /\ Len(Whole(t)) = Len(t)
  BY <1>3, <1>5, RowIs
<1>7. Whole(t) # <<>>
  BY <1>3, <1>6
<1> QED
  BY <1>6, <1>7 DEF Parts, Texts

Before(cs, p) == cs = <<>> \/ cs[Len(cs)].pageEnd <= p
Ahead(cs, n) == \A k \in n..Len(blocks) : Before(cs, blocks[k].page)

(* What has been built so far is of the text read so far, and where it comes from. *)
Rel(acc, section, org, txt) ==
  /\ acc \in Accs /\ acc.stack = section
  /\ Trail(Cs(acc), org) /\ org \in Seq(Nat)
  /\ Characters(TextOf(Cs(acc))) = txt /\ txt \in Seq(Marks)

LEMMA UnitLocated ==
  ASSUME blocks \in Seq(Blocks), NEW n \in Places, NEW acc \in Accs, acc.stack = SectionOf(n),
         NEW item \in ItemSet, item.heading = <<>>, item.page = blocks[n].page
  PROVE  /\ UnitOf(acc, item) \in Raws
         /\ Located(UnitOf(acc, item), Const(n, Len(Characters(item.text))))
<1>1. /\ item.text \in Bodies /\ item.text \in Texts /\ item.text \in Seq(Frags) /\ item.page \in Nat
      /\ UnitOf(acc, item) \in Raws
  BY UnitType
<1>2. item.text # <<>>
  BY <1>1 DEF Bodies, Parts
<1> DEFINE len == Len(Characters(item.text))
           o == Const(n, len)
           c == UnitOf(acc, item)
<1>3. len \in Nat /\ len > 0
  <2>1. item.text \in Seq(Slices)
    BY <1>1, FragsAreSlices
  <2> QED
    BY <1>1, <1>2, <2>1, CharactersType, TextHasCharacters
<1>4. n \in Nat
  BY DEF Places
<1>5. /\ c.body = item.text /\ c.path = SectionOf(n) /\ c.pageStart = blocks[n].page /\ c.pageEnd = blocks[n].page
  BY DEF UnitOf
<1>6. Len(Characters(c.body)) = len
  BY <1>5
<1> HIDE DEF len, c
<1>7. o \in Seq(Nat) /\ Len(o) = len /\ \A k \in 1..len : o[k] = n
  BY <1>3, <1>4, ConstIs
<1> HIDE DEF o
<1>8. o # <<>> /\ 1 \in 1..len /\ len \in 1..len
  BY <1>3, <1>7
<1>9. \A k \in 1..Len(o) : SectionOf(o[k]) = c.path
  <2> TAKE k \in 1..Len(o)
  <2>1. o[k] = n
    BY <1>7
  <2> QED
    BY <1>5, <2>1
<1>10. blocks[n].page \in Nat
  BY BlocksAre
<1>11. \A k \in 1..Len(o) : blocks[o[k]].page \in Nat /\ c.pageStart <= blocks[o[k]].page /\ blocks[o[k]].page <= c.pageEnd
  <2> TAKE k \in 1..Len(o)
  <2>1. o[k] = n
    BY <1>7
  <2> QED
    BY <1>5, <1>10, <2>1
<1>12. blocks[o[1]].page = c.pageStart /\ blocks[o[Len(o)]].page = c.pageEnd
  BY <1>5, <1>7, <1>8
<1>13. Located(c, o)
  BY <1>6, <1>7, <1>8, <1>9, <1>11, <1>12 DEF Located
<1> QED
  BY <1>1, <1>13 DEF o, c, len

LEMMA UnitRel ==
  ASSUME ChunkingAssumption, blocks \in Seq(Blocks), NEW n \in Places, NEW acc, NEW org, NEW txt,
         Rel(acc, SectionOf(n), org, txt), Before(Cs(acc), blocks[n].page),
         NEW item \in ItemSet, item.heading = <<>>, item.page = blocks[n].page
  PROVE  /\ Rel(AtUnit(acc, item), SectionOf(n), org \o Const(n, Len(Characters(item.text))), txt \o Characters(item.text))
         /\ Before(Cs(AtUnit(acc, item)), blocks[n].page)
<1> DEFINE cs == Cs(acc)
           c == UnitOf(acc, item)
           ds == Cs(AtUnit(acc, item))
           len == Len(Characters(item.text))
           o == Const(n, len)
<1>1. /\ acc \in Accs /\ acc.stack = SectionOf(n) /\ Trail(cs, org) /\ org \in Seq(Nat)
      /\ Characters(TextOf(cs)) = txt /\ txt \in Seq(Marks)
  BY DEF Rel
<1>2. c \in Raws /\ Located(c, o)
  BY <1>1, UnitLocated
<1>3. /\ AtUnit(acc, item) \in Accs /\ AtUnit(acc, item).stack = acc.stack /\ AddsTo(cs, c, ds)
  BY <1>1, UnitAdds
<1>4. cs \in Seq(Raws) /\ ds \in Seq(Raws)
  BY <1>1, <1>3, FlushIs
<1>5. c.pageStart = blocks[n].page /\ c.pageEnd = blocks[n].page /\ c.body = item.text
  BY DEF UnitOf
<1>6. blocks[n].page \in Nat /\ Follows(cs, c)
  BY <1>5, BlocksAre DEF Follows, Before
<1>7. o \in Seq(Nat)
  BY <1>2 DEF Located
<1>8. /\ item.text \in Seq(Slices)
  BY <1>1, UnitType, FragsAreSlices DEF Texts
<1> HIDE DEF cs, c, ds, o
<1>9. Trail(ds, org \o o) /\ Adds(cs, c, ds)
  BY <1>1, <1>2, <1>3, <1>4, <1>6, AddsTrail
<1>10. TextOf(ds) = TextOf(cs) \o item.text /\ TextOf(cs) \in Seq(Slices)
  BY <1>4, <1>5, <1>9, TextOfIs DEF Adds
<1>11. Characters(TextOf(ds)) = txt \o Characters(item.text) /\ Characters(item.text) \in Seq(Marks)
  BY <1>1, <1>8, <1>10, CharactersConcat, CharactersType
<1>12. ds # <<>> /\ ds[Len(ds)].pageEnd = blocks[n].page
  BY <1>5, <1>9 DEF Adds
<1>13. Before(ds, blocks[n].page)
  BY <1>6, <1>12 DEF Before
<1>14. org \o o \in Seq(Nat) /\ txt \o Characters(item.text) \in Seq(Marks)
  <2> DEFINE m == Characters(item.text)
  <2>1. m \in Seq(Marks)
    BY <1>11
  <2> HIDE DEF m
  <2>2. org \o o \in Seq(Nat) /\ txt \o m \in Seq(Marks)
    BY <1>1, <1>7, <2>1
  <2> QED
    BY <2>2 DEF m
<1>15. Rel(AtUnit(acc, item), SectionOf(n), org \o o, txt \o Characters(item.text))
  BY <1>1, <1>3, <1>9, <1>11, <1>14 DEF Rel, ds
<1> QED
  BY <1>13, <1>15 DEF ds, o

UnitAs(p) == [x \in Bodies |-> [heading |-> <<>>, text |-> x, page |-> p]]

LEMMA UnitsAre ==
  ASSUME NEW p \in Nat
  PROVE  /\ UnitAs(p) \in [Bodies -> ItemSet]
         /\ \A x \in Bodies : UnitAs(p)[x].heading = <<>> /\ UnitAs(p)[x].text = x /\ UnitAs(p)[x].page = p
         /\ \A ts \in Seq(Bodies) : Units(ts, p) = Mapped(UnitAs(p), ts)
<1>1. ASSUME NEW x \in Bodies PROVE [heading |-> <<>>, text |-> x, page |-> p] \in ItemSet
  <2>1. x \in Texts
    BY DEF Bodies, Parts
  <2>2. <<>> \in Seq(Lines)
    OBVIOUS
  <2> QED
    BY <2>1, <2>2 DEF ItemSet
<1>2. UnitAs(p) \in [Bodies -> ItemSet]
  BY <1>1 DEF UnitAs
<1>3. \A x \in Bodies : UnitAs(p)[x] = [heading |-> <<>>, text |-> x, page |-> p]
  BY DEF UnitAs
<1>4. ASSUME NEW ts \in Seq(Bodies) PROVE Units(ts, p) = Mapped(UnitAs(p), ts)
  <2>1. \A i \in DOMAIN ts : ts[i] \in Bodies
    OBVIOUS
  <2>2. \A i \in DOMAIN ts : UnitAs(p)[ts[i]] = [heading |-> <<>>, text |-> ts[i], page |-> p]
    BY <1>3, <2>1
  <2> QED
    BY <2>2 DEF Units, Mapped
<1>5. \A x \in Bodies : UnitAs(p)[x].heading = <<>> /\ UnitAs(p)[x].text = x /\ UnitAs(p)[x].page = p
  <2> TAKE x \in Bodies
  <2> DEFINE u == UnitAs(p)[x]
  <2>1. u = [heading |-> <<>>, text |-> x, page |-> p]
    BY <1>3
  <2> HIDE DEF u
  <2>2. u.heading = <<>> /\ u.text = x /\ u.page = p
    BY <2>1
  <2> QED
    BY <2>2 DEF u
<1> QED
  BY <1>2, <1>4, <1>5

(* The claim for the units of one text, behind what was read before it. *)
UnitsRead(n, s, org, txt, ts) ==
  LET r == s \o Units(ts, blocks[n].page)
      m == Characters(Flatten(ts))
  IN  /\ r \in Seq(ItemSet)
      /\ Rel(BuildOf(r), SectionOf(n), org \o Const(n, Len(m)), txt \o m)
      /\ Before(Cs(BuildOf(r)), blocks[n].page)

LEMMA NoUnitsRead ==
  ASSUME ChunkingAssumption, blocks \in Seq(Blocks), NEW n \in Places, NEW s \in Seq(ItemSet), NEW org, NEW txt,
         Rel(BuildOf(s), SectionOf(n), org, txt), Before(Cs(BuildOf(s)), blocks[n].page)
  PROVE  UnitsRead(n, s, org, txt, <<>>)
<1>1. blocks[n].page \in Nat /\ n \in Nat
  BY BlocksAre DEF Places
<1>2. Units(<<>>, blocks[n].page) = <<>>
  <2>1. <<>> \in Seq(Bodies)
    OBVIOUS
  <2>2. Units(<<>>, blocks[n].page) = Mapped(UnitAs(blocks[n].page), <<>>)
    BY <1>1, <2>1, UnitsAre, ZenonT(60)
  <2> QED
    BY <2>2, MappedEmpty
<1>3. Characters(Flatten(<<>>)) = <<>>
  BY FlattenEmpty, CharactersEmpty
<1>4. Const(n, 0) = <<>>
  BY DEF Const
<1>5. org \in Seq(Nat) /\ txt \in Seq(Marks)
  BY DEF Rel
<1>6. s \o <<>> = s /\ org \o <<>> = org /\ txt \o <<>> = txt /\ Len(<<>>) = 0
  BY <1>5
<1> QED
  BY <1>2, <1>3, <1>4, <1>6 DEF UnitsRead

LEMMA OneMoreUnit ==
  ASSUME ChunkingAssumption, blocks \in Seq(Blocks), NEW n \in Places, NEW s \in Seq(ItemSet), NEW org \in Seq(Nat), NEW txt \in Seq(Marks),
         NEW ts \in Seq(Bodies), NEW x \in Bodies, UnitsRead(n, s, org, txt, ts)
  PROVE  UnitsRead(n, s, org, txt, Append(ts, x))
<1> DEFINE p == blocks[n].page
           us == Units(ts, p)
           item == UnitAs(p)[x]
           r == s \o us
           m == Characters(Flatten(ts))
           q == Characters(x)
           vs == Units(Append(ts, x), p)
<1>1. p \in Nat /\ n \in Nat
  BY BlocksAre DEF Places
<1>2. item \in ItemSet /\ item.heading = <<>> /\ item.text = x /\ item.page = p
  BY <1>1, UnitsAre, SMTT(60)
<1>3. us \in Seq(ItemSet) /\ vs = Append(us, item)
  <2>1. us = Mapped(UnitAs(p), ts) /\ vs = Mapped(UnitAs(p), Append(ts, x)) /\ UnitAs(p) \in [Bodies -> ItemSet]
    <3>1. Append(ts, x) \in Seq(Bodies)
      OBVIOUS
    <3> QED
      BY <1>1, <3>1, UnitsAre
  <2> DEFINE g == UnitAs(p)
  <2>2. g \in [Bodies -> ItemSet] /\ ts \in Seq(Bodies) /\ x \in Bodies
    BY <2>1
  <2> HIDE DEF g
  <2>3. MapOf(Mapped(g, ts), g, ts, ItemSet) /\ Mapped(g, Append(ts, x)) = Append(Mapped(g, ts), g[x])
    <3>1. MapOf(Mapped(g, ts), g, ts, ItemSet)
      BY ONLY <2>2, MappedIs
    <3>2. Mapped(g, Append(ts, x)) = Append(Mapped(g, ts), g[x])
      <4>1. MapsAppend(g, ts, x)
        BY ONLY <2>2, MappedStep
      <4> QED
        BY <4>1 DEF MapsAppend
    <3> QED
      BY <3>1, <3>2
  <2> QED
    BY <2>1, <2>3 DEF g, MapOf
<1>4. r \in Seq(ItemSet) /\ Rel(BuildOf(r), SectionOf(n), org \o Const(n, Len(m)), txt \o m) /\ Before(Cs(BuildOf(r)), p)
  BY DEF UnitsRead
<1> HIDE DEF us, item, vs
<1>5. s \o vs = Append(r, item)
  <2>1. AppendsJoin(s, us, item)
    BY <1>2, <1>3, AppendAtEnd
  <2> QED
    BY <1>3, <2>1 DEF AppendsJoin
<1>6. BuildOf(Append(r, item)) = AtUnit(BuildOf(r), item)
  <2> HIDE DEF r
  <2>1. BuildOf(Append(r, item)) = BuildOne(BuildOf(r), item)
    BY <1>2, <1>4, BuildOfIs
  <2> QED
    BY <1>2, <2>1 DEF BuildOne
<1>7. /\ Rel(AtUnit(BuildOf(r), item), SectionOf(n), (org \o Const(n, Len(m))) \o Const(n, Len(q)), (txt \o m) \o q)
      /\ Before(Cs(AtUnit(BuildOf(r), item)), p)
  <2> DEFINE a == org \o Const(n, Len(m))
             b == txt \o m
             acc == BuildOf(r)
  <2>1. Rel(acc, SectionOf(n), a, b) /\ Before(Cs(acc), p)
    BY <1>4
  <2> HIDE DEF a, b, acc
  <2>2. /\ Rel(AtUnit(acc, item), SectionOf(n), a \o Const(n, Len(Characters(item.text))), b \o Characters(item.text))
        /\ Before(Cs(AtUnit(acc, item)), p)
    BY <1>2, <2>1, UnitRel
  <2> QED
    BY <1>2, <2>2 DEF a, b, acc
<1>8. Flatten(ts) \in Seq(Slices) /\ x \in Seq(Slices) /\ Flatten(Append(ts, x)) = Flatten(ts) \o x
  <2>1. ts \in Seq(Seq(Frags)) /\ x \in Seq(Frags)
    BY BitsAreTexts
  <2>2. Flatten(ts) \in Seq(Frags)
    BY ONLY <2>1, FlattenType
  <2>3. Flatten(Append(ts, x)) = Flatten(ts) \o x
    BY ONLY <2>1, FlattenAppend
  <2> QED
    BY <2>1, <2>2, <2>3, FragsAreSlices DEF Texts
<1>9. /\ Characters(Flatten(Append(ts, x))) = m \o q /\ Len(m \o q) = Len(m) + Len(q)
      /\ m \in Seq(Marks) /\ q \in Seq(Marks) /\ Len(m) \in Nat /\ Len(q) \in Nat
  <2>1. Characters(Flatten(ts) \o x) = m \o q /\ Len(Characters(Flatten(ts) \o x)) = Len(m) + Len(q)
    BY <1>8, CharactersConcat
  <2>2. m \in Seq(Marks) /\ q \in Seq(Marks) /\ Len(m) \in Nat /\ Len(q) \in Nat
    BY <1>8, CharactersType
  <2> QED
    BY <1>8, <2>1, <2>2
<1> HIDE DEF m, q
<1>10. (txt \o m) \o q = txt \o (m \o q)
  <2>1. Regroups(txt, m, q)
    BY <1>9, Regroup
  <2> QED
    BY <2>1 DEF Regroups
<1>11. (org \o Const(n, Len(m))) \o Const(n, Len(q)) = org \o Const(n, Len(m \o q))
  <2>1. Const(n, Len(m)) \in Seq(Nat) /\ Const(n, Len(q)) \in Seq(Nat) /\ ConstJoins(n, Len(m), Len(q))
    BY <1>1, <1>9, ConstIs
  <2>2. Regroups(org, Const(n, Len(m)), Const(n, Len(q)))
    BY <2>1, Regroup
  <2> QED
    BY <1>9, <2>1, <2>2 DEF Regroups, ConstJoins
<1>12. Append(r, item) \in Seq(ItemSet)
  <2> HIDE DEF r
  <2> QED
    BY <1>2, <1>4
<1> HIDE DEF r
<1>13. /\ Rel(BuildOf(s \o vs), SectionOf(n), org \o Const(n, Len(m \o q)), txt \o (m \o q))
       /\ Before(Cs(BuildOf(s \o vs)), p) /\ s \o vs \in Seq(ItemSet)
  BY <1>5, <1>6, <1>7, <1>10, <1>11, <1>12
<1> QED
  BY <1>9, <1>13 DEF UnitsRead, vs

LEMMA UnitsRel ==
  ASSUME ChunkingAssumption, blocks \in Seq(Blocks), NEW n \in Places, NEW s \in Seq(ItemSet), NEW org, NEW txt,
         Rel(BuildOf(s), SectionOf(n), org, txt), Before(Cs(BuildOf(s)), blocks[n].page),
         NEW ts \in Seq(Bodies)
  PROVE  UnitsRead(n, s, org, txt, ts)
<1> DEFINE P == {us \in Seq(Bodies) : UnitsRead(n, s, org, txt, us)}
<1>0. org \in Seq(Nat) /\ txt \in Seq(Marks)
  BY DEF Rel
<1>1. <<>> \in P
  <2>1. UnitsRead(n, s, org, txt, <<>>)
    BY NoUnitsRead
  <2>2. <<>> \in Seq(Bodies)
    OBVIOUS
  <2> QED
    BY <2>1, <2>2
<1>2. ASSUME NEW us \in Seq(Bodies), NEW x \in Bodies, us \in P PROVE Append(us, x) \in P
  <2>1. UnitsRead(n, s, org, txt, us)
    BY <1>2
  <2>2. UnitsRead(n, s, org, txt, Append(us, x))
    BY <1>0, <2>1, OneMoreUnit
  <2>3. Append(us, x) \in Seq(Bodies)
    OBVIOUS
  <2> QED
    BY <2>2, <2>3
<1>3. Seq(Bodies) \subseteq P
  <2> HIDE DEF P
  <2> QED
    BY <1>1, <1>2, SeqInduction
<1> QED
  BY <1>3

FlatsAppend(g, s, x) == Flatten(Mapped(g, Append(s, x))) = Flatten(Mapped(g, s)) \o g[x]

LEMMA FlatStep ==
  ASSUME NEW T, NEW U, NEW g \in [T -> Seq(U)], NEW s \in Seq(T), NEW x \in T
  PROVE  FlatsAppend(g, s, x) /\ Flatten(Mapped(g, s)) \in Seq(U)
<1> DEFINE V == Seq(U)
           a == Mapped(g, s)
<1>1. g \in [T -> V] /\ s \in Seq(T) /\ x \in T /\ g[x] \in Seq(U)
  OBVIOUS
<1> HIDE DEF V
<1>2. MapOf(a, g, s, V)
  BY ONLY <1>1, MappedIs
<1>3. Mapped(g, Append(s, x)) = Append(a, g[x])
  <2>1. MapsAppend(g, s, x)
    BY ONLY <1>1, MappedStep
  <2> QED
    BY <2>1 DEF MapsAppend
<1>4. a \in Seq(Seq(U)) /\ g[x] \in Seq(U)
  BY <1>1, <1>2 DEF MapOf, V
<1> HIDE DEF a
<1>5. Flatten(Append(a, g[x])) = Flatten(a) \o g[x]
  BY ONLY <1>4, FlattenAppend
<1>6. Flatten(a) \in Seq(U)
  BY ONLY <1>4, FlattenType
<1> QED
  BY <1>3, <1>5, <1>6 DEF a, FlatsAppend

PageOrder == \A i, j \in Places : i <= j => blocks[i].page <= blocks[j].page
ItemRow ==
  [j \in Places |->
     IF blocks[j].heading THEN <<[heading |-> blocks[j].text, text |-> <<>>, page |-> blocks[j].page]>>
     ELSE Units(SplitBlock(Whole(blocks[j].text)), blocks[j].page)]
WholeRow == [j \in Places |-> Whole(blocks[j].text)]
OrgRow == [j \in Places |-> Const(j, Len(Characters(Whole(blocks[j].text))))]
Plain == {j \in Places : ~blocks[j].heading}
PlainTo(n) == Sift(Places, Plain, UpTo(n))
ItemsTo(n) == Flatten(Mapped(ItemRow, UpTo(n)))
OrgTo(n) == Flatten(Mapped(OrgRow, PlainTo(n)))
TextTo(n) == Flatten(Mapped(WholeRow, PlainTo(n)))

LEMMA RowsAre ==
  ASSUME ChunkingAssumption, CleaningAssumption, blocks \in Seq(Blocks)
  PROVE  /\ ItemRow \in [Places -> Seq(ItemSet)]
         /\ OrgRow \in [Places -> Seq(Nat)]
         /\ WholeRow \in [Places -> Seq(Frags)]
         /\ \A j \in Places : /\ WholeRow[j] \in Parts /\ WholeRow[j] \in Seq(Slices)
                              /\ OrgRow[j] = Const(j, Len(Characters(WholeRow[j])))
                              /\ SplitBlock(WholeRow[j]) \in Seq(Bodies)
                              /\ ~blocks[j].heading => ItemRow[j] = Units(SplitBlock(WholeRow[j]), blocks[j].page)
<1>1. ASSUME NEW j \in Places PROVE /\ WholeRow[j] \in Parts /\ WholeRow[j] = Whole(blocks[j].text)
  BY BlocksAre, WholeIs DEF WholeRow
<1>2. \A j \in Places : WholeRow[j] \in Seq(Frags) /\ WholeRow[j] \in Seq(Slices)
  BY <1>1, PartsAreTexts, FragsAreSlices DEF Texts
<1>3. \A j \in Places : SplitBlock(WholeRow[j]) \in Seq(Bodies)
  BY <1>1, SplitBlockSound
<1>4. \A j \in Places : OrgRow[j] = Const(j, Len(Characters(WholeRow[j])))
  BY <1>1 DEF OrgRow
<1>5. ASSUME NEW j \in Places PROVE OrgRow[j] \in Seq(Nat)
  <2>1. Len(Characters(WholeRow[j])) \in Nat /\ j \in Nat
    BY <1>2, CharactersType DEF Places
  <2> QED
    BY <1>4, <2>1, ConstIs, SMTT(60)
<1>6. ASSUME NEW j \in Places, ~blocks[j].heading PROVE ItemRow[j] = Units(SplitBlock(WholeRow[j]), blocks[j].page)
  BY <1>1, <1>6 DEF ItemRow
<1>7. ASSUME NEW j \in Places PROVE ItemRow[j] \in Seq(ItemSet)
  <2>1. CASE blocks[j].heading
    <3> DEFINE h == [heading |-> blocks[j].text, text |-> <<>>, page |-> blocks[j].page]
    <3>1. ItemRow[j] = <<h>>
      BY <2>1 DEF ItemRow
    <3>2. blocks[j].text \in Seq(Lines) /\ blocks[j].text # <<>> /\ blocks[j].page \in Nat /\ <<>> \in Texts
      BY BlocksAre, PartsAreTexts DEF Titles
    <3>3. h \in ItemSet
      <4> DEFINE t == blocks[j].text
                 p == blocks[j].page
      <4>1. t \in Seq(Lines) /\ t # <<>> /\ p \in Nat /\ <<>> \in Texts
        BY <3>2
      <4> HIDE DEF t, p
      <4>2. [heading |-> t, text |-> <<>>, page |-> p] \in ItemSet
        BY <4>1 DEF ItemSet
      <4> QED
        BY <4>2 DEF t, p
    <3> HIDE DEF h
    <3> QED
      BY <3>1, <3>3
  <2>2. CASE ~blocks[j].heading
    <3> DEFINE p == blocks[j].page
               ts == SplitBlock(WholeRow[j])
    <3>1. p \in Nat /\ ts \in Seq(Bodies) /\ ItemRow[j] = Units(ts, p)
      BY <1>3, <1>6, <2>2, BlocksAre
    <3> HIDE DEF p, ts
    <3>2. Units(ts, p) = Mapped(UnitAs(p), ts) /\ UnitAs(p) \in [Bodies -> ItemSet]
      BY <3>1, UnitsAre
    <3> DEFINE g == UnitAs(p)
    <3>3. g \in [Bodies -> ItemSet] /\ ts \in Seq(Bodies)
      BY <3>1, <3>2
    <3> HIDE DEF g
    <3>4. MapOf(Mapped(g, ts), g, ts, ItemSet)
      BY ONLY <3>3, MappedIs
    <3> QED
      BY <3>1, <3>2, <3>4 DEF g, MapOf
  <2> QED
    BY <2>1, <2>2
<1>8. ItemRow \in [Places -> Seq(ItemSet)]
  <2>1. ItemRow = [j \in Places |-> ItemRow[j]]
    BY DEF ItemRow
  <2> QED
    BY <1>7, <2>1
<1>9. OrgRow \in [Places -> Seq(Nat)]
  <2>1. OrgRow = [j \in Places |-> OrgRow[j]]
    BY DEF OrgRow
  <2> QED
    BY <1>5, <2>1
<1>10. WholeRow \in [Places -> Seq(Frags)]
  <2>1. WholeRow = [j \in Places |-> WholeRow[j]]
    BY DEF WholeRow
  <2> QED
    BY <1>2, <2>1
<1> QED
  BY <1>1, <1>2, <1>3, <1>4, <1>6, <1>8, <1>9, <1>10

(* What the first blocks come to, and the next. *)
LEMMA NextRows ==
  ASSUME ChunkingAssumption, CleaningAssumption, blocks \in Seq(Blocks), NEW n \in Nat, n + 1 \in Places
  PROVE  /\ ItemsTo(n) \in Seq(ItemSet) /\ OrgTo(n) \in Seq(Nat) /\ TextTo(n) \in Seq(Frags)
         /\ ItemsTo(n + 1) = ItemsTo(n) \o ItemRow[n + 1]
         /\ OrgTo(n + 1) = IF blocks[n + 1].heading THEN OrgTo(n) ELSE OrgTo(n) \o OrgRow[n + 1]
         /\ TextTo(n + 1) = IF blocks[n + 1].heading THEN TextTo(n) ELSE TextTo(n) \o WholeRow[n + 1]
<1> DEFINE u == UpTo(n)
           v == PlainTo(n)
           i == n + 1
<1>1. /\ ItemRow \in [Places -> Seq(ItemSet)] /\ OrgRow \in [Places -> Seq(Nat)] /\ WholeRow \in [Places -> Seq(Frags)]
  BY RowsAre
<1>2. u \in Seq(Places) /\ UpTo(n + 1) = Append(u, i) /\ i \in Places
  <2>1. Len(blocks) \in Nat /\ n <= Len(blocks)
    BY BlocksAre DEF Places
  <2> QED
    BY <2>1, UpToIs DEF Places
<1>3. Plain \subseteq Places /\ (i \in Plain <=> ~blocks[n + 1].heading)
  BY <1>2 DEF Plain
<1>4. v \in Seq(Places) /\ PlainTo(n + 1) = IF blocks[n + 1].heading THEN v ELSE Append(v, i)
  <2>1. SiftsAppend(Places, Plain, u, i)
    BY ONLY <1>2, <1>3, SiftStep
  <2>2. Sift(Places, Plain, u) \in Seq(Plain)
    BY ONLY <1>2, <1>3, SiftType
  <2> QED
    <3>1. v = Sift(Places, Plain, u)
      BY DEF PlainTo
    <3>2. PlainTo(n + 1) = Sift(Places, Plain, Append(u, i))
      BY <1>2 DEF PlainTo
    <3>3. Sift(Places, Plain, Append(u, i)) = IF i \in Plain THEN Append(Sift(Places, Plain, u), i) ELSE Sift(Places, Plain, u)
      BY <2>1 DEF SiftsAppend
    <3>4. v \in Seq(Places)
      <4> HIDE DEF v, u
      <4> QED
        BY <1>3, <2>2, <3>1
    <3> HIDE DEF u, v, i
    <3> QED
      BY <1>3, <3>1, <3>2, <3>3, <3>4
<1> HIDE DEF u, v, i
<1>5. FlatsAppend(ItemRow, u, i) /\ Flatten(Mapped(ItemRow, u)) \in Seq(ItemSet)
  BY ONLY <1>1, <1>2, FlatStep
<1>6. FlatsAppend(OrgRow, v, i) /\ Flatten(Mapped(OrgRow, v)) \in Seq(Nat)
  BY ONLY <1>1, <1>2, <1>4, FlatStep
<1>7. FlatsAppend(WholeRow, v, i) /\ Flatten(Mapped(WholeRow, v)) \in Seq(Frags)
  BY ONLY <1>1, <1>2, <1>4, FlatStep
<1>8. ItemsTo(n) \in Seq(ItemSet) /\ ItemsTo(n + 1) = ItemsTo(n) \o ItemRow[i]
  BY <1>2, <1>5 DEF ItemsTo, FlatsAppend, u
<1>9. OrgTo(n) \in Seq(Nat) /\ OrgTo(n + 1) = IF blocks[n + 1].heading THEN OrgTo(n) ELSE OrgTo(n) \o OrgRow[i]
  BY <1>4, <1>6 DEF OrgTo, FlatsAppend, v
<1>10. TextTo(n) \in Seq(Frags) /\ TextTo(n + 1) = IF blocks[n + 1].heading THEN TextTo(n) ELSE TextTo(n) \o WholeRow[i]
  BY <1>4, <1>7 DEF TextTo, FlatsAppend, v
<1> QED
  BY <1>8, <1>9, <1>10 DEF i

BlocksRead(n) ==
  LET acc == BuildOf(ItemsTo(n))
  IN  /\ ItemsTo(n) \in Seq(ItemSet)
      /\ Rel(acc, SectionOf(n + 1), OrgTo(n), Characters(TextTo(n)))
      /\ Ahead(Cs(acc), n + 1)

LEMMA NoBlocksRead ==
  ASSUME ChunkingAssumption, blocks \in Seq(Blocks)
  PROVE  BlocksRead(0)
<1>1. UpTo(0) = <<>> /\ PlainTo(0) = <<>>
  <2>1. UpTo(0) = <<>>
    BY UpToIs
  <2> QED
    BY <2>1, SiftEmpty DEF PlainTo
<1>2. ItemsTo(0) = <<>> /\ OrgTo(0) = <<>> /\ TextTo(0) = <<>>
  BY <1>1, MappedEmpty, FlattenEmpty DEF ItemsTo, OrgTo, TextTo
<1>3. <<>> \in Seq(ItemSet) /\ <<>> \in Seq(Nat) /\ <<>> \in Seq(Marks)
  OBVIOUS
<1>4. BuildOf(<<>>) = Empty /\ Empty \in Accs
  BY BuildOfIs, NothingWeighs
<1>5. Empty.stack = <<>> /\ Empty.buf = <<>> /\ Empty.chunks = <<>>
  BY DEF Empty
<1>6. Cs(Empty) = <<>>
  BY <1>5 DEF Cs, FlushUnits
<1>7. Trail(<<>>, <<>>)
  BY TrailEmpty
<1>8. TextOf(<<>>) = <<>> /\ Characters(<<>>) = <<>>
  BY TextOfIs, CharactersEmpty
<1>9. SectionOf(0 + 1) = <<>>
  BY SectionStarts
<1>10. Rel(Empty, SectionOf(0 + 1), <<>>, <<>>)
  <2> DEFINE e == <<>>
  <2>1. Empty.stack = e /\ Cs(Empty) = e /\ e \in Seq(Nat) /\ e \in Seq(Marks) /\ SectionOf(0 + 1) = e /\ Trail(e, e)
        /\ Characters(TextOf(e)) = e /\ Empty \in Accs
    BY <1>3, <1>4, <1>5, <1>6, <1>7, <1>8, <1>9
  <2> HIDE DEF e
  <2>2. Rel(Empty, SectionOf(0 + 1), e, e)
    BY <2>1 DEF Rel
  <2> QED
    BY <2>2 DEF e
<1>11. Ahead(<<>>, 0 + 1)
  BY DEF Ahead, Before
<1> QED
  BY <1>2, <1>3, <1>4, <1>6, <1>8, <1>10, <1>11 DEF BlocksRead

LEMMA HeadingRead ==
  ASSUME ChunkingAssumption, CleaningAssumption, blocks \in Seq(Blocks), NEW n \in Nat, n + 1 \in Places,
         blocks[n + 1].heading, BlocksRead(n)
  PROVE  BlocksRead(n + 1)
<1> DEFINE i == n + 1
           s == ItemsTo(n)
           h == [heading |-> blocks[i].text, text |-> <<>>, page |-> blocks[i].page]
           acc == BuildOf(s)
           org == OrgTo(n)
           txt == Characters(TextTo(n))
<1>1. s \in Seq(ItemSet) /\ Rel(acc, SectionOf(i), org, txt) /\ Ahead(Cs(acc), i)
  BY DEF BlocksRead
<1>2. ItemsTo(i) = s \o ItemRow[i] /\ OrgTo(i) = org /\ Characters(TextTo(i)) = txt
  BY NextRows
<1>3. ItemRow[i] = <<h>>
  BY DEF ItemRow
<1>4. h \in ItemSet /\ blocks[i].text \in Titles /\ blocks[i].text # <<>> /\ h.heading = blocks[i].text
  <2>1. ItemRow[i] \in Seq(ItemSet)
    BY RowsAre
  <2>2. ItemRow[i][1] \in ItemSet
    BY <1>3, <2>1
  <2> QED
    BY <1>3, <2>2, BlocksAre DEF Titles
<1>5. /\ SectionOf(i + 1) = UpdateSectionStack(SectionOf(i), blocks[i].text)
  BY SectionMoves
<1>0. i + 1 = (n + 1) + 1 /\ i \in Places
  OBVIOUS
<1> HIDE DEF i, s, h, acc, org, txt
<1>6. s \o <<h>> = Append(s, h) /\ Append(s, h) \in Seq(ItemSet)
  BY <1>1, <1>4
<1>7. BuildOf(Append(s, h)) = AtHeading(acc, blocks[i].text)
  <2>1. BuildOf(Append(s, h)) = BuildOne(BuildOf(s), h)
    BY <1>1, <1>4, BuildOfIs
  <2> QED
    BY <1>4, <2>1 DEF BuildOne, acc
<1>8. acc \in Accs /\ acc.stack = SectionOf(i)
  BY <1>1 DEF Rel
<1> DEFINE b == AtHeading(acc, blocks[i].text)
<1>9. b \in Accs /\ b.stack = SectionOf(i + 1) /\ Cs(b) = Cs(acc)
  BY <1>4, <1>5, <1>8, HeadingFlushes
<1> HIDE DEF b
<1>10. Rel(b, SectionOf(i + 1), org, txt)
  BY <1>1, <1>9 DEF Rel
<1>11. Ahead(Cs(b), i + 1)
  <2>1. \A k \in (i + 1)..Len(blocks) : k \in i..Len(blocks)
    BY <1>0, BlocksAre DEF Places
  <2> QED
    BY <1>1, <1>9, <2>1 DEF Ahead
<1>12. /\ ItemsTo(i) \in Seq(ItemSet) /\ Rel(BuildOf(ItemsTo(i)), SectionOf(i + 1), OrgTo(i), Characters(TextTo(i)))
       /\ Ahead(Cs(BuildOf(ItemsTo(i))), i + 1)
  BY <1>2, <1>3, <1>6, <1>7, <1>10, <1>11 DEF b
<1> QED
  BY <1>0, <1>12 DEF BlocksRead, i

LEMMA TextRead ==
  ASSUME ChunkingAssumption, CleaningAssumption, blocks \in Seq(Blocks), PageOrder, NEW n \in Nat, n + 1 \in Places,
         ~blocks[n + 1].heading, BlocksRead(n)
  PROVE  BlocksRead(n + 1)
<1> DEFINE i == n + 1
           s == ItemsTo(n)
           ts == SplitBlock(WholeRow[i])
           us == Units(ts, blocks[i].page)
           acc == BuildOf(s)
           org == OrgTo(n)
           txt == Characters(TextTo(n))
           m == Characters(WholeRow[i])
<1>0. i + 1 = (n + 1) + 1 /\ i \in Places /\ i \in Nat /\ Len(blocks) \in Nat /\ i <= Len(blocks)
  BY BlocksAre DEF Places
<1>1. s \in Seq(ItemSet) /\ Rel(acc, SectionOf(i), org, txt) /\ Ahead(Cs(acc), i)
  BY DEF BlocksRead
<1>2. /\ ItemsTo(i) = s \o ItemRow[i] /\ OrgTo(i) = org \o OrgRow[i] /\ TextTo(i) = TextTo(n) \o WholeRow[i]
      /\ TextTo(n) \in Seq(Frags)
  BY NextRows
<1>3. ItemRow[i] = us /\ ts \in Seq(Bodies) /\ WholeRow[i] \in Parts /\ WholeRow[i] \in Seq(Slices) /\ OrgRow[i] = Const(i, Len(m))
  BY RowsAre
<1>4. Characters(Flatten(ts)) = m
  BY <1>3, SplitBlockSound
<1>5. SectionOf(i + 1) = SectionOf(i)
  BY SectionStays
<1>6. Characters(TextTo(i)) = txt \o m
  <2>1. TextTo(n) \in Seq(Slices)
    BY <1>2, FragsAreSlices DEF Texts
  <2> QED
    BY <1>2, <1>3, <2>1, CharactersConcat
<1>7. Before(Cs(acc), blocks[i].page)
  BY <1>0, <1>1 DEF Ahead
<1> HIDE DEF i, s, ts, us, acc, org, txt, m
<1>8. UnitsRead(i, s, org, txt, ts)
  BY <1>0, <1>1, <1>3, <1>7, UnitsRel DEF acc
<1>9. /\ s \o us \in Seq(ItemSet) /\ Rel(BuildOf(s \o us), SectionOf(i), org \o Const(i, Len(m)), txt \o m)
      /\ Before(Cs(BuildOf(s \o us)), blocks[i].page)
  BY <1>4, <1>8 DEF UnitsRead, us
<1> DEFINE c == Cs(BuildOf(s \o us))
<1>10. c \in Seq(Raws)
  BY <1>9, FlushIs DEF Rel
<1>11. Before(c, blocks[i].page)
  BY <1>9
<1> HIDE DEF c
<1>12. Ahead(c, i + 1)
  <2> SUFFICES ASSUME NEW k \in (i + 1)..Len(blocks), c # <<>> PROVE c[Len(c)].pageEnd <= blocks[k].page
    BY DEF Ahead, Before
  <2>1. k \in Places /\ i <= k
    BY <1>0 DEF Places
  <2>2. blocks[i].page <= blocks[k].page /\ blocks[i].page \in Nat /\ blocks[k].page \in Nat
    BY <1>0, <2>1, BlocksAre DEF PageOrder
  <2>3. c[Len(c)] \in Raws
    BY <1>10
  <2>4. c[Len(c)].pageEnd \in Nat
    BY <2>3, BodyIs
  <2>5. c[Len(c)].pageEnd <= blocks[i].page
    BY <1>11 DEF Before
  <2> QED
    BY <2>2, <2>4, <2>5, SMTT(60)
<1>13. /\ ItemsTo(i) \in Seq(ItemSet) /\ Rel(BuildOf(ItemsTo(i)), SectionOf(i + 1), OrgTo(i), Characters(TextTo(i)))
       /\ Ahead(Cs(BuildOf(ItemsTo(i))), i + 1)
  BY <1>2, <1>3, <1>5, <1>6, <1>9, <1>12 DEF c
<1> QED
  BY <1>0, <1>13 DEF BlocksRead, i

LEMMA AllBlocksRead ==
  ASSUME ChunkingAssumption, CleaningAssumption, blocks \in Seq(Blocks), PageOrder
  PROVE  BlocksRead(Len(blocks))
<1> DEFINE P == {n \in Nat : n <= Len(blocks) => BlocksRead(n)}
<1>0. Len(blocks) \in Nat
  BY BlocksAre
<1>1. 0 \in P
  BY NoBlocksRead
<1>2. ASSUME NEW n \in Nat, n \in P PROVE n + 1 \in P
  <2> SUFFICES ASSUME n + 1 <= Len(blocks) PROVE BlocksRead(n + 1)
    OBVIOUS
  <2>1. n + 1 \in Places /\ BlocksRead(n)
    BY <1>0, <1>2 DEF Places
  <2> QED
    BY <2>1, HeadingRead, TextRead
<1>3. Nat \subseteq P
  <2> HIDE DEF P
  <2> QED
    BY <1>1, <1>2, SetInduction
<1> QED
  BY <1>0, <1>3

(* The chunks built from the blocks: where they come from and what their text is. *)
LEMMA RawIs ==
  ASSUME ChunkingAssumption, CleaningAssumption, blocks \in Seq(Blocks), PageOrder
  PROVE  LET raw == BuildRawChunks(Items(blocks))
         IN  /\ raw \in Seq(Raws) /\ Trail(raw, Origins)
             /\ Characters(TextOf(raw))
                  = Characters(Flatten([k \in DOMAIN BodyBlocks |-> Whole(blocks[BodyBlocks[k]].text)]))
<1> DEFINE n == Len(blocks)
           u == UpTo(n)
<1>0. n \in Nat /\ DOMAIN blocks = Places /\ n <= n
  BY BlocksAre DEF Places
<1>1. u \in Seq(Places) /\ DOMAIN u = Places /\ \A j \in Places : u[j] = j
  BY <1>0, UpToIs DEF Places
<1>2. Items(blocks) = ItemsTo(n)
  <2>1. \A j \in DOMAIN u : ItemRow[u[j]]
           = IF blocks[j].heading THEN <<[heading |-> blocks[j].text, text |-> <<>>, page |-> blocks[j].page]>>
             ELSE Units(SplitBlock(Whole(blocks[j].text)), blocks[j].page)
    BY <1>1 DEF ItemRow
  <2>2. Items(blocks)
          = Flatten([j \in DOMAIN u |->
              IF blocks[j].heading THEN <<[heading |-> blocks[j].text, text |-> <<>>, page |-> blocks[j].page]>>
              ELSE Units(SplitBlock(Whole(blocks[j].text)), blocks[j].page)])
    BY <1>0, <1>1 DEF Items
  <2> HIDE DEF u
  <2>3. Items(blocks) = Flatten([j \in DOMAIN u |-> ItemRow[u[j]]])
    BY <2>1, <2>2
  <2> QED
    BY <2>3 DEF ItemsTo, Mapped, u
<1>3. BodyBlocks = PlainTo(n)
  <2>1. [j \in DOMAIN blocks |-> j] = u
    BY <1>0 DEF UpTo, Places
  <2>2. {j \in DOMAIN blocks : ~blocks[j].heading} = Plain
    BY <1>0 DEF Plain
  <2>3. BodyBlocks = Selected(u, Plain)
    BY <2>1, <2>2 DEF BodyBlocks
  <2>4. Plain \subseteq Places /\ u \in Seq(Places) /\ \A j \in DOMAIN u : j \in Plain <=> u[j] \in Plain
    BY <1>1 DEF Plain
  <2> HIDE DEF u
  <2>5. Selected(u, Plain) = Sift(Places, Plain, u)
    BY ONLY <2>4, SelectedIs
  <2> QED
    BY <2>3, <2>5 DEF PlainTo, u
<1>4. \A k \in DOMAIN BodyBlocks : BodyBlocks[k] \in Places
  <2>1. Plain \subseteq Places /\ u \in Seq(Places)
    BY <1>1 DEF Plain
  <2> HIDE DEF u
  <2>2. Sift(Places, Plain, u) \in Seq(Plain)
    BY ONLY <2>1, SiftType
  <2>3. BodyBlocks \in Seq(Plain)
    BY <1>3, <2>2 DEF PlainTo, u
  <2>4. \A k \in DOMAIN BodyBlocks : BodyBlocks[k] \in Plain
    BY <2>3
  <2> QED
    BY <2>1, <2>4
<1>5. Origins = OrgTo(n)
  <2>1. \A k \in DOMAIN BodyBlocks : OrgRow[BodyBlocks[k]]
           = [c \in 1..Len(Characters(Whole(blocks[BodyBlocks[k]].text))) |-> BodyBlocks[k]]
    BY <1>4 DEF OrgRow, Const
  <2>2. Origins = Flatten(Mapped(OrgRow, BodyBlocks))
    <3> DEFINE a == BodyBlocks
    <3>1. \A k \in DOMAIN a : OrgRow[a[k]] = [c \in 1..Len(Characters(Whole(blocks[a[k]].text))) |-> a[k]]
      BY <2>1
    <3>2. Origins = Flatten([k \in DOMAIN a |-> [c \in 1..Len(Characters(Whole(blocks[a[k]].text))) |-> a[k]]])
      BY DEF Origins
    <3> HIDE DEF a
    <3>3. [k \in DOMAIN a |-> [c \in 1..Len(Characters(Whole(blocks[a[k]].text))) |-> a[k]]] = [k \in DOMAIN a |-> OrgRow[a[k]]]
      BY <3>1
    <3> QED
      BY <3>2, <3>3 DEF Mapped, a
  <2> QED
    BY <1>3, <2>2 DEF OrgTo
<1>6. Flatten([k \in DOMAIN BodyBlocks |-> Whole(blocks[BodyBlocks[k]].text)]) = TextTo(n)
  <2>1. \A k \in DOMAIN BodyBlocks : WholeRow[BodyBlocks[k]] = Whole(blocks[BodyBlocks[k]].text)
    BY <1>4 DEF WholeRow
  <2>2. [k \in DOMAIN BodyBlocks |-> Whole(blocks[BodyBlocks[k]].text)] = Mapped(WholeRow, BodyBlocks)
    BY <2>1 DEF Mapped
  <2> QED
    BY <1>3, <2>2 DEF TextTo
<1> DEFINE acc == BuildOf(ItemsTo(n))
<1>7. /\ ItemsTo(n) \in Seq(ItemSet) /\ Rel(acc, SectionOf(n + 1), OrgTo(n), Characters(TextTo(n)))
  BY AllBlocksRead DEF BlocksRead
<1>8. BuildRawChunks(Items(blocks)) = Cs(acc)
  BY <1>2, <1>7, BuiltIs DEF Cs
<1> HIDE DEF acc
<1>9. Cs(acc) \in Seq(Raws) /\ Trail(Cs(acc), OrgTo(n)) /\ Characters(TextOf(Cs(acc))) = Characters(TextTo(n))
  BY <1>7, FlushIs DEF Rel
<1> QED
  BY <1>5, <1>6, <1>8, <1>9

-----------------------------------------------------------------------------
\* Ingest: small chunks merged

MergeOne(out, c) ==
  IF Len(out) > 0 /\ Merges(out[Len(out)], c) THEN MergeLast(out, c) ELSE Append(out, c)

LEMMA MergeStays ==
  ASSUME ChunkingAssumption, NEW out \in Seq(Raws), NEW c \in Raws
  PROVE  MergeOne(out, c) \in Seq(Raws) /\ AddsTo(out, c, MergeOne(out, c))
<1>1. CASE Len(out) > 0 /\ Merges(out[Len(out)], c)
  <2> DEFINE a == out[Len(out)]
             m == Merged(a, c)
  <2>1. a \in Raws /\ out # <<>> /\ Len(out) \in 1..Len(out)
    BY <1>1
  <2>2. /\ a.path = c.path /\ EstimateTokens(a.body) + EstimateTokens(c.body) <= MaxTokens
    BY <1>1 DEF Merges
  <2>3. a.body \in Texts /\ a.body # <<>> /\ c.body \in Texts /\ a.path \in Seq(Titles) /\ a.pageStart \in Nat /\ c.pageEnd \in Nat
    BY <2>1, BodyIs DEF Raws, Texts
  <2>4. a.body \o c.body \in Bits
    BY <2>2, <2>3, JoinedLight
  <2>5. a.body \o c.body # <<>>
    BY <2>3 DEF Texts
  <2>6. a.body \o c.body \in Bodies
    BY <2>4, <2>5, BitsAreTexts
  <2>7. m \in Raws
    <3> DEFINE b == a.body \o c.body
               p == a.path
               f == a.pageStart
               l == c.pageEnd
    <3>1. b \in Bodies /\ p \in Seq(Titles) /\ f \in Nat /\ l \in Nat
      BY <2>3, <2>6
    <3>2. m = [body |-> b, path |-> p, pageStart |-> f, pageEnd |-> l]
      BY DEF Merged
    <3> HIDE DEF b, p, f, l, m
    <3> QED
      BY <3>1, <3>2 DEF Raws
  <2>8. MergeOne(out, c) = MergeLast(out, c)
    BY <1>1 DEF MergeOne
  <2>9. MergeLast(out, c) = [out EXCEPT ![Len(out)] = m]
    BY DEF MergeLast
  <2>10. AddsTo(out, c, MergeLast(out, c))
    BY <2>1, <2>2 DEF AddsTo
  <2> HIDE DEF m
  <2>11. [out EXCEPT ![Len(out)] = m] \in Seq(Raws)
    BY <2>1, <2>7
  <2> QED
    BY <2>8, <2>9, <2>10, <2>11
<1>2. CASE ~(Len(out) > 0 /\ Merges(out[Len(out)], c))
  <2>1. MergeOne(out, c) = Append(out, c)
    BY <1>2 DEF MergeOne
  <2> QED
    BY <2>1 DEF AddsTo
<1> QED
  BY <1>1, <1>2

Merging == [x \in Seq(Raws) \X Raws |-> MergeOne(x[1], x[2])]
MergeOf(s) == FoldOver(Merging, Seq(Raws), <<>>, s)

LEMMA MergingFolds ==
  ASSUME ChunkingAssumption
  PROVE  Folds(Merging, Seq(Raws), Raws, <<>>)
<1>1. Merging \in [Seq(Raws) \X Raws -> Seq(Raws)]
  BY MergeStays DEF Merging
<1>2. <<>> \in Seq(Raws)
  OBVIOUS
<1> QED
  BY <1>1, <1>2 DEF Folds

LEMMA MergeOfIs ==
  ASSUME ChunkingAssumption
  PROVE  /\ MergeOf(<<>>) = <<>>
         /\ \A t \in Seq(Raws) : MergeOf(t) \in Seq(Raws)
         /\ \A t \in Seq(Raws), x \in Raws : MergeOf(Append(t, x)) = MergeOne(MergeOf(t), x)
<1>1. MergeOf(<<>>) = <<>>
  BY MergingFolds, FoldEmpty DEF MergeOf
<1>2. \A t \in Seq(Raws) : MergeOf(t) \in Seq(Raws)
  BY MergingFolds, FoldType DEF MergeOf
<1>3. ASSUME NEW t \in Seq(Raws), NEW x \in Raws PROVE MergeOf(Append(t, x)) = MergeOne(MergeOf(t), x)
  <2>1. MergeOf(Append(t, x)) = Merging[<<MergeOf(t), x>>]
    BY MergingFolds, FoldAppend DEF MergeOf
  <2>2. MergeOf(t) \in Seq(Raws)
    BY <1>2
  <2>3. Merging[<<MergeOf(t), x>>] = MergeOne(MergeOf(t), x)
    BY <2>2 DEF Merging
  <2> QED
    BY <2>1, <2>3
<1> QED
  BY <1>1, <1>2, <1>3

LEMMA MergedIs ==
  ASSUME ChunkingAssumption, NEW t \in Seq(Raws)
  PROVE  MergeSmall(t) = MergeOf(t)
<1> DEFINE n == Len(t)
           Filled(f) == [i \in 0..n |-> IF i = 0 THEN <<>> ELSE MergeOne(f[i - 1], t[i])]
           made == CHOOSE f : f = Filled(f)
<1>1. MergeSmall(t) = made[n]
  BY DEF MergeSmall, MergeOne, MergeLast
<1>2. n \in Nat /\ \A i \in 1..n : t[i] \in Raws
  OBVIOUS
<1>3. PICK f : FoldRow(f, Merging, Seq(Raws), <<>>, t)
  BY <1>2, MergingFolds, FoldRowExists
<1>4. f \in [0..n -> Seq(Raws)] /\ f[0] = <<>> /\ \A i \in 1..n : f[i] = Merging[<<f[i - 1], t[i]>>]
  BY <1>3 DEF FoldRow
<1>5. \A r \in Seq(Raws), x \in Raws : Merging[<<r, x>>] = MergeOne(r, x)
  BY DEF Merging
<1> HIDE DEF n
<1>6. \A i \in 1..n : f[i] = MergeOne(f[i - 1], t[i])
  <2> TAKE i \in 1..n
  <2>1. i - 1 \in 0..n
    BY <1>2
  <2>2. f[i - 1] \in Seq(Raws) /\ t[i] \in Raws
    BY <1>2, <1>4, <2>1
  <2> QED
    BY <1>4, <1>5, <2>2
<1>7. f = Filled(f)
  <2>1. \A i \in 0..n : f[i] = IF i = 0 THEN <<>> ELSE MergeOne(f[i - 1], t[i])
    <3> TAKE i \in 0..n
    <3>1. CASE i = 0
      BY <1>4, <3>1
    <3>2. CASE i # 0
      <4>1. i \in 1..n
        BY <1>2, <3>2
      <4> QED
        BY <1>6, <3>2, <4>1
    <3> QED
      BY <3>1, <3>2
  <2>2. f = [i \in 0..n |-> f[i]]
    BY <1>4
  <2> QED
    BY <2>1, <2>2
<1> HIDE DEF Filled
<1>8. made = Filled(made)
  BY <1>7
<1> HIDE DEF made
<1>9. made = [i \in 0..n |-> IF i = 0 THEN <<>> ELSE MergeOne(made[i - 1], t[i])]
  BY <1>8 DEF Filled
<1>10. made = [i \in 0..n |-> made[i]]
  BY <1>9
<1>11. made[0] = <<>>
  BY <1>2, <1>9
<1>12. \A i \in 1..n : made[i] = MergeOne(made[i - 1], t[i])
  <2> TAKE i \in 1..n
  <2>1. i \in 0..n /\ i # 0
    BY <1>2
  <2> QED
    BY <1>9, <2>1
<1>13. \A i \in 1..n : made[i - 1] \in Seq(Raws) => made[i] = Merging[<<made[i - 1], t[i]>>]
  BY <1>2, <1>5, <1>12
<1>14. RunsAs(made, Merging, Seq(Raws), <<>>, t)
  BY <1>10, <1>11, <1>13 DEF RunsAs, n
<1>15. FoldOver(Merging, Seq(Raws), <<>>, t) = made[Len(t)]
  BY <1>2, <1>14, MergingFolds, FoldIs
<1> QED
  BY <1>1, <1>15 DEF MergeOf, n

LastPage(s, t) ==
  /\ s = <<>> <=> t = <<>>
  /\ s # <<>> => s[Len(s)].pageEnd = t[Len(t)].pageEnd

(* Merging leaves the chunks where they were, with the text they had. *)
KeepsTrail(s) ==
  \A org : Trail(s, org) => /\ Trail(MergeOf(s), org) /\ TextOf(MergeOf(s)) = TextOf(s) /\ LastPage(s, MergeOf(s))

LEMMA MergeKeeps ==
  ASSUME ChunkingAssumption, NEW s \in Seq(Raws)
  PROVE  KeepsTrail(s) /\ MergeOf(s) \in Seq(Raws)
<1> DEFINE P == {u \in Seq(Raws) : KeepsTrail(u)}
<1>1. <<>> \in P
  <2>1. MergeOf(<<>>) = <<>>
    BY MergeOfIs
  <2>2. KeepsTrail(<<>>)
    BY <2>1 DEF KeepsTrail, LastPage
  <2>3. <<>> \in Seq(Raws)
    OBVIOUS
  <2> QED
    BY <2>2, <2>3
<1>2. ASSUME NEW u \in Seq(Raws), NEW c \in Raws, u \in P PROVE Append(u, c) \in P
  <2> DEFINE m == MergeOf(u)
             v == MergeOf(Append(u, c))
             w == Append(u, c)
  <2>1. m \in Seq(Raws) /\ v = MergeOne(m, c) /\ w \in Seq(Raws) /\ w # <<>> /\ w[Len(w)] = c
    <3>1. m \in Seq(Raws) /\ v = MergeOne(m, c)
      BY MergeOfIs
    <3> QED
      BY <3>1, SMTT(60)
  <2>2. v \in Seq(Raws) /\ AddsTo(m, c, v)
    BY <2>1, MergeStays
  <2>3. TextOf(w) = TextOf(u) \o c.body
    BY TextOfIs
  <2>4. ASSUME NEW org, Trail(w, org)
        PROVE  Trail(v, org) /\ TextOf(v) = TextOf(w) /\ LastPage(w, v)
    <3>1. PICK a, o : Trail(u, a) /\ Located(c, o) /\ org = a \o o /\ Follows(u, c)
      BY <2>4, TrailBack
    <3>2. Trail(m, a) /\ TextOf(m) = TextOf(u) /\ LastPage(u, m)
      BY <1>2, <3>1 DEF KeepsTrail
    <3>3. Follows(m, c)
      BY <3>1, <3>2 DEF Follows, LastPage
    <3> HIDE DEF m, v, w
    <3>4. Trail(v, a \o o) /\ Adds(m, c, v)
      BY <2>1, <2>2, <3>1, <3>2, <3>3, AddsTrail
    <3>5. TextOf(v) = TextOf(w) /\ LastPage(w, v)
      BY <2>1, <2>3, <3>2, <3>4 DEF Adds, LastPage
    <3> QED
      BY <3>1, <3>4, <3>5
  <2>5. KeepsTrail(w)
    BY <2>4 DEF KeepsTrail
  <2> QED
    BY <2>1, <2>5
<1>3. Seq(Raws) \subseteq P
  <2> HIDE DEF P
  <2> QED
    BY <1>1, <1>2, SeqInduction
<1> QED
  BY <1>3, MergeOfIs

LEMMA MergeSmallSound ==
  ASSUME ChunkingAssumption, NEW raw \in Seq(Raws), NEW org, Trail(raw, org)
  PROVE  MergeSmall(raw) \in Seq(Raws) /\ Trail(MergeSmall(raw), org) /\ TextOf(MergeSmall(raw)) = TextOf(raw)
<1>1. MergeSmall(raw) = MergeOf(raw) /\ KeepsTrail(raw) /\ MergeOf(raw) \in Seq(Raws)
  BY MergedIs, MergeKeeps
<1> QED
  BY <1>1 DEF KeepsTrail

-----------------------------------------------------------------------------
\* Ingest: the chunks of a document

Merge == MergeSmall(BuildRawChunks(Items(blocks)))

LEMMA MergeIs ==
  ASSUME ChunkingAssumption, CleaningAssumption, blocks \in Seq(Blocks), PageOrder
  PROVE  /\ Merge \in Seq(Raws) /\ Trail(Merge, Origins)
         /\ Characters(TextOf(Merge))
              = Characters(Flatten([k \in DOMAIN BodyBlocks |-> Whole(blocks[BodyBlocks[k]].text)]))
<1> DEFINE raw == BuildRawChunks(Items(blocks))
<1>1. /\ raw \in Seq(Raws) /\ Trail(raw, Origins)
      /\ Characters(TextOf(raw))
           = Characters(Flatten([k \in DOMAIN BodyBlocks |-> Whole(blocks[BodyBlocks[k]].text)]))
  BY RawIs
<1> HIDE DEF raw
<1>2. MergeSmall(raw) \in Seq(Raws) /\ Trail(MergeSmall(raw), Origins) /\ TextOf(MergeSmall(raw)) = TextOf(raw)
  BY <1>1, MergeSmallSound
<1> QED
  BY <1>1, <1>2 DEF Merge, raw

(* What finalize adds to a chunk. *)
Finals(raw, cs) ==
  /\ DOMAIN cs = 1..Len(raw) /\ Len(cs) = Len(raw)
  /\ \A i \in 1..Len(raw) :
       /\ cs[i].body = raw[i].body /\ cs[i].path = raw[i].path
       /\ cs[i].pageStart = raw[i].pageStart /\ cs[i].pageEnd = raw[i].pageEnd
       /\ cs[i].overlap = Overlap(raw, i) /\ cs[i].tokenCount \in Nat
       /\ \/ Overlap(raw, i) = <<>> /\ (i = 1 \/ raw[i - 1].path # raw[i].path)
          \/ /\ i > 1 /\ raw[i - 1].path = raw[i].path
             /\ TailOf(Overlap(raw, i), raw[i - 1].body)

LEMMA FinalizeIs ==
  ASSUME ChunkingAssumption, NEW raw \in Seq(Raws)
  PROVE  Finals(raw, Finalize(raw))
<1> DEFINE cs == Finalize(raw)
           n == Len(raw)
<1>1. n \in Nat /\ DOMAIN raw = 1..n /\ \A i \in 1..n : raw[i] \in Raws
  OBVIOUS
<1>2. ASSUME NEW i \in 1..n
      PROVE  /\ Overlap(raw, i) \in Texts
             /\ \/ Overlap(raw, i) = <<>> /\ (i = 1 \/ raw[i - 1].path # raw[i].path)
                \/ /\ i > 1 /\ raw[i - 1].path = raw[i].path
                   /\ TailOf(Overlap(raw, i), raw[i - 1].body)
  <2>1. CASE i > 1 /\ raw[i - 1].path = raw[i].path
    <3>1. i - 1 \in 1..n
      BY <1>1, <2>1
    <3>2. raw[i - 1].body \in Parts
      BY <1>1, <3>1, BodyIs, BitsAreTexts
    <3>3. TakeTail(raw[i - 1].body) \in Parts /\ TailOf(TakeTail(raw[i - 1].body), raw[i - 1].body)
      BY <3>2, TakeTailSound
    <3>4. Overlap(raw, i) = TakeTail(raw[i - 1].body)
      BY <2>1 DEF Overlap
    <3> QED
      BY <2>1, <3>3, <3>4, PartsAreTexts
  <2>2. CASE ~(i > 1 /\ raw[i - 1].path = raw[i].path)
    <3>1. Overlap(raw, i) = <<>>
      BY <2>2 DEF Overlap
    <3>2. i = 1 \/ raw[i - 1].path # raw[i].path
      BY <1>1, <2>2
    <3> QED
      BY <3>1, <3>2, PartsAreTexts
  <2> QED
    BY <2>1, <2>2
<1>3. cs = [i \in 1..n |->
        [body |-> raw[i].body, overlap |-> Overlap(raw, i), path |-> raw[i].path,
         pageStart |-> raw[i].pageStart, pageEnd |-> raw[i].pageEnd,
         tokenCount |-> EstimateTokens(Overlap(raw, i) \o raw[i].body)]]
  BY <1>1 DEF Finalize
<1>4. ASSUME NEW i \in 1..n PROVE EstimateTokens(Overlap(raw, i) \o raw[i].body) \in Nat
  <2>1. raw[i].body \in Texts
    BY <1>1, BodyIs DEF Texts
  <2>2. Overlap(raw, i) \o raw[i].body \in Texts
    BY <1>2, <2>1 DEF Texts
  <2> QED
    BY <2>2, EstimateType
<1>5. Len(cs) = n /\ DOMAIN cs = 1..n
  <2> HIDE DEF n
  <2>1. DOMAIN cs = 1..n
    BY <1>3
  <2>2. cs \in Seq({cs[i] : i \in 1..n})
    BY <1>1, <1>3, SMTT(60)
  <2> HIDE DEF cs
  <2> QED
    BY <1>1, <2>1, <2>2
<1>6. ASSUME NEW i \in 1..n
      PROVE  /\ cs[i].body = raw[i].body /\ cs[i].path = raw[i].path
             /\ cs[i].pageStart = raw[i].pageStart /\ cs[i].pageEnd = raw[i].pageEnd
             /\ cs[i].overlap = Overlap(raw, i) /\ cs[i].tokenCount = EstimateTokens(Overlap(raw, i) \o raw[i].body)
  BY <1>3
<1> HIDE DEF cs
<1> QED
  BY <1>2, <1>4, <1>5, <1>6 DEF Finals, cs

(* The text is all there in the chunks. *)
LEMMA ChunksKeepText ==
  ASSUME NEW raw \in Seq(Raws), Finals(raw, chunks)
  PROVE  /\ Flatten([i \in DOMAIN chunks |-> chunks[i].body]) = TextOf(raw)
         /\ \A i \in 1..Len(raw) : Origin(i) = Begins(raw, i)
<1>1. [i \in DOMAIN chunks |-> chunks[i].body] = Mapped(Body, raw)
  <2>1. DOMAIN chunks = DOMAIN raw /\ \A i \in DOMAIN raw : chunks[i].body = raw[i].body /\ raw[i] \in Raws
    BY DEF Finals
  <2>2. \A i \in DOMAIN raw : Body[raw[i]] = chunks[i].body
    BY <2>1, BodyIs
  <2> QED
    BY <2>1, <2>2 DEF Mapped
<1>2. ASSUME NEW i \in 1..Len(raw) PROVE Origin(i) = Begins(raw, i)
  <2>1. \A k \in 1..(i - 1) : k \in 1..Len(raw)
    OBVIOUS
  <2>2. \A k \in 1..(i - 1) : chunks[k].body = raw[k].body
    BY <2>1 DEF Finals
  <2>3. [k \in 1..(i - 1) |-> chunks[k].body] = [k \in 1..(i - 1) |-> raw[k].body]
    BY <2>2
  <2> QED
    BY <2>3 DEF Origin, Begins
<1> QED
  BY <1>1, <1>2 DEF TextOf

OneLocated(i) ==
  /\ \A b \in OriginsOf(i) :
       /\ SectionOf(b) = chunks[i].path
       /\ blocks[b].page \in chunks[i].pageStart..chunks[i].pageEnd
  /\ \E b \in OriginsOf(i) : blocks[b].page = chunks[i].pageStart
  /\ \E b \in OriginsOf(i) : blocks[b].page = chunks[i].pageEnd

LEMMA ChunkLocated ==
  ASSUME NEW raw \in Seq(Raws), Finals(raw, chunks), Trail(raw, Origins), NEW i \in 1..Len(raw)
  PROVE  OneLocated(i)
<1>1. Begins(raw, i) \in Nat /\ FoundAt(raw, Origins, i)
  BY TrailFinds
<1>2. PICK o : /\ Located(raw[i], o)
               /\ \A k \in 1..Len(o) : Origins[Begins(raw, i) + k] = o[k]
  BY <1>1 DEF FoundAt
<1> DEFINE c == raw[i]
<1>3. /\ chunks[i].body = c.body /\ chunks[i].path = c.path
      /\ chunks[i].pageStart = c.pageStart /\ chunks[i].pageEnd = c.pageEnd
  BY DEF Finals
<1>4. Origin(i) = Begins(raw, i)
  BY ChunksKeepText
<1>5. c \in Raws /\ c.pageStart \in Nat /\ c.pageEnd \in Nat
  BY BodyIs
<1> HIDE DEF c
<1>6. Located(c, o)
  BY <1>2 DEF c
<1>7. OriginsOf(i) = {o[k] : k \in 1..Len(o)}
  <2>1. Len(Characters(chunks[i].body)) = Len(o)
    BY <1>3, <1>6 DEF Located
  <2>2. OriginsOf(i) = {Origins[Begins(raw, i) + k] : k \in 1..Len(o)}
    BY <1>4, <2>1 DEF OriginsOf
  <2> QED
    BY <1>2, <2>2
<1>8. 1 \in 1..Len(o) /\ Len(o) \in 1..Len(o)
  BY <1>6 DEF Located
<1>9. \A b \in OriginsOf(i) : SectionOf(b) = c.path /\ blocks[b].page \in c.pageStart..c.pageEnd
  <2> TAKE b \in OriginsOf(i)
  <2>1. PICK k \in 1..Len(o) : b = o[k]
    BY <1>7
  <2>2. SectionOf(o[k]) = c.path /\ blocks[o[k]].page \in Nat /\ c.pageStart <= blocks[o[k]].page /\ blocks[o[k]].page <= c.pageEnd
    BY <1>6 DEF Located
  <2> DEFINE p == blocks[b].page
  <2>3. SectionOf(b) = c.path /\ p \in Nat /\ c.pageStart <= p /\ p <= c.pageEnd
    BY <2>1, <2>2
  <2> HIDE DEF p
  <2>4. p \in c.pageStart..c.pageEnd
    BY <1>5, <2>3
  <2> QED
    BY <2>3, <2>4 DEF p
<1>10. o[1] \in OriginsOf(i) /\ o[Len(o)] \in OriginsOf(i) /\ blocks[o[1]].page = c.pageStart /\ blocks[o[Len(o)]].page = c.pageEnd
  BY <1>6, <1>7, <1>8 DEF Located
<1> QED
  BY <1>3, <1>9, <1>10 DEF OneLocated

(* A chunk without wide characters is within the limit and the white space of its joins. *)
LEMMA BodyFits ==
  ASSUME ChunkingAssumption, NEW t \in Bodies
  PROVE  \/ EstimateTokens(t) <= MaxTokens + Ceiling(Len(t) - 1, CharsPerToken)
         \/ \E k \in DOMAIN t : Wide(t[k])
<1> SUFFICES ASSUME Narrow(t)
             PROVE  EstimateTokens(t) <= MaxTokens + Ceiling(Len(t) - 1, CharsPerToken)
  BY DEF Narrow
<1>1. t \in Texts /\ t # <<>> /\ Len(Characters(t)) <= CharsPerToken * MaxTokens
  BY DEF Bodies, Parts, Weighs
<1>2. Len(t) \in Nat /\ Len(t) # 0
  BY <1>1 DEF Texts
<1>3. Len(Characters(t)) \in Nat
  BY <1>1, FragsAreSlices, CharactersType
<1> DEFINE a == Len(Characters(t))
           b == Len(t) - 1
           m == MaxTokens * CharsPerToken
<1>4. b \in Nat /\ a \in Nat /\ m \in Nat /\ a <= m /\ CharsPerToken \in Nat \ {0} /\ MaxTokens \in Nat
  <2>1. MaxTokens \in Nat /\ CharsPerToken \in Nat \ {0} /\ m = CharsPerToken * MaxTokens /\ m \in Nat
    BY PieceSizeType DEF PieceSize, ChunkingAssumption
  <2> QED
    BY <1>1, <1>2, <1>3, <2>1
<1>5. EstimateTokens(t) = Ceiling(a + b, CharsPerToken)
  BY <1>1, <1>2, NarrowEstimate
<1> HIDE DEF a, b
<1>6. Ceiling(m + b, CharsPerToken) = MaxTokens + Ceiling(b, CharsPerToken)
  BY <1>4, CeilingShift
<1> HIDE DEF m
<1>7. Ceiling(a + b, CharsPerToken) <= Ceiling(m + b, CharsPerToken)
  <2>1. a + b \in Nat /\ m + b \in Nat /\ a + b <= m + b
    BY <1>4
  <2> QED
    BY <1>4, <2>1, CeilingOrder
<1> QED
  BY <1>5, <1>6, <1>7 DEF b

OneTail(i) ==
  LET o == chunks[i].overlap
      p == chunks[i - 1].body
      ss == Sentences(o)
  IN  \/ o = <<>> /\ (i = 1 \/ chunks[i - 1].path # chunks[i].path)
      \/ /\ i > 1 /\ chunks[i - 1].path = chunks[i].path
         /\ Len(o) \in 1..Len(p)
         /\ o = SubSeq(p, Len(p) - Len(o) + 1, Len(p))
         /\ o = p \/ EstimatesOf(ss) >= OverlapTokens
         /\ EstimatesOf(Tail(ss)) < OverlapTokens

LEMMA ChunkTail ==
  ASSUME NEW raw \in Seq(Raws), Finals(raw, chunks), NEW i \in 1..Len(raw)
  PROVE  OneTail(i)
<1> DEFINE o == Overlap(raw, i)
<1>1. chunks[i].overlap = o /\ chunks[i].path = raw[i].path
  BY DEF Finals
<1>2. \/ o = <<>> /\ (i = 1 \/ raw[i - 1].path # raw[i].path)
      \/ i > 1 /\ raw[i - 1].path = raw[i].path /\ TailOf(o, raw[i - 1].body)
  BY DEF Finals
<1>3. i > 1 => chunks[i - 1].path = raw[i - 1].path /\ chunks[i - 1].body = raw[i - 1].body
  <2> SUFFICES ASSUME i > 1 PROVE chunks[i - 1].path = raw[i - 1].path /\ chunks[i - 1].body = raw[i - 1].body
    OBVIOUS
  <2>1. i - 1 \in 1..Len(raw)
    OBVIOUS
  <2> QED
    BY <2>1 DEF Finals
<1> HIDE DEF o
<1>5. i = 1 \/ i > 1
  OBVIOUS
<1>4. CASE o = <<>> /\ (i = 1 \/ raw[i - 1].path # raw[i].path)
  BY <1>1, <1>3, <1>4, <1>5 DEF OneTail
<1>6. CASE i > 1 /\ raw[i - 1].path = raw[i].path /\ TailOf(o, raw[i - 1].body)
  BY <1>1, <1>3, <1>6 DEF OneTail, TailOf, EndOf
<1> QED
  BY <1>2, <1>4, <1>6

(* The chunks of a document as the properties want them. *)
LEMMA ChunksMade ==
  ASSUME ChunkingAssumption, CleaningAssumption, blocks \in Seq(Blocks), PageOrder, chunks = ChunkDocument(blocks)
  PROVE  NothingLost /\ ChunksAreLocated /\ ChunksFit /\ OverlapIsTail /\ Stored
<1>1. /\ Merge \in Seq(Raws) /\ Trail(Merge, Origins)
      /\ Characters(TextOf(Merge))
           = Characters(Flatten([k \in DOMAIN BodyBlocks |-> Whole(blocks[BodyBlocks[k]].text)]))
  BY MergeIs
<1>2. Finals(Merge, chunks)
  BY <1>1, FinalizeIs DEF ChunkDocument, Merge
<1>3. DOMAIN chunks = 1..Len(Merge) /\ Len(chunks) = Len(Merge) /\ Len(Merge) \in Nat
  BY <1>1, <1>2 DEF Finals
<1>4. NothingLost
  BY <1>1, <1>2, ChunksKeepText DEF NothingLost
<1>5. ChunksAreLocated
  <2>1. \A i \in DOMAIN chunks : OneLocated(i)
    BY <1>1, <1>2, <1>3, ChunkLocated
  <2> QED
    BY <2>1 DEF ChunksAreLocated, OneLocated
<1>6. ChunksFit
  <2>1. ASSUME NEW i \in DOMAIN chunks PROVE chunks[i].body \in Bodies
    <3>1. i \in 1..Len(Merge) /\ Merge[i] \in Raws
      BY <1>1, <1>3
    <3>2. chunks[i].body = Merge[i].body
      BY <1>2, <3>1 DEF Finals
    <3> QED
      BY <3>1, <3>2, BodyIs
  <2> QED
    BY <2>1, BodyFits DEF ChunksFit
<1>7. OverlapIsTail
  <2>1. \A i \in DOMAIN chunks : OneTail(i)
    BY <1>1, <1>2, <1>3, ChunkTail
  <2> QED
    BY <2>1 DEF OverlapIsTail, OneTail
<1>8. Stored
  BY <1>2, <1>3 DEF Stored, Finals
<1> QED
  BY <1>4, <1>5, <1>6, <1>7, <1>8

-----------------------------------------------------------------------------
\* Ingest: lines gathered into paragraphs

AllLines == Lines \cup {BlankLine}
Paras == [done : Seq(Titles), buf : Seq(Lines)]
ParaOne(r, x) ==
  IF x # BlankLine THEN [r EXCEPT !.buf = Append(@, x)] ELSE [done |-> Closed(r), buf |-> <<>>]

\* A line is in a text, in one of several texts, in a text read so far.
In(l, t) == \E n \in DOMAIN t : t[n] = l
Shows(ts, l) == \E b \in DOMAIN ts : In(l, ts[b])
ShowsIn(r, l) == Shows(r.done, l) \/ In(l, r.buf)

LEMMA AppendShows ==
  ASSUME NEW T, NEW ts \in Seq(T), NEW t \in T
  PROVE  \A l : Shows(ts, l) \/ In(l, t) => Shows(Append(ts, t), l)
<1> DEFINE s == Append(ts, t)
<1>1. /\ \A b \in DOMAIN ts : b \in DOMAIN s /\ s[b] = ts[b]
      /\ Len(ts) + 1 \in DOMAIN s /\ s[Len(ts) + 1] = t
  OBVIOUS
<1> HIDE DEF s
<1> QED
  BY <1>1 DEF Shows, s

LEMMA AppendIn ==
  ASSUME NEW T, NEW t \in Seq(T), NEW x \in T
  PROVE  In(x, Append(t, x)) /\ \A l : In(l, t) => In(l, Append(t, x))
<1> DEFINE s == Append(t, x)
<1>1. /\ \A b \in DOMAIN t : b \in DOMAIN s /\ s[b] = t[b]
      /\ Len(t) + 1 \in DOMAIN s /\ s[Len(t) + 1] = x
  OBVIOUS
<1> HIDE DEF s
<1> QED
  BY <1>1 DEF In, s

LEMMA ParasClosed ==
  ASSUME NEW r \in Paras
  PROVE  /\ Closed(r) \in Seq(Titles)
         /\ \A l : ShowsIn(r, l) => Shows(Closed(r), l)
<1> DEFINE d == r.done
           b == r.buf
<1>1. d \in Seq(Titles) /\ b \in Seq(Lines)
  BY DEF Paras
<1>2. CASE b = <<>>
  <2>1. Closed(r) = d \o <<>>
    BY <1>2 DEF Closed
  <2>2. DOMAIN b = {}
    BY <1>2
  <2>3. \A l : ~In(l, b)
    BY <2>2 DEF In
  <2> HIDE DEF d, b
  <2>4. d \o <<>> = d
    BY <1>1
  <2> QED
    BY <1>1, <2>1, <2>3, <2>4 DEF ShowsIn, d, b
<1>3. CASE b # <<>>
  <2>1. Closed(r) = d \o <<b>>
    BY <1>3 DEF Closed
  <2>2. b \in Titles
    BY <1>1, <1>3 DEF Titles
  <2> HIDE DEF d, b
  <2>3. d \o <<b>> = Append(d, b) /\ Append(d, b) \in Seq(Titles)
    BY <1>1, <2>2
  <2>4. \A l : Shows(d, l) \/ In(l, b) => Shows(Append(d, b), l)
    BY <1>1, <2>2, AppendShows
  <2> QED
    BY <2>1, <2>3, <2>4 DEF ShowsIn, d, b
<1> QED
  BY <1>2, <1>3

LEMMA ParaStays ==
  ASSUME NEW r \in Paras, NEW x \in AllLines
  PROVE  /\ ParaOne(r, x) \in Paras
         /\ \A l : ShowsIn(r, l) => ShowsIn(ParaOne(r, x), l)
         /\ x # BlankLine => ShowsIn(ParaOne(r, x), x)
<1> DEFINE d == r.done
           b == r.buf
<1>1. d \in Seq(Titles) /\ b \in Seq(Lines) /\ r = [done |-> d, buf |-> b]
  BY DEF Paras
<1>2. CASE x # BlankLine
  <2> DEFINE c == Append(b, x)
  <2>1. ParaOne(r, x) = [done |-> d, buf |-> c]
    <3>1. ParaOne(r, x) = [r EXCEPT !.buf = c]
      BY <1>2 DEF ParaOne
    <3> HIDE DEF d, b, c
    <3> QED
      BY <1>1, <3>1
  <2>2. x \in Lines
    BY <1>2 DEF AllLines
  <2>3. c \in Seq(Lines) /\ In(x, c) /\ \A l : In(l, b) => In(l, c)
    <3> HIDE DEF d, b
    <3> QED
      BY <1>1, <2>2, AppendIn
  <2> HIDE DEF c
  <2>4. \A l : ShowsIn(r, l) => ShowsIn(ParaOne(r, x), l)
    BY <2>1, <2>3 DEF ShowsIn
  <2> QED
    BY <1>1, <2>1, <2>3, <2>4 DEF ShowsIn, Paras
<1>3. CASE x = BlankLine
  <2> DEFINE e == Closed(r)
  <2>1. ParaOne(r, x) = [done |-> e, buf |-> <<>>]
    BY <1>3 DEF ParaOne
  <2>2. e \in Seq(Titles) /\ \A l : ShowsIn(r, l) => Shows(e, l)
    BY ParasClosed
  <2> HIDE DEF e
  <2>3. <<>> \in Seq(Lines)
    OBVIOUS
  <2> QED
    BY <1>3, <2>1, <2>2, <2>3 DEF ShowsIn, Paras
<1> QED
  BY <1>2, <1>3

Parsing == [x \in Paras \X AllLines |-> ParaOne(x[1], x[2])]
ParaOf(s) == FoldOver(Parsing, Paras, Begun, s)

LEMMA ParsingFolds == Folds(Parsing, Paras, AllLines, Begun)
<1>1. Parsing \in [Paras \X AllLines -> Paras]
  BY ParaStays DEF Parsing
<1>2. Begun \in Paras
  <2>1. <<>> \in Seq(Titles) /\ <<>> \in Seq(Lines)
    OBVIOUS
  <2> QED
    BY <2>1 DEF Paras, Begun
<1> QED
  BY <1>1, <1>2 DEF Folds

LEMMA ParaOfIs ==
  /\ ParaOf(<<>>) = Begun
  /\ \A t \in Seq(AllLines) : ParaOf(t) \in Paras
  /\ \A t \in Seq(AllLines), x \in AllLines : ParaOf(Append(t, x)) = ParaOne(ParaOf(t), x)
<1>1. ParaOf(<<>>) = Begun
  BY ParsingFolds, FoldEmpty DEF ParaOf
<1>2. \A t \in Seq(AllLines) : ParaOf(t) \in Paras
  BY ParsingFolds, FoldType DEF ParaOf
<1>3. ASSUME NEW t \in Seq(AllLines), NEW x \in AllLines PROVE ParaOf(Append(t, x)) = ParaOne(ParaOf(t), x)
  <2>1. ParaOf(Append(t, x)) = Parsing[<<ParaOf(t), x>>]
    BY ParsingFolds, FoldAppend DEF ParaOf
  <2>2. ParaOf(t) \in Paras
    BY <1>2
  <2>3. Parsing[<<ParaOf(t), x>>] = ParaOne(ParaOf(t), x)
    BY <2>2 DEF Parsing
  <2> QED
    BY <2>1, <2>3
<1> QED
  BY <1>1, <1>2, <1>3

LEMMA ParagraphsAre ==
  ASSUME NEW t \in Seq(AllLines)
  PROVE  Paragraphs(t) = Closed(ParaOf(t))
<1> DEFINE n == Len(t)
           Filled(f) == [i \in 0..n |-> IF i = 0 THEN [done |-> <<>>, buf |-> <<>>] ELSE ParaOne(f[i - 1], t[i])]
           made == CHOOSE f : f = Filled(f)
<1>1. Paragraphs(t) = Closed(made[n])
  BY DEF Paragraphs, ParaOne, Begun
<1>2. n \in Nat /\ \A i \in 1..n : t[i] \in AllLines
  OBVIOUS
<1>3. PICK f : FoldRow(f, Parsing, Paras, Begun, t)
  BY <1>2, ParsingFolds, FoldRowExists
<1>4. f \in [0..n -> Paras] /\ f[0] = Begun /\ \A i \in 1..n : f[i] = Parsing[<<f[i - 1], t[i]>>]
  BY <1>3 DEF FoldRow
<1>5. \A r \in Paras, x \in AllLines : Parsing[<<r, x>>] = ParaOne(r, x)
  BY DEF Parsing
<1> HIDE DEF n
<1>6. \A i \in 1..n : f[i] = ParaOne(f[i - 1], t[i])
  <2> TAKE i \in 1..n
  <2>1. i - 1 \in 0..n
    BY <1>2
  <2>2. f[i - 1] \in Paras /\ t[i] \in AllLines
    BY <1>2, <1>4, <2>1
  <2> QED
    BY <1>4, <1>5, <2>2
<1>7. f = Filled(f)
  <2>1. \A i \in 0..n : f[i] = IF i = 0 THEN [done |-> <<>>, buf |-> <<>>] ELSE ParaOne(f[i - 1], t[i])
    <3> TAKE i \in 0..n
    <3>1. CASE i = 0
      BY <1>4, <3>1 DEF Begun
    <3>2. CASE i # 0
      <4>1. i \in 1..n
        BY <1>2, <3>2
      <4> QED
        BY <1>6, <3>2, <4>1
    <3> QED
      BY <3>1, <3>2
  <2>2. f = [i \in 0..n |-> f[i]]
    BY <1>4
  <2> QED
    BY <2>1, <2>2
<1> HIDE DEF Filled
<1>8. made = Filled(made)
  BY <1>7
<1> HIDE DEF made
<1>9. made = [i \in 0..n |-> IF i = 0 THEN Begun ELSE ParaOne(made[i - 1], t[i])]
  BY <1>8 DEF Filled, Begun
<1>10. made = [i \in 0..n |-> made[i]]
  BY <1>9
<1>11. made[0] = Begun
  BY <1>2, <1>9
<1>12. \A i \in 1..n : made[i] = ParaOne(made[i - 1], t[i])
  <2> TAKE i \in 1..n
  <2>1. i \in 0..n /\ i # 0
    BY <1>2
  <2> QED
    BY <1>9, <2>1
<1>13. \A i \in 1..n : made[i - 1] \in Paras => made[i] = Parsing[<<made[i - 1], t[i]>>]
  BY <1>2, <1>5, <1>12
<1>14. RunsAs(made, Parsing, Paras, Begun, t)
  BY <1>10, <1>11, <1>13 DEF RunsAs, n
<1>15. FoldOver(Parsing, Paras, Begun, t) = made[Len(t)]
  BY <1>2, <1>14, ParsingFolds, FoldIs
<1> QED
  BY <1>1, <1>15 DEF ParaOf, n

(* Every line of a page that is not blank is in one of its paragraphs. *)
LEMMA ParagraphsKeep ==
  ASSUME CleaningAssumption, NEW u \in Seq(AllLines)
  PROVE  /\ Paragraphs(u) \in Seq(Titles)
         /\ \A k \in 1..Len(u) : u[k] # BlankLine => Shows(Paragraphs(u), u[k])
<1> DEFINE Has(t) == \A k \in 1..Len(t) : t[k] # BlankLine => ShowsIn(ParaOf(t), t[k])
           P == {t \in Seq(AllLines) : Has(t)}
<1>1. <<>> \in P
  <2>1. Has(<<>>)
    OBVIOUS
  <2>2. <<>> \in Seq(AllLines)
    OBVIOUS
  <2> HIDE DEF Has
  <2> QED
    BY <2>1, <2>2
<1>2. ASSUME NEW t \in Seq(AllLines), NEW x \in AllLines, t \in P PROVE Append(t, x) \in P
  <2> DEFINE s == Append(t, x)
             r == ParaOf(t)
  <2>1. r \in Paras /\ ParaOf(s) = ParaOne(r, x)
    BY ParaOfIs
  <2>2. /\ \A l : ShowsIn(r, l) => ShowsIn(ParaOf(s), l)
        /\ x # BlankLine => ShowsIn(ParaOf(s), x)
    BY <2>1, ParaStays
  <2>3. /\ s \in Seq(AllLines)
        /\ \A k \in 1..Len(s) : s[k] = x \/ (k \in 1..Len(t) /\ s[k] = t[k])
    OBVIOUS
  <2>4. Has(t)
    BY <1>2
  <2> HIDE DEF s, r
  <2>5. ASSUME NEW k \in 1..Len(s), s[k] # BlankLine PROVE ShowsIn(ParaOf(s), s[k])
    <3>1. CASE s[k] = x
      BY <2>2, <2>5, <3>1
    <3>2. CASE k \in 1..Len(t) /\ s[k] = t[k]
      <4>1. ShowsIn(r, t[k])
        BY <2>4, <2>5, <3>2 DEF r
      <4> QED
        BY <2>2, <3>2, <4>1
    <3> QED
      BY <2>3, <3>1, <3>2
  <2>6. Has(s)
    BY <2>5
  <2> HIDE DEF Has
  <2> QED
    BY <2>3, <2>6 DEF s
<1>3. Seq(AllLines) \subseteq P
  <2> HIDE DEF P
  <2> QED
    BY <1>1, <1>2, SeqInduction
<1>4. Has(u)
  BY <1>3
<1>5. Paragraphs(u) = Closed(ParaOf(u)) /\ ParaOf(u) \in Paras
  BY ParagraphsAre, ParaOfIs
<1>6. /\ Closed(ParaOf(u)) \in Seq(Titles)
      /\ \A l : ShowsIn(ParaOf(u), l) => Shows(Closed(ParaOf(u)), l)
  BY <1>5, ParasClosed
<1> QED
  BY <1>4, <1>5, <1>6

(* What is kept of a page. *)
LEMMA KeptIs ==
  ASSUME NEW running, NEW u \in Seq(AllLines)
  PROVE  /\ Kept(u, running) \in Seq(AllLines)
         /\ \A k \in 1..Len(u) : u[k] \notin running /\ u[k] \notin PageNumbers => In(u[k], Kept(u, running))
<1> DEFINE places == {i \in DOMAIN u : u[i] \notin running /\ u[i] \notin PageNumbers}
           V == {x \in AllLines : x \notin running /\ x \notin PageNumbers}
           v == Sift(AllLines, V, u)
<1>1. V \subseteq AllLines /\ \A i \in DOMAIN u : i \in places <=> u[i] \in V
  OBVIOUS
<1>2. Kept(u, running) = Selected(u, places)
  BY DEF Kept
<1>3. \A k \in 1..Len(u) : u[k] \notin running /\ u[k] \notin PageNumbers => u[k] \in V
  OBVIOUS
<1> HIDE DEF places, V
<1>4. u \in Seq(AllLines) /\ V \subseteq AllLines /\ \A i \in DOMAIN u : i \in places <=> u[i] \in V
  BY <1>1
<1>5. Selected(u, places) = v
  BY ONLY <1>4, SelectedIs
<1>6. v \in Seq(V)
  BY ONLY <1>4, SiftType
<1>7. \A k \in 1..Len(u) : u[k] \in V => \E m \in 1..Len(v) : v[m] = u[k]
  BY <1>4, SiftKeeps
<1> HIDE DEF v
<1>8. v \in Seq(AllLines) /\ DOMAIN v = 1..Len(v)
  BY <1>1, <1>6
<1> QED
  BY <1>2, <1>3, <1>5, <1>7, <1>8 DEF In

-----------------------------------------------------------------------------
\* Ingest: paragraphs become blocks

BlockOf(t, p) == [heading |-> IsHeading(t), text |-> t, page |-> p]
AddOne(p, bs, t) == IF bs # <<>> /\ bs[Len(bs)].text = t THEN bs ELSE Append(bs, BlockOf(t, p))
BlocksShow(bs, l) == \E b \in DOMAIN bs : In(l, bs[b].text)

\* The pages of blocks grow, up to a given one.
Ordered(bs, p) ==
  /\ \A i, j \in DOMAIN bs : i <= j => bs[i].page <= bs[j].page
  /\ \A i \in DOMAIN bs : bs[i].page <= p

LEMMA BlockType ==
  ASSUME NEW t \in Titles, NEW p \in Nat
  PROVE  BlockOf(t, p) \in Blocks
<1>1. IsHeading(t) \in BOOLEAN
  BY DEF IsHeading
<1> DEFINE h == IsHeading(t)
<1>2. h \in BOOLEAN /\ BlockOf(t, p) = [heading |-> h, text |-> t, page |-> p]
  BY <1>1 DEF BlockOf
<1> HIDE DEF h
<1> QED
  BY <1>2 DEF Blocks

LEMMA AddStays ==
  ASSUME NEW p \in Nat, NEW bs \in Seq(Blocks), NEW t \in Titles
  PROVE  AddOne(p, bs, t) \in Seq(Blocks)
BY BlockType DEF AddOne

LEMMA AddKeeps ==
  ASSUME NEW p \in Nat, NEW bs \in Seq(Blocks), NEW t \in Titles
  PROVE  /\ Ordered(bs, p) => Ordered(AddOne(p, bs, t), p)
         /\ \A l : BlocksShow(bs, l) \/ In(l, t) => BlocksShow(AddOne(p, bs, t), l)
<1>1. CASE bs # <<>> /\ bs[Len(bs)].text = t
  <2>1. AddOne(p, bs, t) = bs /\ Len(bs) \in DOMAIN bs
    BY <1>1 DEF AddOne
  <2> QED
    BY <1>1, <2>1 DEF BlocksShow
<1>2. CASE ~(bs # <<>> /\ bs[Len(bs)].text = t)
  <2> DEFINE x == BlockOf(t, p)
             s == Append(bs, x)
             n == Len(bs)
  <2>1. AddOne(p, bs, t) = s
    BY <1>2 DEF AddOne
  <2>2. x \in Blocks /\ x.text = t /\ x.page = p
    BY BlockType DEF BlockOf
  <2> HIDE DEF x
  <2>3. /\ n \in Nat /\ DOMAIN bs = 1..n /\ DOMAIN s = 1..(n + 1)
        /\ s[n + 1] = x /\ \A i \in 1..n : s[i] = bs[i]
    BY <2>2
  <2> HIDE DEF s, n
  <2>4. n + 1 \in DOMAIN s /\ \A i \in DOMAIN bs : i \in DOMAIN s /\ s[i] = bs[i]
    BY <2>3
  <2>5. \A l : BlocksShow(bs, l) \/ In(l, t) => BlocksShow(s, l)
    BY <2>2, <2>3, <2>4 DEF BlocksShow
  <2>6. ASSUME Ordered(bs, p) PROVE Ordered(s, p)
    <3>1. \A i \in DOMAIN s : i \in DOMAIN bs \/ i = n + 1
      BY <2>3
    <3>2. \A i \in DOMAIN s : s[i].page <= p
      BY <2>2, <2>3, <2>4, <2>6, <3>1 DEF Ordered
    <3>3. ASSUME NEW i \in DOMAIN s, NEW j \in DOMAIN s, i <= j PROVE s[i].page <= s[j].page
      <4>1. CASE j = n + 1
        <5>1. s[j].page = p
          BY <2>2, <2>3, <4>1
        <5> QED
          BY <3>2, <5>1
      <4>2. CASE j # n + 1
        <5>1. j \in DOMAIN bs /\ i \in DOMAIN bs
          BY <2>3, <3>3, <4>2
        <5> QED
          BY <2>4, <2>6, <3>3, <5>1 DEF Ordered
      <4> QED
        BY <4>1, <4>2
    <3> QED
      BY <3>2, <3>3 DEF Ordered
  <2> QED
    BY <2>1, <2>5, <2>6
<1> QED
  BY <1>1, <1>2

Adding(p) == [x \in Seq(Blocks) \X Titles |-> AddOne(p, x[1], x[2])]
BlocksOf(b0, p, s) == FoldOver(Adding(p), Seq(Blocks), b0, s)

LEMMA AddingFolds ==
  ASSUME NEW b0 \in Seq(Blocks), NEW p \in Nat
  PROVE  Folds(Adding(p), Seq(Blocks), Titles, b0)
<1>1. Adding(p) \in [Seq(Blocks) \X Titles -> Seq(Blocks)]
  BY AddStays DEF Adding
<1>2. b0 \in Seq(Blocks)
  OBVIOUS
<1> QED
  BY <1>1, <1>2 DEF Folds

LEMMA BlocksOfIs ==
  ASSUME NEW b0 \in Seq(Blocks), NEW p \in Nat
  PROVE  /\ BlocksOf(b0, p, <<>>) = b0
         /\ \A t \in Seq(Titles) : BlocksOf(b0, p, t) \in Seq(Blocks)
         /\ \A t \in Seq(Titles), x \in Titles : BlocksOf(b0, p, Append(t, x)) = AddOne(p, BlocksOf(b0, p, t), x)
<1>1. BlocksOf(b0, p, <<>>) = b0
  BY AddingFolds, FoldEmpty DEF BlocksOf
<1>2. \A t \in Seq(Titles) : BlocksOf(b0, p, t) \in Seq(Blocks)
  BY AddingFolds, FoldType DEF BlocksOf
<1>3. ASSUME NEW t \in Seq(Titles), NEW x \in Titles PROVE BlocksOf(b0, p, Append(t, x)) = AddOne(p, BlocksOf(b0, p, t), x)
  <2>1. BlocksOf(b0, p, Append(t, x)) = Adding(p)[<<BlocksOf(b0, p, t), x>>]
    BY AddingFolds, FoldAppend DEF BlocksOf
  <2>2. BlocksOf(b0, p, t) \in Seq(Blocks)
    BY <1>2
  <2>3. Adding(p)[<<BlocksOf(b0, p, t), x>>] = AddOne(p, BlocksOf(b0, p, t), x)
    BY <2>2 DEF Adding
  <2> QED
    BY <2>1, <2>3
<1> QED
  BY <1>1, <1>2, <1>3

LEMMA PageBlocksAre ==
  ASSUME NEW b0 \in Seq(Blocks), NEW p \in Nat, NEW t \in Seq(Titles)
  PROVE  PageBlocks(b0, t, p) = BlocksOf(b0, p, t)
<1> DEFINE n == Len(t)
           Filled(f) == [i \in 0..n |-> IF i = 0 THEN b0 ELSE AddOne(p, f[i - 1], t[i])]
           made == CHOOSE f : f = Filled(f)
<1>1. PageBlocks(b0, t, p) = made[n]
  BY DEF PageBlocks, AddOne, BlockOf
<1>2. n \in Nat /\ \A i \in 1..n : t[i] \in Titles
  OBVIOUS
<1>3. PICK f : FoldRow(f, Adding(p), Seq(Blocks), b0, t)
  BY <1>2, AddingFolds, FoldRowExists
<1>4. f \in [0..n -> Seq(Blocks)] /\ f[0] = b0 /\ \A i \in 1..n : f[i] = Adding(p)[<<f[i - 1], t[i]>>]
  BY <1>3 DEF FoldRow
<1>5. \A r \in Seq(Blocks), x \in Titles : Adding(p)[<<r, x>>] = AddOne(p, r, x)
  BY DEF Adding
<1> HIDE DEF n
<1>6. \A i \in 1..n : f[i] = AddOne(p, f[i - 1], t[i])
  <2> TAKE i \in 1..n
  <2>1. i - 1 \in 0..n
    BY <1>2
  <2>2. f[i - 1] \in Seq(Blocks) /\ t[i] \in Titles
    BY <1>2, <1>4, <2>1
  <2> QED
    BY <1>4, <1>5, <2>2
<1>7. f = Filled(f)
  <2>1. \A i \in 0..n : f[i] = IF i = 0 THEN b0 ELSE AddOne(p, f[i - 1], t[i])
    <3> TAKE i \in 0..n
    <3>1. CASE i = 0
      BY <1>4, <3>1
    <3>2. CASE i # 0
      <4>1. i \in 1..n
        BY <1>2, <3>2
      <4> QED
        BY <1>6, <3>2, <4>1
    <3> QED
      BY <3>1, <3>2
  <2>2. f = [i \in 0..n |-> f[i]]
    BY <1>4
  <2> QED
    BY <2>1, <2>2
<1> HIDE DEF Filled
<1>8. made = Filled(made)
  BY <1>7
<1> HIDE DEF made
<1>9. made = [i \in 0..n |-> IF i = 0 THEN b0 ELSE AddOne(p, made[i - 1], t[i])]
  BY <1>8 DEF Filled
<1>10. made = [i \in 0..n |-> made[i]]
  BY <1>9
<1>11. made[0] = b0
  BY <1>2, <1>9
<1>12. \A i \in 1..n : made[i] = AddOne(p, made[i - 1], t[i])
  <2> TAKE i \in 1..n
  <2>1. i \in 0..n /\ i # 0
    BY <1>2
  <2> QED
    BY <1>9, <2>1
<1>13. \A i \in 1..n : made[i - 1] \in Seq(Blocks) => made[i] = Adding(p)[<<made[i - 1], t[i]>>]
  BY <1>2, <1>5, <1>12
<1>14. RunsAs(made, Adding(p), Seq(Blocks), b0, t)
  BY <1>10, <1>11, <1>13 DEF RunsAs, n
<1>15. FoldOver(Adding(p), Seq(Blocks), b0, t) = made[Len(t)]
  BY <1>2, <1>14, AddingFolds, FoldIs
<1> QED
  BY <1>1, <1>15 DEF BlocksOf, n

(* The blocks of a page after those there are: in order, and with every line of the page. *)
LEMMA PageBlocksKeep ==
  ASSUME NEW b0 \in Seq(Blocks), NEW p \in Nat, Ordered(b0, p), NEW ts \in Seq(Titles)
  PROVE  /\ PageBlocks(b0, ts, p) \in Seq(Blocks) /\ Ordered(PageBlocks(b0, ts, p), p)
         /\ \A l : BlocksShow(b0, l) \/ Shows(ts, l) => BlocksShow(PageBlocks(b0, ts, p), l)
<1> DEFINE B(t) == BlocksOf(b0, p, t)
           Has(t) == /\ Ordered(B(t), p)
                     /\ \A l : BlocksShow(b0, l) \/ Shows(t, l) => BlocksShow(B(t), l)
           P == {t \in Seq(Titles) : Has(t)}
<1>1. <<>> \in P
  <2>1. B(<<>>) = b0
    BY BlocksOfIs
  <2>2. \A l : ~Shows(<<>>, l)
    BY DEF Shows
  <2>3. Has(<<>>)
    BY <2>1, <2>2
  <2>4. <<>> \in Seq(Titles)
    OBVIOUS
  <2> HIDE DEF Has
  <2> QED
    BY <2>3, <2>4
<1>2. ASSUME NEW t \in Seq(Titles), NEW x \in Titles, t \in P PROVE Append(t, x) \in P
  <2> DEFINE s == Append(t, x)
             b == B(t)
             c == B(s)
  <2>1. b \in Seq(Blocks) /\ c = AddOne(p, b, x)
    BY BlocksOfIs
  <2>2. Has(t)
    BY <1>2
  <2>3. Ordered(b, p) /\ \A l : BlocksShow(b0, l) \/ Shows(t, l) => BlocksShow(b, l)
    BY <2>2
  <2>4. /\ s \in Seq(Titles)
        /\ \A k \in DOMAIN s : s[k] = x \/ (k \in DOMAIN t /\ s[k] = t[k])
    OBVIOUS
  <2> HIDE DEF b, c, B
  <2>5. Ordered(c, p) /\ \A l : BlocksShow(b, l) \/ In(l, x) => BlocksShow(c, l)
    BY <2>1, <2>3, AddKeeps
  <2> HIDE DEF s
  <2>6. \A l : Shows(s, l) => Shows(t, l) \/ In(l, x)
    BY <2>4 DEF Shows
  <2>7. Ordered(c, p) /\ \A l : BlocksShow(b0, l) \/ Shows(s, l) => BlocksShow(c, l)
    BY <2>3, <2>5, <2>6
  <2>8. Has(s)
    BY <2>7 DEF c
  <2> HIDE DEF Has
  <2> QED
    BY <2>4, <2>8 DEF s
<1>3. Seq(Titles) \subseteq P
  <2> HIDE DEF P
  <2> QED
    BY <1>1, <1>2, SeqInduction
<1>4. Has(ts)
  BY <1>3
<1>5. PageBlocks(b0, ts, p) = B(ts) /\ B(ts) \in Seq(Blocks)
  BY PageBlocksAre, BlocksOfIs
<1> QED
  BY <1>4, <1>5

PageStep(ps, bs, i) == PageBlocks(bs, Paragraphs(Kept(ps[i], Running(ps))), i)

LEMMA PageStays ==
  ASSUME CleaningAssumption, NEW ps \in Seq(Page), NEW bs \in Seq(Blocks), NEW i \in 1..Len(ps), Ordered(bs, i)
  PROVE  /\ PageStep(ps, bs, i) \in Seq(Blocks) /\ Ordered(PageStep(ps, bs, i), i)
         /\ \A l : BlocksShow(bs, l) => BlocksShow(PageStep(ps, bs, i), l)
         /\ \A k \in 1..Len(ps[i]) :
              LET l == ps[i][k]
              IN  l # BlankLine /\ l \notin Running(ps) /\ l \notin PageNumbers => BlocksShow(PageStep(ps, bs, i), l)
<1> DEFINE u == ps[i]
           running == Running(ps)
           v == Kept(u, running)
           ts == Paragraphs(v)
<1>1. u \in Seq(AllLines) /\ i \in Nat
  BY DEF Page, AllLines
<1> HIDE DEF u, running
<1>2. /\ v \in Seq(AllLines)
      /\ \A k \in 1..Len(u) : u[k] \notin running /\ u[k] \notin PageNumbers => In(u[k], v)
  BY <1>1, KeptIs
<1> HIDE DEF v
<1>3. /\ ts \in Seq(Titles) /\ DOMAIN v = 1..Len(v)
      /\ \A k \in 1..Len(v) : v[k] # BlankLine => Shows(ts, v[k])
  BY <1>2, ParagraphsKeep
<1> HIDE DEF ts
<1> DEFINE b == PageBlocks(bs, ts, i)
<1>4. /\ b \in Seq(Blocks) /\ Ordered(b, i)
      /\ \A l : BlocksShow(bs, l) \/ Shows(ts, l) => BlocksShow(b, l)
  BY <1>1, <1>3, PageBlocksKeep
<1>5. PageStep(ps, bs, i) = b
  BY DEF PageStep, ts, v, u, running
<1> HIDE DEF b
<1>6. ASSUME NEW k \in 1..Len(u), u[k] # BlankLine, u[k] \notin running, u[k] \notin PageNumbers PROVE BlocksShow(b, u[k])
  <2>1. PICK n \in 1..Len(v) : v[n] = u[k]
    BY <1>2, <1>3, <1>6 DEF In
  <2>2. Shows(ts, u[k])
    BY <1>3, <1>6, <2>1
  <2> QED
    BY <1>4, <2>2
<1> QED
  BY <1>4, <1>5, <1>6 DEF u, running

\* The blocks of the first pages.
PagesRead(ps, bs, m) ==
  /\ bs \in Seq(Blocks) /\ Ordered(bs, m)
  /\ \A i \in 1..m : \A k \in 1..Len(ps[i]) :
       LET l == ps[i][k]
       IN  l # BlankLine /\ l \notin Running(ps) /\ l \notin PageNumbers => BlocksShow(bs, l)

LEMMA PagesReadOn ==
  ASSUME CleaningAssumption, NEW ps \in Seq(Page), NEW m \in Nat, m + 1 <= Len(ps), NEW bs, PagesRead(ps, bs, m)
  PROVE  PagesRead(ps, PageStep(ps, bs, m + 1), m + 1)
<1> DEFINE c == PageStep(ps, bs, m + 1)
<1>1. bs \in Seq(Blocks) /\ Ordered(bs, m) /\ m + 1 \in 1..Len(ps)
  BY DEF PagesRead
<1>2. Ordered(bs, m + 1)
  <2>1. \A i \in DOMAIN bs : bs[i] \in Blocks
    BY <1>1
  <2>2. \A i \in DOMAIN bs : bs[i].page \in Nat
    BY <2>1 DEF Blocks
  <2> QED
    BY <1>1, <2>2 DEF Ordered
<1>3. /\ c \in Seq(Blocks) /\ Ordered(c, m + 1)
      /\ \A l : BlocksShow(bs, l) => BlocksShow(c, l)
      /\ \A k \in 1..Len(ps[m + 1]) :
           LET l == ps[m + 1][k]
           IN  l # BlankLine /\ l \notin Running(ps) /\ l \notin PageNumbers => BlocksShow(c, l)
  BY <1>1, <1>2, PageStays
<1>4. \A i \in 1..(m + 1) : i \in 1..m \/ i = m + 1
  OBVIOUS
<1> HIDE DEF c
<1>5. ASSUME NEW i \in 1..(m + 1), NEW k \in 1..Len(ps[i]), ps[i][k] # BlankLine, ps[i][k] \notin Running(ps), ps[i][k] \notin PageNumbers
      PROVE  BlocksShow(c, ps[i][k])
  <2>1. CASE i = m + 1
    BY <1>3, <1>5, <2>1
  <2>2. CASE i \in 1..m
    <3>1. BlocksShow(bs, ps[i][k])
      BY <1>5, <2>2 DEF PagesRead
    <3> QED
      BY <1>3, <3>1
  <2> QED
    BY <1>4, <2>1, <2>2
<1> QED
  BY <1>3, <1>5 DEF PagesRead, c

LEMMA CleanedIs ==
  ASSUME CleaningAssumption, NEW ps \in Seq(Page)
  PROVE  PagesRead(ps, CleanDocument(ps), Len(ps))
<1> DEFINE n == Len(ps)
           S == Seq(Blocks)
           Body0(f) == [i \in 0..n |-> IF i = 0 THEN <<>> ELSE PageStep(ps, f[i - 1], i)]
           made == CHOOSE f : f = Body0(f)
           Read(m) == IF m = 0 THEN <<>> ELSE made[m]
           Step(bs, i) == IF Ordered(bs, i) THEN PageStep(ps, bs, i) ELSE bs
           G == [x \in S \X (1..n) |-> Step(x[1], x[2])]
<1>1. CleanDocument(ps) = made[n]
  BY DEF CleanDocument, PageStep
<1>2. n \in Nat /\ <<>> \in S
  OBVIOUS
<1>3. ASSUME NEW bs \in S, NEW i \in 1..n PROVE Step(bs, i) \in S
  BY PageStays
<1>4. G \in [S \X (1..n) -> S] /\ \A bs \in S, i \in 1..n : G[<<bs, i>>] = Step(bs, i)
  <2> HIDE DEF Step
  <2> QED
    BY <1>3, SMTT(60)
<1> DEFINE e == <<>>
<1>5. Makes(G, S, e, n)
  BY <1>2, <1>4 DEF Makes
<1> HIDE DEF G, e, n, S
<1>6. PICK f : Made(f, G, S, e, n)
  BY <1>5, Recursion
<1>7. f \in [0..n -> S] /\ f[0] = e /\ \A i \in 1..n : f[i] = G[<<f[i - 1], i>>]
  BY <1>6 DEF Made
<1>8. \A i \in 1..n : i - 1 \in 0..n /\ f[i - 1] \in S
  BY <1>2, <1>7
<1>9. \A i \in 1..n : f[i] = Step(f[i - 1], i)
  <2> HIDE DEF Step
  <2> QED
    BY <1>4, <1>7, <1>8
<1>10. ASSUME NEW m \in Nat PROVE m <= n => PagesRead(ps, f[m], m)
  <2> DEFINE Q == {k \in Nat : k <= n => PagesRead(ps, f[k], k)}
  <2>1. 0 \in Q
    <3>1. PagesRead(ps, <<>>, 0)
      BY DEF PagesRead, Ordered
    <3> QED
      BY <1>7, <3>1 DEF e
  <2>2. ASSUME NEW k \in Nat, k \in Q PROVE k + 1 \in Q
    <3> SUFFICES ASSUME k + 1 <= n PROVE PagesRead(ps, f[k + 1], k + 1)
      OBVIOUS
    <3>1. k <= n /\ k + 1 \in 1..n /\ (k + 1) - 1 = k
      BY <1>2
    <3>2. PagesRead(ps, f[k], k)
      BY <2>2, <3>1
    <3>3. Ordered(f[k], k + 1)
      <4>1. f[k] \in Seq(Blocks) /\ Ordered(f[k], k)
        BY <3>2 DEF PagesRead
      <4> DEFINE b == f[k]
      <4>2. \A i \in DOMAIN b : b[i] \in Blocks
        BY <4>1
      <4>3. \A i \in DOMAIN b : b[i].page \in Nat
        BY <4>2 DEF Blocks
      <4>4. b \in Seq(Blocks) /\ Ordered(b, k)
        BY <4>1
      <4> HIDE DEF b
      <4>5. Ordered(b, k + 1)
        BY <4>3, <4>4 DEF Ordered
      <4> QED
        BY <4>5 DEF b
    <3>4. f[k + 1] = PageStep(ps, f[k], k + 1)
      BY <1>9, <3>1, <3>3
    <3> QED
      BY <3>2, <3>4, PagesReadOn DEF n
  <2>3. Nat \subseteq Q
    <3> HIDE DEF Q
    <3> QED
      BY <2>1, <2>2, SetInduction
  <2> QED
    BY <2>3
<1>11. ASSUME NEW i \in 1..n PROVE f[i] = PageStep(ps, f[i - 1], i)
  <2>1. i - 1 \in Nat /\ i - 1 <= n
    BY <1>2
  <2>2. PagesRead(ps, f[i - 1], i - 1) /\ f[i - 1] \in S
    BY <1>8, <1>10, <2>1
  <2> DEFINE b == f[i - 1]
  <2>3. b \in Seq(Blocks) /\ Ordered(b, i - 1) /\ i \in Nat
    BY <2>2, <1>2 DEF PagesRead
  <2> HIDE DEF b
  <2>4. \A k \in DOMAIN b : b[k] \in Blocks
    BY <2>3
  <2>5. \A k \in DOMAIN b : b[k].page \in Nat
    BY <2>4 DEF Blocks
  <2>6. Ordered(b, i)
    BY <2>3, <2>5 DEF Ordered
  <2> QED
    BY <1>9, <2>6 DEF b
<1>12. f = Body0(f)
  <2>1. \A i \in 0..n : f[i] = IF i = 0 THEN <<>> ELSE PageStep(ps, f[i - 1], i)
    <3> TAKE i \in 0..n
    <3>1. CASE i = 0
      BY <1>7, <3>1 DEF e
    <3>2. CASE i # 0
      <4>1. i \in 1..n
        BY <1>2, <3>2
      <4> QED
        BY <1>11, <3>2, <4>1
    <3> QED
      BY <3>1, <3>2
  <2>2. f = [i \in 0..n |-> f[i]]
    BY <1>7
  <2> QED
    BY <2>1, <2>2
<1> HIDE DEF Body0
<1>13. made = Body0(made)
  BY <1>12
<1> HIDE DEF made
<1>14. made = [i \in 0..n |-> IF i = 0 THEN <<>> ELSE PageStep(ps, made[i - 1], i)]
  BY <1>13 DEF Body0
<1>15. made[0] = e
  BY <1>2, <1>14 DEF e
<1>16. \A i \in 1..n : made[i] = PageStep(ps, made[i - 1], i)
  <2> TAKE i \in 1..n
  <2>1. i \in 0..n /\ i # 0
    BY <1>2
  <2> QED
    BY <1>14, <2>1
<1>17. ASSUME NEW m \in Nat PROVE m <= n => made[m] = f[m]
  <2> DEFINE Q == {k \in Nat : k <= n => made[k] = f[k]}
  <2>1. 0 \in Q
    BY <1>7, <1>15
  <2>2. ASSUME NEW k \in Nat, k \in Q PROVE k + 1 \in Q
    <3> SUFFICES ASSUME k + 1 <= n PROVE made[k + 1] = f[k + 1]
      OBVIOUS
    <3>1. made[k] = f[k] /\ k + 1 \in 1..n /\ (k + 1) - 1 = k
      BY <1>2, <2>2
    <3>2. made[k + 1] = PageStep(ps, made[k], k + 1) /\ f[k + 1] = PageStep(ps, f[k], k + 1)
      BY <1>11, <1>16, <3>1
    <3> QED
      BY <3>1, <3>2
  <2>3. Nat \subseteq Q
    <3> HIDE DEF Q
    <3> QED
      BY <2>1, <2>2, SetInduction
  <2> QED
    BY <2>3
<1>18. PagesRead(ps, made[n], n)
  BY <1>2, <1>10, <1>17
<1> QED
  BY <1>1, <1>18 DEF n

(* What cleaning leaves in the state is what chunking needs, and keeps the lines. *)
LEMMA CleanedSound ==
  ASSUME CleaningAssumption, pages \in Seq(Page), blocks = CleanDocument(pages)
  PROVE  blocks \in Seq(Blocks) /\ PageOrder /\ LinesKept
<1>1. PagesRead(pages, blocks, Len(pages))
  BY CleanedIs
<1>2. blocks \in Seq(Blocks) /\ Ordered(blocks, Len(pages))
  BY <1>1 DEF PagesRead
<1>3. DOMAIN blocks = Places
  BY <1>2 DEF Places
<1>4. PageOrder
  BY <1>2, <1>3 DEF PageOrder, Ordered
<1>5. ASSUME NEW i \in DOMAIN pages, NEW k \in DOMAIN pages[i], pages[i][k] # BlankLine, pages[i][k] \notin PageNumbers,
             ~(Cardinality({p \in DOMAIN pages : pages[i][k] \in Edges(pages[p])}) >= RunningPages)
      PROVE  \E b \in DOMAIN blocks : \E n \in DOMAIN blocks[b].text : blocks[b].text[n] = pages[i][k]
  <2>1. pages[i][k] \notin Running(pages)
    BY <1>5 DEF Running, EdgeCount
  <2>2. i \in 1..Len(pages) /\ pages[i] \in Page
    OBVIOUS
  <2>3. k \in 1..Len(pages[i])
    BY <2>2 DEF Page
  <2>4. BlocksShow(blocks, pages[i][k])
    BY <1>1, <1>5, <2>1, <2>2, <2>3 DEF PagesRead
  <2> QED
    BY <2>4 DEF BlocksShow, In
<1>6. LinesKept
  BY <1>5 DEF LinesKept
<1> QED
  BY <1>2, <1>4, <1>6

-----------------------------------------------------------------------------
\* Ingest: the run

(* The blocks are those of the pages, and the chunks those of the blocks, once they are there. *)
Ready ==
  /\ pages \in Seq(Page)
  /\ stage = "chunk" => blocks = CleanDocument(pages)
  /\ \/ chunks = <<>> /\ stage \in {"parse", "clean", "chunk", "failed"}
     \/ /\ blocks = CleanDocument(pages) /\ chunks = ChunkDocument(blocks)
        /\ stage \in {"embed", "summarize", "save", "failed"}

LEMMA ReadyInit ==
  ASSUME IngestInit
  PROVE  Ready
<1>1. <<>> \in Seq(Page)
  OBVIOUS
<1> QED
  BY <1>1 DEF IngestInit, Ready

LEMMA ReadyStep ==
  ASSUME IngestAssumption, Ready, IngestNext
  PROVE  Ready'
<1>1. CASE Parse
  <2>1. stage = "parse" /\ chunks = <<>> /\ UNCHANGED <<blocks, chunks>>
    BY <1>1 DEF Parse, Ready
  <2>2. pages' \in Seq(Page)
    BY <1>1 DEF Parse, Ready, IngestAssumption
  <2>3. stage' \in {"failed", "clean"}
    BY <1>1 DEF Parse, EndRun
  <2> QED
    BY <2>1, <2>2, <2>3 DEF Ready
<1>2. CASE Clean
  <2>1. stage = "clean" /\ chunks = <<>> /\ blocks' = CleanDocument(pages) /\ UNCHANGED <<pages, chunks>>
    BY <1>2 DEF Clean, Ready
  <2>2. stage' \in {"failed", "chunk"}
    BY <1>2 DEF Clean, EndRun
  <2> QED
    BY <2>1, <2>2 DEF Ready
<1>3. CASE Chunk
  <2>1. stage = "chunk" /\ chunks' = ChunkDocument(blocks) /\ UNCHANGED <<pages, blocks>>
    BY <1>3 DEF Chunk
  <2>2. stage' \in {"failed", "embed"}
    BY <1>3 DEF Chunk, EndRun
  <2> QED
    BY <2>1, <2>2 DEF Ready
<1>4. ASSUME EmbedBatch \/ EmbedFails \/ Embedded \/ SummarizeGroup \/ SummarizeDocument PROVE Ready'
  <2>1. stage \in {"embed", "summarize"} /\ UNCHANGED <<pages, blocks, chunks>>
    BY <1>4 DEF EmbedBatch, EmbedFails, Embedded, SummarizeGroup, SummarizeDocument
  <2>2. stage' \in {"embed", "summarize", "save", "failed"}
    BY <1>4, <2>1 DEF EmbedBatch, EmbedFails, Embedded, SummarizeGroup, SummarizeDocument, EndRun
  <2> QED
    BY <2>1, <2>2 DEF Ready
<1> QED
  BY <1>1, <1>2, <1>3, <1>4 DEF IngestNext

LEMMA ReadyStutters ==
  ASSUME Ready, UNCHANGED ingestVars
  PROVE  Ready'
BY DEF Ready, ingestVars

LEMMA ReadySound ==
  ASSUME CleaningAssumption, ChunkingAssumption, Ready
  PROVE  ChunksSound /\ Stored
<1>1. LinesKept
  <2>1. CASE stage = "chunk"
    <3>1. blocks = CleanDocument(pages) /\ pages \in Seq(Page)
      BY <2>1 DEF Ready
    <3> QED
      BY <3>1, CleanedSound
  <2>2. CASE stage # "chunk"
    BY <2>2 DEF LinesKept
  <2> QED
    BY <2>1, <2>2
<1>2. CASE chunks = <<>> /\ stage \in {"parse", "clean", "chunk", "failed"}
  <2>1. ~Chunked
    BY <1>2 DEF Chunked
  <2>2. NothingLost /\ ChunksAreLocated /\ ChunksFit /\ OverlapIsTail
    BY <2>1 DEF NothingLost, ChunksAreLocated, ChunksFit, OverlapIsTail
  <2>3. Stored
    BY <1>2 DEF Stored
  <2> QED
    BY <1>1, <2>2, <2>3 DEF ChunksSound
<1>3. CASE blocks = CleanDocument(pages) /\ chunks = ChunkDocument(blocks)
  <2>1. blocks \in Seq(Blocks) /\ PageOrder
    BY <1>3, CleanedSound DEF Ready
  <2>2. NothingLost /\ ChunksAreLocated /\ ChunksFit /\ OverlapIsTail /\ Stored
    BY <1>3, <2>1, ChunksMade
  <2> QED
    BY <1>1, <2>2 DEF ChunksSound
<1> QED
  BY <1>2, <1>3 DEF Ready

(* The chunks of a document are its text in order, and their vectors and summaries are of them, *)
(* for every document, line size, script and limit (parse.ts, clean.ts, chunk.ts, embed.ts).    *)
THEOREM IngestAlwaysSound == IngestSpec => []IngestSound
<1> USE CleaningAssumption, ChunkingAssumption, IngestAssumption
<1>1. IngestSpec => []Ready
  <2>1. IngestInit => Ready
    BY ReadyInit
  <2>2. Ready /\ [IngestNext]_ingestVars => Ready'
    BY ReadyStep, ReadyStutters
  <2> QED
    BY <2>1, <2>2, PTL DEF IngestSpec
<1>2. Ready => ChunksSound /\ Stored
  BY ReadySound
<1>3. IngestInit => Staged
  BY StagedInit
<1>4. Stored /\ Stored' /\ Staged /\ [IngestNext]_ingestVars => Staged'
  BY StagedStep, StagedStutters
<1>5. Stored /\ Staged => StagesAlign
  BY StagedAligns
<1>6. ChunksSound /\ StagesAlign => IngestSound
  BY DEF IngestSound
<1> QED
  BY <1>1, <1>2, <1>3, <1>4, <1>5, <1>6, PTL DEF IngestSpec
=============================================================================
