------------------------- MODULE Conversation_proofs -------------------------
(***************************************************************************)
(* Proofs about Conversation, for every set of requests and handlers,      *)
(* every quota and every number of faults and reprocessings: type          *)
(* correctness, one generation per question that has not failed, answers   *)
(* that stand, citations that exist, and the bound on the quota.           *)
(*                                                                         *)
(* The inductive invariant says what the unique key and the order of the   *)
(* calls achieve: generations of a request are numbered and never share a  *)
(* number, a handler on its way to a retry has seen a failure, and while   *)
(* nothing failed a generation under way still finds its message pending.  *)
(***************************************************************************)
EXTENDS Conversation, TLAPS, FiniteSetTheorems

Working(h) == task[h].at \in Generating

(* Every question asked, and only those, has been generated; a second      *)
(* generation needs a failure.                                             *)
Counted ==
    /\ \A r \in Requests : msg[r] = "absent" <=> runs[r] = 0
    /\ \A r \in Requests : failures[r] = 0 => runs[r] <= 1 /\ msg[r] # "failed"
    /\ \A r \in Requests : failures[r] > 0 => runs[r] > 0
    /\ \A h \in Handlers : task[h].at = "reset" => failures[task[h].req] > 0

(* Generations under way have numbers given out, each its own.             *)
Numbered ==
    /\ \A h \in Handlers : Working(h) => task[h].run \in 1..runs[task[h].req]
    /\ \A g, h \in Handlers :
         Working(g) /\ Working(h) /\ task[g].req = task[h].req /\ task[g].run = task[h].run
         => g = h

(* While nothing failed, a generation that has not stored its answer finds *)
(* the message pending.                                                    *)
Undisturbed ==
    \A h \in Handlers :
        Working(h) /\ task[h].at # "mark" /\ failures[task[h].req] = 0
        => msg[task[h].req] = "pending"

Sound == Counted /\ Numbered /\ Undisturbed /\ CitationsLive

(* The initial state is well typed and sound. *)
LEMMA InitSound == Init => TypeOK /\ Sound
<1> SUFFICES ASSUME Init PROVE TypeOK /\ Sound
  OBVIOUS
<1> USE ConversationAssumption
<1>1. TypeOK
  <2>1. askable \in BOOLEAN /\ broken \in BOOLEAN
    BY DEF Init
  <2>2. task \in [Handlers -> Task]
    BY DEF Init, Task
  <2> QED
    BY <2>1, <2>2 DEF Init, TypeOK
<1>2. Sound
  BY DEF Init, Sound, Counted, Numbered, Undisturbed, CitationsLive, Working, Idle, Generating
<1> QED
  BY <1>1, <1>2


(* Every step keeps the types. *)
LEMMA NextTyped == TypeOK /\ [Next]_vars => TypeOK'
<1> SUFFICES ASSUME TypeOK, [Next]_vars PROVE TypeOK'
  OBVIOUS
<1> USE ConversationAssumption
<1>1. ASSUME NEW h \in Handlers, NEW r \in Requests, Submit(h, r) PROVE TypeOK'
  BY <1>1 DEF Submit, At, TypeOK, Task, Idle, Preparing, Generating, Citation, docVars, msgVars, faultVars
<1>2. ASSUME NEW h \in Handlers, Lookup(h) PROVE TypeOK'
  BY <1>2 DEF Lookup, At, Goto, Respond, TypeOK, Task, Idle, Preparing, Generating, Citation, docVars, msgVars, faultVars
<1>3. ASSUME NEW h \in Handlers, Reset(h) PROVE TypeOK'
  BY <1>3 DEF Reset, At, Pend, Generate, TypeOK, Task, Idle, Preparing, Generating, Citation, docVars, msgVars, faultVars
<1>4. ASSUME NEW h \in Handlers, CheckQuota(h) PROVE TypeOK'
  BY <1>4 DEF CheckQuota, At, Goto, Respond, TypeOK, Task, Idle, Preparing, Generating, Citation, docVars, msgVars, faultVars
<1>5. ASSUME NEW h \in Handlers, InsertPair(h) PROVE TypeOK'
  BY <1>5, SMTT(60) DEF InsertPair, At, Goto, Pend, Generate, Taken, TypeOK, Task, Idle, Preparing, Generating, Citation, docVars, msgVars, faultVars
<1>6. ASSUME NEW h \in Handlers, Retrieve(h) PROVE TypeOK'
  BY <1>6 DEF Retrieve, At, Goto, TypeOK, Task, Idle, Preparing, Generating, Citation, docVars, msgVars, faultVars
<1>7. ASSUME NEW h \in Handlers, Refuse(h) PROVE TypeOK'
  BY <1>7 DEF Refuse, At, Store, Respond, TypeOK, Task, Idle, Preparing, Generating, Citation, docVars, msgVars, faultVars
<1>8. ASSUME NEW h \in Handlers, Stream(h) PROVE TypeOK'
  BY <1>8 DEF Stream, At, Goto, TypeOK, Task, Idle, Preparing, Generating, Citation, docVars, msgVars, faultVars
<1>9. ASSUME NEW h \in Handlers, Complete(h) PROVE TypeOK'
  BY <1>9 DEF Complete, At, Store, Respond, Catch, Goto, Cited, ChunksExist, TypeOK, Task, Idle, Preparing, Generating, Citation, docVars, msgVars, faultVars
<1>10. ASSUME NEW h \in Handlers, MarkFailed(h) PROVE TypeOK'
  BY <1>10 DEF MarkFailed, At, Respond, TypeOK, Task, Idle, Preparing, Generating, Citation, docVars, msgVars, faultVars
<1>11. ASSUME NEW h \in Handlers, PrepareFails(h) PROVE TypeOK'
  BY <1>11 DEF PrepareFails, Fault, Failure, Pend, Respond, Taken, At, TypeOK, Task, Idle, Preparing, Generating, Citation, docVars, msgVars, faultVars
<1>12. ASSUME NEW h \in Handlers, GenerateFails(h) PROVE TypeOK'
  BY <1>12 DEF GenerateFails, Failure, Goto, TypeOK, Task, Idle, Preparing, Generating, Citation, docVars, msgVars, faultVars
<1>13. ASSUME NEW h \in Handlers, CompleteFails(h) PROVE TypeOK'
  BY <1>13 DEF CompleteFails, Fault, Failure, Store, Catch, Goto, Cited, ChunksExist, At, TypeOK, Task, Idle, Preparing, Generating, Citation, docVars, msgVars, faultVars
<1>14. ASSUME NEW h \in Handlers, MarkLost(h) PROVE TypeOK'
  BY <1>14 DEF MarkLost, At, Fault, Failure, Respond, TypeOK, Task, Idle, Preparing, Generating, Citation, docVars, msgVars, faultVars
<1>15. ASSUME NEW h \in Handlers, Crash(h) PROVE TypeOK'
  BY <1>15 DEF Crash, At, Fault, Failure, Respond, TypeOK, Task, Idle, Preparing, Generating, Citation, docVars, msgVars, faultVars
<1>16. ASSUME Reprocess PROVE TypeOK'
  BY <1>16 DEF Reprocess, TypeOK, Task, Idle, Preparing, Generating, Citation, docVars, msgVars, faultVars
<1>17. ASSUME ReplaceChunks PROVE TypeOK'
  BY <1>17 DEF ReplaceChunks, Cascade, TypeOK, Task, Idle, Preparing, Generating, Citation, docVars, msgVars, faultVars
<1>18. CASE UNCHANGED vars
  BY <1>18 DEF vars, faultVars, TypeOK, Task, Idle, Preparing, Generating, Citation, docVars, msgVars
<1> QED
  BY <1>1, <1>2, <1>3, <1>4, <1>5, <1>6, <1>7, <1>8, <1>9, <1>10, <1>11, <1>12, <1>13, <1>14, <1>15, <1>16, <1>17, <1>18 DEF Next, Step, StepFault

(* Every step keeps the counts right. *)
LEMMA NextCounted == TypeOK /\ Counted /\ Numbered /\ [Next]_vars => Counted'
<1> SUFFICES ASSUME TypeOK, Counted, Numbered, [Next]_vars PROVE Counted'
  OBVIOUS
<1> USE ConversationAssumption
<1>1. ASSUME NEW h \in Handlers, NEW r \in Requests, Submit(h, r) PROVE Counted'
  BY <1>1 DEF Submit, At, TypeOK, Task, Idle, Preparing, Generating, Citation, docVars, msgVars, faultVars, Counted, Numbered, Working, Retryable
<1>2. ASSUME NEW h \in Handlers, Lookup(h) PROVE Counted'
  BY <1>2 DEF Lookup, At, Goto, Respond, TypeOK, Task, Idle, Preparing, Generating, Citation, docVars, msgVars, faultVars, Counted, Numbered, Working, Retryable
<1>3. ASSUME NEW h \in Handlers, Reset(h) PROVE Counted'
  BY <1>3 DEF Reset, At, Pend, Generate, TypeOK, Task, Idle, Preparing, Generating, Citation, docVars, msgVars, faultVars, Counted, Numbered, Working, Retryable
<1>4. ASSUME NEW h \in Handlers, CheckQuota(h) PROVE Counted'
  BY <1>4 DEF CheckQuota, At, Goto, Respond, TypeOK, Task, Idle, Preparing, Generating, Citation, docVars, msgVars, faultVars, Counted, Numbered, Working, Retryable
<1>5. ASSUME NEW h \in Handlers, InsertPair(h) PROVE Counted'
  <2>1. CASE Taken(task[h].req)
    BY <1>5, <2>1 DEF InsertPair, At, Goto, Pend, Generate, TypeOK, Task, Idle, Preparing, Generating, Citation, docVars, msgVars, faultVars, Counted
  <2>2. CASE ~Taken(task[h].req)
    <3>1. task[h].req \in Requests /\ msg[task[h].req] = "absent" /\ runs[task[h].req] = 0
      BY <1>5, <2>2 DEF Taken, InsertPair, At, Goto, Pend, Generate, TypeOK, Task, Idle, Preparing, Generating, Citation, docVars, msgVars, faultVars, Counted
    <3>2. \A g \in Handlers : task'[g].at = "reset" => g # h /\ task'[g] = task[g]
      BY <1>5, <2>2 DEF InsertPair, At, Goto, Pend, Generate, TypeOK, Task, Idle, Preparing, Generating, Citation, docVars, msgVars, faultVars
    <3> QED
      BY <1>5, <2>2, <3>1, <3>2 DEF InsertPair, Pend, TypeOK, Counted
  <2> QED
    BY <2>1, <2>2
<1>6. ASSUME NEW h \in Handlers, Retrieve(h) PROVE Counted'
  BY <1>6 DEF Retrieve, At, Goto, TypeOK, Task, Idle, Preparing, Generating, Citation, docVars, msgVars, faultVars, Counted, Numbered, Working, Retryable
<1>7. ASSUME NEW h \in Handlers, Refuse(h) PROVE Counted'
  BY <1>7 DEF Refuse, At, Store, Respond, TypeOK, Task, Idle, Preparing, Generating, Citation, docVars, msgVars, faultVars, Counted, Numbered, Working, Retryable
<1>8. ASSUME NEW h \in Handlers, Stream(h) PROVE Counted'
  BY <1>8 DEF Stream, At, Goto, TypeOK, Task, Idle, Preparing, Generating, Citation, docVars, msgVars, faultVars, Counted, Numbered, Working, Retryable
<1>9. ASSUME NEW h \in Handlers, Complete(h) PROVE Counted'
  BY <1>9 DEF Complete, At, Store, Respond, Catch, Goto, Cited, ChunksExist, TypeOK, Task, Idle, Preparing, Generating, Citation, docVars, msgVars, faultVars, Counted, Numbered, Working, Retryable
<1>10. ASSUME NEW h \in Handlers, MarkFailed(h) PROVE Counted'
  BY <1>10 DEF MarkFailed, At, Respond, TypeOK, Task, Idle, Preparing, Generating, Citation, docVars, msgVars, faultVars, Counted, Numbered, Working, Retryable
<1>11. ASSUME NEW h \in Handlers, PrepareFails(h) PROVE Counted'
  BY <1>11 DEF PrepareFails, Fault, Failure, Pend, Respond, Taken, At, TypeOK, Task, Idle, Preparing, Generating, Citation, docVars, msgVars, faultVars, Counted, Numbered, Working, Retryable
<1>12. ASSUME NEW h \in Handlers, GenerateFails(h) PROVE Counted'
  BY <1>12 DEF GenerateFails, Failure, Goto, TypeOK, Task, Idle, Preparing, Generating, Citation, docVars, msgVars, faultVars, Counted, Numbered, Working, Retryable
<1>13. ASSUME NEW h \in Handlers, CompleteFails(h) PROVE Counted'
  BY <1>13 DEF CompleteFails, Fault, Failure, Store, Catch, Goto, Cited, ChunksExist, At, TypeOK, Task, Idle, Preparing, Generating, Citation, docVars, msgVars, faultVars, Counted, Numbered, Working, Retryable
<1>14. ASSUME NEW h \in Handlers, MarkLost(h) PROVE Counted'
  BY <1>14 DEF MarkLost, At, Fault, Failure, Respond, TypeOK, Task, Idle, Preparing, Generating, Citation, docVars, msgVars, faultVars, Counted, Numbered, Working, Retryable
<1>15. ASSUME NEW h \in Handlers, Crash(h) PROVE Counted'
  BY <1>15 DEF Crash, At, Fault, Failure, Respond, TypeOK, Task, Idle, Preparing, Generating, Citation, docVars, msgVars, faultVars, Counted, Numbered, Working, Retryable
<1>16. ASSUME Reprocess PROVE Counted'
  BY <1>16 DEF Reprocess, TypeOK, Task, Idle, Preparing, Generating, Citation, docVars, msgVars, faultVars, Counted, Numbered, Working, Retryable
<1>17. ASSUME ReplaceChunks PROVE Counted'
  BY <1>17 DEF ReplaceChunks, Cascade, TypeOK, Task, Idle, Preparing, Generating, Citation, docVars, msgVars, faultVars, Counted, Numbered, Working, Retryable
<1>18. CASE UNCHANGED vars
  BY <1>18 DEF vars, faultVars, TypeOK, Task, Idle, Preparing, Generating, Citation, docVars, msgVars, Counted, Numbered, Working, Retryable
<1> QED
  BY <1>1, <1>2, <1>3, <1>4, <1>5, <1>6, <1>7, <1>8, <1>9, <1>10, <1>11, <1>12, <1>13, <1>14, <1>15, <1>16, <1>17, <1>18 DEF Next, Step, StepFault

(* Every step keeps the generations apart. *)
LEMMA NextNumbered == TypeOK /\ Numbered /\ [Next]_vars => Numbered'
<1> SUFFICES ASSUME TypeOK, Numbered, [Next]_vars PROVE Numbered'
  OBVIOUS
<1> USE ConversationAssumption
<1>1. ASSUME NEW h \in Handlers, NEW r \in Requests, Submit(h, r) PROVE Numbered'
  BY <1>1 DEF Submit, At, TypeOK, Task, Idle, Preparing, Generating, Citation, docVars, msgVars, faultVars, Numbered, Working
<1>2. ASSUME NEW h \in Handlers, Lookup(h) PROVE Numbered'
  BY <1>2 DEF Lookup, At, Goto, Respond, TypeOK, Task, Idle, Preparing, Generating, Citation, docVars, msgVars, faultVars, Numbered, Working
<1>3. ASSUME NEW h \in Handlers, Reset(h) PROVE Numbered'
  BY <1>3 DEF Reset, At, Pend, Generate, TypeOK, Task, Idle, Preparing, Generating, Citation, docVars, msgVars, faultVars, Numbered, Working
<1>4. ASSUME NEW h \in Handlers, CheckQuota(h) PROVE Numbered'
  BY <1>4, SMTT(60) DEF CheckQuota, At, Goto, Respond, TypeOK, Task, Idle, Preparing, Generating, Citation, docVars, msgVars, faultVars, Numbered, Working
<1>5. ASSUME NEW h \in Handlers, InsertPair(h) PROVE Numbered'
  BY <1>5, SMTT(60) DEF InsertPair, At, Goto, Pend, Generate, Taken, TypeOK, Task, Idle, Preparing, Generating, Citation, docVars, msgVars, faultVars, Numbered, Working
<1>6. ASSUME NEW h \in Handlers, Retrieve(h) PROVE Numbered'
  BY <1>6 DEF Retrieve, At, Goto, TypeOK, Task, Idle, Preparing, Generating, Citation, docVars, msgVars, faultVars, Numbered, Working
<1>7. ASSUME NEW h \in Handlers, Refuse(h) PROVE Numbered'
  BY <1>7 DEF Refuse, At, Store, Respond, TypeOK, Task, Idle, Preparing, Generating, Citation, docVars, msgVars, faultVars, Numbered, Working
<1>8. ASSUME NEW h \in Handlers, Stream(h) PROVE Numbered'
  BY <1>8 DEF Stream, At, Goto, TypeOK, Task, Idle, Preparing, Generating, Citation, docVars, msgVars, faultVars, Numbered, Working
<1>9. ASSUME NEW h \in Handlers, Complete(h) PROVE Numbered'
  BY <1>9 DEF Complete, At, Store, Respond, Catch, Goto, Cited, ChunksExist, TypeOK, Task, Idle, Preparing, Generating, Citation, docVars, msgVars, faultVars, Numbered, Working
<1>10. ASSUME NEW h \in Handlers, MarkFailed(h) PROVE Numbered'
  BY <1>10 DEF MarkFailed, At, Respond, TypeOK, Task, Idle, Preparing, Generating, Citation, docVars, msgVars, faultVars, Numbered, Working
<1>11. ASSUME NEW h \in Handlers, PrepareFails(h) PROVE Numbered'
  BY <1>11 DEF PrepareFails, Fault, Failure, Pend, Respond, Taken, At, TypeOK, Task, Idle, Preparing, Generating, Citation, docVars, msgVars, faultVars, Numbered, Working
<1>12. ASSUME NEW h \in Handlers, GenerateFails(h) PROVE Numbered'
  BY <1>12 DEF GenerateFails, Failure, Goto, TypeOK, Task, Idle, Preparing, Generating, Citation, docVars, msgVars, faultVars, Numbered, Working
<1>13. ASSUME NEW h \in Handlers, CompleteFails(h) PROVE Numbered'
  BY <1>13 DEF CompleteFails, Fault, Failure, Store, Catch, Goto, Cited, ChunksExist, At, TypeOK, Task, Idle, Preparing, Generating, Citation, docVars, msgVars, faultVars, Numbered, Working
<1>14. ASSUME NEW h \in Handlers, MarkLost(h) PROVE Numbered'
  BY <1>14 DEF MarkLost, At, Fault, Failure, Respond, TypeOK, Task, Idle, Preparing, Generating, Citation, docVars, msgVars, faultVars, Numbered, Working
<1>15. ASSUME NEW h \in Handlers, Crash(h) PROVE Numbered'
  BY <1>15 DEF Crash, At, Fault, Failure, Respond, TypeOK, Task, Idle, Preparing, Generating, Citation, docVars, msgVars, faultVars, Numbered, Working
<1>16. ASSUME Reprocess PROVE Numbered'
  BY <1>16 DEF Reprocess, TypeOK, Task, Idle, Preparing, Generating, Citation, docVars, msgVars, faultVars, Numbered, Working
<1>17. ASSUME ReplaceChunks PROVE Numbered'
  BY <1>17 DEF ReplaceChunks, Cascade, TypeOK, Task, Idle, Preparing, Generating, Citation, docVars, msgVars, faultVars, Numbered, Working
<1>18. CASE UNCHANGED vars
  BY <1>18 DEF vars, faultVars, TypeOK, Task, Idle, Preparing, Generating, Citation, docVars, msgVars, Numbered, Working
<1> QED
  BY <1>1, <1>2, <1>3, <1>4, <1>5, <1>6, <1>7, <1>8, <1>9, <1>10, <1>11, <1>12, <1>13, <1>14, <1>15, <1>16, <1>17, <1>18 DEF Next, Step, StepFault

(* While a request has not failed, one handler generates its answer. *)
LEMMA OnlyOne ==
  ASSUME TypeOK, Counted, Numbered, NEW g \in Handlers, NEW h \in Handlers,
         Working(g), Working(h), task[g].req = task[h].req,
         task[h].req \in Requests, failures[task[h].req] = 0
  PROVE  g = h
<1>1. runs[task[h].req] \in Nat /\ runs[task[h].req] <= 1
  BY DEF TypeOK, Counted
<1>2. task[g].run \in 1..runs[task[h].req] /\ task[h].run \in 1..runs[task[h].req]
  BY DEF Numbered
<1>3. task[g].run = task[h].run
  BY <1>1, <1>2
<1> QED
  BY <1>3 DEF Numbered

(* While nothing failed no step disturbs a generation of another handler. *)
LEMMA NextUndisturbed == TypeOK /\ Counted /\ Numbered /\ Undisturbed /\ [Next]_vars => Undisturbed'
<1> SUFFICES ASSUME TypeOK, Counted, Numbered, Undisturbed, [Next]_vars PROVE Undisturbed'
  OBVIOUS
<1> USE ConversationAssumption
<1>1. ASSUME NEW h \in Handlers, NEW r \in Requests, Submit(h, r) PROVE Undisturbed'
  BY <1>1 DEF Submit, At, TypeOK, Task, Idle, Preparing, Generating, Citation, docVars, msgVars, faultVars, Counted, Numbered, Undisturbed, Working
<1>2. ASSUME NEW h \in Handlers, Lookup(h) PROVE Undisturbed'
  BY <1>2 DEF Lookup, At, Goto, Respond, TypeOK, Task, Idle, Preparing, Generating, Citation, docVars, msgVars, faultVars, Counted, Numbered, Undisturbed, Working
<1>3. ASSUME NEW h \in Handlers, Reset(h) PROVE Undisturbed'
  BY <1>3 DEF Reset, At, Pend, Generate, TypeOK, Task, Idle, Preparing, Generating, Citation, docVars, msgVars, faultVars, Counted, Numbered, Undisturbed, Working
<1>4. ASSUME NEW h \in Handlers, CheckQuota(h) PROVE Undisturbed'
  BY <1>4 DEF CheckQuota, At, Goto, Respond, TypeOK, Task, Idle, Preparing, Generating, Citation, docVars, msgVars, faultVars, Counted, Numbered, Undisturbed, Working
<1>5. ASSUME NEW h \in Handlers, InsertPair(h) PROVE Undisturbed'
  BY <1>5 DEF InsertPair, At, Goto, Pend, Generate, Taken, TypeOK, Task, Idle, Preparing, Generating, Citation, docVars, msgVars, faultVars, Counted, Numbered, Undisturbed, Working
<1>6. ASSUME NEW h \in Handlers, Retrieve(h) PROVE Undisturbed'
  BY <1>6 DEF Retrieve, At, Goto, TypeOK, Task, Idle, Preparing, Generating, Citation, docVars, msgVars, faultVars, Counted, Numbered, Undisturbed, Working
<1>7. ASSUME NEW h \in Handlers, Refuse(h) PROVE Undisturbed'
  <2>1. Working(h) /\ task[h].req \in Requests
    BY <1>7 DEF Refuse, Working, Generating, At, TypeOK, Task, Idle, Preparing
  <2>2. \A g \in Handlers : Working(g) /\ task[g].req = task[h].req /\ failures[task[h].req] = 0 => g = h
    BY <2>1, OnlyOne
  <2> QED
    BY <1>7, <2>1, <2>2 DEF Refuse, At, Store, Respond, TypeOK, Task, Idle, Preparing, Generating, Citation, docVars, msgVars, faultVars, Undisturbed, Working
<1>8. ASSUME NEW h \in Handlers, Stream(h) PROVE Undisturbed'
  BY <1>8 DEF Stream, At, Goto, TypeOK, Task, Idle, Preparing, Generating, Citation, docVars, msgVars, faultVars, Counted, Numbered, Undisturbed, Working
<1>9. ASSUME NEW h \in Handlers, Complete(h) PROVE Undisturbed'
  <2>1. Working(h) /\ task[h].req \in Requests
    BY <1>9 DEF Complete, Working, Generating, At, TypeOK, Task, Idle, Preparing
  <2>2. \A g \in Handlers : Working(g) /\ task[g].req = task[h].req /\ failures[task[h].req] = 0 => g = h
    BY <2>1, OnlyOne
  <2> QED
    BY <1>9, <2>1, <2>2 DEF Complete, At, Store, Respond, Catch, Goto, Cited, ChunksExist, TypeOK, Task, Idle, Preparing, Generating, Citation, docVars, msgVars, faultVars, Undisturbed, Working
<1>10. ASSUME NEW h \in Handlers, MarkFailed(h) PROVE Undisturbed'
  BY <1>10 DEF MarkFailed, At, Respond, TypeOK, Task, Idle, Preparing, Generating, Citation, docVars, msgVars, faultVars, Counted, Numbered, Undisturbed, Working
<1>11. ASSUME NEW h \in Handlers, PrepareFails(h) PROVE Undisturbed'
  BY <1>11 DEF PrepareFails, Fault, Failure, Pend, Respond, Taken, At, TypeOK, Task, Idle, Preparing, Generating, Citation, docVars, msgVars, faultVars, Counted, Numbered, Undisturbed, Working
<1>12. ASSUME NEW h \in Handlers, GenerateFails(h) PROVE Undisturbed'
  BY <1>12 DEF GenerateFails, Failure, Goto, TypeOK, Task, Idle, Preparing, Generating, Citation, docVars, msgVars, faultVars, Counted, Numbered, Undisturbed, Working
<1>13. ASSUME NEW h \in Handlers, CompleteFails(h) PROVE Undisturbed'
  <2>1. Working(h) /\ task[h].req \in Requests
    BY <1>13 DEF CompleteFails, Working, Generating, At, TypeOK, Task, Idle, Preparing
  <2>2. \A g \in Handlers : Working(g) /\ task[g].req = task[h].req /\ failures[task[h].req] = 0 => g = h
    BY <2>1, OnlyOne
  <2> QED
    BY <1>13, <2>1, <2>2 DEF CompleteFails, Fault, Failure, Store, Catch, Goto, Cited, ChunksExist, At, TypeOK, Task, Idle, Preparing, Generating, Citation, docVars, msgVars, faultVars, Undisturbed, Working
<1>14. ASSUME NEW h \in Handlers, MarkLost(h) PROVE Undisturbed'
  BY <1>14 DEF MarkLost, At, Fault, Failure, Respond, TypeOK, Task, Idle, Preparing, Generating, Citation, docVars, msgVars, faultVars, Counted, Numbered, Undisturbed, Working
<1>15. ASSUME NEW h \in Handlers, Crash(h) PROVE Undisturbed'
  BY <1>15 DEF Crash, At, Fault, Failure, Respond, TypeOK, Task, Idle, Preparing, Generating, Citation, docVars, msgVars, faultVars, Counted, Numbered, Undisturbed, Working
<1>16. ASSUME Reprocess PROVE Undisturbed'
  BY <1>16 DEF Reprocess, TypeOK, Task, Idle, Preparing, Generating, Citation, docVars, msgVars, faultVars, Counted, Numbered, Undisturbed, Working
<1>17. ASSUME ReplaceChunks PROVE Undisturbed'
  BY <1>17 DEF ReplaceChunks, Cascade, TypeOK, Task, Idle, Preparing, Generating, Citation, docVars, msgVars, faultVars, Counted, Numbered, Undisturbed, Working
<1>18. CASE UNCHANGED vars
  BY <1>18 DEF vars, faultVars, TypeOK, Task, Idle, Preparing, Generating, Citation, docVars, msgVars, Counted, Numbered, Undisturbed, Working
<1> QED
  BY <1>1, <1>2, <1>3, <1>4, <1>5, <1>6, <1>7, <1>8, <1>9, <1>10, <1>11, <1>12, <1>13, <1>14, <1>15, <1>16, <1>17, <1>18 DEF Next, Step, StepFault

(* Citations are stored with chunks that exist and deleted with them. *)
LEMMA NextCitationsLive == TypeOK /\ CitationsLive /\ [Next]_vars => CitationsLive'
<1> SUFFICES ASSUME TypeOK, CitationsLive, [Next]_vars PROVE CitationsLive'
  OBVIOUS
<1> USE ConversationAssumption
<1>1. ASSUME NEW h \in Handlers, NEW r \in Requests, Submit(h, r) PROVE CitationsLive'
  BY <1>1 DEF Submit, At, TypeOK, Task, Idle, Preparing, Generating, Citation, docVars, msgVars, faultVars, CitationsLive
<1>2. ASSUME NEW h \in Handlers, Lookup(h) PROVE CitationsLive'
  BY <1>2 DEF Lookup, At, Goto, Respond, TypeOK, Task, Idle, Preparing, Generating, Citation, docVars, msgVars, faultVars, CitationsLive
<1>3. ASSUME NEW h \in Handlers, Reset(h) PROVE CitationsLive'
  BY <1>3 DEF Reset, At, Pend, Generate, TypeOK, Task, Idle, Preparing, Generating, Citation, docVars, msgVars, faultVars, CitationsLive
<1>4. ASSUME NEW h \in Handlers, CheckQuota(h) PROVE CitationsLive'
  BY <1>4 DEF CheckQuota, At, Goto, Respond, TypeOK, Task, Idle, Preparing, Generating, Citation, docVars, msgVars, faultVars, CitationsLive
<1>5. ASSUME NEW h \in Handlers, InsertPair(h) PROVE CitationsLive'
  BY <1>5 DEF InsertPair, At, Goto, Pend, Generate, Taken, TypeOK, Task, Idle, Preparing, Generating, Citation, docVars, msgVars, faultVars, CitationsLive
<1>6. ASSUME NEW h \in Handlers, Retrieve(h) PROVE CitationsLive'
  BY <1>6 DEF Retrieve, At, Goto, TypeOK, Task, Idle, Preparing, Generating, Citation, docVars, msgVars, faultVars, CitationsLive
<1>7. ASSUME NEW h \in Handlers, Refuse(h) PROVE CitationsLive'
  BY <1>7 DEF Refuse, At, Store, Respond, TypeOK, Task, Idle, Preparing, Generating, Citation, docVars, msgVars, faultVars, CitationsLive
<1>8. ASSUME NEW h \in Handlers, Stream(h) PROVE CitationsLive'
  BY <1>8 DEF Stream, At, Goto, TypeOK, Task, Idle, Preparing, Generating, Citation, docVars, msgVars, faultVars, CitationsLive
<1>9. ASSUME NEW h \in Handlers, Complete(h) PROVE CitationsLive'
  BY <1>9 DEF Complete, At, Store, Respond, Catch, Goto, Cited, ChunksExist, TypeOK, Task, Idle, Preparing, Generating, Citation, docVars, msgVars, faultVars, CitationsLive
<1>10. ASSUME NEW h \in Handlers, MarkFailed(h) PROVE CitationsLive'
  BY <1>10 DEF MarkFailed, At, Respond, TypeOK, Task, Idle, Preparing, Generating, Citation, docVars, msgVars, faultVars, CitationsLive
<1>11. ASSUME NEW h \in Handlers, PrepareFails(h) PROVE CitationsLive'
  BY <1>11 DEF PrepareFails, Fault, Failure, Pend, Respond, Taken, At, TypeOK, Task, Idle, Preparing, Generating, Citation, docVars, msgVars, faultVars, CitationsLive
<1>12. ASSUME NEW h \in Handlers, GenerateFails(h) PROVE CitationsLive'
  BY <1>12 DEF GenerateFails, Failure, Goto, TypeOK, Task, Idle, Preparing, Generating, Citation, docVars, msgVars, faultVars, CitationsLive
<1>13. ASSUME NEW h \in Handlers, CompleteFails(h) PROVE CitationsLive'
  BY <1>13 DEF CompleteFails, Fault, Failure, Store, Catch, Goto, Cited, ChunksExist, At, TypeOK, Task, Idle, Preparing, Generating, Citation, docVars, msgVars, faultVars, CitationsLive
<1>14. ASSUME NEW h \in Handlers, MarkLost(h) PROVE CitationsLive'
  BY <1>14 DEF MarkLost, At, Fault, Failure, Respond, TypeOK, Task, Idle, Preparing, Generating, Citation, docVars, msgVars, faultVars, CitationsLive
<1>15. ASSUME NEW h \in Handlers, Crash(h) PROVE CitationsLive'
  BY <1>15 DEF Crash, At, Fault, Failure, Respond, TypeOK, Task, Idle, Preparing, Generating, Citation, docVars, msgVars, faultVars, CitationsLive
<1>16. ASSUME Reprocess PROVE CitationsLive'
  BY <1>16 DEF Reprocess, TypeOK, Task, Idle, Preparing, Generating, Citation, docVars, msgVars, faultVars, CitationsLive
<1>17. ASSUME ReplaceChunks PROVE CitationsLive'
  BY <1>17 DEF ReplaceChunks, Cascade, TypeOK, Task, Idle, Preparing, Generating, Citation, docVars, msgVars, faultVars, CitationsLive
<1>18. CASE UNCHANGED vars
  BY <1>18 DEF vars, faultVars, TypeOK, Task, Idle, Preparing, Generating, Citation, docVars, msgVars, CitationsLive
<1> QED
  BY <1>1, <1>2, <1>3, <1>4, <1>5, <1>6, <1>7, <1>8, <1>9, <1>10, <1>11, <1>12, <1>13, <1>14, <1>15, <1>16, <1>17, <1>18 DEF Next, Step, StepFault

(* The whole inductive invariant. *)
LEMMA SpecSound == Spec => [](TypeOK /\ Sound)
<1>1. TypeOK /\ Sound /\ [Next]_vars => (TypeOK /\ Sound)'
  BY NextTyped, NextCounted, NextNumbered, NextUndisturbed, NextCitationsLive DEF Sound
<1> QED
  BY InitSound, <1>1, PTL DEF Spec

(* Every variable keeps its type.                                           *)
THEOREM TypeCorrect == Spec => []TypeOK
BY SpecSound, PTL

(* Simultaneous submissions of one question start one generation, as long   *)
(* as none of it failed (unique key, 409, insertQuestionPair).              *)
THEOREM GeneratedOnlyOnce == Spec => []GeneratedOnce
<1>1. Sound => GeneratedOnce
  BY DEF Sound, Counted, GeneratedOnce
<1> QED
  BY <1>1, SpecSound, PTL

(* Citations of stored answers exist, whenever chunks are replaced.         *)
THEOREM CitationsAlwaysLive == Spec => []CitationsLive
<1>1. Sound => CitationsLive
  BY DEF Sound
<1> QED
  BY <1>1, SpecSound, PTL

(* An answer whose request never failed is never taken back or added to.    *)
THEOREM AnswersStand == Spec => AnswerStands
<1>1. TypeOK /\ Sound /\ [Next]_vars =>
       \A r \in Requests :
         msg[r] = "completed" /\ failures'[r] = 0 =>
             /\ msg'[r] = "completed"
             /\ answer'[r] = answer[r]
             /\ cites'[r] \subseteq cites[r]
  <2> DEFINE P(q) == msg[q] = "completed" /\ failures'[q] = 0 =>
                       /\ msg'[q] = "completed"
                       /\ answer'[q] = answer[q]
                       /\ cites'[q] \subseteq cites[q]
  <2> SUFFICES ASSUME TypeOK, Sound, [Next]_vars, NEW q \in Requests PROVE P(q)
    OBVIOUS
  <2> USE ConversationAssumption

  <2>1. ASSUME NEW h \in Handlers, NEW r \in Requests, Submit(h, r) PROVE P(q)
      BY <2>1 DEF Submit, At, TypeOK, Task, Idle, Preparing, Generating, Citation, docVars, msgVars, faultVars, Sound, Counted, Undisturbed, Working
  <2>2. ASSUME NEW h \in Handlers, Lookup(h) PROVE P(q)
      BY <2>2 DEF Lookup, At, Goto, Respond, TypeOK, Task, Idle, Preparing, Generating, Citation, docVars, msgVars, faultVars, Sound, Counted, Undisturbed, Working
  <2>3. ASSUME NEW h \in Handlers, Reset(h) PROVE P(q)
      BY <2>3 DEF Reset, At, Pend, Generate, TypeOK, Task, Idle, Preparing, Generating, Citation, docVars, msgVars, faultVars, Sound, Counted, Undisturbed, Working
  <2>4. ASSUME NEW h \in Handlers, CheckQuota(h) PROVE P(q)
      BY <2>4 DEF CheckQuota, At, Goto, Respond, TypeOK, Task, Idle, Preparing, Generating, Citation, docVars, msgVars, faultVars, Sound, Counted, Undisturbed, Working
  <2>5. ASSUME NEW h \in Handlers, InsertPair(h) PROVE P(q)
      BY <2>5 DEF InsertPair, At, Goto, Pend, Generate, Taken, TypeOK, Task, Idle, Preparing, Generating, Citation, docVars, msgVars, faultVars, Sound, Counted, Undisturbed, Working
  <2>6. ASSUME NEW h \in Handlers, Retrieve(h) PROVE P(q)
      BY <2>6 DEF Retrieve, At, Goto, TypeOK, Task, Idle, Preparing, Generating, Citation, docVars, msgVars, faultVars, Sound, Counted, Undisturbed, Working
  <2>7. ASSUME NEW h \in Handlers, Refuse(h) PROVE P(q)
      BY <2>7 DEF Refuse, At, Store, Respond, TypeOK, Task, Idle, Preparing, Generating, Citation, docVars, msgVars, faultVars, Sound, Counted, Undisturbed, Working
  <2>8. ASSUME NEW h \in Handlers, Stream(h) PROVE P(q)
      BY <2>8 DEF Stream, At, Goto, TypeOK, Task, Idle, Preparing, Generating, Citation, docVars, msgVars, faultVars, Sound, Counted, Undisturbed, Working
  <2>9. ASSUME NEW h \in Handlers, Complete(h) PROVE P(q)
      BY <2>9 DEF Complete, At, Store, Respond, Catch, Goto, Cited, ChunksExist, TypeOK, Task, Idle, Preparing, Generating, Citation, docVars, msgVars, faultVars, Sound, Counted, Undisturbed, Working
  <2>10. ASSUME NEW h \in Handlers, MarkFailed(h) PROVE P(q)
      BY <2>10 DEF MarkFailed, At, Respond, TypeOK, Task, Idle, Preparing, Generating, Citation, docVars, msgVars, faultVars, Sound, Counted, Undisturbed, Working
  <2>11. ASSUME NEW h \in Handlers, PrepareFails(h) PROVE P(q)
      BY <2>11 DEF PrepareFails, Fault, Failure, Pend, Respond, Taken, At, TypeOK, Task, Idle, Preparing, Generating, Citation, docVars, msgVars, faultVars, Sound, Counted, Undisturbed, Working
  <2>12. ASSUME NEW h \in Handlers, GenerateFails(h) PROVE P(q)
      BY <2>12 DEF GenerateFails, Failure, Goto, TypeOK, Task, Idle, Preparing, Generating, Citation, docVars, msgVars, faultVars, Sound, Counted, Undisturbed, Working
  <2>13. ASSUME NEW h \in Handlers, CompleteFails(h) PROVE P(q)
      BY <2>13 DEF CompleteFails, Fault, Failure, Store, Catch, Goto, Cited, ChunksExist, At, TypeOK, Task, Idle, Preparing, Generating, Citation, docVars, msgVars, faultVars, Sound, Counted, Undisturbed, Working
  <2>14. ASSUME NEW h \in Handlers, MarkLost(h) PROVE P(q)
      BY <2>14 DEF MarkLost, At, Fault, Failure, Respond, TypeOK, Task, Idle, Preparing, Generating, Citation, docVars, msgVars, faultVars, Sound, Counted, Undisturbed, Working
  <2>15. ASSUME NEW h \in Handlers, Crash(h) PROVE P(q)
      BY <2>15 DEF Crash, At, Fault, Failure, Respond, TypeOK, Task, Idle, Preparing, Generating, Citation, docVars, msgVars, faultVars, Sound, Counted, Undisturbed, Working
  <2>16. ASSUME Reprocess PROVE P(q)
      BY <2>16 DEF Reprocess, TypeOK, Task, Idle, Preparing, Generating, Citation, docVars, msgVars, faultVars, Sound, Counted, Undisturbed, Working
  <2>17. ASSUME ReplaceChunks PROVE P(q)
      BY <2>17 DEF ReplaceChunks, Cascade, TypeOK, Task, Idle, Preparing, Generating, Citation, docVars, msgVars, faultVars, Sound, Counted, Undisturbed, Working
  <2>18. CASE UNCHANGED vars
      BY <2>18 DEF vars, faultVars, TypeOK, Task, Idle, Preparing, Generating, Citation, docVars, msgVars, Sound, Counted, Undisturbed, Working
  <2> QED
    BY <2>1, <2>2, <2>3, <2>4, <2>5, <2>6, <2>7, <2>8, <2>9, <2>10, <2>11, <2>12, <2>13, <2>14, <2>15, <2>16, <2>17, <2>18 DEF Next, Step, StepFault
<1> QED
  BY <1>1, SpecSound, PTL DEF Spec, AnswerStands

-----------------------------------------------------------------------------
(* The questions asked and the handlers between the quota check and the     *)
(* insert together never exceed the bound.                                  *)
Passed == {h \in Handlers : task[h].at = "insert"}
Questions == {r \in Requests : msg[r] # "absent"}
Within == Cardinality(Questions) + Cardinality(Passed) <= Quota + Cardinality(Handlers) - 1

(* The sets counted are finite, and the handlers passed are handlers.        *)
LEMMA Finite ==
  /\ IsFiniteSet(Questions) /\ Cardinality(Questions) \in Nat
  /\ IsFiniteSet(Passed) /\ Cardinality(Passed) \in Nat
  /\ Cardinality(Passed) <= Cardinality(Handlers)
  /\ Cardinality(Handlers) \in Nat \ {0}
<1>1. Questions \subseteq Requests /\ Passed \subseteq Handlers
  BY DEF Questions, Passed
<1> QED
  BY <1>1, ConversationAssumption, FS_Subset, FS_CardinalityType, FS_EmptySet

(* So they are after a step.                                                 *)
LEMMA FinitePrime ==
  /\ IsFiniteSet(Questions') /\ Cardinality(Questions') \in Nat
  /\ IsFiniteSet(Passed') /\ Cardinality(Passed') \in Nat
  /\ Cardinality(Passed') <= Cardinality(Handlers)
<1>1. Questions' \subseteq Requests /\ Passed' \subseteq Handlers
  BY DEF Questions, Passed
<1> QED
  BY <1>1, ConversationAssumption, FS_Subset, FS_CardinalityType

(* A question more is at most one more.                                      *)
LEMMA OneMore ==
  ASSUME NEW r PROVE Cardinality(Questions \cup {r}) <= Cardinality(Questions) + 1
<1>1. CASE r \in Questions
  <2>1. Questions \cup {r} = Questions
    BY <1>1
  <2> QED
    BY <2>1, Finite
<1>2. CASE r \notin Questions
  <2>1. Cardinality(Questions \cup {r}) = Cardinality(Questions) + 1
    BY <1>2, Finite, FS_AddElement
  <2> QED
    BY <2>1, Finite
<1> QED
  BY <1>1, <1>2


(* Fewer handlers between check and insert and the same questions keep it.  *)
LEMMA Shrinks == Within /\ Passed' \subseteq Passed /\ Questions' = Questions => Within'
<1> SUFFICES ASSUME Within, Passed' \subseteq Passed, Questions' = Questions PROVE Within'
  OBVIOUS
<1>1. Cardinality(Passed') <= Cardinality(Passed) /\ Cardinality(Passed') \in Nat
  BY Finite, FS_Subset, FS_CardinalityType
<1> QED
  BY <1>1, Finite, ConversationAssumption DEF Within

(* Every step keeps the bound: a check that passes finds fewer questions    *)
(* than the quota, and an insert takes its handler out of those passed.     *)
LEMMA NextWithin == TypeOK /\ Counted /\ Numbered /\ Within /\ [Next]_vars => Within'
<1> SUFFICES ASSUME TypeOK, Counted, Numbered, Within, [Next]_vars PROVE Within'
  OBVIOUS
<1> USE ConversationAssumption
<1>1. ASSUME NEW h \in Handlers, NEW r \in Requests, Submit(h, r) PROVE Within'
  <2>1. Passed' \subseteq Passed
    BY <1>1 DEF Submit, At, Passed, TypeOK, Task, Idle, Preparing, Generating, Citation, docVars, msgVars, faultVars
  <2>2. Questions' = Questions
    BY <1>1 DEF Submit, At, Questions, TypeOK, Task, Idle, Preparing, Generating, Citation, docVars, msgVars, faultVars, Counted, Numbered, Working
  <2> QED
    BY <2>1, <2>2, Shrinks
<1>2. ASSUME NEW h \in Handlers, Lookup(h) PROVE Within'
  <2>1. Passed' \subseteq Passed
    BY <1>2 DEF Lookup, At, Goto, Respond, Passed, TypeOK, Task, Idle, Preparing, Generating, Citation, docVars, msgVars, faultVars
  <2>2. Questions' = Questions
    BY <1>2 DEF Lookup, At, Goto, Respond, Questions, TypeOK, Task, Idle, Preparing, Generating, Citation, docVars, msgVars, faultVars, Counted, Numbered, Working
  <2> QED
    BY <2>1, <2>2, Shrinks
<1>3. ASSUME NEW h \in Handlers, Reset(h) PROVE Within'
  <2>1. Passed' \subseteq Passed
    BY <1>3 DEF Reset, At, Pend, Generate, Passed, TypeOK, Task, Idle, Preparing, Generating, Citation, docVars, msgVars, faultVars
  <2>2. Questions' = Questions
    BY <1>3 DEF Reset, At, Pend, Generate, Questions, TypeOK, Task, Idle, Preparing, Generating, Citation, docVars, msgVars, faultVars, Counted, Numbered, Working
  <2> QED
    BY <2>1, <2>2, Shrinks
<1>4. ASSUME NEW h \in Handlers, CheckQuota(h) PROVE Within'
  <2>1. Questions' = Questions
    BY <1>4 DEF CheckQuota, Questions, msgVars
  <2>2. CASE QuotaReached
    <3>1. Passed' = Passed
      BY <1>4, <2>2 DEF CheckQuota, At, Respond, Passed, Idle, TypeOK, Task, Preparing, Generating
    <3> QED
      BY <2>1, <3>1 DEF Within
  <2>3. CASE ~QuotaReached
    <3>1. Cardinality(Questions) <= Quota - 1
      BY <2>3, Finite DEF QuotaReached, Asked, Questions
    <3>2. Cardinality(Passed') <= Cardinality(Handlers)
      BY FinitePrime
    <3> QED
      BY <2>1, <3>1, <3>2, Finite, FinitePrime DEF Within
  <2> QED
    BY <2>2, <2>3
<1>5. ASSUME NEW h \in Handlers, InsertPair(h) PROVE Within'
  <2>1. task[h].req \in Requests /\ h \in Passed /\ Passed' = Passed \ {h}
    BY <1>5 DEF InsertPair, At, Goto, Generate, Pend, Passed, TypeOK, Task, Idle, Preparing, Generating
  <2>2. Cardinality(Passed') = Cardinality(Passed) - 1
    BY <2>1, Finite, FS_RemoveElement
  <2>3. Questions' = Questions \/ Questions' = Questions \cup {task[h].req}
    BY <1>5, <2>1 DEF InsertPair, Pend, Questions, TypeOK
  <2>4. Cardinality(Questions') <= Cardinality(Questions) + 1
    <3>1. CASE Questions' = Questions
      BY <3>1, Finite
    <3>2. CASE Questions' = Questions \cup {task[h].req}
      <4> DEFINE q == task[h].req
      <4>1. Cardinality(Questions \cup {q}) <= Cardinality(Questions) + 1
        BY OneMore
      <4> QED
        BY <3>2, <4>1
    <3> QED
      BY <2>3, <3>1, <3>2
  <2> QED
    BY <2>2, <2>4, Finite, FinitePrime DEF Within
<1>6. ASSUME NEW h \in Handlers, Retrieve(h) PROVE Within'
  <2>1. Passed' \subseteq Passed
    BY <1>6 DEF Retrieve, At, Goto, Passed, TypeOK, Task, Idle, Preparing, Generating, Citation, docVars, msgVars, faultVars
  <2>2. Questions' = Questions
    BY <1>6 DEF Retrieve, At, Goto, Questions, TypeOK, Task, Idle, Preparing, Generating, Citation, docVars, msgVars, faultVars, Counted, Numbered, Working
  <2> QED
    BY <2>1, <2>2, Shrinks
<1>7. ASSUME NEW h \in Handlers, Refuse(h) PROVE Within'
  <2>1. Passed' \subseteq Passed
    BY <1>7 DEF Refuse, At, Store, Respond, Passed, TypeOK, Task, Idle, Preparing, Generating, Citation, docVars, msgVars, faultVars
  <2>2. Questions' = Questions
    BY <1>7 DEF Refuse, At, Store, Respond, Questions, TypeOK, Task, Idle, Preparing, Generating, Citation, docVars, msgVars, faultVars, Counted, Numbered, Working
  <2> QED
    BY <2>1, <2>2, Shrinks
<1>8. ASSUME NEW h \in Handlers, Stream(h) PROVE Within'
  <2>1. Passed' \subseteq Passed
    BY <1>8 DEF Stream, At, Goto, Passed, TypeOK, Task, Idle, Preparing, Generating, Citation, docVars, msgVars, faultVars
  <2>2. Questions' = Questions
    BY <1>8 DEF Stream, At, Goto, Questions, TypeOK, Task, Idle, Preparing, Generating, Citation, docVars, msgVars, faultVars, Counted, Numbered, Working
  <2> QED
    BY <2>1, <2>2, Shrinks
<1>9. ASSUME NEW h \in Handlers, Complete(h) PROVE Within'
  <2>1. Passed' \subseteq Passed
    BY <1>9 DEF Complete, At, Store, Respond, Catch, Goto, Cited, ChunksExist, Passed, TypeOK, Task, Idle, Preparing, Generating, Citation, docVars, msgVars, faultVars
  <2>2. Questions' = Questions
    BY <1>9 DEF Complete, At, Store, Respond, Catch, Goto, Cited, ChunksExist, Questions, TypeOK, Task, Idle, Preparing, Generating, Citation, docVars, msgVars, faultVars, Counted, Numbered, Working
  <2> QED
    BY <2>1, <2>2, Shrinks
<1>10. ASSUME NEW h \in Handlers, MarkFailed(h) PROVE Within'
  <2>1. Passed' \subseteq Passed
    BY <1>10 DEF MarkFailed, At, Respond, Passed, TypeOK, Task, Idle, Preparing, Generating, Citation, docVars, msgVars, faultVars
  <2>2. Questions' = Questions
    BY <1>10 DEF MarkFailed, At, Respond, Questions, TypeOK, Task, Idle, Preparing, Generating, Citation, docVars, msgVars, faultVars, Counted, Numbered, Working
  <2> QED
    BY <2>1, <2>2, Shrinks
<1>11. ASSUME NEW h \in Handlers, PrepareFails(h) PROVE Within'
  <2>1. task[h].req \in Requests
    BY <1>11 DEF PrepareFails, TypeOK, Task, Idle, Preparing, Generating
  <2>2. CASE At(h, "insert") /\ ~Taken(task[h].req)
    <3>1. h \in Passed /\ Passed' = Passed \ {h}
      BY <1>11, <2>2 DEF PrepareFails, At, Respond, Passed, TypeOK, Idle, Task, Preparing, Generating
    <3>2. Cardinality(Passed') = Cardinality(Passed) - 1
      BY <3>1, Finite, FS_RemoveElement
    <3>3. Questions' = Questions \/ Questions' = Questions \cup {task[h].req}
      BY <1>11, <2>1 DEF PrepareFails, Pend, Questions, TypeOK
    <3>4. Cardinality(Questions') <= Cardinality(Questions) + 1
      <4>1. CASE Questions' = Questions
        BY <4>1, Finite
      <4>2. CASE Questions' = Questions \cup {task[h].req}
        <5> DEFINE q == task[h].req
        <5>1. Cardinality(Questions \cup {q}) <= Cardinality(Questions) + 1
          BY OneMore
        <5> QED
          BY <4>2, <5>1
      <4> QED
        BY <3>3, <4>1, <4>2
    <3> QED
      BY <3>2, <3>4, Finite, FinitePrime DEF Within
  <2>3. CASE ~(At(h, "insert") /\ ~Taken(task[h].req))
    <3>1. Passed' \subseteq Passed
      BY <1>11 DEF PrepareFails, Respond, Passed, TypeOK, Idle, Task, Preparing, Generating
    <3>2. Questions' = Questions
      BY <1>11, <2>1, <2>3 DEF PrepareFails, Pend, Questions, TypeOK, At, Counted
    <3> QED
      BY <3>1, <3>2, Shrinks
  <2> QED
    BY <2>2, <2>3
<1>12. ASSUME NEW h \in Handlers, GenerateFails(h) PROVE Within'
  <2>1. Passed' \subseteq Passed
    BY <1>12 DEF GenerateFails, Failure, Goto, Passed, TypeOK, Task, Idle, Preparing, Generating, Citation, docVars, msgVars, faultVars
  <2>2. Questions' = Questions
    BY <1>12 DEF GenerateFails, Failure, Goto, Questions, TypeOK, Task, Idle, Preparing, Generating, Citation, docVars, msgVars, faultVars, Counted, Numbered, Working
  <2> QED
    BY <2>1, <2>2, Shrinks
<1>13. ASSUME NEW h \in Handlers, CompleteFails(h) PROVE Within'
  <2>1. Passed' \subseteq Passed
    BY <1>13 DEF CompleteFails, Fault, Failure, Store, Catch, Goto, Cited, ChunksExist, At, Passed, TypeOK, Task, Idle, Preparing, Generating, Citation, docVars, msgVars, faultVars
  <2>2. Questions' = Questions
    BY <1>13 DEF CompleteFails, Fault, Failure, Store, Catch, Goto, Cited, ChunksExist, At, Questions, TypeOK, Task, Idle, Preparing, Generating, Citation, docVars, msgVars, faultVars, Counted, Numbered, Working
  <2> QED
    BY <2>1, <2>2, Shrinks
<1>14. ASSUME NEW h \in Handlers, MarkLost(h) PROVE Within'
  <2>1. Passed' \subseteq Passed
    BY <1>14 DEF MarkLost, At, Fault, Failure, Respond, Passed, TypeOK, Task, Idle, Preparing, Generating, Citation, docVars, msgVars, faultVars
  <2>2. Questions' = Questions
    BY <1>14 DEF MarkLost, At, Fault, Failure, Respond, Questions, TypeOK, Task, Idle, Preparing, Generating, Citation, docVars, msgVars, faultVars, Counted, Numbered, Working
  <2> QED
    BY <2>1, <2>2, Shrinks
<1>15. ASSUME NEW h \in Handlers, Crash(h) PROVE Within'
  <2>1. Passed' \subseteq Passed
    BY <1>15 DEF Crash, At, Fault, Failure, Respond, Passed, TypeOK, Task, Idle, Preparing, Generating, Citation, docVars, msgVars, faultVars
  <2>2. Questions' = Questions
    BY <1>15 DEF Crash, At, Fault, Failure, Respond, Questions, TypeOK, Task, Idle, Preparing, Generating, Citation, docVars, msgVars, faultVars, Counted, Numbered, Working
  <2> QED
    BY <2>1, <2>2, Shrinks
<1>16. ASSUME Reprocess PROVE Within'
  <2>1. Passed' \subseteq Passed
    BY <1>16 DEF Reprocess, Passed, TypeOK, Task, Idle, Preparing, Generating, Citation, docVars, msgVars, faultVars
  <2>2. Questions' = Questions
    BY <1>16 DEF Reprocess, Questions, TypeOK, Task, Idle, Preparing, Generating, Citation, docVars, msgVars, faultVars, Counted, Numbered, Working
  <2> QED
    BY <2>1, <2>2, Shrinks
<1>17. ASSUME ReplaceChunks PROVE Within'
  <2>1. Passed' \subseteq Passed
    BY <1>17 DEF ReplaceChunks, Cascade, Passed, TypeOK, Task, Idle, Preparing, Generating, Citation, docVars, msgVars, faultVars
  <2>2. Questions' = Questions
    BY <1>17 DEF ReplaceChunks, Cascade, Questions, TypeOK, Task, Idle, Preparing, Generating, Citation, docVars, msgVars, faultVars, Counted, Numbered, Working
  <2> QED
    BY <2>1, <2>2, Shrinks
<1>18. CASE UNCHANGED vars
  BY <1>18 DEF vars, msgVars, Within, Passed, Questions
<1> QED
  BY <1>1, <1>2, <1>3, <1>4, <1>5, <1>6, <1>7, <1>8, <1>9, <1>10, <1>11, <1>12, <1>13, <1>14, <1>15, <1>16, <1>17, <1>18 DEF Next, Step, StepFault

(* The questions asked in a month exceed the quota by at most one per       *)
(* concurrent handler but one (assertAskQuota).                             *)
THEOREM QuotaOvershoot == Spec => []QuotaOvershootBounded
<1>1. Init => Within
  <2>1. ASSUME Init PROVE Questions = {} /\ Passed = {}
    BY <2>1 DEF Init, Questions, Passed, Idle
  <2> QED
    BY <2>1, Finite, FS_EmptySet, ConversationAssumption DEF Within
<1>2. Sound => Counted /\ Numbered
  BY DEF Sound
<1>3. Within => QuotaOvershootBounded
  BY Finite, ConversationAssumption DEF Within, QuotaOvershootBounded, Asked, Questions
<1> QED
  BY <1>1, <1>2, <1>3, NextWithin, SpecSound, PTL DEF Spec
=============================================================================
