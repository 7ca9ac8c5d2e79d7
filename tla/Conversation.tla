---------------------------- MODULE Conversation ----------------------------
(***************************************************************************)
(* Questions and answers of one conversation about one document: HTTP      *)
(* handlers of the API that submit a question under its clientRequestId,   *)
(* generate an answer and store it with its citations, while the pipeline  *)
(* may replace the chunks of the document. Nothing serialises two handlers *)
(* of the same request but the unique key on the question; every database  *)
(* call is a step of its own.                                              *)
(*                                                                         *)
(* A generation is known by its number, which stands for its text, and a   *)
(* chunk set by the number of the processing run that wrote it. The        *)
(* monthly token quota is left out: it counts what the gateway logged.     *)
(***************************************************************************)
EXTENDS Naturals, FiniteSets

CONSTANTS
    Requests,    \* clientRequestIds used in the conversation
    None,        \* no request: the handler is idle
    Handlers,    \* concurrent POST handlers of the API processes
    Quota,       \* questions per month (monthly_questions)
    MaxFaults,   \* bound: failing generations, database calls and processes
    MaxReprocess \* bound: times the document is processed again

ASSUME ConversationAssumption ==
    /\ IsFiniteSet(Requests) /\ None \notin Requests
    /\ IsFiniteSet(Handlers) /\ Handlers # {}
    /\ Quota \in Nat
    /\ MaxFaults \in Nat
    /\ MaxReprocess \in Nat

VARIABLES
    askable,    \* documents.status is ready or partially_ready
    chunks,     \* number of the chunk set stored now
    msg,        \* status of the assistant message, "absent" before the pair is written
    answer,     \* generation whose text the message holds, 0 when empty
    cites,      \* rows of citations: their generation and the chunk set they cite
    task,       \* a handler: where it is, its request, generation and retrieved chunks
    runs,       \* generations started so far per request
    failures,   \* history: times failAssistant marked the message
    faults,     \* failures of any kind so far
    broken      \* history: a process or a database call was among them

docVars == <<askable, chunks>>
msgVars == <<msg, answer, cites>>
faultVars == <<faults, broken>>
vars == <<docVars, msgVars, task, runs, failures, faultVars>>

Citation == [run : Nat \ {0}, chunks : Nat \ {0}]
Preparing == {"lookup", "reset", "quota", "insert"}
Generating == {"retrieve", "refuse", "stream", "complete", "mark"}
Idle == [at |-> "idle", req |-> None, run |-> 0, src |-> 0]
Task == {Idle}
        \cup [at : Preparing, req : Requests, run : {0}, src : {0}]
        \cup [at : Generating, req : Requests, run : Nat \ {0}, src : Nat]

TypeOK ==
    /\ askable \in BOOLEAN
    /\ chunks \in Nat \ {0}
    /\ msg \in [Requests -> {"absent", "pending", "completed", "failed"}]
    /\ answer \in [Requests -> Nat]
    /\ cites \in [Requests -> SUBSET Citation]
    /\ task \in [Handlers -> Task]
    /\ runs \in [Requests -> Nat]
    /\ failures \in [Requests -> Nat]
    /\ faults \in 0..MaxFaults
    /\ broken \in BOOLEAN

Init ==
    /\ askable = TRUE
    /\ chunks = 1
    /\ msg = [r \in Requests |-> "absent"]
    /\ answer = [r \in Requests |-> 0]
    /\ cites = [r \in Requests |-> {}]
    /\ task = [h \in Handlers |-> Idle]
    /\ runs = [r \in Requests |-> 0]
    /\ failures = [r \in Requests |-> 0]
    /\ faults = 0
    /\ broken = FALSE

Failure == faults < MaxFaults /\ faults' = faults + 1

Fault == Failure /\ broken' = TRUE

At(h, l) == task[h].at = l
Goto(h, l) == task' = [task EXCEPT ![h].at = l]
Respond(h) == task' = [task EXCEPT ![h] = Idle]

-----------------------------------------------------------------------------
\* prepareSubmission

(* The conversation and the document are found and the document is askable. *)
Submit(h, r) ==
    /\ At(h, "idle")
    /\ askable
    /\ task' = [task EXCEPT ![h] = [at |-> "lookup", req |-> r, run |-> 0, src |-> 0]]
    /\ UNCHANGED <<docVars, msgVars, runs, failures, faultVars>>

\* Mutant: a repeated request of a completed answer generates again.
RetryableAgain(s) == s \in {"failed", "completed"}

(* Of the pairs found under the request's key only a failed one is tried    *)
(* again; a pending one is a 409, a completed one is returned.              *)
Retryable(s) == s = "failed"

(* findQuestionPair *)
Lookup(h) ==
    /\ At(h, "lookup")
    /\ LET s == msg[task[h].req] IN
         \/ s = "absent" /\ Goto(h, "quota")
         \/ s # "absent" /\ Retryable(s) /\ Goto(h, "reset")
         \/ s # "absent" /\ ~Retryable(s) /\ Respond(h)
    /\ UNCHANGED <<docVars, msgVars, runs, failures, faultVars>>

(* A generation begins: the message is pending. *)
Pend(r) ==
    /\ msg' = [msg EXCEPT ![r] = "pending"]
    /\ answer' = [answer EXCEPT ![r] = 0]
    /\ runs' = [runs EXCEPT ![r] = @ + 1]

Generate(h) ==
    task' = [task EXCEPT ![h] = [at |-> "retrieve", req |-> @.req, run |-> runs[@.req] + 1, src |-> 0]]

(* resetAssistantForRetry: by id alone, whatever the status is by now. The  *)
(* citations of an earlier generation stay.                                 *)
Reset(h) ==
    /\ At(h, "reset")
    /\ Pend(task[h].req)
    /\ Generate(h)
    /\ UNCHANGED <<docVars, cites, failures, faultVars>>

Asked == Cardinality({r \in Requests : msg[r] # "absent"})

\* Mutant: the quota refuses one question too late.
QuotaReachedLate == Asked > Quota

QuotaReached == Asked >= Quota

(* assertAskQuota: counts the questions, in no transaction with the insert. *)
CheckQuota(h) ==
    /\ At(h, "quota")
    /\ IF QuotaReached THEN Respond(h) ELSE Goto(h, "insert")
    /\ UNCHANGED <<docVars, msgVars, runs, failures, faultVars>>

\* Mutant: the question is not unique under its clientRequestId.
TakenNever(r) == FALSE

(* unique(conversation_id, client_request_id) *)
Taken(r) == msg[r] # "absent"

(* insertQuestionPair; the loser of a race looks again and then finds the   *)
(* winner's pair, so the loop's second round always returns.                *)
InsertPair(h) ==
    /\ At(h, "insert")
    /\ IF Taken(task[h].req)
       THEN Goto(h, "lookup") /\ UNCHANGED <<msg, answer, runs>>
       ELSE Pend(task[h].req) /\ Generate(h)
    /\ UNCHANGED <<docVars, cites, failures, faultVars>>

(* A call fails before the generation starts: 500. The insert or the reset  *)
(* may have been applied all the same.                                      *)
PrepareFails(h) ==
    /\ task[h].at \in Preparing
    /\ Fault
    /\ \/ UNCHANGED <<msg, answer, runs>>
       \/ At(h, "reset") /\ Pend(task[h].req)
       \/ At(h, "insert") /\ ~Taken(task[h].req) /\ Pend(task[h].req)
    /\ Respond(h)
    /\ UNCHANGED <<docVars, cites, failures>>

-----------------------------------------------------------------------------
\* generateAnswer

(* retrieveCandidates and selectSources: chunks of the current set, or none *)
(* similar enough. The status of the document is not looked at again.       *)
Retrieve(h) ==
    /\ At(h, "retrieve")
    /\ \/ task' = [task EXCEPT ![h] = [at |-> "stream", req |-> @.req, run |-> @.run, src |-> chunks]]
       \/ Goto(h, "refuse")
    /\ UNCHANGED <<docVars, msgVars, runs, failures, faultVars>>

(* completeAssistant: text and citations in one transaction.                *)
Store(h, cs) ==
    /\ msg' = [msg EXCEPT ![task[h].req] = "completed"]
    /\ answer' = [answer EXCEPT ![task[h].req] = task[h].run]
    /\ cites' = [cites EXCEPT ![task[h].req] = @ \cup cs]

(* No evidence: the fixed refusal without a model call. *)
Refuse(h) ==
    /\ At(h, "refuse")
    /\ Store(h, {})
    /\ Respond(h)
    /\ UNCHANGED <<docVars, runs, failures, faultVars>>

(* The model streams an answer that passes validateAnswer.                  *)
Stream(h) ==
    /\ At(h, "stream")
    /\ Goto(h, "complete")
    /\ UNCHANGED <<docVars, msgVars, runs, failures, faultVars>>

(* Retrieval or the model fails, or the answer is rejected.                 *)
GenerateFails(h) ==
    /\ task[h].at \in {"retrieve", "stream"}
    /\ Failure
    /\ Goto(h, "mark")
    /\ UNCHANGED <<docVars, msgVars, runs, failures, broken>>

Cited(h) == {[run |-> task[h].run, chunks |-> task[h].src]}

\* Mutant: citations.document_chunk_id has no foreign key.
ChunksExistUnchecked(cs) == TRUE

(* The foreign key of citations.document_chunk_id. *)
ChunksExist(cs) == \A c \in cs : c.chunks = chunks

\* Mutant: the error of the final save is thrown past the catch block.
CatchMissed(h) == Respond(h)

(* The catch block of generateAnswer covers the final save. *)
Catch(h) == Goto(h, "mark")

(* An answer with citations or, when the model says the evidence is not     *)
(* enough, without.                                                         *)
Complete(h) ==
    /\ At(h, "complete")
    /\ \E cs \in {{}, Cited(h)} :
         IF ChunksExist(cs)
         THEN Store(h, cs) /\ Respond(h)
         ELSE Catch(h) /\ UNCHANGED msgVars
    /\ UNCHANGED <<docVars, runs, failures, faultVars>>

(* The final save throws, applied or not.                                   *)
CompleteFails(h) ==
    /\ task[h].at \in {"complete", "refuse"}
    /\ Fault
    /\ \/ UNCHANGED msgVars
       \/ At(h, "refuse") /\ Store(h, {})
       \/ At(h, "complete") /\ ChunksExist(Cited(h)) /\ Store(h, Cited(h))
    /\ Catch(h)
    /\ UNCHANGED <<docVars, runs, failures>>

(* failAssistant: by id alone; the text is left as it is.                   *)
MarkFailed(h) ==
    /\ At(h, "mark")
    /\ msg' = [msg EXCEPT ![task[h].req] = "failed"]
    /\ failures' = [failures EXCEPT ![task[h].req] = @ + 1]
    /\ Respond(h)
    /\ UNCHANGED <<docVars, answer, cites, runs, faultVars>>

(* failAssistant throws: logged, and nothing else is tried.                 *)
MarkLost(h) ==
    /\ At(h, "mark")
    /\ Fault
    /\ Respond(h)
    /\ UNCHANGED <<docVars, msgVars, runs, failures>>

(* The API process dies.                                                    *)
Crash(h) ==
    /\ ~At(h, "idle")
    /\ Fault
    /\ Respond(h)
    /\ UNCHANGED <<docVars, msgVars, runs, failures>>

-----------------------------------------------------------------------------
\* The document under the conversation

(* Sent back for processing (backfill).                                     *)
Reprocess ==
    /\ askable
    /\ chunks <= MaxReprocess
    /\ askable' = FALSE
    /\ UNCHANGED <<chunks, msgVars, task, runs, failures, faultVars>>

(* What on delete cascade of citations.document_chunk_id leaves when all    *)
(* chunks of the document are deleted.                                      *)
Cascade(cs) == {}

(* saveChunksAndFinalize: the old chunks are deleted and new ones inserted, *)
(* by a duplicate run even while the document is ready.                     *)
ReplaceChunks ==
    /\ chunks <= MaxReprocess
    /\ chunks' = chunks + 1
    /\ cites' = [r \in Requests |-> Cascade(cites[r])]
    /\ askable' = TRUE
    /\ UNCHANGED <<msg, answer, task, runs, failures, faultVars>>

Step(h) ==
    \/ Lookup(h) \/ Reset(h) \/ CheckQuota(h) \/ InsertPair(h)
    \/ Retrieve(h) \/ Refuse(h) \/ Stream(h) \/ Complete(h) \/ MarkFailed(h)

StepFault(h) ==
    PrepareFails(h) \/ GenerateFails(h) \/ CompleteFails(h) \/ MarkLost(h) \/ Crash(h)

Next ==
    \/ \E h \in Handlers : (\E r \in Requests : Submit(h, r)) \/ Step(h) \/ StepFault(h)
    \/ Reprocess \/ ReplaceChunks

Spec == Init /\ [][Next]_vars

(* A handler that runs gets its turns; nobody owes a submission.            *)
FairSpec == Spec /\ \A h \in Handlers : WF_vars(Step(h))

-----------------------------------------------------------------------------
\* Properties

(* Any number of simultaneous submissions of one question generate one       *)
(* answer, as long as no generation of it failed (unique key, 409).          *)
GeneratedOnce == \A r \in Requests : failures[r] = 0 => runs[r] <= 1

(* An answer once given is the answer: it is not generated again, emptied or *)
(* given a second set of citations, as long as no generation of it failed.   *)
AnswerStands ==
    [][\A r \in Requests :
         msg[r] = "completed" /\ failures'[r] = 0 =>
             /\ msg'[r] = "completed"
             /\ answer'[r] = answer[r]
             /\ cites'[r] \subseteq cites[r]]_vars

(* Every stored citation points to a chunk that exists, although chunks are  *)
(* replaced between retrieval and save ("引用 ID 有效率 100%", ADR-007).       *)
CitationsLive == \A r \in Requests : \A c \in cites[r] : c.chunks = chunks

(* The quota is checked and used in two steps; all handlers together         *)
(* overshoot it by at most one question each but one.                        *)
QuotaOvershootBounded ==
    Asked <= Quota + Cardinality(Handlers) - 1

(* Without crashes and database errors no answer stays pending: a failing    *)
(* retrieval, model call or save (its chunks may be gone) and a rejected     *)
(* answer are recorded as failed ("任一环节失败都会把 assistant 消息标记为       *)
(* failed", generateAnswer).                                                 *)
AnswerSettles ==
    \A r \in Requests : msg[r] = "pending" ~> msg[r] # "pending" \/ broken
=============================================================================
