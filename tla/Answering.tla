------------------------------ MODULE Answering ------------------------------
(***************************************************************************)
(* generateAnswer as one request runs it, with the server-sent events its  *)
(* reader is given: the question is embedded through the gateway, the      *)
(* model streams through the parser, the answer is checked against its     *)
(* sources, stored, and only then announced. What a text says is left out; *)
(* an answer is the citations it makes. The worker's summaries use the     *)
(* gateway too.                                                            *)
(***************************************************************************)
EXTENDS AIGateway, AnswerStream

CONSTANTS
    Sources,      \* source ids given to the model
    OwnSources,   \* those whose chunk belongs to the document asked about
    Unknown,      \* a source id the model made up
    MaxCitations, \* bound: citations of an answer
    MaxDelta      \* bound: characters of a delta

ASSUME AnsweringAssumption ==
    /\ OwnSources \subseteq Sources /\ Unknown \notin Sources
    /\ MaxCitations \in Nat /\ MaxDelta \in Nat

VARIABLES
    at,         \* where generateAnswer is
    code,       \* the error code it ends with
    parsed,     \* the answer the parser resolved to
    msg,        \* the stored assistant message
    sse,        \* events sent so far, consecutive deltas as one
    broken      \* history: a database call of the handler failed

handlerVars == <<at, code, parsed, msg, sse, broken>>
answeringVars == <<gatewayVars, streamVars, handlerVars>>

Citation == [source : Sources \cup {Unknown}, matches : BOOLEAN]
Answers == [citations : UNION {[1..n -> Citation] : n \in 0..MaxCitations},
            insufficientEvidence : BOOLEAN]
NoAnswer == [citations |-> <<>>, insufficientEvidence |-> FALSE]

Codes == {"none", "Error", "INTERNAL", "CITATION_VALIDATION_FAILED"} \cup AICodes
Events == {"started", "retrieval", "delta", "citations", "usage", "completed", "failed"}

AnsweringTypeOK ==
    /\ StreamTypeOK /\ GatewayTypeOK
    /\ at \in {"idle", "retrieve", "embedding", "refuse", "ask", "calling", "consume",
               "validate", "persist", "usage", "mark", "done"}
    /\ code \in Codes
    /\ parsed \in Answers
    /\ msg \in [status : {"pending", "completed", "failed"}, text : Seq(Chars), citations : Seq(Citation)]
    /\ sse \in Seq(Events)
    /\ broken \in BOOLEAN

AnsweringInit ==
    /\ StreamInit /\ GatewayInit
    /\ at = "idle"
    /\ code = "none"
    /\ parsed = NoAnswer
    /\ msg = [status |-> "pending", text |-> <<>>, citations |-> <<>>]
    /\ sse = <<>>
    /\ broken = FALSE

Write(events) == sse' = sse \o events
Throw(c) == at' = "mark" /\ code' = c
DatabaseFails == Fault /\ broken' = TRUE

(* The worker asks for a summary, through whatever wiring.                  *)
Summarize ==
    /\ at = "idle"
    /\ \E wiring \in Wirings : Call("object", wiring)
    /\ UNCHANGED <<streamVars, handlerVars>>

(* The pair is stored and the stream of events opened.                      *)
Submit ==
    /\ at = "idle" /\ call.at = "idle"
    /\ at' = "retrieve"
    /\ Write(<<"started">>)
    /\ UNCHANGED <<gatewayVars, streamVars, code, parsed, msg, broken>>

(* retrieveCandidates: the question is embedded first.                      *)
EmbedQuestion ==
    /\ at = "retrieve"
    /\ Call("embed", "complete")
    /\ at' = "embedding"
    /\ UNCHANGED <<streamVars, code, parsed, msg, sse, broken>>

(* The vector query and selectSources, which may leave no source.           *)
Retrieved ==
    /\ at = "embedding" /\ reply # "none"
    /\ \/ reply # "value" /\ Throw(reply) /\ UNCHANGED <<sse, faults, broken>>
       \/ reply = "value" /\ DatabaseFails /\ Throw("INTERNAL") /\ UNCHANGED sse
       \/ /\ reply = "value"
          /\ at' \in {"refuse", "ask"}
          /\ Write(<<"retrieval">>)
          /\ UNCHANGED <<code, faults, broken>>
    /\ UNCHANGED <<call, reply, promise, wire, traces, usages, streamVars, parsed, msg>>

Stored(text, citations) == msg' = [status |-> "completed", text |-> text, citations |-> citations]

\* Mutant: the refusal is announced before it is stored.
RefuseAnnounced ==
    /\ at = "refuse"
    /\ Write(<<"delta", "completed">>)
    /\ \/ Stored(<<>>, <<>>) /\ at' = "done" /\ UNCHANGED <<code, faults, broken>>
       \/ DatabaseFails /\ UNCHANGED msg /\ Throw("INTERNAL")
    /\ UNCHANGED <<call, reply, promise, wire, traces, usages, streamVars, parsed>>

(* The fixed refusal: no model call, no usage.                              *)
Refuse ==
    /\ at = "refuse"
    /\ \/ Stored(<<>>, <<>>) /\ Write(<<"delta", "completed">>) /\ at' = "done"
          /\ UNCHANGED <<code, faults, broken>>
       \/ DatabaseFails /\ (Stored(<<>>, <<>>) \/ UNCHANGED msg) /\ Throw("INTERNAL") /\ UNCHANGED sse
    /\ UNCHANGED <<call, reply, promise, wire, traces, usages, streamVars, parsed>>

(* The history is read and the model called.                                *)
Ask ==
    /\ at = "ask"
    /\ Call("stream", "complete")
    /\ at' = "calling"
    /\ UNCHANGED <<streamVars, code, parsed, msg, sse, broken>>

AskFails ==
    /\ at = "ask"
    /\ DatabaseFails
    /\ Throw("INTERNAL")
    /\ UNCHANGED <<call, reply, promise, wire, traces, usages, streamVars, parsed, msg, sse>>

Called ==
    /\ at = "calling" /\ reply # "none"
    /\ IF reply = "value" THEN at' = "consume" /\ UNCHANGED code ELSE Throw(reply)
    /\ UNCHANGED <<gatewayVars, streamVars, parsed, msg, sse, broken>>

(* onDelta, when the parser passed something on.                            *)
Announce ==
    IF body' = body \/ sse[Len(sse)] = "delta" THEN UNCHANGED sse ELSE Write(<<"delta">>)

(* One delta is read; the reader may lag behind the connection.             *)
TakeDelta ==
    /\ at = "consume"
    /\ wire \in {"open"} \cup Stops
    /\ \E n \in 1..MaxDelta : \E chunk \in [1..n -> Chars] :
         Len(sent) + n <= MaxText /\ Delta(chunk)
    /\ Announce
    /\ UNCHANGED <<gatewayVars, at, code, parsed, msg, broken>>

(* parseTail: JSON of the schema, or not.                                   *)
ReadTail ==
    /\ at = "consume" /\ wire \in Stops /\ marked
    /\ \/ \E a \in Answers : parsed' = a /\ at' = "validate" /\ UNCHANGED code
       \/ Throw("AI_INVALID_RESPONSE") /\ UNCHANGED parsed
    /\ UNCHANGED <<gatewayVars, streamVars, msg, sse, broken>>

(* The stream ended without the marker.                                     *)
MarkerMissing ==
    /\ at = "consume" /\ wire \in Stops /\ ~marked
    /\ Flush
    /\ Announce
    /\ Throw("AI_INVALID_RESPONSE")
    /\ UNCHANGED <<gatewayVars, parsed, msg, broken>>

(* The stream breaks under the reader: the error passes through the parser. *)
ReadFails ==
    /\ at = "consume" /\ wire \in AICodes
    /\ Throw(wire)
    /\ UNCHANGED <<gatewayVars, streamVars, parsed, msg, sse, broken>>

\* UNKNOWN_SOURCE, WRONG_DOCUMENT, QUOTE_MISMATCH
Acceptable(c) == c.source \in Sources /\ c.source \in OwnSources /\ c.matches

(* validateAnswer: no issue of the answer (MISSING_CITATIONS,               *)
(* UNEXPECTED_CITATIONS) and none of a citation.                            *)
Valid(a) ==
    /\ a.insufficientEvidence <=> a.citations = <<>>
    /\ \A i \in DOMAIN a.citations : Acceptable(a.citations[i])

Validate ==
    /\ at = "validate"
    /\ IF Valid(parsed) THEN at' = "persist" /\ UNCHANGED code ELSE Throw("CITATION_VALIDATION_FAILED")
    /\ UNCHANGED <<gatewayVars, streamVars, parsed, msg, sse, broken>>

(* completeAssistant; when the call fails it may have been applied.         *)
Persist ==
    /\ at = "persist"
    /\ \/ Stored(Trim(body), parsed.citations) /\ at' = "usage" /\ UNCHANGED <<code, faults, broken>>
       \/ /\ DatabaseFails
          /\ Stored(Trim(body), parsed.citations) \/ UNCHANGED msg
          /\ Throw("INTERNAL")
    /\ UNCHANGED <<call, reply, promise, wire, traces, usages, streamVars, parsed, sse>>

(* The usage of the stream, if there is one, and the end of the events.     *)
Complete ==
    /\ at = "usage" /\ promise # "none"
    /\ Write((IF parsed.citations = <<>> THEN <<>> ELSE <<"citations">>)
             \o (IF promise = "resolved" THEN <<"usage">> ELSE <<>>)
             \o <<"completed">>)
    /\ at' = "done"
    /\ UNCHANGED <<gatewayVars, streamVars, code, parsed, msg, broken>>

(* failAssistant *)
Marked == [msg EXCEPT !.status = "failed"]

(* The catch block: the message is marked, if the database lets it be, and  *)
(* the reader told.                                                         *)
Fail ==
    /\ at = "mark"
    /\ \/ msg' = Marked /\ UNCHANGED <<faults, broken>>
       \/ DatabaseFails /\ (msg' = Marked \/ UNCHANGED msg)
    /\ Write(<<"failed">>)
    /\ at' = "done"
    /\ UNCHANGED <<call, reply, promise, wire, traces, usages, streamVars, code, parsed>>

HandlerStep ==
    \/ EmbedQuestion \/ Retrieved \/ Refuse \/ Ask \/ Called
    \/ TakeDelta \/ ReadTail \/ MarkerMissing \/ ReadFails
    \/ Validate \/ Persist \/ Complete \/ Fail

AnsweringNext ==
    \/ Summarize \/ Submit \/ HandlerStep \/ AskFails
    \/ GatewayStep /\ UNCHANGED <<streamVars, handlerVars>>

AnsweringSpec == AnsweringInit /\ [][AnsweringNext]_answeringVars

(* The processes run, and a provider ends or breaks each stream in the end  *)
(* (the SDK's timeout); nobody owes a question.                             *)
AnsweringFairness ==
    /\ WF_answeringVars(HandlerStep)
    /\ WF_answeringVars(GatewayStep /\ UNCHANGED <<streamVars, handlerVars>>)

-----------------------------------------------------------------------------
\* Properties

(* A stored answer is the whole text before the marker and cites chunks of  *)
(* the document asked about, some exactly when it claims evidence ("全部通过   *)
(* 才允许落库", ADR-007), although deltas went out before it was checked.      *)
StoredAnswerIsSound ==
    msg.status = "completed" /\ wire # "closed" =>
        /\ Positions(sent) # {}
        /\ msg.text = Trim(SubSeq(sent, 1, FirstMarker(sent) - 1))
        /\ \A i \in DOMAIN msg.citations : msg.citations[i].source \in OwnSources
        /\ (msg.citations = <<>>) = parsed.insufficientEvidence

(* The last event tells what became of the message: completed only for a    *)
(* stored answer, failed only for a message marked failed, unless the       *)
(* database failed on the way.                                              *)
LastEventTrue ==
    at = "done" /\ ~broken =>
        /\ sse[Len(sse)] \in {"completed", "failed"}
        /\ sse[Len(sse)] = msg.status

(* A completed message was never announced as failed, and nothing follows   *)
(* the event that ends the stream (rag.md 22.3).                             *)
EndIsEnd ==
    [][\A i \in DOMAIN sse : sse[i] \in {"completed", "failed"} => UNCHANGED <<sse, msg>>]_answeringVars

(* Each question ends with one of the two final events, whatever the        *)
(* provider, the hooks and the database do.                                  *)
EventuallyTold == at = "retrieve" ~> at = "done"

(* A stream that was opened is traced even if its answer is rejected and    *)
(* nobody awaits its usage.                                                  *)
EventuallyTraced == wire = "open" ~> traces # <<>>

(* What the reader is shown, what is stored and what is recorded are right   *)
(* together at every moment of a call, whatever the cuts of the stream and   *)
(* whichever hook, provider or database call fails.                          *)
AnswerSound ==
    /\ AnsweringTypeOK
    /\ ShownIsAnswer /\ HeldIsMarkerStart
    /\ TracedOnce /\ UsageOfSuccess
    /\ StoredAnswerIsSound

(* The events tell what becomes of the message, and the last one stands.     *)
EventsTellOutcome == []LastEventTrue /\ EndIsEnd
=============================================================================
