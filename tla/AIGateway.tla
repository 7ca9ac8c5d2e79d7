------------------------------ MODULE AIGateway ------------------------------
(***************************************************************************)
(* One call of the AI gateway: route, quota hook, prompt, the provider's   *)
(* adapter, the usage and trace hooks, the normalised error. An embedding  *)
(* or an object is awaited; a stream is handed to the caller while usage   *)
(* and trace hang on the promise of its final message.                     *)
(***************************************************************************)
EXTENDS Naturals, Sequences

CONSTANTS
    QuotaHook,  \* checkQuota is wired (the applications wire none)
    MaxFaults   \* bound: failing hooks, provider failures and database errors

ASSUME AIGatewayAssumption == QuotaHook \in BOOLEAN /\ MaxFaults \in Nat

VARIABLES
    call,       \* the call: where it is, its kind, its wiring and its error code
    reply,      \* what the caller was given: "none", "value", an AI_* code or "Error"
    promise,    \* the usage promise of a stream
    wire,       \* the connection of a stream: "closed", "open", or how it ended
    traces,     \* history: ok flags of the traces handed to recordTrace
    usages,     \* history: usages handed to recordUsage
    faults      \* failures so far

gatewayVars == <<call, reply, promise, wire, traces, usages, faults>>

Kinds == {"object", "embed", "stream"}

(* A capability without a route, without its prompt, or with a provider     *)
(* nobody registered is an error of the wiring.                             *)
Wirings == {"complete", "noRoute", "noPrompt", "noAdapter"}

(* Errors of the SDK and of fetch, as far as the adapters tell them apart.  *)
RawErrors == {"RateLimit", "Timeout", "TooLarge", "Api"}

\* toAIError of both adapters and normalizeAIError
AICode(raw) ==
    CASE raw = "RateLimit" -> "AI_RATE_LIMITED"
      [] raw = "Timeout" -> "AI_TIMEOUT"
      [] raw = "TooLarge" -> "AI_CONTEXT_TOO_LARGE"
      [] raw = "Api" -> "AI_PROVIDER_UNAVAILABLE"

AICodes == {AICode(raw) : raw \in RawErrors}
           \cup {"AI_INVALID_RESPONSE", "AI_CONTENT_BLOCKED", "AI_QUOTA_EXCEEDED"}

Stops == {"end_turn", "max_tokens", "refusal"}

(* assertNotTruncatedOrRefused; "none" when the message is whole.           *)
StopCode(stop) ==
    CASE stop = "refusal" -> "AI_CONTENT_BLOCKED"
      [] stop = "max_tokens" -> "AI_INVALID_RESPONSE"
      [] stop = "end_turn" -> "none"

Stages == {"idle", "quota", "prompt", "provider", "streaming", "usage", "trace", "failure"}
NoCall == [at |-> "idle", kind |-> "embed", wiring |-> "complete", code |-> "none"]

GatewayTypeOK ==
    /\ call \in [at : Stages, kind : Kinds, wiring : Wirings, code : {"none"} \cup AICodes]
    /\ reply \in {"none", "value", "Error"} \cup AICodes
    /\ promise \in {"none", "resolved", "rejected"}
    /\ wire \in {"closed", "open"} \cup Stops \cup AICodes
    /\ traces \in Seq(BOOLEAN)
    /\ usages \in Nat
    /\ faults \in 0..MaxFaults

GatewayInit ==
    /\ call = NoCall
    /\ reply = "none"
    /\ promise = "none"
    /\ wire = "closed"
    /\ traces = <<>>
    /\ usages = 0
    /\ faults = 0

Fault == faults < MaxFaults /\ faults' = faults + 1

Goto(l) == call' = [call EXCEPT !.at = l]
Failed(code) ==
    call' = [at |-> "failure", kind |-> call.kind, wiring |-> call.wiring, code |-> code]

(* The call is over: its caller, or who awaits the usage of a stream, is    *)
(* told.                                                                    *)
Finish(r) ==
    /\ call' = NoCall
    /\ IF wire = "closed"
       THEN reply' = r /\ UNCHANGED promise
       ELSE promise' = (IF r = "value" THEN "resolved" ELSE "rejected") /\ UNCHANGED reply

(* resolveRoute *)
Call(kind, wiring) ==
    /\ call.at = "idle"
    /\ IF wiring = "noRoute"
       THEN call' = NoCall /\ reply' = "Error"
       ELSE /\ call' = [at |-> "quota", kind |-> kind, wiring |-> wiring, code |-> "none"]
            /\ reply' = "none"
    /\ promise' = "none"
    /\ wire' = "closed"
    /\ traces' = <<>>
    /\ usages' = 0
    /\ UNCHANGED faults

(* checkQuota *)
CheckQuota ==
    /\ call.at = "quota"
    /\ \/ Goto(IF call.kind = "embed" THEN "provider" ELSE "prompt") /\ UNCHANGED <<reply, promise>>
       \/ QuotaHook /\ Finish("AI_QUOTA_EXCEEDED")
    /\ UNCHANGED <<wire, traces, usages, faults>>

(* prompts.resolve *)
ResolvePrompt ==
    /\ call.at = "prompt"
    /\ IF call.wiring = "noPrompt"
       THEN Finish("Error")
       ELSE Goto("provider") /\ UNCHANGED <<reply, promise>>
    /\ UNCHANGED <<wire, traces, usages, faults>>

(* The adapter throws, or there is none: inside the try block of each kind. *)
ProviderFails ==
    /\ call.at = "provider"
    /\ \/ call.wiring = "noAdapter" /\ Failed("AI_PROVIDER_UNAVAILABLE") /\ UNCHANGED faults
       \/ call.wiring # "noAdapter" /\ Fault /\ \E raw \in RawErrors : Failed(AICode(raw))
    /\ UNCHANGED <<reply, promise, wire, traces, usages>>

(* The whole message arrives; its text need not be JSON of the schema.      *)
GenerateObject ==
    /\ call.at = "provider" /\ call.kind = "object" /\ call.wiring # "noAdapter"
    /\ \E stop \in Stops, fits \in BOOLEAN :
         \/ StopCode(stop) # "none" /\ Failed(StopCode(stop))
         \/ StopCode(stop) = "none" /\ ~fits /\ Failed("AI_INVALID_RESPONSE")
         \/ StopCode(stop) = "none" /\ fits /\ Goto("usage")
    /\ UNCHANGED <<reply, promise, wire, traces, usages, faults>>

(* As many vectors as texts, or not.                                        *)
Embed ==
    /\ call.at = "provider" /\ call.kind = "embed" /\ call.wiring # "noAdapter"
    /\ Goto("usage") \/ Failed("AI_INVALID_RESPONSE")
    /\ UNCHANGED <<reply, promise, wire, traces, usages, faults>>

(* The caller of streamText is given the stream and the promise of usage.   *)
OpenStream ==
    /\ call.at = "provider" /\ call.kind = "stream" /\ call.wiring # "noAdapter"
    /\ Goto("streaming")
    /\ reply' = "value"
    /\ wire' = "open"
    /\ UNCHANGED <<promise, traces, usages, faults>>

(* The provider ends the stream, or the connection breaks.                  *)
CloseWire ==
    /\ wire = "open"
    /\ \/ wire' \in Stops /\ UNCHANGED faults
       \/ Fault /\ wire' \in {AICode(raw) : raw \in RawErrors}
    /\ UNCHANGED <<call, reply, promise, traces, usages>>

(* finalMessage() settles, whatever became of the reader of the text.       *)
FinalMessage ==
    /\ call.at = "streaming"
    /\ wire # "open"
    /\ LET code == IF wire \in Stops THEN StopCode(wire) ELSE wire
       IN  IF code = "none" THEN Goto("usage") ELSE Failed(code)
    /\ UNCHANGED <<reply, promise, wire, traces, usages, faults>>

-----------------------------------------------------------------------------
\* The hooks, of a call that is awaited and of the promise of a stream alike

(* record(): a hook that throws is logged, and the call goes on.            *)
Hook(then) == then /\ (UNCHANGED faults \/ Fault)

RecordUsage ==
    /\ call.at = "usage"
    /\ usages' = usages + 1
    /\ Hook(Goto("trace") /\ UNCHANGED <<reply, promise>>)
    /\ UNCHANGED <<wire, traces>>

RecordTrace ==
    /\ call.at = "trace"
    /\ traces' = Append(traces, TRUE)
    /\ Hook(Finish("value"))
    /\ UNCHANGED <<wire, usages>>

(* The catch block: a failed trace without usage, then the AI_* error.      *)
RecordFailure ==
    /\ call.at = "failure"
    /\ traces' = Append(traces, FALSE)
    /\ Hook(Finish(call.code))
    /\ UNCHANGED <<wire, usages>>

GatewayStep ==
    \/ CheckQuota \/ ResolvePrompt \/ ProviderFails \/ GenerateObject \/ Embed \/ OpenStream
    \/ CloseWire \/ FinalMessage \/ RecordUsage \/ RecordTrace \/ RecordFailure

-----------------------------------------------------------------------------
\* Properties

(* A call that reached its provider is traced exactly once when it is over,  *)
(* as what it was: failing hooks neither repeat nor falsify it ("记录失败不    *)
(* 反噬业务调用"), and a stream nobody awaits the usage of is traced too.     *)
TracedOnce ==
    /\ Len(traces) <= 1
    /\ call.at = "idle" /\ traces # <<>> =>
         traces[1] = (IF wire = "closed" THEN reply = "value" ELSE promise = "resolved")
    /\ call.at = "idle" /\ (reply = "value" \/ promise # "none") => traces # <<>>

(* Usage is counted once and for calls that succeeded only.                  *)
UsageOfSuccess ==
    /\ usages <= 1
    /\ call.at = "idle" => (usages = 1) = (traces = <<TRUE>>)
=============================================================================
