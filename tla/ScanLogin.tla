------------------------------ MODULE ScanLogin ------------------------------
(***************************************************************************)
(* Signing a browser tab in by scanning its code with a signed-in phone.   *)
(* The tab fetches a device code, polls for its token and exchanges the    *)
(* token for a cookie; a phone claims the code, then approves or denies.   *)
(* The device-authorization endpoints belong to better-auth: what they     *)
(* answer is taken from how the clients and the ADR use them.              *)
(*   apps/web/features/scan-login, apps/ios/.../ScanLogin,                 *)
(*   packages/auth/src/scan-login-cookie.ts                                *)
(***************************************************************************)
EXTENDS Naturals, Sequences, FiniteSets

CONSTANTS
    Phones,    \* signed-in phones, each of a user of its own
    Nobody,    \* no user
    MaxTurns   \* bound on the codes and the scanner views after the first, and on
               \* lost calls, reloads and sheets closed half-way, all together

ASSUME ScanAssumption == {Nobody, "tab"} \cap Phones = {} /\ MaxTurns \in Nat

VARIABLES
    tab,      \* what the page shows, its generation and its code
    cookie,   \* the session the browser's cookie names, 0 for none
    scanner,  \* the scanner view of each phone
    calls,    \* requests under way and answers on their way back
    device,   \* the device_code rows
    sessions, \* every session created, in order
    mishaps,  \* lost calls, reloads and closed sheets so far
    turns     \* what MaxTurns bounds

scanVars == <<tab, cookie, scanner, calls, device, sessions, mishaps, turns>>

Codes == 1..(MaxTurns + 1)
RowStatuses == {"absent", "pending", "approved", "denied"}
Finals == {"approved", "denied", "expired", "error"}
Phases == {"scanning", "working", "confirming", "approved", "denied", "failed"}

NoRow == [status |-> "absent", user |-> Nobody, by |-> Nobody, expired |-> FALSE]
Fresh == [status |-> "pending", user |-> Nobody, by |-> Nobody, expired |-> FALSE]

ScanInit ==
    /\ tab = [gen |-> 0, status |-> "closed", code |-> 0]
    /\ cookie = 0
    /\ scanner = [p \in Phones |-> [view |-> 1, phase |-> "scanning", code |-> 0]]
    /\ calls = {}
    /\ device = [c \in Codes |-> NoRow]
    /\ sessions = <<>>
    /\ mishaps = 0 /\ turns = 0

Turn == turns < MaxTurns /\ turns' = turns + 1

-----------------------------------------------------------------------------
\* The server

Pending(c) == device[c].status = "pending" /\ ~device[c].expired
Known(c) == device[c].status # "absent" /\ ~device[c].expired

(* Calls carry who made them (a tab's generation or a phone's view), what   *)
(* they ask and about which code or session.                                *)
Ask(who, view, kind, of) == [who |-> who, view |-> view, kind |-> kind, of |-> of, answer |-> "none"]
Answered(r, a) == (calls \ {r}) \union {[r EXCEPT !.answer = a]}
Listens(r) == r.view = IF r.who = "tab" THEN tab.gen ELSE scanner[r.who].view
Replies(r, a) == calls' = IF Listens(r) THEN Answered(r, a) ELSE calls \ {r}
\* Mutant: what the last generation of the page asked is not told apart.
UnheardKept(who) == {r \in calls : r.who # who \/ who = "tab" \/ r.answer = "none"}

(* A view that is renewed hears no answer to what the last one asked.       *)
Unheard(who) == {r \in calls : r.who # who \/ r.answer = "none"}

(* POST /device/code: every generation of the page gets a code of its own.  *)
ServeCode(r) ==
    /\ r.kind = "code"
    /\ device' = [device EXCEPT ![r.view] = Fresh]
    /\ Replies(r, "ok")
    /\ UNCHANGED sessions

(* GET /device: a code nobody claimed is bound to the caller.               *)
ServeClaim(r) ==
    /\ r.kind = "claim"
    /\ IF Known(r.of)
       THEN /\ device' = IF device[r.of].user = Nobody THEN [device EXCEPT ![r.of].user = r.who] ELSE device
            /\ Replies(r, "ok")
       ELSE Replies(r, "failed") /\ UNCHANGED device
    /\ UNCHANGED sessions

(* POST /device/approve and /device/deny: of a pending code, by its claimant. *)
ServeDecision(r) ==
    /\ r.kind \in {"approve", "deny"}
    /\ IF Pending(r.of) /\ device[r.of].user = r.who
       THEN /\ device' = [device EXCEPT ![r.of] = [@ EXCEPT !.status = IF r.kind = "approve" THEN "approved" ELSE "denied",
                                                           !.by = r.who]]
            /\ Replies(r, "ok")
       ELSE Replies(r, "failed") /\ UNCHANGED device
    /\ UNCHANGED sessions

Forget(c) == device' = [device EXCEPT ![c] = [NoRow EXCEPT !.expired = device[c].expired]]

(* POST /device/token: a decided or expired code answers once.              *)
ServeToken(r) ==
    /\ r.kind = "token"
    /\ LET row == device[r.of]
       IN  CASE row.status = "absent" -> Replies(r, "invalid") /\ UNCHANGED <<device, sessions>>
             [] row.status # "absent" /\ row.expired -> Replies(r, "expired_token") /\ Forget(r.of) /\ UNCHANGED sessions
             [] row.status = "pending" /\ ~row.expired ->
                  Replies(r, "authorization_pending") /\ UNCHANGED <<device, sessions>>
             [] row.status = "denied" /\ ~row.expired -> Replies(r, "access_denied") /\ Forget(r.of) /\ UNCHANGED sessions
             [] row.status = "approved" /\ ~row.expired ->
                  /\ sessions' = Append(sessions, [user |-> row.user, by |-> row.by, code |-> r.of, live |-> TRUE])
                  /\ Replies(r, "data") /\ Forget(r.of)

(* POST /scan-login/adopt: a session the token finds becomes the cookie.    *)
ServeAdopt(r) ==
    /\ r.kind = "adopt"
    /\ Replies(r, IF sessions[r.of].live THEN "ok" ELSE "failed")
    /\ UNCHANGED <<device, sessions>>

ServeScan(r) ==
    /\ r.answer = "none"
    /\ ServeCode(r) \/ ServeClaim(r) \/ ServeDecision(r) \/ ServeToken(r) \/ ServeAdopt(r)
    /\ UNCHANGED <<tab, cookie, scanner, mishaps, turns>>

(* Two minutes after it was made.                                           *)
Expire ==
    /\ \E c \in Codes : Known(c) /\ device' = [device EXCEPT ![c].expired = TRUE]
    /\ UNCHANGED <<tab, cookie, scanner, calls, sessions, mishaps, turns>>

(* The settings page of the user ends any session of theirs.                *)
Revoke ==
    /\ \E i \in DOMAIN sessions : sessions[i].live /\ sessions' = [sessions EXCEPT ![i].live = FALSE]
    /\ UNCHANGED <<tab, cookie, scanner, calls, device, mishaps, turns>>

-----------------------------------------------------------------------------
\* The tab

InTouch == \E r \in calls : r.who = "tab" /\ Listens(r)

(* codeQuery: one fetch per generation.                                     *)
FetchCode ==
    /\ tab.status = "loading" /\ ~InTouch
    /\ calls' = calls \union {Ask("tab", tab.gen, "code", 0)}
    /\ UNCHANGED <<tab, cookie, scanner, device, sessions, mishaps, turns>>

(* tokenQuery: one fetch at a time, until the outcome is final.             *)
PollToken ==
    /\ tab.status = "waiting" /\ tab.code # 0 /\ ~InTouch
    /\ calls' = calls \union {Ask("tab", tab.gen, "token", tab.code)}
    /\ UNCHANGED <<tab, cookie, scanner, device, sessions, mishaps, turns>>

(* classifyPollResult.                                                      *)
Classify(answer) ==
    CASE answer = "data" -> "approved"
      [] answer = "authorization_pending" -> "waiting"
      [] answer = "access_denied" -> "denied"
      [] answer = "expired_token" -> "expired"
      [] OTHER -> "error"

TabHears(r) ==
    /\ r.who = "tab" /\ r.answer # "none"
    /\ \/ /\ r.kind = "code"
          /\ tab' = [tab EXCEPT !.status = IF r.answer = "ok" THEN "waiting" ELSE "error",
                                !.code = IF r.answer = "ok" THEN r.view ELSE 0]
          /\ calls' = calls \ {r} /\ UNCHANGED cookie
       \/ /\ r.kind = "token" /\ Classify(r.answer) # "approved"
          /\ tab' = [tab EXCEPT !.status = Classify(r.answer)]
          /\ calls' = calls \ {r} /\ UNCHANGED cookie
       \/ /\ r.kind = "token" /\ Classify(r.answer) = "approved"
          /\ \E i \in DOMAIN sessions :
               /\ sessions[i].code = r.of
               /\ calls' = (calls \ {r}) \union {Ask("tab", tab.gen, "adopt", i)}
          /\ UNCHANGED <<tab, cookie>>
       \/ /\ r.kind = "adopt"
          /\ tab' = [tab EXCEPT !.status = IF r.answer = "ok" THEN "approved" ELSE "error"]
          /\ cookie' = IF r.answer = "ok" THEN r.of ELSE cookie
          /\ calls' = calls \ {r}
    /\ UNCHANGED <<scanner, device, sessions, mishaps, turns>>

(* The states in which scan-login-view.tsx offers to renew the code.        *)
MayRenew == tab.status \in {"error", "expired", "denied"}

NewGeneration ==
    /\ tab' = [gen |-> tab.gen + 1, status |-> "loading", code |-> 0]
    /\ calls' = Unheard("tab")

(* The login page is opened.                                                *)
OpenLogin ==
    /\ tab.status = "closed"
    /\ NewGeneration
    /\ UNCHANGED <<cookie, scanner, device, sessions, mishaps, turns>>

Regenerate ==
    /\ MayRenew /\ Turn
    /\ NewGeneration
    /\ UNCHANGED <<cookie, scanner, device, sessions, mishaps>>

(* The page is loaded again: what it had asked is answered to nobody.       *)
Reload ==
    /\ tab.status \notin {"closed", "approved"} /\ Turn
    /\ NewGeneration
    /\ mishaps' = mishaps + 1
    /\ UNCHANGED <<cookie, scanner, device, sessions>>

-----------------------------------------------------------------------------
\* The phones

Say(p, kind, phase) ==
    /\ calls' = calls \union {Ask(p, scanner[p].view, kind, scanner[p].code)}
    /\ scanner' = [scanner EXCEPT ![p].phase = phase]
    /\ UNCHANGED <<tab, cookie, device, sessions, mishaps, turns>>

(* handleScan, submitManual and submit: the code on the screen is claimed.  *)
Scan(p) ==
    /\ scanner[p].phase = "scanning" /\ tab.status = "waiting" /\ tab.code # 0
    /\ calls' = calls \union {Ask(p, scanner[p].view, "claim", tab.code)}
    /\ scanner' = [scanner EXCEPT ![p] = [@ EXCEPT !.phase = "working", !.code = tab.code]]
    /\ UNCHANGED <<tab, cookie, device, sessions, mishaps, turns>>

Approve(p) == scanner[p].phase = "confirming" /\ Say(p, "approve", "working")
Cancel(p) == scanner[p].phase = "confirming" /\ Say(p, "deny", "working")

(* A denial is not asked whether it worked: try? await client.deny.         *)
PhaseAfter(kind, ok) ==
    IF kind = "deny" THEN "denied"
    ELSE IF ~ok THEN "failed"
    ELSE IF kind = "claim" THEN "confirming" ELSE "approved"

PhoneHears(r) ==
    /\ r.who \in Phones /\ r.answer # "none"
    /\ calls' = calls \ {r}
    /\ scanner' = [scanner EXCEPT ![r.who].phase = PhaseAfter(r.kind, r.answer = "ok")]
    /\ UNCHANGED <<tab, cookie, device, sessions, mishaps, turns>>

NewView(p) ==
    /\ Turn
    /\ scanner' = [scanner EXCEPT ![p] = [view |-> scanner[p].view + 1, phase |-> "scanning", code |-> 0]]
    /\ calls' = Unheard(p)
    /\ UNCHANGED <<tab, cookie, device, sessions>>

(* The view offers to scan again after a failure or a denial.               *)
Rescan(p) == scanner[p].phase \in {"failed", "denied"} /\ NewView(p) /\ UNCHANGED mishaps

(* The sheet is closed half-way; the next one has a model of its own.       *)
Close(p) ==
    /\ scanner[p].phase \in {"working", "confirming"}
    /\ NewView(p)
    /\ mishaps' = mishaps + 1

(* A request or an answer is lost: the call throws, or fails with an answer *)
(* that is none of the protocol's. A poll that throws leaves its query as   *)
(* it was, and the next one follows.                                        *)
Lose(r) ==
    /\ Turn /\ Listens(r) /\ r.answer \notin {"lost", "failed"}
    /\ mishaps' = mishaps + 1
    /\ \/ calls' = Answered(r, "lost")
       \/ r.who = "tab" /\ r.kind \in {"token", "adopt"} /\ calls' = calls \ {r}
    /\ UNCHANGED <<tab, cookie, scanner, device, sessions>>

ScanNext ==
    \/ Expire \/ Revoke
    \/ OpenLogin \/ FetchCode \/ PollToken \/ Regenerate \/ Reload
    \/ \E r \in calls : ServeScan(r) \/ TabHears(r) \/ PhoneHears(r) \/ Lose(r)
    \/ \E p \in Phones : Scan(p) \/ Approve(p) \/ Cancel(p) \/ Rescan(p) \/ Close(p)

ScanSpec == ScanInit /\ [][ScanNext]_scanVars

(* Calls are answered and heard, the tab polls on and codes run out; nobody *)
(* has to open the page, to scan or to confirm.                             *)
TabGoesOn == FetchCode \/ PollToken \/ \E r \in calls : r.who = "tab" /\ (ServeScan(r) \/ TabHears(r))
PhonesGoOn == \E r \in calls : r.who \in Phones /\ (ServeScan(r) \/ PhoneHears(r))
ScanFairness == WF_scanVars(TabGoesOn) /\ WF_scanVars(PhonesGoOn) /\ WF_scanVars(Expire)

-----------------------------------------------------------------------------
\* Properties

ScanTypeOK ==
    /\ tab \in [gen : {0} \union Codes, status : {"closed", "loading", "waiting"} \union Finals, code : 0..(MaxTurns + 1)]
    /\ cookie \in 0..Len(sessions)
    /\ scanner \in [Phones -> [view : 1..(MaxTurns + 1), phase : Phases, code : 0..(MaxTurns + 1)]]
    /\ device \in [Codes -> [status : RowStatuses, user : Phones \union {Nobody},
                             by : Phones \union {Nobody}, expired : BOOLEAN]]
    /\ turns \in 0..MaxTurns /\ mishaps \in 0..turns

(* A tab is only ever signed in as the user who confirmed, on a phone of     *)
(* theirs, the very code the tab shows.                                      *)
TabSessionApproved ==
    cookie # 0 => sessions[cookie].user = sessions[cookie].by /\ sessions[cookie].code = tab.code

(* A session that was made and that no cookie names, while nothing carries   *)
(* its token any more, is the work of a lost call, a reload or a revocation: *)
(* the token is given once, so nobody can fetch it again.                    *)
Carried(i) ==
    \/ cookie = i
    \/ \E r \in calls : /\ r.who = "tab" /\ Listens(r)
                        /\ \/ r.kind = "token" /\ r.answer = "data" /\ r.of = sessions[i].code
                           \/ r.kind = "adopt" /\ r.of = i /\ r.answer # "lost"
OrphansAreFaults == Cardinality({i \in DOMAIN sessions : sessions[i].live /\ ~Carried(i)}) <= mishaps

(* A phone that shows an approval did approve: the code is approved, was     *)
(* spent on a session of that user, or ran out before the tab asked.         *)
ApprovalIsReal ==
    \A p \in Phones : scanner[p].phase = "approved" =>
        LET c == scanner[p].code
        IN  \/ device[c].by = p \/ device[c].expired
            \/ \E i \in DOMAIN sessions : sessions[i].by = p /\ sessions[i].code = c

(* A tab that shows the code a phone has approved is signed in in the end,   *)
(* unless the code runs out first, a call is lost or the session is ended.   *)
ApprovalSignsIn ==
    []<>(\A p \in Phones : scanner[p].phase = "approved" /\ scanner[p].code = tab.code =>
            \/ tab.status \in {"approved", "expired"} \/ mishaps > 0
            \/ \E i \in DOMAIN sessions : ~sessions[i].live)

(* A page that shows a code does not show it for ever: the code is approved, *)
(* refused or runs out, and the page says so.                                *)
CodesSettle == []<>(tab.status # "waiting")

(* A phone does not stay at work: it says what became of the request.        *)
PhonesSettle == []<>(\A p \in Phones : scanner[p].phase # "working")

(* Nobody is signed in but by a confirmation of the very code, no session is *)
(* lost but by a fault, and no phone claims an approval that was none.       *)
ScanSound == ScanTypeOK /\ TabSessionApproved /\ OrphansAreFaults /\ ApprovalIsReal
=============================================================================
