----------------------------- MODULE PushDevices -----------------------------
(***************************************************************************)
(* The push token of one phone: which user the server sends its pushes to, *)
(* while users sign in and out, the app is launched and killed, the token  *)
(* changes and the worker cleans up tokens the gateway refuses.            *)
(*   apps/ios/.../PushRegistrationModel.swift, AuthClient.swift,           *)
(*   apps/android/.../AppViewModel.kt, apps/api/src/modules/push,          *)
(*   apps/worker/src/push/badge.ts                                         *)
(***************************************************************************)
EXTENDS Naturals, Sequences, FiniteSets

CONSTANTS
    Signers,        \* the people who use the phone, one sign-in after another
    Absent,         \* no user
    Platforms,      \* of "ios" and "android", those to look at
    MaxTokens,      \* bound on the tokens of the phone
    MaxMoments       \* bound on kills, new tokens, pushes, lost calls and second taps in all

Users == {Signers[i] : i \in DOMAIN Signers}

ASSUME PushAssumption ==
    /\ Signers \in Seq(Users) /\ Absent \notin Users /\ Platforms \subseteq {"ios", "android"}
    /\ MaxTokens \in Nat \ {0} /\ MaxMoments \in Nat

VARIABLES
    platform,
    phone,    \* the process: user shown, client injected, token known, permission asked
    leaving,  \* the stage of each tap on "sign out"
    stored,   \* the bearer in the keychain, 0 for none
    bearers,  \* the server's sessions: of whom, and whether they live
    token,    \* the token the gateway serves now, and whether it is refused
    rows,     \* push_devices: the user a token is bound to
    traffic,  \* requests under way and their answers
    push,     \* a push being sent: the tokens read, then those to delete
    spent,    \* what the bounds count
    excused   \* history: the ways in which a sign-out went wrong

pushVars == <<platform, phone, leaving, stored, bearers, token, rows, traffic, push, spent, excused>>

TokenIds == 1..MaxTokens
Taps == {"first", "second"}
Off == [on |-> FALSE, user |-> Absent, client |-> FALSE, known |-> 0, asked |-> "no"]
Idle == [stage |-> "idle", tokens |-> {}]

PushInit ==
    /\ platform \in Platforms
    /\ phone = [Off EXCEPT !.on = TRUE]
    /\ leaving = [t \in Taps |-> "idle"]
    /\ stored = 0 /\ bearers = <<>>
    /\ token = [id |-> 1, refused |-> FALSE, back |-> FALSE]
    /\ rows = [t \in TokenIds |-> Absent]
    /\ traffic = {}
    /\ push = Idle
    /\ spent = [events |-> 0, lost |-> FALSE]
    /\ excused = {}

Signed == phone.on /\ phone.user # Absent
Happens == spent.events < MaxMoments /\ spent' = [spent EXCEPT !.events = @ + 1]
Live(b) == b \in DOMAIN bearers /\ bearers[b].live
ToPhone(r, a) == IF r.tap \in Taps THEN (traffic \ {r}) \union {[r EXCEPT !.answer = a]} ELSE traffic \ {r}
Request(kind, t, tap) == [kind |-> kind, token |-> t, bearer |-> stored, tap |-> tap, answer |-> "none"]

-----------------------------------------------------------------------------
\* The server

(* POST /push/devices: upsertDevice moves the token to the caller.          *)
ServeRegister(r) ==
    /\ r.kind = "register"
    /\ rows' = IF Live(r.bearer) THEN [rows EXCEPT ![r.token] = bearers[r.bearer].user] ELSE rows
    /\ excused' = IF Live(r.bearer) /\ (leaving["first"] # "idle" \/ phone.user # bearers[r.bearer].user)
                  THEN excused \union {"overtaken"} ELSE excused
    /\ traffic' = traffic \ {r}
    /\ UNCHANGED bearers

\* Mutant: any user deletes the row.
DeleteByTokenOfAnyone(u, t) == [rows EXCEPT ![t] = Absent]

(* deleteByToken is limited to the caller's rows.                           *)
DeleteByToken(u, t) == IF rows[t] = u THEN [rows EXCEPT ![t] = Absent] ELSE rows

(* DELETE /push/devices/:token.                                             *)
ServeUnregister(r) ==
    /\ r.kind = "unregister"
    /\ rows' = IF Live(r.bearer) THEN DeleteByToken(bearers[r.bearer].user, r.token) ELSE rows
    /\ traffic' = ToPhone(r, "ok")
    /\ UNCHANGED <<bearers, excused>>

(* POST /api/auth/sign-out: an ended session may be refused.                *)
ServeSignOut(r) ==
    /\ r.kind = "signout"
    /\ bearers' = IF Live(r.bearer) THEN [bearers EXCEPT ![r.bearer].live = FALSE] ELSE bearers
    /\ \E a \in {"ok", "failed"} :
         /\ Live(r.bearer) => a = "ok"
         /\ traffic' = ToPhone(r, a)
    /\ UNCHANGED <<rows, excused>>

ServePhone ==
    /\ \E r \in traffic : r.answer = "none" /\ (ServeRegister(r) \/ ServeUnregister(r) \/ ServeSignOut(r))
    /\ UNCHANGED <<platform, phone, leaving, stored, token, push, spent>>

-----------------------------------------------------------------------------
\* Signing in, registering, signing out

(* registerIfReady: token and client are there. Android asks for its token  *)
(* when it needs it.                                                        *)
Registration(p, bearer) ==
    IF p.client /\ p.known # 0 /\ bearer # 0
    THEN {[kind |-> "register", token |-> p.known, bearer |-> bearer, tap |-> "none", answer |-> "none"]}
    ELSE {}

(* The user is shown in; activate injects the client, asks for permission   *)
(* once per process and registers.                                          *)
Activated(u, bearer) ==
    /\ phone' = [on |-> TRUE, user |-> u, client |-> TRUE,
                 known |-> IF platform = "android" THEN token.id ELSE phone.known,
                 asked |-> IF phone.asked = "no" /\ platform = "ios" THEN "asked" ELSE phone.asked]
    /\ traffic' = traffic \union Registration(phone', bearer)

(* bearerSignIn: the token of a new session is stored.                      *)
SignIn ==
    /\ phone.on /\ phone.user = Absent /\ Len(bearers) < Len(Signers)
    /\ bearers' = Append(bearers, [user |-> Signers[Len(bearers) + 1], live |-> TRUE])
    /\ stored' = Len(bearers) + 1
    /\ Activated(Signers[Len(bearers) + 1], Len(bearers) + 1)
    /\ UNCHANGED <<platform, leaving, token, rows, push, spent, excused>>

(* APNs hands over its token: updateDeviceToken.                            *)
TokenArrives ==
    /\ phone.on /\ phone.asked = "asked"
    /\ phone' = [[phone EXCEPT !.known = token.id] EXCEPT !.asked = "answered"]
    /\ traffic' = traffic \union Registration(phone', stored)
    /\ UNCHANGED <<platform, leaving, stored, bearers, token, rows, push, spent, excused>>

(* loginModel.signOut: the call, if a bearer is stored.                     *)
EndSession(tap, base) ==
    /\ traffic' = base \union (IF stored = 0 THEN {} ELSE {Request("signout", 0, tap)})
    /\ leaving' = [leaving EXCEPT ![tap] = IF stored = 0 THEN "idle" ELSE "signout"]

(* deactivate: only iOS unregisters, a token it knows, with its client.     *)
UnregistersFirst == platform = "ios" /\ phone.client /\ phone.known # 0

Unknown == IF phone.known # token.id THEN {"unknown"} ELSE {}

(* A tap on "sign out"; the button stays while the first is under way.      *)
SignOut(tap) ==
    /\ Signed /\ leaving[tap] = "idle"
    /\ IF tap = "first" THEN UNCHANGED spent ELSE leaving["first"] # "idle" /\ Happens
    /\ IF UnregistersFirst
       THEN /\ traffic' = traffic \union {Request("unregister", phone.known, tap)}
            /\ leaving' = [leaving EXCEPT ![tap] = "unregister"]
            /\ phone' = [phone EXCEPT !.client = FALSE]
            /\ UNCHANGED excused
       ELSE /\ EndSession(tap, traffic)
            /\ phone' = [[phone EXCEPT !.client = (platform = "android")]
                              EXCEPT !.user = IF stored = 0 THEN Absent ELSE phone.user]
            /\ excused' = excused \union (IF tap = "second" THEN {"tapped"} ELSE {}) \union Unknown
    /\ UNCHANGED <<platform, stored, bearers, token, rows, push>>

(* try? await unregister: whatever came of it, the session is ended next.   *)
HearUnregistered(r) ==
    /\ r.kind = "unregister" /\ r.tap \in Taps /\ r.answer # "none" /\ leaving[r.tap] = "unregister"
    /\ EndSession(r.tap, traffic \ {r})
    /\ phone' = [phone EXCEPT !.user = IF stored = 0 THEN Absent ELSE phone.user]
    /\ excused' = excused \union Unknown
    /\ UNCHANGED <<platform, stored, bearers, token, rows, push, spent>>

(* The user is shown out in any case; iOS keeps the bearer when the call    *)
(* failed, Android never.                                                   *)
HearSignedOut(r) ==
    /\ r.kind = "signout" /\ r.tap \in Taps /\ r.answer # "none" /\ leaving[r.tap] = "signout"
    /\ stored' = IF r.answer = "ok" \/ platform = "android" THEN 0 ELSE stored
    /\ phone' = [phone EXCEPT !.user = Absent]
    /\ leaving' = [leaving EXCEPT ![r.tap] = "idle"]
    /\ traffic' = traffic \ {r}
    /\ UNCHANGED <<platform, bearers, token, rows, push, spent, excused>>

-----------------------------------------------------------------------------
\* The process, the token and the network

Kill ==
    /\ phone.on /\ Happens
    /\ phone' = Off
    /\ leaving' = [t \in Taps |-> "idle"]
    /\ traffic' = {[r EXCEPT !.tap = "none"] : r \in {q \in traffic : q.answer = "none"}}
    /\ excused' = excused \union (IF leaving["first"] # "idle" THEN {"killed"} ELSE {})
    /\ UNCHANGED <<platform, stored, bearers, token, rows, push>>

(* restore: a stored bearer that lives signs in, one that is refused is     *)
(* deleted; the token is served again.                                      *)
Launch ==
    /\ ~phone.on
    /\ token' = [id |-> token.id, refused |-> FALSE, back |-> token.back \/ token.refused]
    /\ \/ Live(stored) /\ Activated(bearers[stored].user, stored) /\ UNCHANGED stored
       \/ ~Live(stored) /\ phone' = [Off EXCEPT !.on = TRUE] /\ stored' = 0 /\ UNCHANGED traffic
    /\ UNCHANGED <<platform, leaving, bearers, rows, push, spent, excused>>

(* The gateway takes the token for gone while the app is not running.       *)
Lapse ==
    /\ ~phone.on /\ ~token.refused
    /\ token' = [token EXCEPT !.refused = TRUE]
    /\ UNCHANGED <<platform, phone, leaving, stored, bearers, rows, traffic, push, spent, excused>>

(* The system replaces the token: onNewToken registers it if a bearer is    *)
(* stored, APNs tells the app at its next launch.                           *)
Rotate ==
    /\ token.id < MaxTokens /\ Happens
    /\ token' = [id |-> token.id + 1, refused |-> FALSE, back |-> FALSE]
    /\ traffic' = traffic \union
         (IF platform = "android" /\ stored # 0 THEN {Request("register", token.id + 1, "none")} ELSE {})
    /\ UNCHANGED <<platform, phone, leaving, stored, bearers, rows, push, excused>>

(* The app gives up on a request, which may still be under way, or never    *)
(* hears the answer.                                                        *)
LoseCall(r) ==
    /\ spent.events < MaxMoments
    /\ spent' = [events |-> spent.events + 1, lost |-> TRUE]
    /\ \/ traffic' = ToPhone(r, "failed")
       \/ r.answer = "none" /\ r.tap \in Taps /\ traffic' = ToPhone(r, "failed") \union {[r EXCEPT !.tap = "none"]}
    /\ UNCHANGED <<platform, phone, leaving, stored, bearers, token, rows, push, excused>>

-----------------------------------------------------------------------------
\* The worker

(* listDevicesByUserId for the recipient of a notification.                 *)
ReadDevices(u) ==
    /\ push.stage = "idle" /\ Happens
    /\ {t \in TokenIds : rows[t] = u} # {}
    /\ push' = [stage |-> "sending", tokens |-> {t \in TokenIds : rows[t] = u}]
    /\ UNCHANGED <<platform, phone, leaving, stored, bearers, token, rows, traffic, excused>>

Refused(t) == t # token.id \/ token.refused

(* isUnregisteredToken: 410 or a reason that names the token.               *)
IsUnregistered(t, busy) == Refused(t)

(* sendToDevices: each token in turn, an overloaded gateway included.       *)
SendToDevices ==
    /\ push.stage = "sending"
    /\ \E busy \in BOOLEAN :
         push' = [stage |-> "cleaning", tokens |-> {t \in push.tokens : IsUnregistered(t, busy)}]
    /\ UNCHANGED <<platform, phone, leaving, stored, bearers, token, rows, traffic, spent, excused>>

(* deleteInvalidTokens: whoever the token is bound to by now.               *)
DeleteInvalid ==
    /\ push.stage = "cleaning"
    /\ rows' = [t \in TokenIds |-> IF t \in push.tokens THEN Absent ELSE rows[t]]
    /\ push' = Idle
    /\ UNCHANGED <<platform, phone, leaving, stored, bearers, token, traffic, spent, excused>>

PushNext ==
    \/ ServePhone \/ TokenArrives
    \/ SignIn \/ \E u \in Users : ReadDevices(u)
    \/ \E t \in Taps : SignOut(t)
    \/ \E r \in traffic : HearUnregistered(r) \/ HearSignedOut(r) \/ LoseCall(r)
    \/ Kill \/ Launch \/ Lapse \/ Rotate
    \/ SendToDevices \/ DeleteInvalid

PushSpec == PushInit /\ [][PushNext]_pushVars

(* The server and the app go on with what they have begun; nobody has to    *)
(* sign in or out, the worker has nothing to do with what is promised.      *)
AppGoesOn == TokenArrives \/ \E r \in traffic : HearUnregistered(r) \/ HearSignedOut(r)
PushFairness == WF_pushVars(ServePhone) /\ WF_pushVars(AppGoesOn)

-----------------------------------------------------------------------------
\* Properties

PushTypeOK ==
    /\ phone \in [on : BOOLEAN, user : Users \union {Absent}, client : BOOLEAN,
                  known : 0..MaxTokens, asked : {"no", "asked", "answered"}]
    /\ stored \in 0..Len(bearers)
    /\ token \in [id : TokenIds, refused : BOOLEAN, back : BOOLEAN]
    /\ rows \in [TokenIds -> Users \union {Absent}]
    /\ push.tokens \subseteq TokenIds
    /\ excused \subseteq {"overtaken", "tapped", "unknown", "killed"}

Bound == Signed /\ phone.known = token.id /\ rows[token.id] = phone.user
Astray(reasons) == reasons \intersect {"overtaken", "tapped", "killed"} # {}
Settled == \A t \in Taps : leaving[t] = "idle"

(* Their own unregistration that the phone gave up on, served after all.     *)
ComesLate(r) ==
    r.kind = "unregister" /\ r.tap = "none" /\ Live(r.bearer) /\ bearers[r.bearer].user = phone.user

(* As long as a user stays signed in, nothing that arrives late takes the    *)
(* phone away from them: no unregistration of an earlier user and no         *)
(* clean-up, but for a token the gateway had refused and serves again; only  *)
(* a registration that overtook its user's sign-out does, a sign-out that    *)
(* was cut short or tapped twice, or their own unregistration that comes     *)
(* late.                                                                     *)
RowsStay ==
    [][(Bound /\ Settled /\ Signed' /\ phone'.user = phone.user /\ Settled' /\ token'.id = token.id)
         => \/ rows'[token.id] = phone.user
            \/ token.back \/ Astray(excused') \/ \E r \in traffic \ traffic' : ComesLate(r)]_pushVars

(* A phone that is signed out gets no pushes any more, unless a call was     *)
(* lost or a registration overtook, the button was tapped twice, the app     *)
(* was killed half-way or did not know its token yet. (iOS only: Android     *)
(* never unregisters.)                                                       *)
SilentWhenSignedOut ==
    (platform = "ios" /\ phone.on /\ ~Signed /\ ~spent.lost /\ excused = {}) => rows[token.id] = Absent

(* Whoever is signed in gets their pushes on this phone, whichever of the    *)
(* session and the token comes first, as long as the session lives, unless an  *)
(* earlier sign-out was cut short or a token refused came back.              *)
SignedInIsRegistered ==
    []<>(Signed /\ Settled =>
            Bound \/ Astray(excused) \/ ~Live(stored) \/ spent.lost \/ token.back \/ phone.known \notin {0, token.id})

(* A phone's row is its user's as long as they stay, and gone when they left.*)
PushSound == []PushTypeOK /\ []SilentWhenSignedOut /\ RowsStay
=============================================================================
