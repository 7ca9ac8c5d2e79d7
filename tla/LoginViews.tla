----------------------------- MODULE LoginViews -----------------------------
(***************************************************************************)
(* The login screen of the browser, of the iPhone and of Android, and what *)
(* the API does when somebody signs in. A person types an address and then *)
(* a code or a password, or signs in with Google or Apple; answers come    *)
(* while the person goes on typing, goes back or chooses another way.      *)
(*   apps/web/features/auth/use-login.ts, apps/web/app/login,              *)
(*   apps/ios/.../Features/Authentication, Core/Auth/AuthClient.swift,     *)
(*   apps/android/.../AppViewModel.kt, ui/DocPilotApp.kt,                  *)
(*   packages/auth/src                                                     *)
(***************************************************************************)
EXTENDS Naturals, FiniteSets

CONSTANTS
    Apps,       \* of "web", "ios" and "android", those to look at
    Addresses,  \* the addresses a person may type or sign in with elsewhere
    Registered,      \* those with an account and a password from earlier
    NoAddress,
    MaxLogins   \* bounds on calls, on edits of the address, and on the ways, sign-outs and restarts

ASSUME LoginAssumption ==
    /\ Apps \subseteq {"web", "ios", "android"} /\ Registered \subseteq Addresses /\ NoAddress \notin Addresses
    /\ (Addresses \union {NoAddress}) \intersect {"none", "failed", "unauthorized"} = {}
    /\ MaxLogins \in [{"calls", "edits", "turns"} -> Nat]

VARIABLES
    app,
    screen,   \* the form: way, step, address, whether the code and the password are filled in, and busy
    typed,      \* the iPhone: a task is to submit the code that was filled in
    requests, \* calls of the app under way
    bearer,   \* whose session the cookie or the stored token is of
    session,  \* whose session the app shows
    server,   \* users, those with a workspace or a password, codes made and still good
    used,     \* what the bounds count
    odd       \* history: a form edited behind a code, a hook that failed, sign-ins side by side

loginVars == <<app, screen, typed, requests, bearer, session, server, used, odd>>

Form == [way |-> "otp", step |-> "email", address |-> NoAddress, code |-> FALSE, word |-> FALSE, busy |-> FALSE]
SignInKinds == {"code", "password", "signup", "google", "apple"}

LoginInit ==
    /\ app \in Apps
    /\ screen = Form /\ typed = FALSE /\ requests = {}
    /\ bearer = NoAddress /\ session = NoAddress
    /\ server = [users |-> Registered, homes |-> Registered, passwords |-> Registered, made |-> {}, codes |-> {}]
    /\ used = [k \in {"calls", "edits", "turns"} |-> 0]
    /\ odd = {}

Use(what) == used[what] < MaxLogins[what] /\ used' = [used EXCEPT ![what] = @ + 1]
Restoring == \E c \in requests : c.kind = "restore"
SigningIn == \E c \in requests : c.kind \in SignInKinds

(* RootView, DocPilotApp: who is signed in sees no form, and Android shows   *)
(* none before it has looked for a session. A sheet covers the form; a task *)
(* that is to submit a code runs before any page or sheet could open.       *)
Shown ==
    /\ session = NoAddress /\ (app = "android" => ~Restoring)
    /\ ~typed /\ ~\E c \in requests : c.at = "sheet"
OnCodePage == session = NoAddress /\ app = "ios" /\ screen.step = "code"

-----------------------------------------------------------------------------
\* The API

(* createPersonalWorkspace, one transaction: workspace, membership, profile.*)
CreatePersonalWorkspace(a) == server.homes \union {a}

(* user.create.after runs when the user is already there; if it fails the   *)
(* sign-in fails, but not the next one, which finds the user.               *)
Admit(a, changes) ==
    \/ a \in server.users /\ server' = changes /\ UNCHANGED odd
    \/ /\ a \notin server.users
       /\ server' = [[changes EXCEPT !.users = @ \union {a}] EXCEPT !.homes = CreatePersonalWorkspace(a)]
       /\ UNCHANGED odd

HookFails(a, changes) ==
    /\ a \notin server.users
    /\ server' = [changes EXCEPT !.users = @ \union {a}]
    /\ odd' = odd \union {"hook"}

(* Which sign-ins can be right, and what a right one uses up or leaves.     *)
Right(c) ==
    CASE c.kind = "code" -> c.for \in server.codes
      [] c.kind = "password" -> c.for \in server.passwords
      [] c.kind = "signup" -> c.for \notin server.users
      [] OTHER -> TRUE
Changes(c) ==
    CASE c.kind = "code" -> [server EXCEPT !.codes = @ \ {c.for}]
      [] c.kind = "signup" -> [server EXCEPT !.passwords = @ \union {c.for}]
      [] OTHER -> server

Replied(c, answer) == requests' = (requests \ {c}) \union {[[c EXCEPT !.at = "answered"] EXCEPT !.answer = answer]}

(* A code is made and mailed; that the mail failed is logged, not told.     *)
ServeSend(c) ==
    /\ c.kind \in {"send", "resend"}
    /\ server' = [[server EXCEPT !.made = @ \union {c.for}] EXCEPT !.codes = @ \union {c.for}]
    /\ Replied(c, c.for)
    /\ UNCHANGED odd

ServeSignIn(c) ==
    /\ c.kind \in SignInKinds /\ Right(c)
    /\ \/ Admit(c.for, Changes(c)) /\ Replied(c, c.for)
       \/ HookFails(c.for, Changes(c)) /\ Replied(c, "failed")

(* What is mistyped, limited or broken.                                     *)
RefuseLogin(c) == Replied(c, "failed") /\ UNCHANGED <<server, odd>>

(* GET /api/auth/get-session with the token that is stored.                 *)
ServeSession(c) ==
    /\ \E answer \in {bearer, "unauthorized", "failed"} :
         requests' = (requests \ {c}) \union {[[c EXCEPT !.at = "told"] EXCEPT !.answer = answer]}
    /\ UNCHANGED <<server, odd>>

ServeLogin ==
    /\ \E c \in requests :
         \/ c.at = "asked" /\ (ServeSend(c) \/ ServeSignIn(c) \/ RefuseLogin(c))
         \/ c.at = "session" /\ ServeSession(c)
    /\ UNCHANGED <<app, screen, typed, bearer, session, used>>

-----------------------------------------------------------------------------
\* The form

(* Where the address can be typed. The browser locks it beside the code     *)
(* only, the iPhone whenever a call is under way, Android never.            *)
AddressField ==
    CASE app = "web" -> ~(screen.way = "otp" /\ screen.step = "code")
      [] app = "ios" -> screen.step = "email" /\ ~screen.busy
      [] OTHER -> TRUE

TypeAddress ==
    /\ Shown /\ AddressField /\ Use("edits")
    /\ \E a \in Addresses \ {screen.address} : screen' = [screen EXCEPT !.address = a]
    /\ odd' = IF screen.step = "code" \/ \E c \in requests : c.kind = "send"
              THEN odd \union {"edited"} ELSE odd
    /\ UNCHANGED <<app, typed, requests, bearer, session, server>>

(* On the iPhone the code has a page of its own.                            *)
WordField == screen.way = "password" /\ (app = "ios" => screen.step = "email")
CodeField == screen.step = "code" /\ (app = "ios" \/ screen.way = "otp")

(* The sixth digit submits the code on the iPhone, in a task.               *)
FillIn ==
    /\ Shown /\ (app = "ios" => ~screen.busy)
    /\ \/ CodeField /\ ~screen.code /\ screen' = [screen EXCEPT !.code = TRUE] /\ typed' = (app = "ios")
       \/ WordField /\ ~screen.word /\ screen' = [screen EXCEPT !.word = TRUE] /\ UNCHANGED typed
    /\ UNCHANGED <<app, requests, bearer, session, server, used, odd>>

LoginCall(kind, for, at) == [n |-> used["calls"], kind |-> kind, for |-> for, at |-> at, answer |-> "none"]

(* setBusy, isSubmitting or run: a call starts.                             *)
Start(kind, for, at) ==
    /\ Use("calls")
    /\ requests' = requests \union {LoginCall(kind, for, at)}
    /\ odd' = IF kind \in SignInKinds /\ SigningIn THEN odd \union {"overlap"} ELSE odd
    /\ UNCHANGED <<app, bearer, session, server>>

(* What the main button does: onSubmit, primarySubmit, onClick.             *)
Pressed ==
    IF WordField THEN {"password"} \union (IF app = "web" THEN {"signup"} ELSE {})
    ELSE IF CodeField THEN {"code"} ELSE {"send"}
Filled == IF WordField THEN screen.word ELSE CodeField => screen.code

\* Mutant: the button waits for nothing.
EnabledAtOnce == screen.address # NoAddress /\ (Filled \/ app = "android")

(* canSubmit, canSignInWithPassword, disabled: Android does not ask for the *)
(* code or the password.                                                    *)
Enabled ==
    /\ ~screen.busy /\ screen.address # NoAddress
    /\ Filled \/ app = "android"

Press ==
    /\ Shown /\ Enabled
    /\ app = "ios" => screen.step = "email"
    /\ \E kind \in Pressed : Start(kind, screen.address, "asked")
    /\ screen' = [screen EXCEPT !.busy = TRUE]
    /\ UNCHANGED typed

(* The task that submits the code asks again whether it may.                *)
Submit ==
    /\ typed /\ typed' = FALSE
    /\ IF Enabled
       THEN /\ Start(IF screen.step = "email" THEN "send" ELSE "code", screen.address, "asked")
            /\ screen' = [screen EXCEPT !.busy = TRUE]
       ELSE UNCHANGED <<app, screen, requests, bearer, session, server, used, odd>>

Resend ==
    /\ OnCodePage /\ ~screen.busy
    /\ Start("resend", screen.address, "asked")
    /\ screen' = [[screen EXCEPT !.busy = TRUE] EXCEPT !.code = FALSE]
    /\ UNCHANGED typed

(* Google's button waits for a call in the browser and on the iPhone, but   *)
(* not on Android. A sheet or a page of theirs comes first.                 *)
SignInWithGoogle ==
    /\ Shown /\ (app # "android" => ~screen.busy)
    /\ app = "ios" => screen.step = "email"
    /\ \E a \in Addresses : Start("google", a, "sheet")
    /\ screen' = [screen EXCEPT !.busy = TRUE]
    /\ UNCHANGED typed

(* Apple's sheet is open before the form is busy.                           *)
SignInWithApple ==
    /\ Shown /\ app = "ios" /\ ~screen.busy /\ screen.step = "email"
    /\ \E a \in Addresses : Start("apple", a, "sheet")
    /\ UNCHANGED <<screen, typed>>

(* The sheet ends with a token, or without; while it closes, the task that  *)
(* goes on with the token has begun.                                        *)
SheetEnds ==
    \E c \in requests :
      /\ c.at = "sheet"
      /\ \/ /\ requests' = (requests \ {c}) \union {[c EXCEPT !.at = "asked"]}
            /\ screen' = [screen EXCEPT !.busy = TRUE]
         \/ /\ requests' = requests \ {c}
            /\ screen' = [screen EXCEPT !.busy = FALSE]
      /\ UNCHANGED <<app, typed, bearer, session, server, used, odd>>

(* switchMode at any time, selectMethod of a form that is not busy, and     *)
(* useOtp, which keeps the step.                                            *)
ChooseWay ==
    /\ Shown /\ Use("turns")
    /\ app = "ios" => ~screen.busy /\ screen.step = "email"
    /\ screen' = [way |-> IF screen.way = "otp" THEN "password" ELSE "otp",
                  step |-> IF app = "web" THEN "email" ELSE screen.step,
                  address |-> screen.address, busy |-> screen.busy,
                  code |-> app = "ios" /\ screen.code, word |-> app = "ios" /\ screen.word]
    /\ UNCHANGED <<app, typed, requests, bearer, session, server, odd>>

BackToEmail ==
    /\ OnCodePage /\ Use("turns")
    /\ screen' = [[screen EXCEPT !.step = "email"] EXCEPT !.code = FALSE]
    /\ UNCHANGED <<app, typed, requests, bearer, session, server, odd>>

-----------------------------------------------------------------------------
\* Answers

\* Mutant: a failure leaves the browser's form busy.
FailedBusy(c) ==
    [[screen EXCEPT !.busy = (app = "web")]
            EXCEPT !.code = @ /\ ~(app = "ios" /\ c.kind \in {"send", "code"} /\ screen.step = "code")]

(* fail, catch and onFailure: the iPhone empties the boxes of its code.     *)
Failed(c) ==
    [[screen EXCEPT !.busy = FALSE]
            EXCEPT !.code = @ /\ ~(app = "ios" /\ c.kind \in {"send", "code"} /\ screen.step = "code")]

(* A code is on its way: the form asks for it.                              *)
HearSent(c) ==
    /\ c.kind \in {"send", "resend"}
    /\ screen' = IF c.answer = "failed" THEN Failed(c)
                 ELSE [[screen EXCEPT !.busy = FALSE] EXCEPT !.step = IF c.kind = "send" THEN "code" ELSE @]
    /\ requests' = requests \ {c}
    /\ UNCHANGED <<bearer, session>>

(* The browser has its cookie and leaves for the workspace, still busy. The *)
(* apps store the token and ask whose session it is.                        *)
HearSignedIn(c) ==
    /\ c.kind \in SignInKinds
    /\ IF c.answer = "failed"
       THEN screen' = Failed(c) /\ requests' = requests \ {c} /\ UNCHANGED <<bearer, session>>
       ELSE /\ bearer' = c.answer /\ UNCHANGED screen
            /\ IF app = "web" THEN session' = c.answer /\ requests' = requests \ {c}
               ELSE requests' = (requests \ {c}) \union {[c EXCEPT !.at = "session"]} /\ UNCHANGED session

(* A session that has ended takes its token with it, on Android only when   *)
(* it was to be restored.                                                   *)
HearSession(c) ==
    /\ requests' = requests \ {c}
    /\ IF c.answer \in Addresses
       THEN /\ session' = c.answer /\ UNCHANGED bearer
            /\ screen' = [screen EXCEPT !.busy = FALSE]
       ELSE /\ screen' = Failed(c) /\ UNCHANGED session
            /\ bearer' = IF c.answer = "unauthorized" /\ (app = "ios" \/ c.kind = "restore") THEN NoAddress ELSE bearer

HearLogin ==
    /\ \E c \in requests :
         \/ c.at = "answered" /\ (HearSent(c) \/ HearSignedIn(c))
         \/ c.at = "told" /\ HearSession(c)
    /\ UNCHANGED <<app, typed, server, used, odd>>

-----------------------------------------------------------------------------
\* Coming and going

(* Signing out empties the form, but Android keeps otpSent; the iPhone      *)
(* keeps the token when the server could not be told.                       *)
LeaveApp ==
    /\ session # NoAddress /\ app # "web" /\ requests = {} /\ Use("turns")
    /\ session' = NoAddress
    /\ bearer' \in IF app = "ios" THEN {NoAddress, bearer} ELSE {NoAddress}
    /\ screen' = IF app = "ios" THEN [Form EXCEPT !.address = screen.address] ELSE [Form EXCEPT !.step = screen.step]
    /\ UNCHANGED <<app, typed, requests, server, odd>>

(* A restart forgets the form and its calls; the apps restore the session.  *)
Restart ==
    /\ Use("turns")
    /\ session' = NoAddress /\ typed' = FALSE
    /\ LET asks == app # "web" /\ bearer # NoAddress
       IN  /\ screen' = [Form EXCEPT !.busy = (asks /\ app = "ios")]
           /\ requests' = IF asks THEN {LoginCall("restore", NoAddress, "session")} ELSE {}
    /\ UNCHANGED <<app, bearer, server, odd>>

LoginNext ==
    \/ ServeLogin \/ TypeAddress \/ FillIn \/ Press \/ Submit \/ Resend
    \/ SignInWithGoogle \/ SignInWithApple \/ SheetEnds \/ ChooseWay \/ BackToEmail
    \/ HearLogin \/ LeaveApp \/ Restart

LoginSpec == LoginInit /\ [][LoginNext]_loginVars

(* Calls are answered or fail, sheets are closed, tasks run.                *)
LoginFairness ==
    /\ WF_loginVars(ServeLogin) /\ WF_loginVars(HearLogin)
    /\ WF_loginVars(SheetEnds) /\ WF_loginVars(Submit)

-----------------------------------------------------------------------------
\* Properties

LoginTypeOK ==
    /\ app \in Apps
    /\ screen \in [way : {"otp", "password"}, step : {"email", "code"}, address : Addresses \union {NoAddress},
                   code : BOOLEAN, word : BOOLEAN, busy : BOOLEAN]
    /\ typed \in BOOLEAN
    /\ bearer \in Addresses \union {NoAddress} /\ session \in Addresses \union {NoAddress}
    /\ \A c \in requests : /\ c.kind \in SignInKinds \union {"send", "resend", "restore"}
                        /\ c.at \in {"sheet", "asked", "answered", "session", "told"}
    /\ server.homes \subseteq server.users /\ server.codes \subseteq server.made
    /\ odd \subseteq {"edited", "hook", "overlap"}

(* The session an app shows is the one its calls are made with. Only two    *)
(* sign-ins side by side could part them, which Android alone allows        *)
(* (DocPilotApp.kt 112, LoginModel.swift 50 and 163).                       *)
SessionIsBearers ==
    session # NoAddress => session = bearer \/ (app = "android" /\ "overlap" \in odd)

(* The form asks for a code only when one was made for the address that is  *)
(* shown: always on the iPhone, elsewhere unless the address was changed    *)
(* behind the code (use-login.ts 48-60, login-form.tsx 23-29).              *)
CodePageIsTheirs ==
    /\ Shown /\ screen.way = "otp" /\ screen.step = "code" /\ screen.address # NoAddress
    /\ app = "ios" \/ "edited" \notin odd
    => screen.address \in server.made

(* The iPhone's code page has no button: a code that is filled in is always *)
(* being tried, however late earlier calls end (LoginModel.swift 87-119).   *)
FullCodeIsTried ==
    OnCodePage /\ screen.code => screen.busy \/ typed

(* Who is signed in has a workspace, without which every business call is   *)
(* refused, unless the hook failed once: it never runs again (auth.ts 32).  *)
SignedInHasHome == session # NoAddress => session \in server.homes \/ "hook" \in odd

(* Whose session it is, whose code is asked for and where a new user goes    *)
(* stay right whatever is typed, pressed and answered in whatever order.     *)
LoginSound == LoginTypeOK /\ SessionIsBearers /\ CodePageIsTheirs /\ FullCodeIsTried /\ SignedInHasHome

(* A form is not busy for ever.                                             *)
LoginSettles == []<>(~screen.busy \/ session # NoAddress)
=============================================================================
