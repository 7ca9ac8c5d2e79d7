------------------------------ MODULE MCClients ------------------------------
(* The clients, one by one: the login page beside two phones, the pushes of   *)
(* a phone, the bell, the chat in a browser and on an iPhone, the reader on   *)
(* Android, the login forms, the PDF reader of the browser with its           *)
(* highlights, the public pages, and the limit all their calls meet. They     *)
(* share nothing, so that each behaviour is of one of them, chosen at the     *)
(* start.                                                                     *)
EXTENDS RateLimit, ScanLogin, PushDevices, NotificationViews, ChatViews, ReaderView, LoginViews, WebPages

VARIABLE part

MCOffset == [i \in Instances |-> IF i = "fast" THEN 1 ELSE 0]
MCSigners == <<"ada", "bob">>
MCTroubles == <<1, 0>>
MCTrips == [open |-> 2, ask |-> 2, more |-> 1]
MCLogins == [calls |-> 2, edits |-> 2, turns |-> 2]
MCViews == [links |-> 2, draws |-> 3]
MCAuthorOf == [e \in Essays |-> "ben"]
MCReaderOf == [s \in Screens |-> "ann"]
MCProfile == [refetches |-> 1, taps |-> 1, turns |-> 1]

vars == <<part, limiterVars, scanVars, pushVars, viewVars, chatVars, readerVars, loginVars, pdfVars, highlightVars, profileVars>>

Init ==
    /\ part \in {"rate", "scan", "push", "views", "chat", "reader", "login", "pdf", "marks", "profiles"}
    /\ LimiterInit /\ ScanInit /\ ViewInit /\ ReaderInit
    /\ PushInit /\ (part # "push" => platform = "ios")
    /\ ChatInit /\ (part # "chat" => users = Clients /\ threads = <<>>)
    /\ troubles = (IF Len(posts[1]) <= 2 THEN 0 ELSE MaxTroubles[Cardinality(users)])
    /\ (users = Clients => Len(posts[1]) <= 2)
    /\ LoginInit /\ (part # "login" => app = "web")
    /\ PdfInit /\ HighlightInit
    /\ ProfilesInit /\ (part # "profiles" => account = [p \in People |-> "none"])

Only(p) == part = p /\ part' = p

Next ==
    \/ Only("rate") /\ LimiterNext
       /\ UNCHANGED <<scanVars, pushVars, viewVars, chatVars, readerVars, loginVars, pdfVars, highlightVars, profileVars>>
    \/ Only("scan") /\ ScanNext
       /\ UNCHANGED <<limiterVars, pushVars, viewVars, chatVars, readerVars, loginVars, pdfVars, highlightVars, profileVars>>
    \/ Only("push") /\ PushNext
       /\ UNCHANGED <<limiterVars, scanVars, viewVars, chatVars, readerVars, loginVars, pdfVars, highlightVars, profileVars>>
    \/ Only("views") /\ ViewNext
       /\ UNCHANGED <<limiterVars, scanVars, pushVars, chatVars, readerVars, loginVars, pdfVars, highlightVars, profileVars>>
    \/ Only("chat") /\ ChatNext
       /\ UNCHANGED <<limiterVars, scanVars, pushVars, viewVars, readerVars, loginVars, pdfVars, highlightVars, profileVars>>
    \/ Only("reader") /\ ReaderNext
       /\ UNCHANGED <<limiterVars, scanVars, pushVars, viewVars, chatVars, loginVars, pdfVars, highlightVars, profileVars>>
    \/ Only("login") /\ LoginNext
       /\ UNCHANGED <<limiterVars, scanVars, pushVars, viewVars, chatVars, readerVars, pdfVars, highlightVars, profileVars>>
    \/ Only("pdf") /\ PdfNext
       /\ UNCHANGED <<limiterVars, scanVars, pushVars, viewVars, chatVars, readerVars, loginVars, highlightVars, profileVars>>
    \/ Only("marks") /\ HighlightNext
       /\ UNCHANGED <<limiterVars, scanVars, pushVars, viewVars, chatVars, readerVars, loginVars, pdfVars, profileVars>>
    \/ Only("profiles") /\ ProfilesNext
       /\ UNCHANGED <<limiterVars, scanVars, pushVars, viewVars, chatVars, readerVars, loginVars, pdfVars, highlightVars>>

(* A part that is not run has no fair action to take from its first state.   *)
Spec ==
    /\ Init /\ [][Next]_vars
    /\ ScanFairness /\ PushFairness /\ ViewFairness /\ ChatFairness /\ ReaderFairness /\ LoginFairness

(* Whatever a user has begun comes to an end they are told of: a code on the *)
(* page, a phone at work, a registration for pushes, a notice, a question, a *)
(* job of the Android reader and a sign-in.                                  *)
ClientsSettle ==
    /\ CodesSettle /\ PhonesSettle /\ ApprovalSignsIn
    /\ SignedInIsRegistered /\ EveryNoticeHeard
    /\ SendingEnds /\ BusyEnds /\ LoginSettles
=============================================================================
