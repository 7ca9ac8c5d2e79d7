----------------------------- MODULE ChatViews -----------------------------
(***************************************************************************)
(* A user's browser and iPhone side by side on the chat of one document:   *)
(* how each finds or makes the conversation, asks, follows the answer and  *)
(* shows the newest messages. The browser keeps what it fetched, one window *)
(* per limit, while its user looks at other pages, and a stream it reads    *)
(* goes on. What the server does with a question in detail is              *)
(* Conversation.tla; here it stores the pair at once and settles it later, *)
(* whether or not anybody still listens.                                   *)
(*   apps/web/features/chat, .../documents/[id]/chat/chat-view.tsx,        *)
(*   apps/ios/.../Features/Chat, apps/api/src/modules/conversations        *)
(***************************************************************************)
EXTENDS Naturals, Sequences, FiniteSets

CONSTANTS
    PageSize, PageCap,  \* MESSAGE_PAGE: messages of a window, and at most
    Earlier,            \* questions of an old conversation, at most
    MaxQuestions,       \* bound on the questions sent
    MaxTroubles         \* bounds, for one client and for two, on lost calls,
                        \* views opened anew and answers that fail

(* 30 and 100 messages: a question and its answer at a time.                *)
ASSUME ChatViewsAssumption ==
    /\ PageSize \in Nat \ {0} /\ PageCap \in Nat /\ PageSize <= PageCap
    /\ PageSize % 2 = 0 /\ PageCap % 2 = 0
    /\ Earlier \in Nat /\ MaxQuestions \in Nat

VARIABLES
    users,    \* the clients in use
    threads,  \* conversations of the document, the last used first
    posts,    \* messages of each, oldest first: <<role, question>>
    state,    \* of the answer to each question
    sender,   \* history: who sent the question last, with no handler still at it
    page,     \* the view of each client; its conversation outlives the view on the web
    windows,  \* messages each client holds: the web by limit, the iPhone under PageSize
    links,    \* calls of the clients, and handlers nobody listens to
    overlaps, \* history: how often a client found no conversation beside one about to make it
    strained, \* history: clients that lost a call, iPhones that heard answers out of order
    troubles

chatVars == <<users, threads, posts, state, sender, page, windows, links, overlaps, strained, troubles>>

Clients == {"web", "ios"}
Threads == 1..4
Questions == 1..(Earlier + MaxQuestions)

Blank == [open |-> FALSE, thread |-> 0, limit |-> PageSize, sending |-> 0]

(* An entry of the query cache: old is isInvalidated; late remembers that   *)
(* its answer came after it was to be renewed (history).                    *)
Unfetched == [had |-> FALSE, old |-> FALSE, late |-> FALSE, rows |-> <<>>, more |-> FALSE]
NoWindows == [l \in PageSize..PageCap |-> Unfetched]

(* kind "list", "create" and "rows" are steps of finding and loading the    *)
(* conversation, "ask" is a question; for says what waits for it, "left"    *)
(* that the view it was for is gone.                                        *)
Link(c, kind, thread, q, for, limit) ==
    [c |-> c, kind |-> kind, thread |-> thread, q |-> q, for |-> for, limit |-> limit,
     answer |-> "none", found |-> <<>>, more |-> FALSE, late |-> FALSE]
Find(c, for) == Link(c, "list", 0, 0, for, 0)
LoadRows(c, t, for, limit) == Link(c, "rows", t, 0, for, limit)

(* Nobody has used the document's chat yet, or somebody has, earlier.       *)
Old(n) == [i \in 1..(2 * n) |-> <<IF i % 2 = 1 THEN "user" ELSE "assistant", (i + 1) \div 2>>]

ChatInit ==
    /\ users \in {{"web"}, {"ios"}, Clients}
    /\ threads \in {<<>>, <<1>>}
    /\ \E n \in (IF threads = <<>> THEN {0} ELSE 0..Earlier), end \in {"completed", "failed"} :
         /\ posts = [t \in Threads |-> IF t = 1 THEN Old(n) ELSE <<>>]
         /\ state = [q \in Questions |-> IF q <= n THEN end ELSE "none"]
    /\ sender = [q \in Questions |-> "nobody"]
    /\ page = [c \in Clients |-> Blank] /\ windows = [c \in Clients |-> NoWindows]
    /\ links = {} /\ overlaps = 0 /\ strained = {}
    /\ troubles \in 0..MaxTroubles[Cardinality(users)]

Trouble == troubles < MaxTroubles[Cardinality(users)] /\ troubles' = troubles + 1

SentSoFar == Cardinality({q \in Questions : q > Earlier /\ state[q] # "none"})

-----------------------------------------------------------------------------
\* The API

(* The conversation used last comes first, the others keep their order.     *)
First(t) ==
    LET at == CHOOSE i \in DOMAIN threads : threads[i] = t
    IN  [i \in DOMAIN threads |-> IF i = 1 THEN t ELSE IF i <= at THEN threads[i - 1] ELSE threads[i]]

Reply(r, what) == links' = (links \ {r}) \union (IF r.c \in Clients THEN {what} ELSE {})
LookingForNone == {r \in links : r.kind = "create" \/ (r.kind = "list" /\ r.answer = "ok" /\ r.thread = 0)}

(* GET /conversations?documentId: the one used last comes first.            *)
ServeList(r) ==
    /\ r.kind = "list"
    /\ Reply(r, [[r EXCEPT !.answer = "ok"] EXCEPT !.thread = IF threads = <<>> THEN 0 ELSE threads[1]])
    /\ overlaps' = IF threads = <<>> /\ LookingForNone # {} THEN overlaps + 1 ELSE overlaps
    /\ UNCHANGED <<users, threads, posts, state, page>>

(* POST /conversations: nothing makes it the only one of the document.      *)
ServeCreate(r) ==
    /\ r.kind = "create" /\ Len(threads) < Cardinality(Threads)
    /\ LET t == Len(threads) + 1
       IN  threads' = <<t>> \o threads /\ Reply(r, [[r EXCEPT !.answer = "ok"] EXCEPT !.thread = t])
    /\ UNCHANGED <<users, posts, state, page, overlaps>>

NewestOf(s, n) == IF Len(s) <= n THEN s ELSE SubSeq(s, Len(s) - n + 1, Len(s))
Told(s) == [i \in DOMAIN s |-> [role |-> s[i][1], q |-> s[i][2], state |-> state[s[i][2]]]]

(* GET /:id/messages: the newest, at most limit, with what they are by now. *)
ServeRows(r) ==
    /\ r.kind = "rows"
    /\ Reply(r, [[[r EXCEPT !.answer = "ok"] EXCEPT !.found = Told(NewestOf(posts[r.thread], r.limit))]
                    EXCEPT !.more = Len(posts[r.thread]) > r.limit])
    /\ UNCHANGED <<users, threads, posts, state, page, overlaps>>

(* POST /:id/messages: a new question and its pending answer are written    *)
(* together and the conversation comes to the front; a failed answer is     *)
(* begun again, any other is returned or refused at once.                   *)
ServeAsk(r) ==
    /\ r.kind = "ask"
    /\ IF state[r.q] = "asked"
       THEN /\ posts' = [posts EXCEPT ![r.thread] = @ \o <<<<"user", r.q>>, <<"assistant", r.q>>>>]
            /\ threads' = First(r.thread)
       ELSE UNCHANGED <<posts, threads>>
    /\ IF state[r.q] \in {"asked", "failed"}
       THEN /\ state' = [state EXCEPT ![r.q] = "pending"]
            /\ links' = (links \ {r}) \union {[r EXCEPT !.kind = "stream"]}
       ELSE UNCHANGED state /\ Reply(r, [[r EXCEPT !.kind = "stream"] EXCEPT !.answer = "ok"])
    /\ UNCHANGED <<users, page, overlaps>>

(* The answer is stored or marked as failed, then the stream ends.          *)
ServeStream(r) ==
    /\ r.kind = "stream"
    /\ \E end \in {"completed", "failed"} :
         /\ IF end = "failed" THEN Trouble ELSE UNCHANGED troubles
         /\ state' = [state EXCEPT ![r.q] = end]
    /\ Reply(r, [r EXCEPT !.answer = "ok"])
    /\ UNCHANGED <<users, threads, posts, page, overlaps>>

ServeChat(r) ==
    /\ r.answer = "none"
    /\ \/ (ServeList(r) \/ ServeCreate(r) \/ ServeRows(r) \/ ServeAsk(r)) /\ UNCHANGED troubles
       \/ ServeStream(r)
    /\ UNCHANGED <<sender, windows, strained>>

-----------------------------------------------------------------------------
\* The clients

Of(c, kinds) == {r \in links : r.c = c /\ r.kind \in kinds}
Loading(c) == Of(c, {"list", "create", "rows"})
FetchesOf(l) == {r \in Of("web", {"rows"}) : r.limit = l}

(* The web holds a window per limit, the iPhone replaces what it has.       *)
Slot(c, limit) == IF c = "web" THEN limit ELSE PageSize

(* What is on the screen: until a wider window comes, the one before it.    *)
OnScreen(c) ==
    LET l == Slot(c, page[c].limit)
        before == {k \in PageSize..(l - 1) : windows[c][k].had}
    IN  IF ~windows[c][l].had /\ before # {} /\ FetchesOf(l) # {}
        THEN windows[c][CHOOSE k \in before : \A j \in before : j <= k]
        ELSE windows[c][l]

(* The web's view comes to a window: it fetches what is not there, what was *)
(* made invalid and what has aged; a fetch under way it joins.              *)
Look(t, l) ==
    \E aged \in BOOLEAN :
      links' = IF FetchesOf(l) # {} \/ (windows["web"][l].had /\ ~windows["web"][l].old /\ ~aged)
               THEN links ELSE links \union {LoadRows("web", t, "view", l)}

(* The page of a document that can be asked is opened, for the first time   *)
(* or again: the web still knows its conversation.                          *)
Visit(c) ==
    /\ c \in users /\ ~page[c].open
    /\ page' = [page EXCEPT ![c].open = TRUE]
    /\ IF page[c].thread # 0 THEN Look(page[c].thread, page[c].limit)
       ELSE links' = IF Of(c, {"list", "create"}) # {} THEN links ELSE links \union {Find(c, "view")}
    /\ UNCHANGED <<users, threads, posts, state, sender, windows, overlaps, strained, troubles>>

(* ensureConversation: the first of the list, or a new one; a view that is  *)
(* still there loads its messages.                                          *)
Chosen(r) == r.thread

HearThread(r) ==
    /\ page' = [page EXCEPT ![r.c].thread = r.thread]
    /\ links' = (links \ {r}) \union
                (IF page[r.c].open THEN {LoadRows(r.c, r.thread, r.for, page[r.c].limit)} ELSE {})

HearList(r) ==
    /\ r.kind = "list"
    /\ IF Chosen(r) = 0
       THEN links' = (links \ {r}) \union {[[r EXCEPT !.kind = "create"] EXCEPT !.answer = "none"]} /\ UNCHANGED page
       ELSE HearThread(r)
    /\ UNCHANGED windows

HearCreate(r) == r.kind = "create" /\ HearThread(r) /\ UNCHANGED windows

NotSending(c) == [page EXCEPT ![c].sending = 0]

HearRows(r) ==
    /\ r.kind = "rows"
    /\ windows' = [windows EXCEPT ![r.c] = [@ EXCEPT ![Slot(r.c, r.limit)] =
                     [had |-> TRUE, old |-> FALSE, late |-> r.late, rows |-> r.found, more |-> r.more]]]
    /\ page' = IF r.for = "send" THEN NotSending(r.c) ELSE page
    /\ links' = links \ {r}

(* invalidateQueries: no window is valid any more, and the one on the       *)
(* screen is fetched again, a fetch of it under way being dropped. Any      *)
(* other fetch goes on, and so does the first of a window: if it has been   *)
(* answered by now its answer is late.                                      *)
Dropped == IF page["web"].open /\ windows["web"][page["web"].limit].had THEN FetchesOf(page["web"].limit) ELSE {}
LateRows(rs) == {IF r.c = "web" /\ r.kind = "rows" /\ r.answer = "ok" THEN [r EXCEPT !.late = TRUE] ELSE r : r \in rs}

Invalidate(rs) ==
    LET l == page["web"].limit
        again == page["web"].open /\ FetchesOf(l) \ Dropped = {}
    IN  /\ windows' = [windows EXCEPT !["web"] = [k \in PageSize..PageCap |-> [windows["web"][k] EXCEPT !.old = windows["web"][k].had]]]
        /\ links' = LateRows(rs \ Dropped) \union (IF again THEN {LoadRows("web", page["web"].thread, "view", l)} ELSE {})

(* send's finally: the stream of a view that is gone does the same.         *)
EndWeb(r, rs) ==
    /\ page' = IF r.for = "send" THEN NotSending("web") ELSE page
    /\ Invalidate(rs)

\* Mutant: the end of a stream is the end of it, the windows stay.
HearEndQuietly(r) ==
    /\ page' = [page EXCEPT ![r.c].sending = 0]
    /\ links' = links \ {r} /\ UNCHANGED windows

(* The end of a stream: the iPhone loads, and sends no more until that is   *)
(* done.                                                                    *)
HearEnd(r) ==
    IF r.c = "web" THEN EndWeb(r, links \ {r})
    ELSE links' = (links \ {r}) \union {Find("ios", "send")} /\ UNCHANGED <<page, windows>>

HearChat(r) ==
    /\ r.c \in Clients /\ r.answer = "ok"
    /\ HearList(r) \/ HearCreate(r) \/ HearRows(r) \/ (r.kind = "stream" /\ HearEnd(r))
    /\ strained' = IF r.c = "ios" /\ Loading("ios") \ {r} # {} THEN strained \union {r.c} ELSE strained
    /\ UNCHANGED <<users, threads, posts, state, sender, overlaps, troubles>>

(* A call fails or its answer is lost; what the server does goes on.        *)
StillServed(r) == IF r.answer = "none" /\ r.kind \in {"create", "ask", "stream"} THEN {[r EXCEPT !.c = "nobody"]} ELSE {}

LoseLink(r) ==
    /\ r.c \in Clients /\ Trouble
    /\ strained' = strained \union {r.c}
    /\ LET base == (links \ {r}) \union StillServed(r)
       IN  IF r.c = "web" /\ r.kind \in {"ask", "stream"}
           THEN EndWeb(r, base)
           ELSE /\ page' = IF r.c = "ios" /\ r.for = "send" THEN NotSending("ios") ELSE page
                /\ links' = base /\ UNCHANGED windows
    /\ UNCHANGED <<users, threads, posts, state, sender, overlaps>>

(* send: with a conversation, and one question of a view at a time.         *)
MaySend(c) == page[c].open /\ page[c].thread # 0 /\ page[c].sending = 0

Put(c, q) ==
    /\ page' = [page EXCEPT ![c].sending = q]
    /\ links' = links \union {Link(c, "ask", page[c].thread, q, "send", 0)}
    /\ sender' = [sender EXCEPT ![q] = IF \E r \in links : r.q = q THEN "nobody" ELSE c]

(* A new question draws a new clientRequestId.                              *)
Send(c) ==
    /\ MaySend(c) /\ SentSoFar < MaxQuestions
    /\ LET q == Earlier + SentSoFar + 1
       IN  state' = [state EXCEPT ![q] = "asked"] /\ Put(c, q)
    /\ UNCHANGED <<users, threads, posts, windows, overlaps, strained, troubles>>

(* findQuestionFor: the nearest message of the user before the answer.      *)
FindQuestion(rows, i) ==
    LET before == {j \in 1..(i - 1) : rows[j].role = "user"}
    IN  IF before = {} THEN 0 ELSE rows[CHOOSE j \in before : \A k \in before : k <= j].q

Failures(rows) == {i \in DOMAIN rows : rows[i].role = "assistant" /\ rows[i].state = "failed"}

(* retry (web only): the question again under its own id.                   *)
Retry ==
    /\ MaySend("web")
    /\ LET rows == OnScreen("web").rows
       IN  \E i \in Failures(rows) : LET q == FindQuestion(rows, i) IN q # 0 /\ Put("web", q)
    /\ UNCHANGED <<users, threads, posts, state, windows, overlaps, strained, troubles>>

AtMostCap(n) == IF n < PageCap THEN n ELSE PageCap

Widened(c) == AtMostCap(page[c].limit + PageSize)

(* loadEarlier: a wider window, on the web while the one shown is not being *)
(* fetched; the iPhone loads from the start.                                *)
LoadEarlier(c) ==
    /\ page[c].open /\ OnScreen(c).more /\ page[c].limit < PageCap
    /\ c = "web" => FetchesOf(page["web"].limit) = {}
    /\ page' = [page EXCEPT ![c].limit = Widened(c)]
    /\ IF c = "web" THEN Look(page["web"].thread, Widened("web"))
       ELSE links' = links \union {Find("ios", "view")}
    /\ UNCHANGED <<users, threads, posts, state, sender, windows, overlaps, strained, troubles>>

(* The browser is closed or reloaded, the iPhone's view left: whatever it   *)
(* knew is gone and its calls are heard by nobody.                          *)
Leave(c) ==
    /\ page[c].open /\ Trouble
    /\ page' = [page EXCEPT ![c] = Blank] /\ windows' = [windows EXCEPT ![c] = NoWindows]
    /\ links' = {r \in links : r.c # c} \union UNION {StillServed(r) : r \in {x \in links : x.c = c}}
    /\ sender' = [q \in Questions |-> IF \E r \in Of(c, {"ask", "stream"}) : r.q = q THEN "nobody" ELSE sender[q]]
    /\ UNCHANGED <<users, threads, posts, state, overlaps, strained>>

(* A link to another page of the web: the view goes, its calls, its streams *)
(* and what was fetched stay.                                               *)
Navigate ==
    /\ page["web"].open /\ Trouble
    /\ page' = [page EXCEPT !["web"] = [Blank EXCEPT !.thread = page["web"].thread]]
    /\ links' = {IF r.c = "web" /\ r.kind \in {"ask", "stream"} THEN [r EXCEPT !.for = "left"] ELSE r : r \in links}
    /\ UNCHANGED <<users, threads, posts, state, sender, windows, overlaps, strained>>

ChatNext ==
    \/ Retry \/ Navigate
    \/ \E r \in links : ServeChat(r) \/ HearChat(r) \/ LoseLink(r)
    \/ \E c \in Clients : Visit(c) \/ Send(c) \/ LoadEarlier(c) \/ Leave(c)

ChatSpec == ChatInit /\ [][ChatNext]_chatVars

(* What a client has begun goes on, at the API and at the client.           *)
GoesOn(c) == \E r \in links : r.c = c /\ (ServeChat(r) \/ HearChat(r))
ChatFairness == \A c \in Clients : WF_chatVars(GoesOn(c))

-----------------------------------------------------------------------------
\* Properties

ChatTypeOK ==
    /\ \A t \in Threads : \A i \in DOMAIN posts[t] : posts[t][i] \in {"user", "assistant"} \X Questions
    /\ state \in [Questions -> {"none", "asked", "pending", "completed", "failed"}]
    /\ \A c \in Clients : page[c].limit \in PageSize..PageCap /\ page[c].sending \in {0} \union Questions
    /\ strained \subseteq Clients

(* A document has one conversation ("MVP one document, one conversation",    *)
(* api.ts 16), and one more at most for each time that a client found none   *)
(* while another was about to make one.                                      *)
OneThread == Len(threads) <= 1 + overlaps

(* A view follows one answer at a time, across clicks, retries and           *)
(* renderings; the stream of a view that was left may go on beside it.       *)
OneStreamEach == \A c \in Clients : Cardinality({r \in Of(c, {"ask", "stream"}) : r.for # "left"}) <= 1

(* Once a view is at rest, with no stream left behind, it shows the newest   *)
(* messages of its conversation up to its own last question, as they are     *)
(* stored, unless its client lost a call, the iPhone heard answers out of    *)
(* order or the window's own answer was late; the other client may have gone *)
(* on since.                                                                 *)
Resting(c) == page[c].open /\ page[c].thread # 0 /\ Of(c, {"list", "create", "rows", "ask", "stream"}) = {}
WindowIsStored ==
    \A c \in Clients :
        (Resting(c) /\ c \notin strained /\ ~OnScreen(c).late) =>
            LET all == posts[page[c].thread]
                rows == OnScreen(c).rows
                own(q) == sender[q] = c
            IN  \E n \in 0..Len(all) :
                  /\ [i \in DOMAIN rows |-> <<rows[i].role, rows[i].q>>] = NewestOf(SubSeq(all, 1, n), page[c].limit)
                  /\ \A i \in (n + 1)..Len(all) : ~own(all[i][2])
                  /\ \A i \in DOMAIN rows : own(rows[i].q) => rows[i].state = state[rows[i].q]

(* What a retry sends again is the question whose answer failed, wherever    *)
(* the window begins.                                                        *)
RetryFindsItsQuestion ==
    \A c \in Clients : LET rows == OnScreen(c).rows IN \A i \in Failures(rows) : FindQuestion(rows, i) = rows[i].q

(* Every question a client sends comes to an end for it.                     *)
SendingEnds == []<>(\A c \in Clients : page[c].sending = 0)

(* The chat of a document is one conversation, with one answer at a time in  *)
(* a view, shown as it is stored, and its retries ask what failed.           *)
ChatSound == ChatTypeOK /\ OneThread /\ OneStreamEach /\ WindowIsStored /\ RetryFindsItsQuestion
=============================================================================
