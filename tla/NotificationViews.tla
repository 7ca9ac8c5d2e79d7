------------------------- MODULE NotificationViews -------------------------
(***************************************************************************)
(* What a user sees of their notifications: the rows of the database, the  *)
(* API's /notifications endpoints and its stream, and either the web       *)
(* client's queries or the iPhone's model, with the number on the badge    *)
(* and the list they show. The bus between worker and stream is            *)
(* Notifications.tla; here a pulse reaches a stream that is subscribed.    *)
(*   apps/web/features/notifications, apps/ios/.../Notifications,          *)
(*   apps/api/src/modules/notifications                                    *)
(***************************************************************************)
EXTENDS Naturals, Sequences, FiniteSets

CONSTANTS
    Notices,    \* rows of the user
    MaxEvents   \* bound on marks as read and refreshes, broken connections,
                \* failed calls and lost pulses

ASSUME ViewsAssumption == MaxEvents \in Nat /\ IsFiniteSet(Notices)

VARIABLES
    viewer,  \* "web" or "ios", once it is opened
    inbox,   \* what the database holds
    due,     \* rows whose pulse is still to be published
    feed,    \* the stream: where its handler is, lookups, frames under way
    asks,    \* the viewer's calls
    shown,   \* the number on the badge and the list
    heard,    \* history: what the viewer has heard of
    missed,  \* history: rows whose pulse never reached the viewer
    gap,     \* history: those of them that no later snapshot was due to cover
    races,   \* history: what an answer overtaken by a newer one has set last
    events

viewVars == <<viewer, inbox, due, feed, asks, shown, heard, missed, gap, races, events>>

Empty == [n \in Notices |-> "none"]
Inboxes == [Notices -> {"none", "unread", "read"}]
UnreadIn(box) == {n \in Notices : box[n] = "unread"}

(* Rows only ever go from none to unread to read.                           *)
Behind(a, b) == (a = "none" /\ b # "none") \/ (a = "unread" /\ b = "read")
Older(box) == \E n \in Notices : Behind(box[n], heard[n])
Newest(box) == [n \in Notices |-> IF Behind(box[n], heard[n]) THEN heard[n] ELSE box[n]]

FeedOff == [stage |-> "off", looking |-> {}, frames |-> <<>>]
NotYet == <<>>

(* A call asks one or more things at once; it is late when something newer  *)
(* was heard while it was under way and nothing cancelled it.               *)
Call(kinds, of) == [kinds |-> kinds, of |-> of, got |-> [k \in kinds |-> NotYet], late |-> FALSE]
Late(rs) == {[r EXCEPT !.late = TRUE] : r \in rs}
Fetches(rs, kind) == {r \in rs : kind \in r.kinds}

(* run() loads first; load asks for both and takes them together.           *)
LoadOf(run) == Call({"list", "count"}, run)

ViewInit ==
    /\ viewer = "none"
    /\ inbox = Empty /\ due = {} /\ feed = FeedOff
    /\ asks = {}
    /\ shown = [count |-> 0, counted |-> FALSE, list |-> NotYet]
    /\ heard = Empty /\ missed = {} /\ gap = {} /\ races = {}
    /\ events = 0

Event == events < MaxEvents /\ events' = events + 1

-----------------------------------------------------------------------------
\* The worker and the API

RecordNotice(n) ==
    /\ inbox[n] = "none"
    /\ inbox' = [inbox EXCEPT ![n] = "unread"]
    /\ due' = due \union {n}
    /\ UNCHANGED <<viewer, feed, asks, shown, heard, missed, gap, races, events>>

Missed(n) ==
    /\ missed' = missed \union {n}
    /\ gap' = IF feed.stage \in {"counted", "open"} THEN gap \union {n} ELSE gap

(* A pulse reaches the stream only when it is subscribed.                   *)
PublishPulse(n) ==
    /\ n \in due
    /\ due' = due \ {n}
    /\ IF feed.stage = "open"
       THEN feed' = [feed EXCEPT !.looking = @ \union {n}] /\ UNCHANGED <<missed, gap>>
       ELSE Missed(n) /\ UNCHANGED feed
    /\ UNCHANGED <<viewer, inbox, asks, shown, heard, races, events>>

(* The worker dies first, Redis refuses, or the lookup fails: logged.       *)
LosePulse(n) ==
    /\ n \in due /\ Event
    /\ due' = due \ {n}
    /\ Missed(n)
    /\ UNCHANGED <<viewer, inbox, feed, asks, shown, heard, races>>

(* The stream counts what is unread, writes the snapshot, then subscribes.  *)
WriteSnapshot ==
    /\ feed.stage = "counting"
    /\ feed' = [[feed EXCEPT !.stage = "counted"] EXCEPT !.frames = Append(@, [event |-> "snapshot", of |-> "all", box |-> inbox])]
    /\ UNCHANGED <<viewer, inbox, due, asks, shown, heard, missed, gap, races, events>>

SubscribeFeed ==
    /\ feed.stage = "counted"
    /\ feed' = [feed EXCEPT !.stage = "open"]
    /\ UNCHANGED <<viewer, inbox, due, asks, shown, heard, missed, gap, races, events>>

WriteCreated(n) ==
    /\ n \in feed.looking
    /\ feed' = [[feed EXCEPT !.looking = @ \ {n}] EXCEPT !.frames = Append(@, [event |-> "created", of |-> n, box |-> inbox])]
    /\ UNCHANGED <<viewer, inbox, due, asks, shown, heard, missed, gap, races, events>>

(* GET / and GET /unread-count read the inbox, POST /:id/read and /read-all *)
(* mark what is unread.                                                     *)
MarkedBy(kind, of) ==
    [n \in Notices |->
        IF inbox[n] = "unread" /\ (kind = "readAll" \/ (kind = "read" /\ n = of)) THEN "read" ELSE inbox[n]]

ServeView(r, kind) ==
    /\ r.got[kind] = NotYet
    /\ inbox' = MarkedBy(kind, r.of)
    /\ asks' = (asks \ {r}) \union {[r EXCEPT !.got[kind] = MarkedBy(kind, r.of)]}
    /\ UNCHANGED <<viewer, due, feed, shown, heard, missed, gap, races, events>>

-----------------------------------------------------------------------------
\* What the viewers make of it

Complete(r) == \A k \in r.kinds : r.got[k] # NotYet

(* Sets what a value says, and whether it came too late.                    *)
Races(what, late, box) == (races \ {what}) \union (IF late /\ Older(box) THEN {what} ELSE {})

(* invalidateQueries: what has data is fetched anew, dropping the fetch     *)
(* under way; a query without data goes on with its first fetch.            *)
Invalidated(base) ==
    LET first == (IF shown.list = NotYet THEN Fetches(base, "list") ELSE {})
                   \union (IF shown.counted THEN {} ELSE Fetches(base, "count"))
        again == {k \in {"list", "count"} : Fetches(first, k) = {}}
    IN  (base \ (Fetches(base, "list") \union Fetches(base, "count")))
          \union Late(first) \union {Call({k}, "bell") : k \in again}

HearWeb(r) ==
    /\ asks' = IF r.kinds \in {{"list"}, {"count"}} THEN asks \ {r} ELSE Invalidated(asks \ {r})
    /\ \/ /\ r.kinds = {"list"}
          /\ shown' = [shown EXCEPT !.list = r.got["list"]]
          /\ races' = Races("list", r.late, r.got["list"])
          /\ UNCHANGED heard
       \/ /\ r.kinds = {"count"}
          /\ shown' = [[shown EXCEPT !.count = Cardinality(UnreadIn(r.got["count"]))] EXCEPT !.counted = TRUE]
          /\ races' = Races("badge", r.late, r.got["count"])
          /\ heard' = Newest(r.got["count"])
       \/ /\ r.kinds \in {{"read"}, {"readAll"}}
          /\ heard' = Newest(r.got[CHOOSE k \in r.kinds : TRUE])
          /\ UNCHANGED <<shown, races>>

\* Mutant: the number stays until the stream or a load sets it.
ClearedListOnly(r) ==
    [shown EXCEPT !.list = [n \in Notices |-> IF shown.list # NotYet /\ shown.list[n] # "none" THEN "read" ELSE "none"]]

(* markAllRead: what is listed is shown as read, the number is zero.        *)
Cleared(r) ==
    [[shown EXCEPT !.count = 0] EXCEPT
                  !.list = [n \in Notices |-> IF shown.list # NotYet /\ shown.list[n] # "none" THEN "read" ELSE "none"]]

HearIos(r) ==
    /\ asks' = Late(asks \ {r})
    /\ \/ /\ r.kinds = {"list", "count"}
          /\ shown' = [count |-> Cardinality(UnreadIn(r.got["count"])), counted |-> TRUE, list |-> r.got["list"]]
          /\ races' = {w \in {"list", "badge"} : r.late /\ Older(r.got[IF w = "list" THEN w ELSE "count"])}
          /\ heard' = Newest(r.got["count"])
       \/ /\ r.kinds = {"readAll"}
          /\ shown' = Cleared(r)
          /\ races' = races \union (IF Older(r.got["readAll"]) THEN {"badge", "list"} ELSE {})
          /\ heard' = Newest(r.got["readAll"])

HearCall(r) ==
    /\ Complete(r)
    /\ IF viewer = "web" THEN HearWeb(r) ELSE HearIos(r)
    /\ UNCHANGED <<viewer, inbox, due, feed, missed, gap, events>>

(* A fetch that failed twice, a load, or a mark: what is shown stays.       *)
FailCall(r) ==
    /\ Event
    /\ asks' = Late(asks \ {r})
    /\ races' = races \union {"badge", "list"}
    /\ heard' = IF r.kinds \subseteq {"read", "readAll"} /\ Complete(r) THEN Newest(r.got[CHOOSE k \in r.kinds : TRUE]) ELSE heard
    /\ UNCHANGED <<viewer, inbox, due, feed, shown, missed, gap>>

(* snapshot: both set the number, neither the list.                         *)
HearSnapshot(frame) ==
    /\ shown' = [[shown EXCEPT !.count = Cardinality(UnreadIn(frame.box))] EXCEPT !.counted = TRUE]
    /\ races' = Races("badge", TRUE, frame.box)
    /\ heard' = Newest(frame.box)
    /\ asks' = (asks \ Fetches(asks, "count")) \union Late(Fetches(asks, "count"))

(* created: the web fetches everything anew, the iPhone adds the item.      *)
HearCreated(frame) ==
    LET n == frame.of
        as == frame.box[n]
    IN  /\ heard' = [heard EXCEPT ![n] = Newest(frame.box)[n]]
        /\ IF viewer = "web"
           THEN asks' = Invalidated(asks) /\ UNCHANGED <<shown, races>>
           ELSE /\ asks' = Late(asks)
                /\ shown' = [[shown EXCEPT !.count = IF as = "unread" THEN @ + 1 ELSE @] EXCEPT
                                          !.list = [m \in Notices |-> IF m = n THEN as ELSE IF @ = NotYet THEN "none" ELSE @[m]]]
                /\ races' = races \union (IF as = "unread" /\ heard[n] # "none" THEN {"badge"} ELSE {})
                                  \union (IF Behind(as, heard[n]) THEN {"list"} ELSE {})

HearFrame ==
    /\ feed.frames # <<>>
    /\ feed' = [feed EXCEPT !.frames = Tail(@)]
    /\ LET frame == Head(feed.frames)
       IN  IF frame.event = "snapshot" THEN HearSnapshot(frame) ELSE HearCreated(frame)
    /\ UNCHANGED <<viewer, inbox, due, missed, gap, events>>

(* The page with the bell, or the app, is opened.                           *)
OpenViewer ==
    /\ viewer = "none" /\ viewer' \in {"web", "ios"}
    /\ asks' = IF viewer' = "ios" THEN {LoadOf("run")} ELSE {Call({k}, "bell") : k \in {"list", "count"}}
    /\ UNCHANGED <<inbox, due, feed, shown, heard, missed, gap, races, events>>

(* connect and run: again after every end, after a pause; iOS loads first.  *)
ConnectFeed ==
    /\ viewer # "none" /\ feed.stage = "off"
    /\ viewer = "ios" => \A r \in asks : r.of # "run"
    /\ feed' = [feed EXCEPT !.stage = "counting"]
    /\ UNCHANGED <<viewer, inbox, due, asks, shown, heard, missed, gap, races, events>>

(* The connection breaks: what was under way is gone.                       *)
BreakFeed ==
    /\ feed.stage # "off" /\ Event
    /\ feed' = FeedOff
    /\ missed' = missed \union feed.looking
                   \union {n \in Notices : \E i \in DOMAIN feed.frames : feed.frames[i].of = n}
    /\ UNCHANGED <<viewer, inbox, due, asks, shown, heard, gap, races>>

(* A click on an unread item (web), "mark all read", or a pull to refresh.  *)
Mark ==
    /\ Event
    /\ \/ /\ viewer = "web" /\ shown.list # NotYet
          /\ \E n \in UnreadIn(shown.list) : asks' = asks \union {Call({"read"}, n)}
       \/ shown.count > 0 /\ asks' = asks \union {Call({"readAll"}, "bell")}
       \/ viewer = "ios" /\ asks' = asks \union {LoadOf("pull")}
    /\ UNCHANGED <<viewer, inbox, due, feed, shown, heard, missed, gap, races>>

(* Worker and API go on, and so does the viewer; rows need not come, nobody *)
(* has to mark them, and nothing has to break.                              *)
ServerGoesOn ==
    \/ WriteSnapshot \/ SubscribeFeed
    \/ \E n \in Notices : PublishPulse(n) \/ WriteCreated(n)
    \/ \E r \in asks : \E kind \in r.kinds : ServeView(r, kind)
ViewerGoesOn == ConnectFeed \/ HearFrame \/ \E r \in asks : HearCall(r)
ViewFairness == WF_viewVars(ServerGoesOn) /\ WF_viewVars(ViewerGoesOn)

ViewNext ==
    \/ ServerGoesOn \/ ViewerGoesOn
    \/ OpenViewer \/ BreakFeed \/ Mark
    \/ \E n \in Notices : RecordNotice(n) \/ LosePulse(n)
    \/ \E r \in asks : FailCall(r)

ViewSpec == ViewInit /\ [][ViewNext]_viewVars

-----------------------------------------------------------------------------
\* Properties

ViewTypeOK ==
    /\ inbox \in Inboxes /\ heard \in Inboxes
    /\ due \subseteq Notices /\ gap \subseteq missed /\ missed \subseteq Notices
    /\ feed.stage \in {"off", "counting", "counted", "open"} /\ feed.looking \subseteq Notices
    /\ shown.count \in 0..(2 * Cardinality(Notices)) /\ (shown.list = NotYet \/ shown.list \in Inboxes)
    /\ races \subseteq {"badge", "list"}

Quiet == asks = {} /\ due = {} /\ feed.stage = "open" /\ feed.looking = {} /\ feed.frames = <<>>
Skipped == {n \in gap : heard[n] = "none"}

(* Once nothing is under way the badge shows what is unread, but for a row   *)
(* whose pulse came between the stream's count and its subscription (or was  *)
(* lost) and an answer that was overtaken by a newer one; the next snapshot  *)
(* or count puts either right.                                              *)
BadgeAgrees == (Quiet /\ "badge" \notin races /\ Skipped = {}) => shown.count = Cardinality(UnreadIn(inbox))

(* So does the list, but for rows whose pulse came while the stream was off. *)
ListAgrees ==
    (Quiet /\ "list" \notin races /\ shown.list # NotYet)
      => \A n \in Notices \ missed : shown.list[n] = inbox[n]

(* Every row is heard of sooner or later, however often the stream breaks,   *)
(* but for the gap between a count and its subscription and lost pulses.     *)
EveryNoticeHeard ==
    []<>(\A n \in Notices : viewer # "none" /\ inbox[n] # "none" => heard[n] # "none" \/ n \in gap)

(* At rest the bell shows what is stored: its badge and its list.            *)
BellAgrees == ViewTypeOK /\ BadgeAgrees /\ ListAgrees
=============================================================================
