------------------------------ MODULE Profiles ------------------------------
(***************************************************************************)
(* Public profiles, who follows whom, and public documents, as the pages   *)
(* of the browser show them: a page reads in several statements while      *)
(* accounts come and go, follows change and documents are published, and   *)
(* the follow button acts on what the page last heard.                     *)
(*   apps/api/src/modules/profiles, modules/public-documents               *)
(*   packages/auth/src/workspace.ts, database/src/schema/profile.ts        *)
(*   apps/web/features/profiles, apps/web/app/u, apps/web/app/p            *)
(***************************************************************************)
EXTENDS Naturals, FiniteSets, Functions

CONSTANTS
    People,      \* accounts: user.id
    Nameless,    \* who signs up by password or code, which sends no name or a blank one
    Usernames,   \* what user_profiles.username is drawn from
    NoUsername,
    Attempts,    \* drawings of a username at sign-up
    Essays,      \* documents that may become public
    AuthorOf,    \* documents.owner_id
    Screens,     \* pages open in browsers
    ReaderOf,    \* whose browser
    MaxProfile   \* bounds: refetches, taps of the button, saves and documents' turns

ASSUME ProfileAssumption ==
    /\ Attempts \in Nat \ {0} /\ AuthorOf \in [Essays -> People] /\ ReaderOf \in [Screens -> People]
    /\ NoUsername \notin Usernames /\ \E f \in [People -> Usernames] : IsInjective(f)
    /\ MaxProfile \in [{"refetches", "taps", "turns"} -> Nat]

VARIABLES
    account,    \* none, live, failed (without a profile), gone
    username,   \* user_profiles.username
    face,       \* the name of the user row and the bio of the profile row
    follows,    \* user_follows: <<follower, following>>
    readable,   \* documents that are ready or partially ready, and not deleted
    published,  \* documents whose visibility is public
    screens,    \* per screen: which view of what
    queries,    \* per screen and query: a request under way
    entries,    \* per screen and query: the answer in the cache
    tap,        \* per screen: the call of the follow button
    turned      \* bounded acts so far

serverVars == <<account, username, face, follows, readable, published>>
pageVars == <<screens, queries, entries, tap>>
profileVars == <<serverVars, pageVars, turned>>

Kinds == {"profile", "status", "documents", "followers", "following", "paper"}
Counts == {"followers", "following", "documents"}
\* The queries of a page. The list of documents stands on the page of the
\* profile, but shares nothing with the other two queries.
QueriesOf == [profile |-> {"profile", "status"}, documents |-> {"documents"},
              followers |-> {"followers"}, following |-> {"following"}, paper |-> {"paper"}]
Views == DOMAIN QueriesOf

Face(name) == [name |-> name, bio |-> "null"]
FirstName(p) == IF p \in Nameless THEN "blank" ELSE "given"
NoAsk == [step |-> "idle", got |-> {}, owner |-> {}, ever |-> {}, old |-> FALSE]
NothingYet == [state |-> "pending", answer |-> {}, had |-> FALSE, stale |-> FALSE]
NoTap == [step |-> "idle", verb |-> "PUT", target |-> {}]

\* The service has nobody yet, or everybody, with what they made before.
Named == CHOOSE f \in [People -> Usernames] : IsInjective(f)

ProfilesInit ==
    /\ \/ /\ account = [p \in People |-> "none"] /\ username = [p \in People |-> NoUsername]
          /\ face = [p \in People |-> Face("null")] /\ follows = {} /\ readable = {} /\ published = {}
       \/ /\ account = [p \in People |-> "live"] /\ username = Named
          /\ face = [p \in People |-> Face(FirstName(p))]
          /\ follows \in {{}, {f \in People \X People : f[1] # f[2]}}
          /\ readable \in {{}, Essays} /\ published = readable
    /\ screens = [s \in Screens |-> [view |-> "none"]]
    /\ queries = [s \in Screens |-> [k \in Kinds |-> NoAsk]]
    /\ entries = [s \in Screens |-> [k \in Kinds |-> NothingYet]]
    /\ tap = [s \in Screens |-> NoTap]
    /\ turned = [b \in DOMAIN MaxProfile |-> 0]

SpendTurn(b) == turned[b] < MaxProfile[b] /\ turned' = [turned EXCEPT ![b] = @ + 1]

-----------------------------------------------------------------------------
\* What the queries read

Members == {p \in People : account[p] = "live"}
Holder(u) == {p \in Members : username[p] = u}
Visible == readable \cap published

\* A count or a list of one statement.
Rows(k, p) ==
    CASE k = "followers" -> {q \in Members : <<q, p>> \in follows}
      [] k = "following" -> {q \in Members : <<p, q>> \in follows}
      [] k = "documents" -> {d \in Visible : AuthorOf[d] = p}

\* listPublicProfileDocuments, listFollowUsers: a join on the username.
Listed(k, u) == UNION {Rows(k, p) : p \in Holder(u)}
\* isFollowing.
Followed(s, u) == {p \in Holder(u) : <<ReaderOf[s], p>> \in follows}
\* findPublicDocument.
PublicDocument(d) == Visible \cap {d}

\* The last statement of a request.
Rest(s, k) ==
    LET u == screens[s].of IN
    CASE k = "paper" -> PublicDocument(u)
      [] k = "status" -> Followed(s, u)
      [] OTHER -> Listed(k, u)

\* What a request would answer if nothing moved meanwhile: an answer, or none
\* when it is not found.
PageOf(p) == [face |-> face[p], rows |-> {<<c, Rows(c, p)>> : c \in Counts}]
Truth(s, k) ==
    CASE k = "paper" -> {a \in {Rest(s, k)} : a # {}}
      [] k = "profile" -> {PageOf(p) : p \in Holder(screens[s].of)}
      [] OTHER -> {Rest(s, k) : p \in Holder(screens[s].of)}

Showing(s, k) == screens[s].view # "none" /\ k \in QueriesOf[screens[s].view]
Documents == {"documents", "paper"}

\* A step of the server as the pages meet it (history): what they show, or
\* have half read, is old; the page that made the step has to find out itself.
Outdated(own, s, k) == s \notin own /\ Showing(s, k) /\ Truth(s, k)' # Truth(s, k)

Noted(own) ==
    /\ queries' = [s \in Screens |-> [k \in Kinds |->
           IF queries[s][k].step = "idle" THEN NoAsk
           ELSE [[queries[s][k] EXCEPT !.old = @ \/ Outdated(own, s, k)] EXCEPT
                     !.ever = IF k \in Documents THEN @ \union Visible' ELSE @]]]
    /\ entries' = [s \in Screens |-> [k \in Kinds |-> [entries[s][k] EXCEPT !.stale = @ \/ Outdated(own, s, k)]]]

-----------------------------------------------------------------------------
\* Accounts and documents

\* createPersonalWorkspace, one transaction: a name that is taken is drawn
\* anew; a name drawn at random is not the one an erased account had.
Retired == {username[p] : p \in {q \in People : account[q] = "gone"}}
Taken(u) == Holder(u) # {}

SignUpProfile(p) ==
    /\ account[p] = "none"
    /\ \E draws \in [1..Attempts -> Usernames \ Retired] :
         \/ \E i \in 1..Attempts :
            /\ ~Taken(draws[i]) /\ \A j \in 1..(i - 1) : Taken(draws[j])
            /\ account' = [account EXCEPT ![p] = "live"]
            /\ username' = [username EXCEPT ![p] = draws[i]]
            /\ face' = [face EXCEPT ![p] = Face(FirstName(p))]
         \/ /\ \A i \in 1..Attempts : Taken(draws[i])
            /\ account' = [account EXCEPT ![p] = "failed"] /\ UNCHANGED <<username, face>>
    /\ UNCHANGED <<follows, readable, published, screens, tap, turned>>
    /\ Noted({})

\* The worker erases the account: the cascades of its user row.
Erase(p) ==
    /\ account[p] = "live" /\ SpendTurn("turns")
    /\ account' = [account EXCEPT ![p] = "gone"]
    /\ follows' = {f \in follows : p \notin {f[1], f[2]}}
    /\ readable' = {d \in readable : AuthorOf[d] # p}
    /\ published' = {d \in published : AuthorOf[d] # p}
    /\ UNCHANGED <<username, face, screens, tap>>
    /\ Noted({})

\* parseProfileUpdate: a field may be left out, null, blank, a text or bad.
Words == {"absent", "null", "blank", "text", "bad"}
Parsed(w) == IF w = "blank" THEN "null" ELSE w
Acceptable(name, bio) == "bad" \notin {name, bio} /\ Parsed(name) # "null"

\* updateProfile, one transaction: a field left out stays as it is.
SaveProfile(p) ==
    LET Put(old, w) == IF w = "absent" THEN old ELSE Parsed(w) IN
    /\ account[p] = "live" /\ SpendTurn("turns")
    /\ \E name, bio \in Words :
         /\ Acceptable(name, bio)
         /\ face' = [face EXCEPT ![p] = [name |-> Put(@.name, name), bio |-> Put(@.bio, bio)]]
    /\ UNCHANGED <<account, username, follows, readable, published, screens, tap>>
    /\ Noted({})

\* The pipeline and the owner's switch. The switch reads the status in a
\* statement of its own (DocumentPipeline): what it publishes may no longer be
\* ready by then.
TurnDocument(d) ==
    /\ account[AuthorOf[d]] = "live" /\ SpendTurn("turns")
    /\ \/ d \notin readable /\ readable' = readable \union {d} /\ UNCHANGED published
       \/ d \in readable /\ readable' = readable \ {d} /\ published' = published \ {d}
       \/ d \notin published /\ published' = published \union {d} /\ UNCHANGED readable
       \/ d \in published /\ published' = published \ {d} /\ UNCHANGED readable
    /\ UNCHANGED <<account, username, face, follows, screens, tap>>
    /\ Noted({})

-----------------------------------------------------------------------------
\* Requests of a page

\* useQuery: a page asks what it has not got. A public document is found by
\* one statement, all else by the profile first.
AskFor(s, k) ==
    [step |-> IF k = "paper" THEN "rest" ELSE "sent", got |-> {}, owner |-> {},
     ever |-> IF k \in Documents THEN Visible ELSE {}, old |-> FALSE]

OpenPage(s) ==
    /\ screens[s].view = "none" /\ UNCHANGED <<serverVars, entries, tap, turned>>
    /\ ReaderOf[s] \in Members
    /\ \E v \in Views, u \in Usernames \union Essays :
         /\ u \in Essays <=> v = "paper"
         /\ screens' = [screens EXCEPT ![s] = [view |-> v, of |-> u]]
    /\ queries' = [queries EXCEPT ![s] =
           [k \in Kinds |-> IF Showing(s, k)' THEN AskFor(s, k)' ELSE NoAsk]]

SetAsk(s, k, a) == queries' = [queries EXCEPT ![s][k] = a] /\ UNCHANGED <<serverVars, screens, tap>>
Reading(s, k, a) == SetAsk(s, k, a) /\ UNCHANGED <<entries, turned>>

\* A query older than staleTime is mounted anew, or the network is back; one
\* that never had an answer is pending again.
Refetch(s, k) ==
    /\ Showing(s, k) /\ queries[s][k].step = "idle" /\ SpendTurn("refetches")
    /\ SetAsk(s, k, AskFor(s, k))
    /\ entries' = IF entries[s][k].had THEN entries ELSE [entries EXCEPT ![s][k] = NothingYet]

\* findPublicProfile: the row with its name, then the owner's id, then three
\* counts at once. Of all that, the other requests take only that it is there:
\* one step is enough for them.
FindProfile(s, k) ==
    LET a == queries[s][k]   found == Holder(screens[s].of) IN
    /\ a.step = "sent"
    /\ Reading(s, k,
           IF found = {} \/ (k = "status" /\ ReaderOf[s] \notin Members) THEN [a EXCEPT !.step = "failed"]
           ELSE IF k # "profile" THEN [a EXCEPT !.step = "rest"]
           ELSE [[a EXCEPT !.step = "row"] EXCEPT !.got = {[face |-> face[p], rows |-> {}] : p \in found}])

FindOwner(s) ==
    LET a == queries[s]["profile"]   found == Holder(screens[s].of) IN
    /\ a.step = "row"
    /\ Reading(s, "profile", IF found = {} THEN [a EXCEPT !.step = "failed"]
                             ELSE [[a EXCEPT !.step = "count"] EXCEPT !.owner = found])

CountRows(s, c) ==
    LET a == queries[s]["profile"]
        counted(g) == {r[1] : r \in g.rows}
        more == {[g EXCEPT !.rows = @ \union {<<c, UNION {Rows(c, p) : p \in a.owner}>>}] : g \in a.got} IN
    /\ a.step = "count" /\ \A g \in a.got : c \notin counted(g)
    /\ Reading(s, "profile", [[a EXCEPT !.got = more] EXCEPT
                                  !.step = IF \A g \in more : counted(g) = Counts THEN "done" ELSE "count"])

ReadRest(s, k) ==
    LET a == queries[s][k]   rows == Rest(s, k) IN
    /\ a.step = "rest"
    /\ Reading(s, k, IF k = "paper" /\ rows = {} THEN [a EXCEPT !.step = "failed"]
                     ELSE [[a EXCEPT !.step = "done"] EXCEPT !.got = {rows}])

LoseAsk(s, k) ==
    /\ queries[s][k].step = "done" /\ SpendTurn("refetches")
    /\ SetAsk(s, k, [queries[s][k] EXCEPT !.step = "failed"]) /\ UNCHANGED entries

\* A query that fails is asked once more; then the page keeps what it had.
HearAsk(s, k) ==
    LET a == queries[s][k] IN
    \/ /\ a.step = "done" /\ SetAsk(s, k, NoAsk) /\ UNCHANGED turned
       /\ entries' = [entries EXCEPT ![s][k] = [state |-> "data", answer |-> a.got, had |-> TRUE, stale |-> a.old]]
    \/ a.step = "failed" /\ SpendTurn("refetches") /\ SetAsk(s, k, AskFor(s, k)) /\ UNCHANGED entries
    \/ /\ a.step = "failed" /\ SetAsk(s, k, NoAsk) /\ UNCHANGED turned
       /\ entries' = [entries EXCEPT ![s][k].state = "error"]

-----------------------------------------------------------------------------
\* The follow button

FollowsShown(s) == \E rows \in entries[s]["status"].answer : rows # {}

\* The button is there before the page knows whose it is, its owner's too.
TapFollow(s) ==
    /\ screens[s].view = "profile" /\ tap[s].step = "idle" /\ SpendTurn("taps")
    /\ entries[s]["profile"].state = "data" /\ entries[s]["status"].state # "pending"
    /\ tap' = [tap EXCEPT ![s] = [step |-> "sent", verb |-> IF FollowsShown(s) THEN "DELETE" ELSE "PUT", target |-> {}]]
    /\ UNCHANGED <<serverVars, screens, queries, entries>>

TapTo(s, step) ==
    /\ tap' = [tap EXCEPT ![s] = IF step = "idle" THEN NoTap ELSE [@ EXCEPT !.step = step]]
    /\ UNCHANGED <<screens, turned>>

\* followByUsername, unfollowByUsername: the target is looked up, then the row
\* is put in, unless it is there, or deleted.
LookUpTarget(s) ==
    LET target == Holder(screens[s].of) IN
    /\ tap[s].step = "sent"
    /\ IF \/ target = {} \/ ReaderOf[s] \notin Members
          \/ tap[s].verb = "PUT" /\ target = {ReaderOf[s]}
       THEN TapTo(s, "refused")
       ELSE tap' = [tap EXCEPT ![s] = [step |-> "found", verb |-> @.verb, target |-> target]] /\ UNCHANGED <<screens, turned>>
    /\ UNCHANGED <<serverVars, queries, entries>>

\* The row refers to both users: one that has gone meanwhile refuses it.
References(f) == f[1] \in Members /\ f[2] \in Members

WriteFollow(s) ==
    LET rows == {<<ReaderOf[s], p>> : p \in tap[s].target} IN
    /\ tap[s].step = "found"
    /\ \/ /\ tap[s].verb = "PUT" /\ \A f \in rows : References(f)
          /\ follows' = follows \union rows /\ TapTo(s, "done")
       \/ /\ tap[s].verb = "PUT" /\ \E f \in rows : ~References(f)
          /\ UNCHANGED follows /\ TapTo(s, "refused")
       \/ /\ tap[s].verb = "DELETE"
          /\ follows' = follows \ rows /\ TapTo(s, "done")
    /\ UNCHANGED <<account, username, face, readable, published>>
    /\ Noted({s})

\* Mutant: a query that is under way is not asked anew.
AnewUnlessAsked(s, k) == IF queries[s][k].step = "idle" THEN AskFor(s, k) ELSE queries[s][k]

\* invalidateQueries: a query that has an answer is asked anew, whatever is
\* under way; the first answer of one that has none is still waited for.
Anew(s, k) ==
    IF entries[s][k].had \/ queries[s][k].step = "idle" THEN AskFor(s, k)
    ELSE [queries[s][k] EXCEPT !.old = TRUE]

\* onSuccess; a call that fails tells the page nothing.
HearTap(s) ==
    \/ /\ tap[s].step = "done" /\ TapTo(s, "refreshing")
       /\ queries' = [queries EXCEPT ![s] = [k \in Kinds |-> IF k \in QueriesOf["profile"] THEN Anew(s, k) ELSE @[k]]]
       /\ UNCHANGED <<serverVars, entries>>
    \/ /\ tap[s].step = "refused" /\ TapTo(s, "idle") /\ UNCHANGED <<serverVars, queries, entries>>
    \/ /\ tap[s].step = "refreshing" /\ \A k \in {"status", "profile"} : queries[s][k].step = "idle"
       /\ TapTo(s, "idle") /\ UNCHANGED <<serverVars, queries, entries>>

\* Another device calls: its two statements in one step, as the page's own
\* call meets what may come between them.
FollowElsewhere(p, q) ==
    /\ {p, q} \subseteq Members /\ p # q /\ SpendTurn("turns")
    /\ follows' = IF <<p, q>> \in follows THEN follows \ {<<p, q>>} ELSE follows \union {<<p, q>>}
    /\ UNCHANGED <<account, username, face, readable, published, screens, tap>>
    /\ Noted({})

LoseTap(s) ==
    /\ tap[s].step \in {"sent", "done"} /\ TapTo(s, "idle") /\ UNCHANGED serverVars
    /\ queries' = [queries EXCEPT ![s] = [k \in Kinds |-> [@[k] EXCEPT !.old = queries[s][k].step # "idle"]]]
    /\ entries' = [entries EXCEPT ![s] = [k \in Kinds |-> [@[k] EXCEPT !.stale = TRUE]]]

ProfilesNext ==
    \/ \E p \in People : SignUpProfile(p) \/ Erase(p) \/ SaveProfile(p)
    \/ \E p, q \in People : FollowElsewhere(p, q)
    \/ \E d \in Essays : TurnDocument(d)
    \/ \E s \in Screens :
         \/ OpenPage(s) \/ TapFollow(s) \/ LookUpTarget(s) \/ WriteFollow(s) \/ HearTap(s) \/ LoseTap(s)
         \/ FindOwner(s)
         \/ \E c \in Counts : CountRows(s, c)
         \/ \E k \in Kinds : Refetch(s, k) \/ FindProfile(s, k) \/ ReadRest(s, k)
                             \/ LoseAsk(s, k) \/ HearAsk(s, k)

-----------------------------------------------------------------------------
\* Properties

ProfilesTypeOK ==
    /\ account \in [People -> {"none", "live", "failed", "gone"}]
    /\ username \in [People -> Usernames \union {NoUsername}]
    /\ follows \subseteq People \X People /\ readable \subseteq Essays /\ published \subseteq Essays
    /\ \A s \in Screens : tap[s].step \in {"idle", "sent", "found", "done", "refused", "refreshing"}

(* A username names one live account, and no save leaves an account without *)
(* a name to be stored, be it the blank one of its sign-up; nobody follows  *)
(* themselves, or an account that is not there                              *)
(* (packages/auth/src/workspace.ts, profile.schema.ts, profile.repository.ts). *)
AccountsStand ==
    /\ \A p \in Members : username[p] # NoUsername /\ Holder(username[p]) = {p} /\ face[p].name # "null"
    /\ \A f \in follows : f[1] # f[2] /\ {f[1], f[2]} \subseteq Members

(* A page that waits for nothing shows the truth, and so does its button,   *)
(* unless others changed it since it asked or its own call was lost         *)
(* (use-public-profile.ts).                                                 *)
PagesTell ==
    \A s \in Screens : \A k \in Kinds :
        entries[s][k].state = "data" /\ ~entries[s][k].stale
            /\ tap[s].step = "idle" /\ queries[s][k].step = "idle"
          => entries[s][k].answer = Truth(s, k)

(* No list and no file of the public pages is of a document that was hidden *)
(* from the request's beginning to its end (public-document.repository.ts). *)
NothingHidden ==
    \A s \in Screens : \A k \in Documents : UNION queries[s][k].got \subseteq queries[s][k].ever

ProfilesSound == ProfilesTypeOK /\ AccountsStand /\ PagesTell /\ NothingHidden
=============================================================================
