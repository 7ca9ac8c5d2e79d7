---------------------------- MODULE SignIn_proofs ----------------------------
(***************************************************************************)
(* Proofs about the two ways to sign in: with a code that a phone scans    *)
(* (ScanLogin) and on the login screen (LoginViews).                       *)
(*                                                                         *)
(* ScanLogin, for any set of phones and any bound on renewed codes and     *)
(* faults: nobody is signed in but by a confirmation of the very code, a   *)
(* session is lost only by a fault, and a phone that shows an approval did *)
(* approve. The inductive invariant follows a code and a call through      *)
(* their lives. A view has one call under way at most (OneCall); a code is *)
(* served once, and its row holds either its claimant's decision or        *)
(* nothing, so that no two sessions are of one code (CodesOnce); a         *)
(* confirmation on its way to the phone is as real as one the phone shows  *)
(* (Confirmed). Orphaned sessions alone are not bounded inductively: a     *)
(* page that is gone may still have its token served, and that session was *)
(* paid for when the page was reloaded, so such calls count with the       *)
(* orphans (Accounted).                                                    *)
(*                                                                         *)
(* LoginViews, for any addresses and any number of calls, edits and turns, *)
(* on each app. What the screen shows is right because of what is under    *)
(* way when an answer comes: one sign-in at most (OneSignIn), one call of  *)
(* the browser's or the iPhone's (OneAtATime), a task that submits a code  *)
(* alone (TypedAlone), and a call for a code of the very address           *)
(* (CodeOfAddress).                                                        *)
(***************************************************************************)
EXTENDS ScanLogin, LoginViews, FiniteSetTheorems, SequenceTheorems, TLAPS

-----------------------------------------------------------------------------
\* The invariant

TabKinds == {"code", "token", "adopt"}
PhoneKinds == {"claim", "approve", "deny"}
Answers == {"none", "ok", "failed", "lost", "data", "invalid",
            "authorization_pending", "access_denied", "expired_token"}
Calls == [who : Phones \cup {"tab"}, view : Codes, kind : TabKinds \cup PhoneKinds, of : Nat, answer : Answers]

(* A call is the tab's or a phone's, made in a view that was shown once, and *)
(* about a code or a session there is.                                       *)
SoundCall(r) ==
    /\ r \in Calls
    /\ r.who = "tab" => r.kind \in TabKinds /\ r.view <= tab.gen
    /\ r.who # "tab" => r.kind \in PhoneKinds /\ r.view <= scanner[r.who].view
    /\ r.kind = "code" => r.of = 0
    /\ r.kind \in PhoneKinds \cup {"token"} => r.of \in Codes
    /\ r.kind = "adopt" => r.of \in DOMAIN sessions /\ r.answer \in {"none", "ok", "failed", "lost"}

Sessions == [user : Phones, by : Phones, code : Codes, live : BOOLEAN]

ScanTyped ==
    /\ ScanTypeOK
    /\ sessions \in Seq(Sessions)
    /\ IsFiniteSet(calls) /\ \A r \in calls : SoundCall(r)
    /\ tab.gen <= turns + 1 /\ \A p \in Phones : scanner[p].view <= turns + 1
    /\ tab.status = "closed" <=> tab.gen = 0
    /\ tab.status # "closed" => tab.gen \in Codes

(* A view has one call under way at most, also when it is gone; answers come *)
(* to the view that asked, and the view shows that it waits for them.        *)
TabCall(r) ==
    /\ r.who = "tab" /\ Listens(r) =>
         /\ r.kind = "code" => tab.status = "loading"
         /\ r.kind # "code" => tab.status = "waiting"
         /\ r.kind = "token" => r.of = tab.code
         /\ r.kind = "adopt" => sessions[r.of].code = tab.code
PhoneCall(r) ==
    /\ r.who # "tab" /\ Listens(r) =>
         /\ scanner[r.who].phase = "working" /\ r.of = scanner[r.who].code

OneCall ==
    /\ \A r \in calls : r.answer # "none" => Listens(r)
    /\ \A r \in calls : TabCall(r) /\ PhoneCall(r)
    /\ \A r, q \in calls : r.who = q.who /\ r.view = q.view => r = q
    /\ cookie # 0 => tab.status = "approved"
    /\ \A p \in Phones : scanner[p].phase # "scanning" => scanner[p].code \in Codes

(* A code is served once: before, its row is untouched and no session is of  *)
(* it. A decided row has its claimant's decision, and no two sessions are of *)
(* one code.                                                                 *)
Unserved(c) == device[c] = NoRow /\ \A i \in DOMAIN sessions : sessions[i].code # c

CodesOnce ==
    /\ \A r \in calls : r.kind = "code" /\ r.answer = "none" => Unserved(r.view)
    /\ tab.status = "loading" /\ ~InTouch => Unserved(tab.gen)
    /\ \A c \in Codes : c > tab.gen => Unserved(c)
    /\ \A c \in Codes :
         /\ device[c].status \in {"approved", "denied"} => device[c].by = device[c].user /\ device[c].by \in Phones
         /\ device[c].status \in {"absent", "pending"} => device[c].by = Nobody
         /\ device[c].status # "absent" => \A i \in DOMAIN sessions : sessions[i].code # c
    /\ \A i \in DOMAIN sessions : sessions[i].user = sessions[i].by
    /\ \A i, j \in DOMAIN sessions : sessions[i].code = sessions[j].code => i = j

(* A confirmation is real when the code is approved by that phone, was spent *)
(* on a session of it, or has run out.                                       *)
Real(p, c) ==
    \/ device[c].by = p /\ device[c].status = "approved"
    \/ device[c].expired
    \/ \E i \in DOMAIN sessions : sessions[i].by = p /\ sessions[i].code = c

Confirmed ==
    /\ \A r \in calls : r.kind = "approve" /\ r.answer = "ok" => Real(r.who, r.of)
    /\ \A p \in Phones : scanner[p].phase = "approved" => Real(p, scanner[p].code)

(* Tokens that will be given to a tab that has gone, with the sessions that  *)
(* nobody carries, are no more than the mishaps.                             *)
Orphans == {i \in DOMAIN sessions : sessions[i].live /\ ~Carried(i)}
Strays == {r \in calls : r.kind = "token" /\ r.answer = "none" /\ ~Listens(r)}

Accounted ==
    /\ Cardinality(Orphans) + Cardinality(Strays) <= mishaps
    /\ \A r \in calls : r.kind = "adopt" /\ r.answer = "failed" => ~sessions[r.of].live

ScanInv == ScanTyped /\ OneCall /\ CodesOnce /\ Confirmed /\ Accounted /\ TabSessionApproved

-----------------------------------------------------------------------------
\* Lemmas

(* Counting: two finite sets stay within a budget when neither grows; a set  *)
(* grows by one element at a time; and the budget is kept when an element of *)
(* the second makes room for one in the first.                               *)
LEMMA CountKeeps ==
  ASSUME NEW A, NEW B, NEW A2, NEW B2, IsFiniteSet(A), IsFiniteSet(B),
         NEW m \in Nat, NEW m2 \in Nat, m <= m2,
         Cardinality(A) + Cardinality(B) <= m, A2 \subseteq A, B2 \subseteq B
  PROVE  Cardinality(A2) + Cardinality(B2) <= m2
<1>1. /\ Cardinality(A2) <= Cardinality(A) /\ IsFiniteSet(A2)
      /\ Cardinality(B2) <= Cardinality(B) /\ IsFiniteSet(B2)
  BY FS_Subset
<1>2. Cardinality(A) \in Nat /\ Cardinality(B) \in Nat /\ Cardinality(A2) \in Nat /\ Cardinality(B2) \in Nat
  BY <1>1, FS_CardinalityType
<1> QED
  BY <1>1, <1>2

LEMMA OneMore ==
  ASSUME NEW A, NEW x, IsFiniteSet(A)
  PROVE  /\ IsFiniteSet(A \cup {x}) /\ Cardinality(A) \in Nat /\ Cardinality(A \cup {x}) \in Nat
         /\ Cardinality(A \cup {x}) <= Cardinality(A) + 1
<1>1. /\ IsFiniteSet(A \cup {x})
      /\ Cardinality(A \cup {x}) = Cardinality(A) \/ Cardinality(A \cup {x}) = Cardinality(A) + 1
  BY FS_AddElement, Zenon
<1>2. Cardinality(A) \in Nat
  BY FS_CardinalityType
<1> QED
  BY <1>1, <1>2

LEMMA CountMoves ==
  ASSUME NEW A, NEW B, NEW A2, NEW B2, NEW x, NEW y \in B, IsFiniteSet(A), IsFiniteSet(B),
         NEW m \in Nat, Cardinality(A) + Cardinality(B) <= m,
         A2 \subseteq A \cup {x}, B2 \subseteq B \ {y}
  PROVE  Cardinality(A2) + Cardinality(B2) <= m
<1>1. Cardinality(A) \in Nat /\ Cardinality(B) \in Nat
  BY FS_CardinalityType
<1>2. IsFiniteSet(B \ {y}) /\ Cardinality(B \ {y}) = Cardinality(B) - 1
  BY FS_RemoveElement
<1>3. /\ IsFiniteSet(A \cup {x})
      /\ Cardinality(A \cup {x}) = Cardinality(A) \/ Cardinality(A \cup {x}) = Cardinality(A) + 1
  BY FS_AddElement, Zenon
<1>4. Cardinality(A \cup {x}) + Cardinality(B \ {y}) <= m
  BY <1>1, <1>2, <1>3
<1> QED
  BY <1>2, <1>3, <1>4, CountKeeps

(* The sets that are counted are finite, as the state is. *)
LEMMA CountedFinite ==
  ASSUME ScanTyped
  PROVE  IsFiniteSet(Orphans) /\ IsFiniteSet(Strays) /\ mishaps \in Nat
<1>1. Len(sessions) \in Nat /\ DOMAIN sessions = 1..Len(sessions)
  BY DEF ScanTyped
<1>2. IsFiniteSet(1..Len(sessions))
  BY <1>1, FS_Interval
<1>3. Orphans \subseteq 1..Len(sessions) /\ Strays \subseteq calls
  BY <1>1 DEF Orphans, Strays
<1>4. mishaps \in Nat
  <2>1. turns \in 0..MaxTurns /\ mishaps \in 0..turns
    BY DEF ScanTyped, ScanTypeOK
  <2> QED
    BY <2>1, ScanAssumption
<1>5. IsFiniteSet(calls)
  BY DEF ScanTyped
<1> QED
  BY <1>2, <1>3, <1>4, <1>5, FS_Subset

(* The fields of a call that is answered. *)
LEMMA AnsweredCall ==
  ASSUME NEW r \in Calls, NEW a \in Answers
  PROVE  LET q == [r EXCEPT !.answer = a]
         IN  q \in Calls /\ q.who = r.who /\ q.view = r.view /\ q.kind = r.kind /\ q.of = r.of /\ q.answer = a
BY DEF Calls

(* An answer reaches the view that asked, or nobody. *)
LEMMA RepliesTo ==
  ASSUME NEW r \in calls, r \in Calls, NEW a \in Answers, Replies(r, a)
  PROVE  /\ ~Listens(r) => calls' = calls \ {r}
         /\ Listens(r) =>
              \E q \in Calls : /\ calls' = (calls \ {r}) \cup {q}
                               /\ q.who = r.who /\ q.view = r.view /\ q.kind = r.kind /\ q.of = r.of /\ q.answer = a
<1>1. CASE ~Listens(r)
  BY <1>1 DEF Replies
<1>2. CASE Listens(r)
  <2> DEFINE q == [r EXCEPT !.answer = a]
  <2>1. calls' = (calls \ {r}) \cup {q}
    BY <1>2 DEF Replies, Answered
  <2>2. q \in Calls /\ q.who = r.who /\ q.view = r.view /\ q.kind = r.kind /\ q.of = r.of /\ q.answer = a
    BY AnsweredCall
  <2> HIDE DEF q
  <2> QED
    BY <1>2, <2>1, <2>2
<1> QED
  BY <1>1, <1>2
-----------------------------------------------------------------------------
\* What the server does

(* Whatever a call is answered, the views go on as before, and no stray call *)
(* is new.                                                                   *)
LEMMA Serving ==
  ASSUME ScanInv, NEW r \in calls, r.answer = "none", NEW a \in Answers, a \notin {"none", "lost"}, Replies(r, a),
         UNCHANGED <<tab, cookie, scanner, mishaps, turns>>,
         r.kind = "adopt" => a \in {"ok", "failed"},
         DOMAIN sessions \subseteq DOMAIN sessions',
         \A i \in DOMAIN sessions : sessions'[i].code = sessions[i].code
  PROVE  /\ IsFiniteSet(calls') /\ \A q \in calls' : SoundCall(q)'
         /\ OneCall'
         /\ \A q : Listens(q)' <=> Listens(q)
         /\ Strays' = Strays \ {r}
         /\ InTouch => InTouch'
         /\ \A q \in calls' : \/ q \in calls /\ q # r
                              \/ Listens(r) /\ q.who = r.who /\ q.view = r.view /\ q.kind = r.kind /\ q.of = r.of /\ q.answer = a
         /\ \A q \in calls : q # r => q \in calls'
         /\ Listens(r) => \E q \in calls' : q.who = r.who /\ q.kind = r.kind /\ q.of = r.of /\ q.view = r.view /\ q.answer = a
         /\ \A i \in DOMAIN sessions : Carried(i) => Carried(i)'
<1>1. ScanTyped /\ OneCall
  BY DEF ScanInv
<1>2. r \in Calls /\ SoundCall(r)
  BY <1>1 DEF ScanTyped, SoundCall
<1>3. \A q : Listens(q)' <=> Listens(q)
  BY DEF Listens
<1>4. CASE ~Listens(r)
  <2>1. calls' = calls \ {r}
    BY <1>2, <1>4, RepliesTo
  <2>2. IsFiniteSet(calls')
    BY <1>1, <2>1, FS_Subset DEF ScanTyped
  <2>3. \A q \in calls' : SoundCall(q)'
    BY <1>1, <2>1 DEF ScanTyped, SoundCall
  <2>4. OneCall'
    BY <1>1, <1>3, <2>1 DEF OneCall, TabCall, PhoneCall, ScanTyped, SoundCall
  <2>5. Strays' = Strays \ {r}
    BY <1>3, <2>1 DEF Strays
  <2>6. \A i \in DOMAIN sessions : Carried(i) => Carried(i)'
    BY <1>3, <1>4, <2>1 DEF Carried
  <2> QED
    BY <1>3, <1>4, <2>1, <2>2, <2>3, <2>4, <2>5, <2>6 DEF InTouch
<1>5. CASE Listens(r)
  <2>1. PICK q \in Calls : /\ calls' = (calls \ {r}) \cup {q}
                           /\ q.who = r.who /\ q.view = r.view /\ q.kind = r.kind /\ q.of = r.of /\ q.answer = a
    BY <1>2, <1>5, RepliesTo
  <2>2. IsFiniteSet(calls')
    <3>1. IsFiniteSet(calls \ {r})
      BY <1>1, FS_Subset DEF ScanTyped
    <3> QED
      BY <2>1, <3>1, FS_AddElement
  <2>3. \A p \in calls' : SoundCall(p)'
    BY <1>1, <1>2, <2>1 DEF ScanTyped, SoundCall
  <2>4. Listens(q)
    BY <1>5, <2>1 DEF Listens
  <2>5. OneCall'
    <3>1. \A p \in calls' : p.answer # "none" => Listens(p)'
      BY <1>1, <1>3, <2>1, <2>4 DEF OneCall
    <3>2. \A p \in calls' : TabCall(p)' /\ PhoneCall(p)'
      <4>1. \A p \in calls : TabCall(p)' /\ PhoneCall(p)'
        BY <1>1, <1>3 DEF OneCall, TabCall, PhoneCall, ScanTyped, SoundCall
      <4>2. TabCall(q)' /\ PhoneCall(q)'
        BY <4>1, <2>1, <2>4, <1>3, <1>5 DEF TabCall, PhoneCall
      <4> QED
        BY <4>1, <4>2, <2>1
    <3>3. \A p, o \in calls' : p.who = o.who /\ p.view = o.view => p = o
      BY <1>1, <2>1 DEF OneCall
    <3> QED
      BY <1>1, <3>1, <3>2, <3>3 DEF OneCall
  <2>6. Strays' = Strays \ {r}
    BY <1>3, <1>5, <2>1, <2>4 DEF Strays
  <2>7. InTouch => InTouch'
    BY <1>3, <2>1, <2>4 DEF InTouch
  <2>8. \A i \in DOMAIN sessions : Carried(i) => Carried(i)'
    <3> SUFFICES ASSUME NEW i \in DOMAIN sessions, Carried(i), cookie # i
                 PROVE  Carried(i)'
      BY DEF Carried
    <3>1. PICK p \in calls : /\ p.who = "tab" /\ Listens(p)
                             /\ \/ p.kind = "token" /\ p.answer = "data" /\ p.of = sessions[i].code
                                \/ p.kind = "adopt" /\ p.of = i /\ p.answer # "lost"
      BY DEF Carried
    <3>2. CASE p # r
      BY <1>3, <2>1, <3>1, <3>2 DEF Carried
    <3>3. CASE p = r
      <4>1. q \in calls' /\ q.who = "tab" /\ Listens(q)' /\ q.kind = "adopt" /\ q.of = i /\ q.answer # "lost"
        BY <1>3, <2>1, <2>4, <3>1, <3>3
      <4> QED
        BY <4>1 DEF Carried
    <3> QED
      BY <3>2, <3>3
  <2> QED
    BY <1>3, <1>5, <2>1, <2>2, <2>3, <2>5, <2>6, <2>7, <2>8
<1> QED
  BY <1>4, <1>5

(* The parts of the invariant that a call leaves alone when it is answered   *)
(* and the sessions are as they were.                                        *)
LEMMA ServingSessions ==
  ASSUME ScanInv, NEW r \in calls, r.answer = "none", NEW a \in Answers, a \notin {"none", "lost"}, Replies(r, a),
         UNCHANGED <<tab, cookie, scanner, sessions, mishaps, turns>>,
         r.kind = "adopt" => a = "ok" \/ (a = "failed" /\ ~sessions[r.of].live),
         device' \in [Codes -> [status : RowStatuses, user : Phones \union {Nobody},
                                by : Phones \union {Nobody}, expired : BOOLEAN]]
  PROVE  ScanTyped' /\ OneCall' /\ Accounted' /\ TabSessionApproved'
<1>1. ScanTyped /\ Accounted /\ TabSessionApproved
  BY DEF ScanInv
<1>2. /\ IsFiniteSet(calls') /\ \A q \in calls' : SoundCall(q)'
      /\ OneCall'
      /\ Strays' = Strays \ {r}
      /\ \A q \in calls' : \/ q \in calls /\ q # r
                           \/ Listens(r) /\ q.who = r.who /\ q.view = r.view /\ q.kind = r.kind /\ q.of = r.of /\ q.answer = a
      /\ \A i \in DOMAIN sessions : Carried(i) => Carried(i)'
  BY Serving
<1>3. ScanTyped'
  BY <1>1, <1>2 DEF ScanTyped, ScanTypeOK
<1>4. Accounted'
  <2>1. Orphans' \subseteq Orphans
    BY <1>2 DEF Orphans
  <2>2. IsFiniteSet(Orphans) /\ IsFiniteSet(Strays) /\ mishaps \in Nat
    BY <1>1, CountedFinite
  <2>3. Strays' \subseteq Strays
    BY <1>2
  <2>4. Cardinality(Orphans') + Cardinality(Strays') <= mishaps'
    BY <1>1, <2>1, <2>2, <2>3, CountKeeps DEF Accounted
  <2>5. \A q \in calls' : q.kind = "adopt" /\ q.answer = "failed" => ~sessions'[q.of].live
    BY <1>1, <1>2 DEF Accounted
  <2> QED
    BY <2>4, <2>5 DEF Accounted
<1>5. TabSessionApproved'
  BY <1>1 DEF TabSessionApproved
<1> QED
  BY <1>2, <1>3, <1>4, <1>5

LEMMA ServeCodeKeeps ==
  ASSUME ScanInv, NEW r \in calls, r.answer = "none", ServeCode(r),
         UNCHANGED <<tab, cookie, scanner, mishaps, turns>>
  PROVE  ScanInv'
<1>1. ScanTyped /\ CodesOnce /\ Confirmed
  BY DEF ScanInv
<1>2. r \in Calls /\ SoundCall(r) /\ r.who = "tab" /\ r.view \in Codes /\ r.view <= tab.gen
  BY <1>1 DEF ScanTyped, SoundCall, ServeCode, Calls, TabKinds, PhoneKinds
<1>3. Replies(r, "ok") /\ UNCHANGED sessions /\ "ok" \in Answers /\ r.kind = "code"
  BY DEF ServeCode, Answers
<1>4. device' \in [Codes -> [status : RowStatuses, user : Phones \union {Nobody},
                                by : Phones \union {Nobody}, expired : BOOLEAN]]
      /\ \A c \in Codes : device'[c] = IF c = r.view THEN Fresh ELSE device[c]
  BY <1>1, <1>2 DEF ServeCode, ScanTyped, ScanTypeOK, Fresh, RowStatuses
<1>5. ScanTyped' /\ OneCall' /\ Accounted' /\ TabSessionApproved'
  BY <1>3, <1>4, ServingSessions
<1>6. /\ \A q \in calls' : \/ q \in calls /\ q # r
                           \/ Listens(r) /\ q.who = r.who /\ q.view = r.view /\ q.kind = r.kind /\ q.of = r.of /\ q.answer = "ok"
      /\ InTouch => InTouch'
      /\ Unserved(r.view)
  BY <1>1, <1>3, Serving DEF CodesOnce
<1>7. CodesOnce'
  <2>1. \A c \in Codes : c # r.view /\ Unserved(c) => Unserved(c)'
    BY <1>3, <1>4 DEF Unserved
  <2>2. \A q \in calls' : q.kind = "code" /\ q.answer = "none" => Unserved(q.view)'
    <3> SUFFICES ASSUME NEW q \in calls', q.kind = "code", q.answer = "none"
                 PROVE  Unserved(q.view)'
      OBVIOUS
    <3>1. q \in calls /\ q # r
      BY <1>6
    <3>2. q \in Calls /\ q.who = "tab" /\ q.view \in Codes
      BY <1>1, <3>1 DEF ScanTyped, SoundCall, Calls, TabKinds, PhoneKinds
    <3>3. q.view # r.view
      BY <1>2, <3>1, <3>2 DEF ScanInv, OneCall
    <3> QED
      BY <1>1, <2>1, <3>1, <3>2, <3>3 DEF CodesOnce
  <2>3. (tab.status = "loading" /\ ~InTouch => Unserved(tab.gen))'
    <3> SUFFICES ASSUME tab.status = "loading", ~InTouch'
                 PROVE  Unserved(tab.gen)'
      BY DEF Unserved
    <3>1. ~InTouch /\ ~Listens(r)
      BY <1>2, <1>6 DEF InTouch
    <3>2. r.view # tab.gen /\ tab.gen \in Codes
      BY <1>1, <1>2, <3>1 DEF Listens, ScanTyped
    <3> QED
      BY <1>1, <2>1, <3>1, <3>2 DEF CodesOnce
  <2>4. \A c \in Codes : (c > tab.gen => Unserved(c))'
    <3>1. \A c \in Codes : c > tab.gen => c # r.view
      BY <1>1, <1>2 DEF ScanTyped, ScanTypeOK, Codes
    <3> QED
      BY <1>1, <2>1, <3>1 DEF CodesOnce
  <2>5. \A c \in Codes :
         /\ device'[c].status \in {"approved", "denied"} => device'[c].by = device'[c].user /\ device'[c].by \in Phones
         /\ device'[c].status \in {"absent", "pending"} => device'[c].by = Nobody
         /\ device'[c].status # "absent" => \A i \in DOMAIN sessions' : sessions'[i].code # c
    BY <1>1, <1>3, <1>4, <1>6 DEF CodesOnce, Fresh, Unserved
  <2> QED
    BY <1>1, <1>3, <2>2, <2>3, <2>4, <2>5 DEF CodesOnce
<1>8. Confirmed'
  <2>1. \A p, c : c \in Codes /\ Real(p, c) => Real(p, c)'
    BY <1>3, <1>4, <1>6 DEF Real, Unserved, NoRow
  <2>2. \A q \in calls' : q.kind = "approve" /\ q.answer = "ok" => q \in calls /\ q.of \in Codes
    BY <1>1, <1>3, <1>6 DEF ScanTyped, SoundCall, PhoneKinds
  <2>3. \A p \in Phones : scanner[p].phase = "approved" => scanner[p].code \in Codes
    BY DEF ScanInv, OneCall
  <2> QED
    BY <1>1, <2>1, <2>2, <2>3 DEF Confirmed
<1> QED
  BY <1>5, <1>7, <1>8 DEF ScanInv

(* A row that is touched while its code is out: what no served code, no      *)
(* untouched row and no confirmation can notice.                             *)
LEMMA RowTouched ==
  ASSUME ScanInv, NEW c \in Codes, device[c].status # "absent",
         \A b \in Codes : b # c => device'[b] = device[b],
         /\ device'[c].status \in {"approved", "denied"} => device'[c].by = device'[c].user /\ device'[c].by \in Phones
         /\ device'[c].status = "pending" => device'[c].by = Nobody
         /\ device'[c].status # "absent",
         device[c].expired => device'[c].expired,
         device[c].status = "approved" => device'[c].status = "approved" /\ device'[c].by = device[c].by,
         UNCHANGED <<tab, sessions>>,
         \A q \in calls' : q.kind = "code" /\ q.answer = "none" => q \in calls,
         InTouch => InTouch'
  PROVE  CodesOnce' /\ \A p, b : b \in Codes /\ Real(p, b) => Real(p, b)'
<1>1. ScanTyped /\ CodesOnce
  BY DEF ScanInv
<1>2. \A b \in Codes : Unserved(b) => Unserved(b)'
  BY DEF Unserved, NoRow
<1>3. \A q \in calls : q.kind = "code" => q.view \in Codes
  BY <1>1 DEF ScanTyped, SoundCall, Calls
<1>4. tab.status = "loading" => tab.gen \in Codes
  BY <1>1 DEF ScanTyped
<1>5. CodesOnce'
  <2>1. \A q \in calls' : q.kind = "code" /\ q.answer = "none" => Unserved(q.view)'
    BY <1>1, <1>2, <1>3 DEF CodesOnce
  <2>2. (tab.status = "loading" /\ ~InTouch => Unserved(tab.gen))'
    <3> SUFFICES ASSUME tab.status = "loading", ~InTouch' PROVE Unserved(tab.gen)'
      BY DEF Unserved
    <3> QED
      BY <1>1, <1>2, <1>4 DEF CodesOnce
  <2>3. \A b \in Codes : (b > tab.gen => Unserved(b))'
    BY <1>1, <1>2 DEF CodesOnce
  <2>4. \A b \in Codes :
         /\ device'[b].status \in {"approved", "denied"} => device'[b].by = device'[b].user /\ device'[b].by \in Phones
         /\ device'[b].status \in {"absent", "pending"} => device'[b].by = Nobody
         /\ device'[b].status # "absent" => \A i \in DOMAIN sessions' : sessions'[i].code # b
    BY <1>1 DEF CodesOnce
  <2> QED
    BY <1>1, <2>1, <2>2, <2>3, <2>4 DEF CodesOnce
<1>6. \A p, b : b \in Codes /\ Real(p, b) => Real(p, b)'
  BY DEF Real
<1> QED
  BY <1>5, <1>6

(* Where no row changes, and the sessions at most end. *)
LEMMA RowsKept ==
  ASSUME ScanInv, UNCHANGED <<device, tab>>, DOMAIN sessions' = DOMAIN sessions,
         \A i \in DOMAIN sessions : /\ sessions'[i].code = sessions[i].code
                                    /\ sessions'[i].by = sessions[i].by /\ sessions'[i].user = sessions[i].user,
         \A q \in calls' : q.kind = "code" /\ q.answer = "none" => q \in calls,
         tab.status = "loading" /\ InTouch => InTouch'
  PROVE  CodesOnce' /\ \A p, b : Real(p, b) => Real(p, b)'
<1>1. ScanTyped /\ CodesOnce
  BY DEF ScanInv
<1>2. \A b : Unserved(b) => Unserved(b)'
  BY DEF Unserved
<1>3. (tab.status = "loading" /\ ~InTouch => Unserved(tab.gen))'
  <2> SUFFICES ASSUME tab.status = "loading", ~InTouch' PROVE Unserved(tab.gen)'
    BY DEF Unserved
  <2> QED
    BY <1>1, <1>2 DEF CodesOnce, Unserved
<1>4. CodesOnce'
  BY <1>1, <1>2, <1>3 DEF CodesOnce
<1> QED
  BY <1>4 DEF Real

(* What a server's answer leaves of the invariant, where it makes no session *)
(* and confirms nothing that is not real.                                    *)
LEMMA ServedConfirmed ==
  ASSUME ScanInv, NEW r \in calls, SoundCall(r), NEW a \in Answers, UNCHANGED scanner,
         \A q \in calls' : \/ q \in calls /\ q # r
                           \/ q.who = r.who /\ q.kind = r.kind /\ q.of = r.of /\ q.answer = a,
         \A p, b : b \in Codes /\ Real(p, b) => Real(p, b)',
         r.kind = "approve" /\ a = "ok" => Real(r.who, r.of)'
  PROVE  Confirmed'
<1>1. Confirmed /\ ScanTyped /\ OneCall
  BY DEF ScanInv
<1>2. \A q \in calls' : q.kind = "approve" /\ q.answer = "ok" => Real(q.who, q.of)'
  <2> SUFFICES ASSUME NEW q \in calls', q.kind = "approve", q.answer = "ok"
               PROVE  Real(q.who, q.of)'
    OBVIOUS
  <2>1. CASE q \in calls
    <3>1. q.of \in Codes
      BY <1>1, <2>1 DEF ScanTyped, SoundCall, PhoneKinds
    <3> QED
      BY <1>1, <2>1, <3>1 DEF Confirmed
  <2>2. CASE q \notin calls
    BY <2>2
  <2> QED
    BY <2>1, <2>2
<1>3. (\A p \in Phones : scanner[p].phase = "approved" => Real(p, scanner[p].code))'
  <2> SUFFICES ASSUME NEW p \in Phones, scanner[p].phase = "approved"
               PROVE  Real(p, scanner[p].code)'
    BY DEF Real
  <2>1. scanner[p].code \in Codes
    BY <1>1 DEF OneCall
  <2>2. Real(p, scanner[p].code)
    BY <1>1 DEF Confirmed
  <2> QED
    BY <2>1, <2>2 DEF Real
<1> QED
  BY <1>2, <1>3 DEF Confirmed

LEMMA ServeClaimKeeps ==
  ASSUME ScanInv, NEW r \in calls, r.answer = "none", ServeClaim(r),
         UNCHANGED <<tab, cookie, scanner, mishaps, turns>>
  PROVE  ScanInv'
<1>1. ScanTyped /\ CodesOnce
  BY DEF ScanInv
<1>2. SoundCall(r) /\ r.who \in Phones /\ r.of \in Codes /\ r.kind = "claim"
  BY <1>1 DEF ScanTyped, SoundCall, ServeClaim, Calls, TabKinds, PhoneKinds
<1> DEFINE row == [device[r.of] EXCEPT !.user = r.who]
<1>3. PICK a \in Answers :
        /\ a \in {"ok", "failed"} /\ Replies(r, a) /\ UNCHANGED sessions
        /\ \/ UNCHANGED device
           \/ Known(r.of) /\ device[r.of].user = Nobody /\ device' = [device EXCEPT ![r.of].user = r.who]
  BY DEF ServeClaim, Answers
<1>4. device' \in [Codes -> [status : RowStatuses, user : Phones \union {Nobody},
                                by : Phones \union {Nobody}, expired : BOOLEAN]]
  <2>1. row \in [status : RowStatuses, user : Phones \union {Nobody}, by : Phones \union {Nobody}, expired : BOOLEAN]
    BY <1>1, <1>2 DEF ScanTyped, ScanTypeOK
  <2>2. UNCHANGED device \/ device' = [device EXCEPT ![r.of] = row]
    BY <1>3
  <2> HIDE DEF row
  <2> QED
    BY <1>1, <1>2, <2>1, <2>2 DEF ScanTyped, ScanTypeOK
<1>5. ScanTyped' /\ OneCall' /\ Accounted' /\ TabSessionApproved'
  BY <1>2, <1>3, <1>4, ServingSessions
<1>6. /\ InTouch => InTouch'
      /\ \A q \in calls' : \/ q \in calls /\ q # r
                           \/ q.who = r.who /\ q.kind = r.kind /\ q.of = r.of /\ q.answer = a
  BY <1>3, Serving
<1>7. \A q \in calls' : q.kind = "code" /\ q.answer = "none" => q \in calls
  BY <1>2, <1>6
<1>8. CodesOnce' /\ \A p, b : b \in Codes /\ Real(p, b) => Real(p, b)'
  <2>1. CASE UNCHANGED device
    BY <1>3, <1>6, <1>7, <2>1, RowsKept
  <2>2. CASE Known(r.of) /\ device[r.of].user = Nobody /\ device' = [device EXCEPT ![r.of].user = r.who]
    <3>1. /\ \A b \in Codes : b # r.of => device'[b] = device[b]
          /\ device'[r.of].status = device[r.of].status /\ device'[r.of].by = device[r.of].by
          /\ device'[r.of].expired = device[r.of].expired
      BY <1>1, <1>2, <2>2 DEF ScanTyped, ScanTypeOK
    <3>2. device[r.of].status \notin {"approved", "denied", "absent"}
      BY <1>1, <1>2, <2>2, ScanAssumption DEF CodesOnce, Known
    <3>3. device[r.of].status = "pending" => device[r.of].by = Nobody
      BY <1>1, <1>2 DEF CodesOnce
    <3> QED
      BY <1>2, <1>3, <1>6, <1>7, <3>1, <3>2, <3>3, RowTouched
  <2> QED
    BY <1>3, <2>1, <2>2
<1>9. Confirmed'
  <2>1. UNCHANGED scanner /\ ~(r.kind = "approve" /\ a = "ok")
    BY <1>2
  <2> QED
    BY <1>2, <1>6, <1>8, <2>1, ServedConfirmed
<1> QED
  BY <1>5, <1>8, <1>9 DEF ScanInv

LEMMA ServeDecisionKeeps ==
  ASSUME ScanInv, NEW r \in calls, r.answer = "none", ServeDecision(r),
         UNCHANGED <<tab, cookie, scanner, mishaps, turns>>
  PROVE  ScanInv'
<1>1. ScanTyped /\ CodesOnce
  BY DEF ScanInv
<1>2. SoundCall(r) /\ r.who \in Phones /\ r.of \in Codes /\ r.kind \in {"approve", "deny"}
  BY <1>1 DEF ScanTyped, SoundCall, ServeDecision, Calls, TabKinds, PhoneKinds
<1> DEFINE decided == Pending(r.of) /\ device[r.of].user = r.who
           row == [device[r.of] EXCEPT !.status = IF r.kind = "approve" THEN "approved" ELSE "denied", !.by = r.who]
<1>3. PICK a \in Answers :
        /\ a \in {"ok", "failed"} /\ Replies(r, a) /\ UNCHANGED sessions
        /\ \/ a = "failed" /\ UNCHANGED device
           \/ decided /\ device' = [device EXCEPT ![r.of] = row]
  BY DEF ServeDecision, Answers
<1>4. row \in [status : RowStatuses, user : Phones \union {Nobody}, by : Phones \union {Nobody}, expired : BOOLEAN]
      /\ row.status = (IF r.kind = "approve" THEN "approved" ELSE "denied") /\ row.by = r.who
      /\ row.user = device[r.of].user /\ row.expired = device[r.of].expired
  BY <1>1, <1>2, ZenonT(60) DEF ScanTyped, ScanTypeOK, RowStatuses
<1> HIDE DEF row
<1>5. device' \in [Codes -> [status : RowStatuses, user : Phones \union {Nobody},
                                by : Phones \union {Nobody}, expired : BOOLEAN]]
  BY <1>1, <1>2, <1>3, <1>4 DEF ScanTyped, ScanTypeOK
<1>6. ScanTyped' /\ OneCall' /\ Accounted' /\ TabSessionApproved'
  BY <1>2, <1>3, <1>5, ServingSessions
<1>7. /\ InTouch => InTouch'
      /\ \A q \in calls' : \/ q \in calls /\ q # r
                           \/ q.who = r.who /\ q.kind = r.kind /\ q.of = r.of /\ q.answer = a
  BY <1>3, Serving
<1>8. \A q \in calls' : q.kind = "code" /\ q.answer = "none" => q \in calls
  BY <1>2, <1>7
<1>9. CASE a = "failed" /\ UNCHANGED device
  <2>1. CodesOnce' /\ \A p, b : Real(p, b) => Real(p, b)'
    BY <1>3, <1>7, <1>8, <1>9, RowsKept
  <2>2. Confirmed'
    BY <1>2, <1>7, <1>9, <2>1, ServedConfirmed
  <2> QED
    BY <1>6, <2>1, <2>2 DEF ScanInv
<1>10. CASE decided /\ device' = [device EXCEPT ![r.of] = row]
  <2>1. device'[r.of] = row /\ \A b \in Codes : b # r.of => device'[b] = device[b]
    BY <1>1, <1>2, <1>10 DEF ScanTyped, ScanTypeOK
  <2>2. device[r.of].status = "pending" /\ device[r.of].user = r.who
    BY <1>10 DEF Pending
  <2>3. CodesOnce' /\ \A p, b : b \in Codes /\ Real(p, b) => Real(p, b)'
    BY <1>2, <1>3, <1>4, <1>7, <1>8, <2>1, <2>2, RowTouched
  <2>4. r.kind = "approve" => Real(r.who, r.of)'
    BY <1>4, <2>1 DEF Real
  <2>5. Confirmed'
    BY <1>2, <1>7, <2>3, <2>4, ServedConfirmed
  <2> QED
    BY <1>6, <2>3, <2>5 DEF ScanInv
<1> QED
  BY <1>3, <1>9, <1>10

(* A row that is forgotten when its code answers for the last time: the      *)
(* decision it held is spent on a session, was a denial, or came too late.   *)
LEMMA RowForgotten ==
  ASSUME ScanInv, NEW c \in Codes, device[c].status # "absent", Forget(c), UNCHANGED tab,
         DOMAIN sessions \subseteq DOMAIN sessions',
         \A i \in DOMAIN sessions : sessions'[i] = sessions[i],
         \A i \in DOMAIN sessions' \ DOMAIN sessions : sessions'[i].code = c /\ sessions'[i].user = sessions'[i].by,
         \A i, j \in DOMAIN sessions' \ DOMAIN sessions : i = j,
         \/ device[c].expired
         \/ device[c].status # "approved"
         \/ \E i \in DOMAIN sessions' : sessions'[i].code = c /\ sessions'[i].by = device[c].by,
         \A q \in calls' : q.kind = "code" /\ q.answer = "none" => q \in calls,
         InTouch => InTouch'
  PROVE  /\ device' \in [Codes -> [status : RowStatuses, user : Phones \union {Nobody},
                                   by : Phones \union {Nobody}, expired : BOOLEAN]]
         /\ CodesOnce'
         /\ \A p, b : b \in Codes /\ Real(p, b) => Real(p, b)'
<1>1. ScanTyped /\ CodesOnce
  BY DEF ScanInv
<1> DEFINE gone == [NoRow EXCEPT !.expired = device[c].expired]
<1>2. /\ gone \in [status : RowStatuses, user : Phones \union {Nobody}, by : Phones \union {Nobody}, expired : BOOLEAN]
      /\ gone.status = "absent" /\ gone.by = Nobody /\ gone.expired = device[c].expired
  BY <1>1 DEF ScanTyped, ScanTypeOK, NoRow, RowStatuses
<1>3. device' = [device EXCEPT ![c] = gone]
  BY DEF Forget
<1> HIDE DEF gone
<1>4. /\ device' \in [Codes -> [status : RowStatuses, user : Phones \union {Nobody},
                                by : Phones \union {Nobody}, expired : BOOLEAN]]
      /\ device'[c] = gone /\ \A b \in Codes : b # c => device'[b] = device[b]
  BY <1>1, <1>2, <1>3 DEF ScanTyped, ScanTypeOK
<1>5. \A b \in Codes : Unserved(b) => b # c /\ Unserved(b)'
  BY <1>4 DEF Unserved, NoRow
<1>6. CodesOnce'
  <2>1. \A q \in calls : q.kind = "code" => q.view \in Codes
    BY <1>1 DEF ScanTyped, SoundCall, Calls
  <2>2. \A q \in calls' : q.kind = "code" /\ q.answer = "none" => Unserved(q.view)'
    BY <1>1, <1>5, <2>1 DEF CodesOnce
  <2>3. (tab.status = "loading" /\ ~InTouch => Unserved(tab.gen))'
    <3> SUFFICES ASSUME tab.status = "loading", ~InTouch' PROVE Unserved(tab.gen)'
      BY DEF Unserved
    <3>1. tab.gen \in Codes
      BY <1>1 DEF ScanTyped
    <3> QED
      BY <1>1, <1>5, <3>1 DEF CodesOnce, Unserved
  <2>4. \A b \in Codes : (b > tab.gen => Unserved(b))'
    BY <1>1, <1>5 DEF CodesOnce
  <2>5. \A b \in Codes :
         /\ device'[b].status \in {"approved", "denied"} => device'[b].by = device'[b].user /\ device'[b].by \in Phones
         /\ device'[b].status \in {"absent", "pending"} => device'[b].by = Nobody
         /\ device'[b].status # "absent" => \A i \in DOMAIN sessions' : sessions'[i].code # b
    BY <1>1, <1>2, <1>4 DEF CodesOnce
  <2>6. \A i \in DOMAIN sessions' : sessions'[i].user = sessions'[i].by
    BY <1>1 DEF CodesOnce
  <2>7. \A i, j \in DOMAIN sessions' : sessions'[i].code = sessions'[j].code => i = j
    BY <1>1 DEF CodesOnce
  <2> QED
    BY <2>2, <2>3, <2>4, <2>5, <2>6, <2>7 DEF CodesOnce
<1>7. \A p, b : b \in Codes /\ Real(p, b) => Real(p, b)'
  <2> SUFFICES ASSUME NEW p, NEW b \in Codes, Real(p, b)
               PROVE  Real(p, b)'
    OBVIOUS
  <2>1. CASE \E i \in DOMAIN sessions : sessions[i].by = p /\ sessions[i].code = b
    BY <2>1 DEF Real
  <2>2. CASE device[b].expired
    BY <1>2, <1>4, <2>2 DEF Real
  <2>3. CASE device[b].by = p /\ device[b].status = "approved" /\ ~device[b].expired
    BY <1>4, <2>3 DEF Real
  <2> QED
    BY <2>1, <2>2, <2>3 DEF Real
<1> QED
  BY <1>4, <1>6, <1>7

LEMMA ServeTokenKeeps ==
  ASSUME ScanInv, NEW r \in calls, r.answer = "none", ServeToken(r),
         UNCHANGED <<tab, cookie, scanner, mishaps, turns>>
  PROVE  ScanInv'
<1>1. ScanTyped /\ CodesOnce /\ Accounted /\ TabSessionApproved
  BY DEF ScanInv
<1>2. SoundCall(r) /\ r.who = "tab" /\ r.of \in Codes /\ r.kind = "token"
  BY <1>1 DEF ScanTyped, SoundCall, ServeToken, Calls, TabKinds, PhoneKinds
<1> DEFINE row == device[r.of]
           made == [user |-> row.user, by |-> row.by, code |-> r.of, live |-> TRUE]
<1>3. row.status \in RowStatuses /\ row.expired \in BOOLEAN
  BY <1>1, <1>2 DEF ScanTyped, ScanTypeOK
<1>4. \/ \E a \in Answers \ {"none", "lost", "ok", "data"} :
           /\ Replies(r, a) /\ UNCHANGED sessions
           /\ \/ UNCHANGED device
              \/ Forget(r.of) /\ row.status # "absent" /\ (row.expired \/ row.status # "approved")
      \/ /\ row.status = "approved" /\ ~row.expired
         /\ sessions' = Append(sessions, made) /\ Replies(r, "data") /\ Forget(r.of)
  BY <1>3 DEF ServeToken, Answers, RowStatuses
<1>5. ASSUME NEW a \in Answers \ {"none", "lost", "ok", "data"}, Replies(r, a), UNCHANGED sessions,
             \/ UNCHANGED device
             \/ Forget(r.of) /\ row.status # "absent" /\ (row.expired \/ row.status # "approved")
      PROVE  ScanInv'
  <2>1. /\ InTouch => InTouch'
        /\ \A q \in calls' : \/ q \in calls /\ q # r
                             \/ q.who = r.who /\ q.kind = r.kind /\ q.of = r.of /\ q.answer = a
    BY <1>2, <1>5, Serving
  <2>2. \A q \in calls' : q.kind = "code" /\ q.answer = "none" => q \in calls
    BY <1>2, <2>1
  <2>3. /\ device' \in [Codes -> [status : RowStatuses, user : Phones \union {Nobody},
                                  by : Phones \union {Nobody}, expired : BOOLEAN]]
        /\ CodesOnce'
        /\ \A p, b : b \in Codes /\ Real(p, b) => Real(p, b)'
    <3>1. CASE UNCHANGED device
      <4>1. CodesOnce' /\ \A p, b : Real(p, b) => Real(p, b)'
        BY <1>5, <2>1, <2>2, <3>1, RowsKept
      <4> QED
        BY <1>1, <3>1, <4>1 DEF ScanTyped, ScanTypeOK
    <3>2. CASE Forget(r.of) /\ row.status # "absent" /\ (row.expired \/ row.status # "approved")
      <4>1. UNCHANGED sessions
        BY <1>5
      <4> QED
        BY <1>2, <2>1, <2>2, <3>2, <4>1, RowForgotten
    <3> QED
      BY <1>5, <3>1, <3>2
  <2>4. ScanTyped' /\ OneCall' /\ Accounted' /\ TabSessionApproved'
    BY <1>2, <1>5, <2>3, ServingSessions
  <2>5. Confirmed'
    BY <1>2, <2>1, <2>3, ServedConfirmed
  <2> QED
    BY <2>3, <2>4, <2>5 DEF ScanInv
<1>6. ASSUME row.status = "approved", ~row.expired,
             sessions' = Append(sessions, made), Replies(r, "data"), Forget(r.of)
      PROVE  ScanInv'
  <2>0. PICK n : n = Len(sessions) + 1
    OBVIOUS
  <2>1. sessions \in Seq(Sessions) /\ row.by = row.user /\ row.by \in Phones
    BY <1>1, <1>2, <1>6 DEF ScanTyped, CodesOnce
  <2>2. made \in Sessions /\ made.code = r.of /\ made.by = row.by /\ made.user = row.by
    BY <1>2, <2>1 DEF Sessions
  <2> HIDE DEF made
  <2>3. /\ sessions' \in Seq(Sessions) /\ Len(sessions) \in Nat
        /\ DOMAIN sessions = 1..Len(sessions) /\ DOMAIN sessions' = 1..n /\ Len(sessions') = n
        /\ sessions'[n] = made /\ \A i \in DOMAIN sessions : sessions'[i] = sessions[i]
    BY <1>6, <2>0, <2>1, <2>2, AppendProperties
  <2>4. /\ DOMAIN sessions \subseteq DOMAIN sessions' /\ n \in DOMAIN sessions'
        /\ \A i \in DOMAIN sessions' : i \notin DOMAIN sessions => i = n
    BY <2>0, <2>3
  <2>5. "data" \in Answers
    BY DEF Answers
  <2>6. /\ IsFiniteSet(calls') /\ \A q \in calls' : SoundCall(q)'
        /\ OneCall'
        /\ \A q : Listens(q)' <=> Listens(q)
        /\ Strays' = Strays \ {r}
        /\ InTouch => InTouch'
        /\ \A q \in calls' : \/ q \in calls /\ q # r
                             \/ Listens(r) /\ q.who = r.who /\ q.view = r.view /\ q.kind = r.kind /\ q.of = r.of /\ q.answer = "data"
        /\ Listens(r) => \E q \in calls' : q.who = r.who /\ q.kind = r.kind /\ q.of = r.of /\ q.view = r.view /\ q.answer = "data"
        /\ \A i \in DOMAIN sessions : Carried(i) => Carried(i)'
    BY <1>2, <1>6, <2>3, <2>4, <2>5, Serving
  <2>7. \A q \in calls' : q.kind = "code" /\ q.answer = "none" => q \in calls
    BY <1>2, <2>6
  <2>8. /\ device' \in [Codes -> [status : RowStatuses, user : Phones \union {Nobody},
                                  by : Phones \union {Nobody}, expired : BOOLEAN]]
        /\ CodesOnce'
        /\ \A p, b : b \in Codes /\ Real(p, b) => Real(p, b)'
    <3>1. /\ \A i \in DOMAIN sessions' \ DOMAIN sessions : sessions'[i].code = r.of /\ sessions'[i].user = sessions'[i].by
          /\ \A i, j \in DOMAIN sessions' \ DOMAIN sessions : i = j
          /\ \E i \in DOMAIN sessions' : sessions'[i].code = r.of /\ sessions'[i].by = device[r.of].by
      BY <2>2, <2>3, <2>4
    <3>2. device[r.of].status # "absent" /\ Forget(r.of)
      BY <1>6
    <3> QED
      BY <1>2, <2>3, <2>4, <2>6, <2>7, <3>1, <3>2, RowForgotten
  <2>9. ScanTyped'
    <3>1. cookie' \in 0..Len(sessions')
      <4>1. cookie' = cookie /\ cookie \in 0..Len(sessions)
        BY <1>1 DEF ScanTyped, ScanTypeOK
      <4> QED
        BY <2>0, <2>3, <4>1
    <3> QED
      BY <1>1, <2>3, <2>6, <2>8, <3>1 DEF ScanTyped, ScanTypeOK
  <2>10. Confirmed'
    BY <1>2, <2>5, <2>6, <2>8, ServedConfirmed
  <2>11. TabSessionApproved'
    BY <1>1, <2>3 DEF TabSessionApproved, ScanTyped, ScanTypeOK
  <2>12. Accounted'
    <3>1. IsFiniteSet(Orphans) /\ IsFiniteSet(Strays) /\ mishaps \in Nat
      BY <1>1, CountedFinite
    <3>2. Orphans' \subseteq Orphans \cup {n}
      BY <2>3, <2>4, <2>6 DEF Orphans
    <3>3. Cardinality(Orphans') + Cardinality(Strays') <= mishaps'
      <4>1. CASE Listens(r)
        <5>1. Carried(n)'
          <6>1. PICK q \in calls' : q.who = r.who /\ q.kind = r.kind /\ q.of = r.of /\ q.view = r.view /\ q.answer = "data"
            BY <2>6, <4>1
          <6>2. Listens(q)'
            BY <4>1, <6>1 DEF Listens
          <6>3. sessions'[n].code = q.of
            BY <2>2, <2>3, <6>1
          <6> QED
            BY <1>2, <6>1, <6>2, <6>3 DEF Carried
        <5>2. Orphans' \subseteq Orphans /\ Strays' \subseteq Strays
          BY <2>6, <3>2, <5>1 DEF Orphans
        <5> QED
          BY <1>1, <3>1, <5>2, CountKeeps DEF Accounted
      <4>2. CASE ~Listens(r)
        <5>1. r \in Strays /\ Strays' \subseteq Strays \ {r}
          BY <1>2, <2>6, <4>2 DEF Strays
        <5>2. Cardinality(Orphans) + Cardinality(Strays) <= mishaps
          BY <1>1 DEF Accounted
        <5>3. Cardinality(Orphans') + Cardinality(Strays') <= mishaps
          BY <3>1, <3>2, <5>1, <5>2, CountMoves, ZenonT(60)
        <5> QED
          BY <5>3
      <4> QED
        BY <4>1, <4>2
    <3>4. \A q \in calls' : q.kind = "adopt" /\ q.answer = "failed" => ~sessions'[q.of].live
      BY <1>1, <1>2, <2>3, <2>6 DEF Accounted, ScanTyped, SoundCall
    <3> QED
      BY <3>3, <3>4 DEF Accounted
  <2> QED
    BY <2>6, <2>8, <2>9, <2>10, <2>11, <2>12 DEF ScanInv
<1> QED
  BY <1>4, <1>5, <1>6

LEMMA ServeAdoptKeeps ==
  ASSUME ScanInv, NEW r \in calls, r.answer = "none", ServeAdopt(r),
         UNCHANGED <<tab, cookie, scanner, mishaps, turns>>
  PROVE  ScanInv'
<1>1. ScanTyped
  BY DEF ScanInv
<1>2. SoundCall(r) /\ r.kind = "adopt" /\ UNCHANGED <<device, sessions>>
  BY <1>1 DEF ScanTyped, ServeAdopt
<1> DEFINE a == IF sessions[r.of].live THEN "ok" ELSE "failed"
<1>3. /\ a \in Answers /\ a \in {"ok", "failed"} /\ Replies(r, a)
      /\ a = "failed" => ~sessions[r.of].live
  BY DEF ServeAdopt, Answers
<1> HIDE DEF a
<1>4. ScanTyped' /\ OneCall' /\ Accounted' /\ TabSessionApproved'
  <2>1. r.kind = "adopt" => a = "ok" \/ (a = "failed" /\ ~sessions[r.of].live)
    <3>1. a = "ok" \/ a = "failed"
      BY <1>3
    <3> QED
      BY <1>3, <3>1, Zenon
  <2>2. device' \in [Codes -> [status : RowStatuses, user : Phones \union {Nobody},
                              by : Phones \union {Nobody}, expired : BOOLEAN]]
    BY <1>1, <1>2 DEF ScanTyped, ScanTypeOK
  <2>3. a \notin {"none", "lost"} /\ UNCHANGED <<tab, cookie, scanner, sessions, mishaps, turns>>
    BY <1>2, <1>3
  <2> QED
    BY <1>3, <2>1, <2>2, <2>3, ServingSessions
<1>5. /\ InTouch => InTouch'
      /\ \A q \in calls' : \/ q \in calls /\ q # r
                           \/ q.who = r.who /\ q.kind = r.kind /\ q.of = r.of /\ q.answer = a
  BY <1>2, <1>3, Serving
<1>6. CodesOnce' /\ \A p, b : Real(p, b) => Real(p, b)'
  BY <1>2, <1>5, RowsKept
<1>7. Confirmed'
  BY <1>2, <1>3, <1>5, <1>6, ServedConfirmed
<1> QED
  BY <1>4, <1>6, <1>7 DEF ScanInv

LEMMA ExpireKeeps ==
  ASSUME ScanInv, Expire
  PROVE  ScanInv'
<1>1. ScanTyped /\ OneCall /\ Confirmed /\ Accounted /\ TabSessionApproved
  BY DEF ScanInv
<1>2. PICK c \in Codes : Known(c) /\ device' = [device EXCEPT ![c].expired = TRUE]
  BY DEF Expire
<1> DEFINE row == [device[c] EXCEPT !.expired = TRUE]
<1>3. /\ row \in [status : RowStatuses, user : Phones \union {Nobody}, by : Phones \union {Nobody}, expired : BOOLEAN]
      /\ row.status = device[c].status /\ row.by = device[c].by /\ row.user = device[c].user /\ row.expired
  BY <1>1 DEF ScanTyped, ScanTypeOK
<1>4. device' = [device EXCEPT ![c] = row]
  BY <1>2
<1> HIDE DEF row
<1>5. /\ device' \in [Codes -> [status : RowStatuses, user : Phones \union {Nobody},
                                by : Phones \union {Nobody}, expired : BOOLEAN]]
      /\ device'[c] = row /\ \A b \in Codes : b # c => device'[b] = device[b]
  BY <1>1, <1>3, <1>4 DEF ScanTyped, ScanTypeOK
<1>6. UNCHANGED <<tab, cookie, scanner, calls, sessions, mishaps, turns>>
  BY DEF Expire
<1>7. CodesOnce' /\ \A p, b : b \in Codes /\ Real(p, b) => Real(p, b)'
  <2>1. device[c].status # "absent"
    BY <1>2 DEF Known
  <2>2. /\ device[c].status \in {"approved", "denied"} => device[c].by = device[c].user /\ device[c].by \in Phones
        /\ device[c].status = "pending" => device[c].by = Nobody
    BY DEF ScanInv, CodesOnce
  <2>3. InTouch => InTouch'
    BY <1>6 DEF InTouch, Listens
  <2> QED
    BY <1>3, <1>5, <1>6, <2>1, <2>2, <2>3, RowTouched
<1>8. ScanTyped' /\ OneCall' /\ Accounted' /\ TabSessionApproved'
  <2>1. ScanTyped'
    BY <1>1, <1>5, <1>6 DEF ScanTyped, ScanTypeOK, SoundCall
  <2>2. OneCall'
    BY <1>1, <1>6 DEF OneCall, TabCall, PhoneCall, Listens
  <2>3. Accounted'
    BY <1>1, <1>6 DEF Accounted, Orphans, Strays, Carried, Listens
  <2> QED
    BY <1>1, <1>6, <2>1, <2>2, <2>3 DEF TabSessionApproved
<1>9. Confirmed'
  <2>1. \A q \in calls : q.kind = "approve" => q.of \in Codes
    BY <1>1 DEF ScanTyped, SoundCall, PhoneKinds
  <2>2. \A q \in calls' : q.kind = "approve" /\ q.answer = "ok" => Real(q.who, q.of)'
    BY <1>1, <1>6, <1>7, <2>1 DEF Confirmed
  <2>3. (\A p \in Phones : scanner[p].phase = "approved" => Real(p, scanner[p].code))'
    <3> SUFFICES ASSUME NEW p \in Phones, scanner[p].phase = "approved"
                 PROVE  Real(p, scanner[p].code)'
      BY <1>6 DEF Real
    <3>1. scanner[p].code \in Codes /\ Real(p, scanner[p].code)
      BY <1>1 DEF OneCall, Confirmed
    <3> QED
      BY <1>6, <1>7, <3>1 DEF Real
  <2> QED
    BY <2>2, <2>3 DEF Confirmed
<1> QED
  BY <1>7, <1>8, <1>9 DEF ScanInv

LEMMA RevokeKeeps ==
  ASSUME ScanInv, Revoke
  PROVE  ScanInv'
<1>1. ScanTyped /\ OneCall /\ Confirmed /\ Accounted /\ TabSessionApproved
  BY DEF ScanInv
<1>2. PICK n \in DOMAIN sessions : sessions[n].live /\ sessions' = [sessions EXCEPT ![n].live = FALSE]
  BY DEF Revoke
<1> DEFINE ended == [sessions[n] EXCEPT !.live = FALSE]
<1>3. sessions \in Seq(Sessions) /\ sessions[n] \in Sessions
  BY <1>1, ElementOfSeq DEF ScanTyped
<1>4. /\ ended \in Sessions /\ ~ended.live
      /\ ended.user = sessions[n].user /\ ended.by = sessions[n].by /\ ended.code = sessions[n].code
  BY <1>3 DEF Sessions
<1>5. sessions' = [sessions EXCEPT ![n] = ended]
  BY <1>2
<1> HIDE DEF ended
<1>6. /\ sessions' \in Seq(Sessions) /\ Len(sessions') = Len(sessions) /\ DOMAIN sessions' = DOMAIN sessions
      /\ sessions'[n] = ended /\ \A i \in DOMAIN sessions : i # n => sessions'[i] = sessions[i]
  <2>1. n \in 1..Len(sessions) /\ DOMAIN sessions = 1..Len(sessions)
    BY <1>2, <1>3
  <2>2. sessions' \in Seq(Sessions) /\ Len(sessions') = Len(sessions)
    BY <1>3, <1>4, <1>5, <2>1, ExceptSeq
  <2> QED
    BY <1>3, <1>5, <2>1, <2>2
<1>7. \A i \in DOMAIN sessions : /\ sessions'[i].code = sessions[i].code
                                 /\ sessions'[i].by = sessions[i].by /\ sessions'[i].user = sessions[i].user
                                 /\ sessions'[i].live => sessions[i].live
  BY <1>2, <1>4, <1>6
<1>8. UNCHANGED <<tab, cookie, scanner, calls, device, mishaps, turns>>
  BY DEF Revoke
<1>9. CodesOnce' /\ \A p, b : Real(p, b) => Real(p, b)'
  <2>1. InTouch => InTouch'
    BY <1>8 DEF InTouch, Listens
  <2> QED
    BY <1>6, <1>7, <1>8, <2>1, RowsKept
<1>10. ScanTyped'
  BY <1>1, <1>6, <1>8 DEF ScanTyped, ScanTypeOK, SoundCall
<1>11. OneCall'
  BY <1>1, <1>7, <1>8 DEF OneCall, TabCall, PhoneCall, Listens, ScanTyped, SoundCall
<1>12. Confirmed'
  BY <1>1, <1>8, <1>9 DEF Confirmed, Real
<1>13. TabSessionApproved'
  <2>1. cookie # 0 => cookie \in DOMAIN sessions
    BY <1>1, <1>3 DEF ScanTyped, ScanTypeOK
  <2> QED
    BY <1>1, <1>7, <1>8, <2>1 DEF TabSessionApproved
<1>14. Accounted'
  <2>1. \A i \in DOMAIN sessions : Carried(i) => Carried(i)'
    BY <1>7, <1>8 DEF Carried, Listens
  <2>2. Orphans' \subseteq Orphans /\ Strays' \subseteq Strays
    BY <1>6, <1>7, <1>8, <2>1 DEF Orphans, Strays, Listens
  <2>3. IsFiniteSet(Orphans) /\ IsFiniteSet(Strays) /\ mishaps \in Nat
    BY <1>1, CountedFinite
  <2>4. Cardinality(Orphans') + Cardinality(Strays') <= mishaps'
    BY <1>1, <1>8, <2>2, <2>3, CountKeeps DEF Accounted
  <2>5. \A q \in calls : q.kind = "adopt" /\ q.answer = "failed" => ~sessions'[q.of].live
    BY <1>1, <1>7 DEF Accounted, ScanTyped, SoundCall
  <2> QED
    BY <1>8, <2>4, <2>5 DEF Accounted
<1> QED
  BY <1>9, <1>10, <1>11, <1>12, <1>13, <1>14 DEF ScanInv

LEMMA ServeScanKeeps ==
  ASSUME ScanInv, NEW r \in calls, ServeScan(r)
  PROVE  ScanInv'
BY ServeCodeKeeps, ServeClaimKeeps, ServeDecisionKeeps, ServeTokenKeeps, ServeAdoptKeeps DEF ServeScan

-----------------------------------------------------------------------------
\* What the tab does

(* A request of the page that waits for nothing else. *)
LEMMA TabAsks ==
  ASSUME ScanInv, NEW q \in Calls, q.who = "tab", q.view = tab.gen, q.answer = "none", q.kind \in {"code", "token"},
         q.kind = "code" => q.of = 0 /\ tab.status = "loading",
         q.kind = "token" => q.of = tab.code /\ q.of \in Codes /\ tab.status = "waiting",
         ~InTouch, calls' = calls \cup {q},
         UNCHANGED <<tab, cookie, scanner, device, sessions, mishaps, turns>>
  PROVE  ScanInv'
<1>1. ScanTyped /\ OneCall /\ CodesOnce /\ Confirmed /\ Accounted /\ TabSessionApproved
  BY DEF ScanInv
<1>2. \A p : Listens(p)' <=> Listens(p)
  BY DEF Listens
<1>3. Listens(q) /\ \A p \in calls : p.who = "tab" => p.view # tab.gen
  BY DEF Listens, InTouch
<1>4. ScanTyped'
  <2>1. IsFiniteSet(calls')
    BY <1>1, FS_AddElement DEF ScanTyped
  <2>2. SoundCall(q)
    BY <1>1 DEF SoundCall, TabKinds, PhoneKinds, ScanTyped, ScanTypeOK, Calls, Codes
  <2>3. \A p \in calls' : SoundCall(p)'
    BY <1>1, <2>2 DEF ScanTyped, SoundCall
  <2> QED
    BY <1>1, <2>1, <2>3 DEF ScanTyped, ScanTypeOK
<1>5. OneCall'
  <2>1. TabCall(q)' /\ PhoneCall(q)'
    BY DEF TabCall, PhoneCall
  <2>2. \A p \in calls : TabCall(p)' /\ PhoneCall(p)'
    BY <1>1, <1>2 DEF OneCall, TabCall, PhoneCall
  <2>3. \A p, o \in calls' : p.who = o.who /\ p.view = o.view => p = o
    BY <1>1, <1>3 DEF OneCall
  <2>4. \A p \in calls' : p.answer # "none" => Listens(p)'
    BY <1>1, <1>2 DEF OneCall
  <2> QED
    BY <1>1, <2>1, <2>2, <2>3, <2>4 DEF OneCall
<1>6. CodesOnce'
  <2>1. \A c : Unserved(c) => Unserved(c)'
    BY DEF Unserved
  <2>2. InTouch'
    BY <1>2, <1>3 DEF InTouch
  <2>3. tab.status = "loading" => Unserved(tab.gen)
    BY <1>1 DEF CodesOnce
  <2>4. \A p \in calls' : p.kind = "code" /\ p.answer = "none" => Unserved(p.view)'
    BY <1>1, <2>1, <2>3 DEF CodesOnce
  <2>5. \A c \in Codes : (c > tab.gen => Unserved(c))'
    BY <1>1, <2>1 DEF CodesOnce
  <2> QED
    BY <1>1, <2>2, <2>4, <2>5 DEF CodesOnce
<1>7. Confirmed'
  BY <1>1 DEF Confirmed, Real
<1>8. TabSessionApproved'
  BY <1>1 DEF TabSessionApproved
<1>9. Accounted'
  <2>1. \A i \in DOMAIN sessions : Carried(i) => Carried(i)'
    BY <1>2 DEF Carried
  <2>2. Orphans' \subseteq Orphans /\ Strays' \subseteq Strays
    BY <1>2, <1>3, <2>1 DEF Orphans, Strays
  <2>3. IsFiniteSet(Orphans) /\ IsFiniteSet(Strays) /\ mishaps \in Nat
    BY <1>1, CountedFinite
  <2>4. Cardinality(Orphans') + Cardinality(Strays') <= mishaps'
    BY <1>1, <2>2, <2>3, CountKeeps DEF Accounted
  <2>5. \A p \in calls' : p.kind = "adopt" /\ p.answer = "failed" => ~sessions'[p.of].live
    BY <1>1 DEF Accounted
  <2> QED
    BY <2>4, <2>5 DEF Accounted
<1> QED
  BY <1>4, <1>5, <1>6, <1>7, <1>8, <1>9 DEF ScanInv

LEMMA FetchCodeKeeps ==
  ASSUME ScanInv, FetchCode
  PROVE  ScanInv'
<1> DEFINE q == Ask("tab", tab.gen, "code", 0)
<1>1. tab.gen \in Codes /\ tab.status = "loading"
  BY DEF ScanInv, ScanTyped, FetchCode
<1>2. q \in Calls /\ q.who = "tab" /\ q.view = tab.gen /\ q.kind = "code" /\ q.of = 0 /\ q.answer = "none"
  <2>1. 0 \in Nat /\ "code" \in TabKinds \cup PhoneKinds /\ "tab" \in Phones \cup {"tab"}
    BY DEF TabKinds
  <2> QED
    BY <1>1, <2>1 DEF Ask, Calls, Answers
<1>3. calls' = calls \cup {q} /\ ~InTouch /\ UNCHANGED <<tab, cookie, scanner, device, sessions, mishaps, turns>>
  BY DEF FetchCode
<1> HIDE DEF q
<1> QED
  BY <1>1, <1>2, <1>3, TabAsks

LEMMA PollTokenKeeps ==
  ASSUME ScanInv, PollToken
  PROVE  ScanInv'
<1> DEFINE q == Ask("tab", tab.gen, "token", tab.code)
<1>1. tab.gen \in Codes /\ tab.status = "waiting" /\ tab.code # 0 /\ tab.code \in 0..(MaxTurns + 1)
  BY DEF ScanInv, ScanTyped, ScanTypeOK, PollToken
<1>2. tab.code \in Codes /\ tab.code \in Nat
  BY <1>1, ScanAssumption DEF Codes
<1>3. q \in Calls /\ q.who = "tab" /\ q.view = tab.gen /\ q.kind = "token" /\ q.of = tab.code /\ q.answer = "none"
  <2>1. "token" \in TabKinds \cup PhoneKinds /\ "tab" \in Phones \cup {"tab"}
    BY DEF TabKinds
  <2>2. tab.gen \in Codes /\ tab.code \in Nat
    BY <1>1, <1>2
  <2> QED
    BY <2>1, <2>2 DEF Ask, Calls, Answers
<1>4. calls' = calls \cup {q} /\ ~InTouch /\ UNCHANGED <<tab, cookie, scanner, device, sessions, mishaps, turns>>
  BY DEF PollToken
<1> HIDE DEF q
<1> QED
  BY <1>1, <1>2, <1>3, <1>4, TabAsks

(* An answer that ends what the page was waiting for. The cookie changes     *)
(* only with the answer of an adoption.                                      *)
LEMMA TabSettles ==
  ASSUME ScanInv, NEW r \in calls, r.who = "tab", r.answer # "none", calls' = calls \ {r},
         tab' \in [gen : {0} \union Codes, status : {"waiting"} \union Finals, code : 0..(MaxTurns + 1)],
         tab'.gen = tab.gen, tab'.code = tab.code \/ r.kind = "code",
         r.kind # "token" \/ r.answer # "data",
         \/ UNCHANGED cookie /\ (r.kind = "adopt" => r.answer # "ok")
         \/ cookie' = r.of /\ r.kind = "adopt" /\ r.answer = "ok" /\ tab'.status = "approved",
         UNCHANGED <<scanner, device, sessions, mishaps, turns>>
  PROVE  ScanInv'
<1>1. ScanTyped /\ OneCall /\ CodesOnce /\ Confirmed /\ Accounted /\ TabSessionApproved
  BY DEF ScanInv
<1>2. /\ SoundCall(r) /\ r \in Calls /\ r.view \in Codes /\ r.view = tab.gen /\ Listens(r) /\ TabCall(r)
      /\ tab.status \in {"loading", "waiting"}
  BY <1>1 DEF ScanTyped, SoundCall, Calls, OneCall, Listens, TabCall
<1>3. cookie = 0
  BY <1>1, <1>2 DEF OneCall
<1>4. \A q : Listens(q)' <=> Listens(q)
  BY DEF Listens
<1>5. \A q \in calls : q.who = "tab" /\ Listens(q) => q = r
  BY <1>1, <1>2 DEF OneCall, Listens
<1>6. tab'.status \notin {"closed", "loading"} /\ tab.gen \in Codes /\ tab.gen # 0
  <2>1. tab'.status \in {"waiting"} \union Finals /\ tab.gen \in Codes
    BY <1>2
  <2> QED
    BY <2>1 DEF Finals, Codes
<1>7. cookie' # 0 => cookie' \in DOMAIN sessions /\ cookie' = r.of /\ r.kind = "adopt" /\ tab'.status = "approved"
  BY <1>2, <1>3 DEF SoundCall
<1>8. ScanTyped'
  <2>1. IsFiniteSet(calls')
    BY <1>1, FS_Subset DEF ScanTyped
  <2>2. \A q \in calls' : SoundCall(q)'
    BY <1>1 DEF ScanTyped, SoundCall
  <2>3. cookie' \in 0..Len(sessions')
    <3>1. sessions \in Seq(Sessions)
      BY <1>1 DEF ScanTyped
    <3>2. Len(sessions) \in Nat /\ DOMAIN sessions = 1..Len(sessions)
      BY <3>1
    <3>3. CASE cookie' = 0
      BY <3>2, <3>3
    <3>4. CASE cookie' # 0
      BY <1>7, <3>2, <3>4
    <3> QED
      BY <3>3, <3>4
  <2>4. tab' \in [gen : {0} \union Codes, status : {"closed", "loading", "waiting"} \union Finals, code : 0..(MaxTurns + 1)]
    OBVIOUS
  <2> QED
    BY <1>1, <1>6, <2>1, <2>2, <2>3, <2>4 DEF ScanTyped, ScanTypeOK
<1>9. OneCall'
  <2>1. \A q \in calls' : TabCall(q)' /\ PhoneCall(q)'
    BY <1>1, <1>4, <1>5 DEF OneCall, TabCall, PhoneCall
  <2>2. \A p, o \in calls' : p.who = o.who /\ p.view = o.view => p = o
    BY <1>1 DEF OneCall
  <2>3. \A p \in calls' : p.answer # "none" => Listens(p)'
    BY <1>1, <1>4 DEF OneCall
  <2> QED
    BY <1>1, <1>7, <2>1, <2>2, <2>3 DEF OneCall
<1>10. CodesOnce'
  <2>1. \A c : Unserved(c) => Unserved(c)'
    BY DEF Unserved
  <2>2. \A p \in calls' : p.kind = "code" /\ p.answer = "none" => Unserved(p.view)'
    BY <1>1, <2>1 DEF CodesOnce
  <2>3. \A c \in Codes : (c > tab.gen => Unserved(c))'
    BY <1>1, <2>1 DEF CodesOnce
  <2> QED
    BY <1>1, <1>6, <2>2, <2>3 DEF CodesOnce
<1>11. Confirmed'
  BY <1>1 DEF Confirmed, Real
<1>12. TabSessionApproved'
  <2> SUFFICES ASSUME cookie' # 0
               PROVE  sessions[cookie'].user = sessions[cookie'].by /\ sessions[cookie'].code = tab'.code
    BY DEF TabSessionApproved
  <2> QED
    BY <1>1, <1>2, <1>7 DEF CodesOnce, TabCall
<1>13. Accounted'
  <2>1. \A i \in DOMAIN sessions : sessions[i].live /\ Carried(i) => Carried(i)'
    <3> SUFFICES ASSUME NEW i \in DOMAIN sessions, sessions[i].live, Carried(i)
                 PROVE  cookie' = i
      BY DEF Carried
    <3>1. i # 0
      BY <1>1 DEF ScanTyped
    <3>2. r.kind = "adopt" /\ r.of = i /\ r.answer # "lost"
      BY <1>3, <1>5, <3>1 DEF Carried
    <3>3. r.answer = "ok"
      BY <1>1, <1>2, <3>2 DEF SoundCall, Accounted
    <3> QED
      BY <3>2, <3>3
  <2>2. Orphans' \subseteq Orphans /\ Strays' \subseteq Strays
    BY <1>4, <2>1 DEF Orphans, Strays
  <2>3. IsFiniteSet(Orphans) /\ IsFiniteSet(Strays) /\ mishaps \in Nat
    BY <1>1, CountedFinite
  <2>4. Cardinality(Orphans') + Cardinality(Strays') <= mishaps'
    BY <1>1, <2>2, <2>3, CountKeeps DEF Accounted
  <2>5. \A p \in calls' : p.kind = "adopt" /\ p.answer = "failed" => ~sessions'[p.of].live
    BY <1>1 DEF Accounted
  <2> QED
    BY <2>4, <2>5 DEF Accounted
<1> QED
  BY <1>8, <1>9, <1>10, <1>11, <1>12, <1>13 DEF ScanInv

(* The token is taken to the adoption: the session goes from hand to hand. *)
LEMMA TabAdopts ==
  ASSUME ScanInv, NEW r \in calls, r.who = "tab", r.answer = "data", r.kind = "token",
         NEW i \in DOMAIN sessions, sessions[i].code = r.of,
         calls' = (calls \ {r}) \cup {Ask("tab", tab.gen, "adopt", i)},
         UNCHANGED <<tab, cookie, scanner, device, sessions, mishaps, turns>>
  PROVE  ScanInv'
<1>1. ScanTyped /\ OneCall /\ CodesOnce /\ Confirmed /\ Accounted /\ TabSessionApproved
  BY DEF ScanInv
<1>2. /\ r \in Calls /\ r.view \in Codes /\ r.view = tab.gen /\ Listens(r)
      /\ tab.status = "waiting" /\ r.of = tab.code
  BY <1>1 DEF ScanTyped, SoundCall, Calls, OneCall, Listens, TabCall
<1>3. i \in Nat
  BY <1>1 DEF ScanTyped
<1>4. PICK q \in Calls : /\ q.who = "tab" /\ q.view = tab.gen /\ q.kind = "adopt" /\ q.of = i /\ q.answer = "none"
                         /\ calls' = (calls \ {r}) \cup {q}
  <2> DEFINE ask == Ask("tab", tab.gen, "adopt", i)
  <2>1. /\ ask \in Calls /\ ask.who = "tab" /\ ask.view = tab.gen /\ ask.kind = "adopt"
        /\ ask.of = i /\ ask.answer = "none"
    BY <1>2, <1>3 DEF Ask, Calls, Answers, TabKinds
  <2>2. calls' = (calls \ {r}) \cup {ask}
    OBVIOUS
  <2> HIDE DEF ask
  <2> QED
    BY <2>1, <2>2
<1>5. \A p : Listens(p)' <=> Listens(p)
  BY DEF Listens
<1>6. Listens(q) /\ \A p \in calls : p.who = "tab" /\ p.view = tab.gen => p = r
  BY <1>1, <1>2, <1>4 DEF OneCall, Listens
<1>7. ScanTyped'
  <2>1. IsFiniteSet(calls')
    <3>1. IsFiniteSet(calls \ {r})
      BY <1>1, FS_Subset DEF ScanTyped
    <3> QED
      BY <1>4, <3>1, FS_AddElement
  <2>2. SoundCall(q)
    BY <1>2, <1>4 DEF SoundCall, TabKinds, PhoneKinds, Codes
  <2>3. \A p \in calls' : SoundCall(p)'
    BY <1>1, <1>4, <2>2 DEF ScanTyped, SoundCall
  <2> QED
    BY <1>1, <2>1, <2>3 DEF ScanTyped, ScanTypeOK
<1>8. OneCall'
  <2>1. TabCall(q)' /\ PhoneCall(q)'
    BY <1>2, <1>4 DEF TabCall, PhoneCall
  <2>2. \A p \in calls : TabCall(p)' /\ PhoneCall(p)'
    BY <1>1, <1>5 DEF OneCall, TabCall, PhoneCall
  <2>3. \A p, o \in calls' : p.who = o.who /\ p.view = o.view => p = o
    BY <1>1, <1>4, <1>6 DEF OneCall
  <2>4. \A p \in calls' : p.answer # "none" => Listens(p)'
    BY <1>1, <1>4, <1>5 DEF OneCall
  <2> QED
    BY <1>1, <1>4, <2>1, <2>2, <2>3, <2>4 DEF OneCall
<1>9. CodesOnce'
  <2>1. \A c : Unserved(c) => Unserved(c)'
    BY DEF Unserved
  <2>2. \A p \in calls' : p.kind = "code" /\ p.answer = "none" => Unserved(p.view)'
    BY <1>1, <1>4, <2>1 DEF CodesOnce
  <2>3. \A c \in Codes : (c > tab.gen => Unserved(c))'
    BY <1>1, <2>1 DEF CodesOnce
  <2> QED
    BY <1>1, <1>2, <2>2, <2>3 DEF CodesOnce
<1>10. Confirmed'
  BY <1>1, <1>4 DEF Confirmed, Real
<1>11. TabSessionApproved'
  BY <1>1 DEF TabSessionApproved
<1>12. Accounted'
  <2>1. Carried(i)'
    BY <1>4, <1>5, <1>6 DEF Carried
  <2>2. \A j \in DOMAIN sessions : Carried(j) => Carried(j)'
    <3> SUFFICES ASSUME NEW j \in DOMAIN sessions, Carried(j), j # i, cookie # j
                 PROVE  Carried(j)'
      BY <2>1 DEF Carried
    <3>1. PICK p \in calls : /\ p.who = "tab" /\ Listens(p)
                             /\ \/ p.kind = "token" /\ p.answer = "data" /\ p.of = sessions[j].code
                                \/ p.kind = "adopt" /\ p.of = j /\ p.answer # "lost"
      BY DEF Carried
    <3>2. p # r
      BY <1>1, <3>1 DEF CodesOnce
    <3> QED
      BY <1>4, <1>5, <3>1, <3>2 DEF Carried
  <2>3. Orphans' \subseteq Orphans /\ Strays' \subseteq Strays
    BY <1>4, <1>5, <2>2 DEF Orphans, Strays
  <2>4. IsFiniteSet(Orphans) /\ IsFiniteSet(Strays) /\ mishaps \in Nat
    BY <1>1, CountedFinite
  <2>5. Cardinality(Orphans') + Cardinality(Strays') <= mishaps'
    BY <1>1, <2>3, <2>4, CountKeeps DEF Accounted
  <2>6. \A p \in calls' : p.kind = "adopt" /\ p.answer = "failed" => ~sessions'[p.of].live
    BY <1>1, <1>4 DEF Accounted
  <2> QED
    BY <2>5, <2>6 DEF Accounted
<1> QED
  BY <1>7, <1>8, <1>9, <1>10, <1>11, <1>12 DEF ScanInv

LEMMA TabHearsKeeps ==
  ASSUME ScanInv, NEW r \in calls, TabHears(r)
  PROVE  ScanInv'
<1>1. ScanTyped /\ OneCall
  BY DEF ScanInv
<1>2. r.who = "tab" /\ r.answer # "none" /\ UNCHANGED <<scanner, device, sessions, mishaps, turns>>
  BY DEF TabHears
<1>3. r \in Calls /\ r.view \in Codes /\ SoundCall(r)
  BY <1>1 DEF ScanTyped, SoundCall, Calls
<1>4. tab \in [gen : {0} \union Codes, status : {"closed", "loading", "waiting"} \union Finals, code : 0..(MaxTurns + 1)]
  BY <1>1 DEF ScanTyped, ScanTypeOK
<1>5. r.view \in 0..(MaxTurns + 1)
  BY <1>3, ScanAssumption DEF Codes
<1> DEFINE After == [gen : {0} \union Codes, status : {"waiting"} \union Finals, code : 0..(MaxTurns + 1)]
<1>6. CASE r.kind = "code"
  <2>1. /\ tab' = [tab EXCEPT !.status = IF r.answer = "ok" THEN "waiting" ELSE "error",
                              !.code = IF r.answer = "ok" THEN r.view ELSE 0]
        /\ calls' = calls \ {r} /\ UNCHANGED cookie
    BY <1>6 DEF TabHears
  <2>2. 0 \in 0..(MaxTurns + 1)
    BY ScanAssumption
  <2>3. tab' \in After /\ tab'.gen = tab.gen
    BY <1>4, <1>5, <2>1, <2>2 DEF Finals
  <2> QED
    BY <1>2, <1>6, <2>1, <2>3, TabSettles
<1>7. CASE r.kind = "token" /\ Classify(r.answer) # "approved"
  <2>1. /\ tab' = [tab EXCEPT !.status = Classify(r.answer)]
        /\ calls' = calls \ {r} /\ UNCHANGED cookie
    BY <1>7 DEF TabHears
  <2>2. Classify(r.answer) \in {"waiting"} \union Finals /\ r.answer # "data"
    BY <1>7 DEF Classify, Finals
  <2>3. tab' \in After /\ tab'.gen = tab.gen /\ tab'.code = tab.code
    BY <1>4, <2>1, <2>2
  <2> QED
    BY <1>2, <1>7, <2>1, <2>2, <2>3, TabSettles
<1>8. CASE r.kind = "token" /\ Classify(r.answer) = "approved"
  <2>1. r.answer = "data"
    BY <1>8 DEF Classify
  <2>2. PICK i \in DOMAIN sessions : /\ sessions[i].code = r.of
                                     /\ calls' = (calls \ {r}) \union {Ask("tab", tab.gen, "adopt", i)}
    BY <1>8 DEF TabHears
  <2>3. UNCHANGED <<tab, cookie, scanner, device, sessions, mishaps, turns>>
    BY <1>2, <1>8 DEF TabHears
  <2> QED
    BY <1>2, <1>8, <2>1, <2>2, <2>3, TabAdopts
<1>9. CASE r.kind = "adopt"
  <2>1. /\ tab' = [tab EXCEPT !.status = IF r.answer = "ok" THEN "approved" ELSE "error"]
        /\ cookie' = IF r.answer = "ok" THEN r.of ELSE cookie
        /\ calls' = calls \ {r}
    BY <1>9 DEF TabHears
  <2>2. tab' \in After /\ tab'.gen = tab.gen /\ tab'.code = tab.code
    BY <1>4, <2>1 DEF Finals
  <2>3. \/ UNCHANGED cookie /\ (r.kind = "adopt" => r.answer # "ok")
        \/ cookie' = r.of /\ r.kind = "adopt" /\ r.answer = "ok" /\ tab'.status = "approved"
    BY <1>4, <1>9, <2>1
  <2> QED
    BY <1>2, <1>9, <2>1, <2>2, <2>3, TabSettles
<1> QED
  BY <1>6, <1>7, <1>8, <1>9 DEF TabHears

(* A new generation of the page hears no call of the last one. A token that  *)
(* one was waiting for, or was taking to its adoption, is one mishap.        *)
LEMMA GenerationKeeps ==
  ASSUME ScanInv, NewGeneration, tab.gen + 1 \in Codes, cookie = 0,
         turns' \in 0..MaxTurns, mishaps' \in 0..turns', turns <= turns', tab.gen + 1 <= turns' + 1,
         \/ mishaps' = mishaps /\ ~InTouch
         \/ mishaps' = mishaps + 1,
         UNCHANGED <<cookie, scanner, device, sessions>>
  PROVE  ScanInv'
<1>1. ScanTyped /\ OneCall /\ CodesOnce /\ Confirmed /\ Accounted /\ TabSessionApproved
  BY DEF ScanInv
<1>2. /\ tab' = [gen |-> tab.gen + 1, status |-> "loading", code |-> 0]
      /\ calls' \subseteq calls
      /\ \A q \in calls' : q.who = "tab" => q.answer = "none"
      /\ \A q \in calls : q.who # "tab" => q \in calls'
  BY DEF NewGeneration, Unheard
<1>3. tab.gen \in Nat /\ \A q \in calls : q.who = "tab" => q.view \in Nat /\ q.view <= tab.gen
  BY <1>1, ScanAssumption DEF ScanTyped, ScanTypeOK, SoundCall, Calls, Codes
<1>4. /\ \A q \in calls : q.who = "tab" => ~Listens(q)'
      /\ \A q \in calls : q.who # "tab" => (Listens(q)' <=> Listens(q))
  BY <1>2, <1>3 DEF Listens
<1>5. ScanTyped'
  <2>1. IsFiniteSet(calls')
    BY <1>1, <1>2, FS_Subset DEF ScanTyped
  <2>2. \A q \in calls' : SoundCall(q)'
    <3> SUFFICES ASSUME NEW q \in calls' PROVE SoundCall(q)'
      OBVIOUS
    <3>1. q \in calls /\ SoundCall(q)
      BY <1>1, <1>2 DEF ScanTyped
    <3>2. q.who = "tab" => q.view <= tab'.gen
      BY <1>2, <1>3, <3>1
    <3> QED
      BY <3>1, <3>2 DEF SoundCall
  <2>3. turns \in Nat /\ turns' \in Nat /\ MaxTurns \in Nat
    BY <1>1, ScanAssumption DEF ScanTyped, ScanTypeOK
  <2>4. tab'.gen <= turns' + 1 /\ (\A p \in Phones : scanner[p].view <= turns' + 1)
    <3>1. \A p \in Phones : scanner[p].view \in 1..(MaxTurns + 1) /\ scanner[p].view <= turns + 1
      BY <1>1 DEF ScanTyped, ScanTypeOK
    <3> QED
      BY <1>2, <2>3, <3>1
  <2>5. tab' \in [gen : {0} \union Codes, status : {"closed", "loading", "waiting"} \union Finals, code : 0..(MaxTurns + 1)]
    BY <1>2, <2>3
  <2>6. tab'.gen # 0
    BY <1>2, <1>3
  <2> QED
    BY <1>1, <1>2, <2>1, <2>2, <2>4, <2>5, <2>6 DEF ScanTyped, ScanTypeOK
<1>6. OneCall'
  <2>1. \A q \in calls' : q.answer # "none" => Listens(q)'
    BY <1>1, <1>2, <1>4 DEF OneCall
  <2>2. \A q \in calls' : TabCall(q)' /\ PhoneCall(q)'
    BY <1>1, <1>2, <1>4 DEF OneCall, TabCall, PhoneCall
  <2>3. \A p, o \in calls' : p.who = o.who /\ p.view = o.view => p = o
    BY <1>1, <1>2 DEF OneCall
  <2> QED
    BY <1>1, <2>1, <2>2, <2>3 DEF OneCall
<1>7. CodesOnce'
  <2>1. \A c : Unserved(c) => Unserved(c)'
    BY DEF Unserved
  <2>2. \A p \in calls' : p.kind = "code" /\ p.answer = "none" => Unserved(p.view)'
    BY <1>1, <1>2, <2>1 DEF CodesOnce
  <2>3. Unserved(tab.gen + 1)
    BY <1>1, <1>3 DEF CodesOnce
  <2>4. (tab.status = "loading" /\ ~InTouch => Unserved(tab.gen))'
    BY <1>2, <2>1, <2>3 DEF Unserved
  <2>5. \A c \in Codes : (c > tab.gen => Unserved(c))'
    <3> SUFFICES ASSUME NEW c \in Codes, c > tab'.gen PROVE Unserved(c)'
      OBVIOUS
    <3>1. c > tab.gen
      BY <1>2, <1>3 DEF Codes
    <3> QED
      BY <1>1, <2>1, <3>1 DEF CodesOnce
  <2> QED
    BY <1>1, <2>2, <2>4, <2>5 DEF CodesOnce
<1>8. Confirmed'
  BY <1>1, <1>2 DEF Confirmed, Real
<1>9. TabSessionApproved'
  BY DEF TabSessionApproved
<1>10. Accounted'
  <2>1. IsFiniteSet(Orphans) /\ IsFiniteSet(Strays) /\ mishaps \in Nat /\ mishaps' \in Nat
    BY <1>1, CountedFinite
  <2>2. \A i \in DOMAIN sessions : Carried(i) =>
          \E q \in calls : /\ q.who = "tab" /\ Listens(q)
                          /\ \/ q.kind = "token" /\ q.answer = "data" /\ q.of = sessions[i].code
                             \/ q.kind = "adopt" /\ q.of = i
    BY <1>1 DEF Carried, ScanTyped
  <2>3. Cardinality(Orphans') + Cardinality(Strays') <= mishaps'
    <3>1. CASE ~InTouch
      <4>1. Orphans' \subseteq Orphans
        BY <2>2, <3>1 DEF Orphans, InTouch
      <4>2. Strays' \subseteq Strays
        BY <1>1, <1>2, <1>4, <3>1 DEF Strays, InTouch
      <4>3. mishaps <= mishaps' /\ Cardinality(Orphans) + Cardinality(Strays) <= mishaps
        BY <1>1, <2>1 DEF Accounted
      <4> QED
        BY <2>1, <4>1, <4>2, <4>3, CountKeeps
    <3>2. CASE InTouch
      <4>1. PICK r \in calls : r.who = "tab" /\ Listens(r)
        BY <3>2 DEF InTouch
      <4>2. \A q \in calls : q.who = "tab" /\ Listens(q) => q = r
        BY <1>1, <4>1 DEF OneCall, Listens
      <4>3. mishaps < mishaps' /\ Cardinality(Orphans) + Cardinality(Strays) <= mishaps
        BY <1>1, <2>1, <3>2 DEF Accounted
      <4>4. Strays' \subseteq Strays \cup {r}
        BY <1>1, <1>2, <1>4, <4>2 DEF Strays
      <4>5. CASE r.kind = "token" /\ r.answer = "none"
        <5>1. Orphans' \subseteq Orphans
          BY <2>2, <4>2, <4>5 DEF Orphans
        <5> QED
          <6>1. IsFiniteSet(Strays \cup {r}) /\ Cardinality(Orphans) + Cardinality(Strays \cup {r}) <= mishaps'
            <7>1. /\ IsFiniteSet(Strays \cup {r}) /\ Cardinality(Strays) \in Nat /\ Cardinality(Strays \cup {r}) \in Nat
                  /\ Cardinality(Strays \cup {r}) <= Cardinality(Strays) + 1
              BY <2>1, OneMore
            <7>2. Cardinality(Orphans) \in Nat
              BY <2>1, FS_CardinalityType
            <7> QED
              BY <2>1, <4>3, <7>1, <7>2
          <6> QED
            BY <2>1, <4>4, <5>1, <6>1, CountKeeps
      <4>6. CASE ~(r.kind = "token" /\ r.answer = "none")
        <5>1. Strays' \subseteq Strays
          BY <4>4, <4>6 DEF Strays
        <5>2. PICK x : /\ r.kind = "adopt" => x = r.of
                       /\ r.kind = "token" => \A i \in DOMAIN sessions : sessions[i].code = r.of => i = x
          BY <1>1 DEF CodesOnce
        <5>3. Orphans' \subseteq Orphans \cup {x}
          BY <2>2, <4>2, <4>6, <5>2 DEF Orphans
        <5> QED
          <6>1. IsFiniteSet(Orphans \cup {x}) /\ Cardinality(Orphans \cup {x}) + Cardinality(Strays) <= mishaps'
            <7>1. /\ IsFiniteSet(Orphans \cup {x}) /\ Cardinality(Orphans) \in Nat /\ Cardinality(Orphans \cup {x}) \in Nat
                  /\ Cardinality(Orphans \cup {x}) <= Cardinality(Orphans) + 1
              BY <2>1, OneMore
            <7>2. Cardinality(Strays) \in Nat
              BY <2>1, FS_CardinalityType
            <7> QED
              BY <2>1, <4>3, <7>1, <7>2
          <6> QED
            BY <2>1, <5>1, <5>3, <6>1, CountKeeps
      <4> QED
        BY <4>5, <4>6
    <3> QED
      BY <3>1, <3>2
  <2>4. \A p \in calls' : p.kind = "adopt" /\ p.answer = "failed" => ~sessions'[p.of].live
    BY <1>1, <1>2 DEF Accounted
  <2> QED
    BY <2>3, <2>4 DEF Accounted
<1> QED
  BY <1>5, <1>6, <1>7, <1>8, <1>9, <1>10 DEF ScanInv

LEMMA OpenLoginKeeps ==
  ASSUME ScanInv, OpenLogin
  PROVE  ScanInv'
<1>1. ScanTyped /\ OneCall
  BY DEF ScanInv
<1>2. tab.status = "closed" /\ NewGeneration /\ UNCHANGED <<cookie, scanner, device, sessions, mishaps, turns>>
  BY DEF OpenLogin
<1>3. tab.gen = 0 /\ cookie = 0
  BY <1>1, <1>2 DEF ScanTyped, OneCall
<1>4. ~InTouch
  BY <1>1, <1>3 DEF InTouch, Listens, ScanTyped, SoundCall, Calls, Codes
<1>5. turns \in 0..MaxTurns /\ mishaps \in 0..turns /\ MaxTurns \in Nat
  BY <1>1, ScanAssumption DEF ScanTyped, ScanTypeOK
<1>6. /\ tab.gen + 1 \in Codes /\ turns' \in 0..MaxTurns /\ mishaps' \in 0..turns' /\ turns <= turns'
      /\ tab.gen + 1 <= turns' + 1 /\ mishaps' = mishaps
  BY <1>2, <1>3, <1>5 DEF Codes
<1> QED
  BY <1>2, <1>3, <1>4, <1>6, GenerationKeeps

LEMMA RegenerateKeeps ==
  ASSUME ScanInv, Regenerate
  PROVE  ScanInv'
<1>1. ScanTyped /\ OneCall
  BY DEF ScanInv
<1>2. /\ tab.status \in {"error", "expired", "denied"} /\ turns < MaxTurns /\ turns' = turns + 1
      /\ NewGeneration /\ UNCHANGED <<cookie, scanner, device, sessions, mishaps>>
  BY DEF Regenerate, MayRenew, Turn
<1>3. cookie = 0 /\ tab.gen \in Codes /\ tab.gen <= turns + 1
  BY <1>1, <1>2 DEF ScanTyped, OneCall
<1>4. ~InTouch
  BY <1>1, <1>2 DEF InTouch, OneCall, TabCall
<1>5. turns \in 0..MaxTurns /\ mishaps \in 0..turns /\ MaxTurns \in Nat
  BY <1>1, ScanAssumption DEF ScanTyped, ScanTypeOK
<1>6. /\ tab.gen + 1 \in Codes /\ turns' \in 0..MaxTurns /\ mishaps' \in 0..turns' /\ turns <= turns'
      /\ tab.gen + 1 <= turns' + 1 /\ mishaps' = mishaps
  BY <1>2, <1>3, <1>5 DEF Codes
<1> QED
  BY <1>2, <1>3, <1>4, <1>6, GenerationKeeps

LEMMA ReloadKeeps ==
  ASSUME ScanInv, Reload
  PROVE  ScanInv'
<1>1. ScanTyped /\ OneCall
  BY DEF ScanInv
<1>2. /\ tab.status \notin {"closed", "approved"} /\ turns < MaxTurns /\ turns' = turns + 1
      /\ NewGeneration /\ mishaps' = mishaps + 1 /\ UNCHANGED <<cookie, scanner, device, sessions>>
  BY DEF Reload, Turn
<1>3. cookie = 0 /\ tab.gen \in Codes /\ tab.gen <= turns + 1
  BY <1>1, <1>2 DEF ScanTyped, OneCall
<1>4. turns \in 0..MaxTurns /\ mishaps \in 0..turns /\ MaxTurns \in Nat
  BY <1>1, ScanAssumption DEF ScanTyped, ScanTypeOK
<1>5. /\ tab.gen + 1 \in Codes /\ turns' \in 0..MaxTurns /\ mishaps' \in 0..turns' /\ turns <= turns'
      /\ tab.gen + 1 <= turns' + 1
  BY <1>2, <1>3, <1>4 DEF Codes
<1> QED
  BY <1>2, <1>3, <1>5, GenerationKeeps

-----------------------------------------------------------------------------
\* What the phones do

(* Nothing the phones do reaches the tab, the rows or the sessions by itself. *)
LEMMA PhonesApart ==
  ASSUME ScanInv, UNCHANGED <<tab, cookie, device, sessions>>, mishaps' \in Nat, mishaps <= mishaps',
         \A q \in calls' : q \in calls \/ (q.who # "tab" /\ q.kind \in PhoneKinds),
         \A q \in calls : q.who = "tab" => q \in calls'
  PROVE  CodesOnce' /\ Accounted' /\ TabSessionApproved' /\ \A p, c : Real(p, c) => Real(p, c)'
<1>1. ScanTyped /\ OneCall /\ CodesOnce /\ Accounted /\ TabSessionApproved
  BY DEF ScanInv
<1>2. \A q : q.who = "tab" => (Listens(q)' <=> Listens(q))
  BY DEF Listens
<1>3. \A q \in calls : q.kind \in TabKinds => q.who = "tab"
  BY <1>1 DEF ScanTyped, SoundCall, TabKinds, PhoneKinds
<1>4. CodesOnce' /\ \A p, c : Real(p, c) => Real(p, c)'
  <2>1. \A q \in calls' : q.kind = "code" /\ q.answer = "none" => q \in calls
    BY DEF PhoneKinds
  <2>2. InTouch => InTouch'
    BY <1>2 DEF InTouch
  <2> QED
    BY <2>1, <2>2, RowsKept
<1>5. TabSessionApproved'
  BY <1>1 DEF TabSessionApproved
<1>6. Accounted'
  <2>1. \A i \in DOMAIN sessions : Carried(i) => Carried(i)'
    BY <1>2 DEF Carried
  <2>2. Orphans' \subseteq Orphans
    BY <2>1 DEF Orphans
  <2>3. Strays' \subseteq Strays
    BY <1>2, <1>3 DEF Strays, TabKinds, PhoneKinds
  <2>4. IsFiniteSet(Orphans) /\ IsFiniteSet(Strays) /\ mishaps \in Nat
    BY <1>1, CountedFinite
  <2>5. Cardinality(Orphans) + Cardinality(Strays) <= mishaps
    BY <1>1 DEF Accounted
  <2>6. Cardinality(Orphans') + Cardinality(Strays') <= mishaps'
    BY <2>2, <2>3, <2>4, <2>5, CountKeeps
  <2>7. \A q \in calls' : q.kind = "adopt" /\ q.answer = "failed" => ~sessions'[q.of].live
    BY <1>1 DEF Accounted, PhoneKinds
  <2> QED
    BY <2>6, <2>7 DEF Accounted
<1> QED
  BY <1>4, <1>5, <1>6

(* A phone asks: its view, with no call under way, has one and is at work. *)
LEMMA PhoneAsks ==
  ASSUME ScanInv, NEW p \in Phones, NEW kind \in PhoneKinds, NEW c \in Codes,
         scanner[p].phase \in {"scanning", "confirming"},
         calls' = calls \union {Ask(p, scanner[p].view, kind, c)},
         scanner' = [scanner EXCEPT ![p] = [view |-> scanner[p].view, phase |-> "working", code |-> c]],
         UNCHANGED <<tab, cookie, device, sessions, mishaps, turns>>
  PROVE  ScanInv'
<1>1. ScanTyped /\ OneCall /\ Confirmed
  BY DEF ScanInv
<1>2. /\ p # "tab" /\ c \in Nat /\ c \in 0..(MaxTurns + 1) /\ MaxTurns \in Nat
      /\ scanner[p].view \in Codes /\ scanner[p].view <= turns + 1
  BY <1>1, ScanAssumption DEF ScanTyped, ScanTypeOK, Codes
<1>3. PICK q \in Calls : /\ q.who = p /\ q.view = scanner[p].view /\ q.kind = kind /\ q.of = c /\ q.answer = "none"
                         /\ calls' = calls \cup {q}
  <2> DEFINE ask == Ask(p, scanner[p].view, kind, c)
  <2>1. /\ ask \in Calls /\ ask.who = p /\ ask.view = scanner[p].view /\ ask.kind = kind
        /\ ask.of = c /\ ask.answer = "none"
    BY <1>2 DEF Ask, Calls, Answers
  <2>2. calls' = calls \cup {ask}
    OBVIOUS
  <2> HIDE DEF ask
  <2> QED
    BY <2>1, <2>2
<1>4. /\ scanner' \in [Phones -> [view : 1..(MaxTurns + 1), phase : Phases, code : 0..(MaxTurns + 1)]]
      /\ scanner'[p].view = scanner[p].view /\ scanner'[p].phase = "working" /\ scanner'[p].code = c
      /\ \A o \in Phones : o # p => scanner'[o] = scanner[o]
  BY <1>1, <1>2 DEF ScanTyped, ScanTypeOK, Phases
<1>5. \A r \in calls : r.who \in Phones \cup {"tab"}
  BY <1>1 DEF ScanTyped, SoundCall, Calls
<1>6. (\A r \in calls : Listens(r)' <=> Listens(r)) /\ Listens(q)'
  BY <1>2, <1>3, <1>4, <1>5 DEF Listens
<1>7. \A r \in calls : r.who = p => ~Listens(r)
  BY <1>1, <1>2 DEF OneCall, PhoneCall
<1>8. ScanTyped'
  <2>1. IsFiniteSet(calls')
    BY <1>1, <1>3, FS_AddElement DEF ScanTyped
  <2>2. \A o \in Phones : scanner'[o].view = scanner[o].view
    BY <1>4
  <2>3. \A r \in calls : SoundCall(r)'
    BY <1>1, <1>5, <2>2 DEF ScanTyped, SoundCall
  <2>4. SoundCall(q)'
    <3>1. scanner[p].view <= scanner'[p].view
      BY <1>2, <1>4 DEF Codes
    <3> QED
      BY <1>2, <1>3, <3>1 DEF SoundCall, PhoneKinds
  <2>5. \A r \in calls' : SoundCall(r)'
    BY <1>3, <2>3, <2>4
  <2> QED
    BY <1>1, <1>4, <2>1, <2>2, <2>5 DEF ScanTyped, ScanTypeOK
<1>9. OneCall'
  <2>1. TabCall(q)' /\ PhoneCall(q)'
    BY <1>2, <1>3, <1>4 DEF TabCall, PhoneCall
  <2>2. \A r \in calls : TabCall(r)' /\ PhoneCall(r)'
    BY <1>1, <1>4, <1>5, <1>6, <1>7 DEF OneCall, TabCall, PhoneCall
  <2>3. \A r, o \in calls' : r.who = o.who /\ r.view = o.view => r = o
    <3>1. \A r \in calls : ~(r.who = p /\ r.view = scanner[p].view)
      BY <1>2, <1>7 DEF Listens
    <3> QED
      BY <1>1, <1>3, <3>1 DEF OneCall
  <2>4. \A r \in calls' : r.answer # "none" => Listens(r)'
    BY <1>1, <1>3, <1>6 DEF OneCall
  <2>5. \A o \in Phones : scanner'[o].phase # "scanning" => scanner'[o].code \in Codes
    BY <1>1, <1>4 DEF OneCall
  <2> QED
    BY <1>1, <1>3, <2>1, <2>2, <2>3, <2>4, <2>5 DEF OneCall
<1>10. CodesOnce' /\ Accounted' /\ TabSessionApproved' /\ \A o, b : Real(o, b) => Real(o, b)'
  <2>1. mishaps' \in Nat /\ mishaps <= mishaps'
    BY <1>1, CountedFinite
  <2>2. \A r \in calls' : r \in calls \/ (r.who # "tab" /\ r.kind \in PhoneKinds)
    BY <1>2, <1>3
  <2>3. \A r \in calls : r \in calls'
    BY <1>3
  <2> QED
    BY <2>1, <2>2, <2>3, PhonesApart
<1>11. Confirmed'
  <2>1. \A r \in calls' : r.kind = "approve" /\ r.answer = "ok" => Real(r.who, r.of)'
    BY <1>1, <1>3, <1>10 DEF Confirmed
  <2>2. (\A o \in Phones : scanner[o].phase = "approved" => Real(o, scanner[o].code))'
    BY <1>1, <1>4 DEF Confirmed, Real
  <2> QED
    BY <2>1, <2>2 DEF Confirmed
<1> QED
  BY <1>8, <1>9, <1>10, <1>11 DEF ScanInv

LEMMA ScanKeeps ==
  ASSUME ScanInv, NEW p \in Phones, Scan(p)
  PROVE  ScanInv'
<1>1. /\ tab.code \in 0..(MaxTurns + 1) /\ tab.code # 0 /\ scanner[p].phase = "scanning"
      /\ scanner \in [Phones -> [view : 1..(MaxTurns + 1), phase : Phases, code : 0..(MaxTurns + 1)]]
  BY DEF ScanInv, ScanTyped, ScanTypeOK, Scan
<1>2. tab.code \in Codes /\ "claim" \in PhoneKinds
  BY <1>1, ScanAssumption DEF Codes, PhoneKinds
<1>3. scanner' = [scanner EXCEPT ![p] = [view |-> scanner[p].view, phase |-> "working", code |-> tab.code]]
  <2>1. scanner[p] \in [view : 1..(MaxTurns + 1), phase : Phases, code : 0..(MaxTurns + 1)]
    BY <1>1
  <2>2. [scanner[p] EXCEPT !.phase = "working", !.code = tab.code]
          = [view |-> scanner[p].view, phase |-> "working", code |-> tab.code]
    <3> DEFINE mid == [scanner[p] EXCEPT !.phase = "working"]
    <3>1. mid = [view |-> scanner[p].view, phase |-> "working", code |-> scanner[p].code]
      BY <2>1
    <3>2. [mid EXCEPT !.code = tab.code] = [view |-> scanner[p].view, phase |-> "working", code |-> tab.code]
      <4> HIDE DEF mid
      <4> QED
        BY <3>1
    <3> QED
      BY <3>2
  <2>3. scanner' = [scanner EXCEPT ![p] = [scanner[p] EXCEPT !.phase = "working", !.code = tab.code]]
    BY DEF Scan
  <2> QED
    BY <2>2, <2>3
<1>4. /\ calls' = calls \union {Ask(p, scanner[p].view, "claim", tab.code)}
      /\ UNCHANGED <<tab, cookie, device, sessions, mishaps, turns>>
  BY DEF Scan
<1> QED
  BY <1>1, <1>2, <1>3, <1>4, PhoneAsks

LEMMA DecideKeeps ==
  ASSUME ScanInv, NEW p \in Phones, NEW kind \in {"approve", "deny"},
         scanner[p].phase = "confirming", Say(p, kind, "working")
  PROVE  ScanInv'
<1>1. /\ scanner[p].code \in Codes
      /\ scanner \in [Phones -> [view : 1..(MaxTurns + 1), phase : Phases, code : 0..(MaxTurns + 1)]]
  BY DEF ScanInv, ScanTyped, ScanTypeOK, OneCall
<1>2. kind \in PhoneKinds
  BY DEF PhoneKinds
<1>3. scanner' = [scanner EXCEPT ![p] = [view |-> scanner[p].view, phase |-> "working", code |-> scanner[p].code]]
  <2>1. scanner[p] \in [view : 1..(MaxTurns + 1), phase : Phases, code : 0..(MaxTurns + 1)]
    BY <1>1
  <2>2. [scanner[p] EXCEPT !.phase = "working"] = [view |-> scanner[p].view, phase |-> "working", code |-> scanner[p].code]
    BY <2>1
  <2>3. scanner' = [scanner EXCEPT ![p] = [scanner[p] EXCEPT !.phase = "working"]]
    BY DEF Say
  <2> QED
    BY <2>2, <2>3
<1>4. /\ calls' = calls \union {Ask(p, scanner[p].view, kind, scanner[p].code)}
      /\ UNCHANGED <<tab, cookie, device, sessions, mishaps, turns>>
  BY DEF Say
<1> QED
  BY <1>1, <1>2, <1>3, <1>4, PhoneAsks

LEMMA PhoneHearsKeeps ==
  ASSUME ScanInv, NEW r \in calls, PhoneHears(r)
  PROVE  ScanInv'
<1>1. ScanTyped /\ OneCall /\ Confirmed
  BY DEF ScanInv
<1> DEFINE phase == PhaseAfter(r.kind, r.answer = "ok")
<1>2. PICK p \in Phones : r.who = p
  BY DEF PhoneHears
<1>3. /\ p # "tab" /\ r.answer # "none" /\ calls' = calls \ {r}
      /\ scanner' = [scanner EXCEPT ![p].phase = phase]
      /\ UNCHANGED <<tab, cookie, device, sessions, mishaps, turns>>
  BY <1>2, ScanAssumption DEF PhoneHears
<1>4. SoundCall(r) /\ Listens(r) /\ PhoneCall(r) /\ r.kind \in PhoneKinds
  BY <1>1, <1>2, <1>3 DEF ScanTyped, SoundCall, OneCall
<1>5. scanner[p].phase = "working" /\ r.of = scanner[p].code /\ r.view = scanner[p].view
  BY <1>2, <1>3, <1>4 DEF PhoneCall, Listens
<1>6. /\ phase \in Phases
      /\ phase = "approved" => r.kind = "approve" /\ r.answer = "ok"
  BY <1>4 DEF PhaseAfter, Phases, PhoneKinds
<1> HIDE DEF phase
<1>7. /\ scanner' \in [Phones -> [view : 1..(MaxTurns + 1), phase : Phases, code : 0..(MaxTurns + 1)]]
      /\ scanner'[p].view = scanner[p].view /\ scanner'[p].phase = phase /\ scanner'[p].code = scanner[p].code
      /\ \A o \in Phones : o # p => scanner'[o] = scanner[o]
  BY <1>1, <1>3, <1>6 DEF ScanTyped, ScanTypeOK
<1>8. \A q \in calls : q.who \in Phones \cup {"tab"}
  BY <1>1 DEF ScanTyped, SoundCall, Calls
<1>9. \A q \in calls : Listens(q)' <=> Listens(q)
  BY <1>3, <1>7, <1>8 DEF Listens
<1>10. \A q \in calls : q.who = p /\ Listens(q) => q = r
  BY <1>1, <1>2, <1>3, <1>5 DEF OneCall, Listens
<1>11. ScanTyped'
  <2>1. IsFiniteSet(calls')
    BY <1>1, <1>3, FS_Subset DEF ScanTyped
  <2>2. \A o \in Phones : scanner'[o].view = scanner[o].view
    BY <1>7
  <2>3. \A q \in calls' : SoundCall(q)'
    BY <1>1, <1>3, <1>8, <2>2 DEF ScanTyped, SoundCall
  <2> QED
    BY <1>1, <1>3, <1>7, <2>1, <2>2, <2>3 DEF ScanTyped, ScanTypeOK
<1>12. OneCall'
  <2>1. \A q \in calls' : TabCall(q)' /\ PhoneCall(q)'
    BY <1>1, <1>3, <1>7, <1>8, <1>9, <1>10 DEF OneCall, TabCall, PhoneCall
  <2>2. \A q, o \in calls' : q.who = o.who /\ q.view = o.view => q = o
    BY <1>1, <1>3 DEF OneCall
  <2>3. \A q \in calls' : q.answer # "none" => Listens(q)'
    BY <1>1, <1>3, <1>9 DEF OneCall
  <2>4. \A o \in Phones : scanner'[o].phase # "scanning" => scanner'[o].code \in Codes
    BY <1>1, <1>5, <1>7 DEF OneCall
  <2> QED
    BY <1>1, <1>3, <2>1, <2>2, <2>3, <2>4 DEF OneCall
<1>13. CodesOnce' /\ Accounted' /\ TabSessionApproved' /\ \A o, b : Real(o, b) => Real(o, b)'
  <2>1. mishaps' \in Nat /\ mishaps <= mishaps'
    BY <1>1, <1>3, CountedFinite
  <2>2. \A q \in calls' : q \in calls
    BY <1>3
  <2>3. \A q \in calls : q.who = "tab" => q \in calls'
    BY <1>2, <1>3
  <2>4. UNCHANGED <<tab, cookie, device, sessions>>
    BY <1>3
  <2> QED
    BY <2>1, <2>2, <2>3, <2>4, PhonesApart
<1>14. Confirmed'
  <2>1. \A q \in calls' : q.kind = "approve" /\ q.answer = "ok" => Real(q.who, q.of)'
    BY <1>1, <1>3, <1>13 DEF Confirmed
  <2>2. (\A o \in Phones : scanner[o].phase = "approved" => Real(o, scanner[o].code))'
    <3> SUFFICES ASSUME NEW o \in Phones, scanner'[o].phase = "approved"
                 PROVE  Real(o, scanner[o].code)'
      BY DEF Real
    <3>1. CASE o = p
      <4>1. Real(p, scanner[p].code)
        BY <1>1, <1>2, <1>5, <1>6, <1>7, <3>1 DEF Confirmed
      <4> QED
        BY <1>3, <1>7, <3>1, <4>1 DEF Real
    <3>2. CASE o # p
      <4>1. Real(o, scanner[o].code) /\ scanner'[o] = scanner[o]
        BY <1>1, <1>7, <3>2 DEF Confirmed
      <4> QED
        BY <1>3, <4>1 DEF Real
    <3> QED
      BY <3>1, <3>2
  <2> QED
    BY <2>1, <2>2 DEF Confirmed
<1> QED
  BY <1>11, <1>12, <1>13, <1>14 DEF ScanInv

(* A view that is renewed starts with no code and hears nothing of the last. *)
LEMMA NewViewKeeps ==
  ASSUME ScanInv, NEW p \in Phones, NewView(p), mishaps' = mishaps \/ mishaps' = mishaps + 1
  PROVE  ScanInv'
<1>1. ScanTyped /\ OneCall /\ Confirmed
  BY DEF ScanInv
<1>2. turns \in 0..MaxTurns /\ mishaps \in 0..turns /\ MaxTurns \in Nat /\ p # "tab"
  BY <1>1, ScanAssumption DEF ScanTyped, ScanTypeOK
<1>3. /\ turns < MaxTurns /\ turns' = turns + 1
      /\ scanner' = [scanner EXCEPT ![p] = [view |-> scanner[p].view + 1, phase |-> "scanning", code |-> 0]]
      /\ calls' \subseteq calls /\ \A q \in calls' : q.who = p => q.answer = "none"
      /\ \A q \in calls : q.who # p => q \in calls'
      /\ UNCHANGED <<tab, cookie, device, sessions>>
  BY DEF NewView, Turn, Unheard
<1>4. turns' \in 0..MaxTurns /\ mishaps' \in 0..turns' /\ mishaps' \in Nat /\ mishaps <= mishaps' /\ turns <= turns'
  BY <1>2, <1>3
<1>5. scanner[p].view \in Nat /\ scanner[p].view >= 1 /\ scanner[p].view <= turns + 1
  BY <1>1, <1>2 DEF ScanTyped, ScanTypeOK
<1>6. /\ scanner' \in [Phones -> [view : 1..(MaxTurns + 1), phase : Phases, code : 0..(MaxTurns + 1)]]
      /\ scanner'[p].view = scanner[p].view + 1 /\ scanner'[p].phase = "scanning"
      /\ \A o \in Phones : o # p => scanner'[o] = scanner[o]
  <2>1. scanner[p].view + 1 \in 1..(MaxTurns + 1) /\ 0 \in 0..(MaxTurns + 1)
    BY <1>2, <1>3, <1>5
  <2> QED
    BY <1>1, <1>3, <2>1 DEF ScanTyped, ScanTypeOK, Phases
<1>7. \A q \in calls : q.who \in Phones \cup {"tab"} /\ q.view \in Nat
  BY <1>1, <1>2 DEF ScanTyped, SoundCall, Calls, Codes
<1>8. \A q \in calls : q.who = p => ~Listens(q)'
  <2>1. \A q \in calls : q.who = p => q.view <= scanner[p].view
    BY <1>1, <1>2 DEF ScanTyped, SoundCall
  <2> QED
    BY <1>2, <1>5, <1>6, <1>7, <2>1 DEF Listens
<1>9. \A q \in calls : q.who # p => (Listens(q)' <=> Listens(q))
  BY <1>3, <1>6, <1>7 DEF Listens
<1>10. ScanTyped'
  <2>1. IsFiniteSet(calls')
    BY <1>1, <1>3, FS_Subset DEF ScanTyped
  <2>2. \A o \in Phones : scanner[o].view \in Nat /\ scanner'[o].view \in Nat /\ scanner[o].view <= scanner'[o].view
    <3>1. \A o \in Phones : scanner[o].view \in Nat /\ scanner[o].view <= scanner[o].view
      BY <1>1, <1>2 DEF ScanTyped, ScanTypeOK
    <3>2. scanner[p].view <= scanner'[p].view /\ scanner'[p].view \in Nat
      BY <1>5, <1>6
    <3> QED
      BY <1>6, <3>1, <3>2
  <2>3. \A o \in Phones : scanner'[o].view <= turns' + 1
    <3>1. \A o \in Phones : scanner[o].view <= turns + 1
      BY <1>1 DEF ScanTyped
    <3> QED
      BY <1>2, <1>3, <1>5, <1>6, <2>2, <3>1
  <2>4. \A q \in calls' : SoundCall(q)'
    <3> SUFFICES ASSUME NEW q \in calls' PROVE SoundCall(q)'
      OBVIOUS
    <3>1. SoundCall(q) /\ q.view \in Nat
      BY <1>1, <1>3, <1>7 DEF ScanTyped
    <3>2. q.who # "tab" => q.who \in Phones /\ q.view <= scanner[q.who].view
      BY <1>3, <1>7, <3>1 DEF SoundCall
    <3>3. q.who # "tab" => q.view <= scanner'[q.who].view
      BY <2>2, <3>1, <3>2
    <3> QED
      BY <1>3, <3>1, <3>3 DEF SoundCall
  <2>5. tab'.gen <= turns' + 1
    <3>1. tab.gen <= turns + 1 /\ tab.gen \in Nat
      BY <1>1 DEF ScanTyped, ScanTypeOK, Codes
    <3> QED
      BY <1>2, <1>3, <3>1
  <2> QED
    BY <1>1, <1>3, <1>4, <1>6, <2>1, <2>3, <2>4, <2>5 DEF ScanTyped, ScanTypeOK
<1>11. OneCall'
  <2>1. \A q \in calls' : TabCall(q)' /\ PhoneCall(q)'
    BY <1>1, <1>2, <1>3, <1>6, <1>7, <1>8, <1>9 DEF OneCall, TabCall, PhoneCall
  <2>2. \A q, o \in calls' : q.who = o.who /\ q.view = o.view => q = o
    BY <1>1, <1>3 DEF OneCall
  <2>3. \A q \in calls' : q.answer # "none" => Listens(q)'
    BY <1>1, <1>3, <1>9 DEF OneCall
  <2>4. \A o \in Phones : scanner'[o].phase # "scanning" => scanner'[o].code \in Codes
    BY <1>1, <1>6 DEF OneCall
  <2> QED
    BY <1>1, <1>3, <2>1, <2>2, <2>3, <2>4 DEF OneCall
<1>12. CodesOnce' /\ Accounted' /\ TabSessionApproved' /\ \A o, b : Real(o, b) => Real(o, b)'
  <2>1. \A q \in calls' : q \in calls
    BY <1>3
  <2>2. \A q \in calls : q.who = "tab" => q \in calls'
    BY <1>2, <1>3
  <2> QED
    BY <1>3, <1>4, <2>1, <2>2, PhonesApart
<1>13. Confirmed'
  <2>1. \A q \in calls' : q.kind = "approve" /\ q.answer = "ok" => Real(q.who, q.of)'
    BY <1>1, <1>3, <1>12 DEF Confirmed
  <2>2. (\A o \in Phones : scanner[o].phase = "approved" => Real(o, scanner[o].code))'
    BY <1>1, <1>3, <1>6 DEF Confirmed, Real
  <2> QED
    BY <2>1, <2>2 DEF Confirmed
<1> QED
  BY <1>10, <1>11, <1>12, <1>13 DEF ScanInv

-----------------------------------------------------------------------------
\* What is lost

LEMMA LoseKeeps ==
  ASSUME ScanInv, NEW r \in calls, Lose(r)
  PROVE  ScanInv'
<1>1. ScanTyped /\ OneCall /\ CodesOnce /\ Confirmed /\ Accounted /\ TabSessionApproved
  BY DEF ScanInv
<1>2. /\ turns < MaxTurns /\ turns' = turns + 1 /\ mishaps' = mishaps + 1 /\ Listens(r)
      /\ \/ calls' = Answered(r, "lost")
         \/ r.who = "tab" /\ r.kind \in {"token", "adopt"} /\ calls' = calls \ {r}
      /\ UNCHANGED <<tab, cookie, scanner, device, sessions>>
  BY DEF Lose, Turn
<1>3. r \in Calls /\ SoundCall(r) /\ TabCall(r) /\ PhoneCall(r)
  BY <1>1 DEF ScanTyped, SoundCall, OneCall
<1>4. \A q : Listens(q)' <=> Listens(q)
  BY <1>2 DEF Listens
<1> DEFINE Lost(q) == q.who = r.who /\ q.view = r.view /\ q.kind = r.kind /\ q.of = r.of /\ q.answer = "lost"
<1>5. \/ \E q \in Calls : calls' = (calls \ {r}) \cup {q} /\ Lost(q) /\ Listens(q)
      \/ calls' = calls \ {r} /\ tab.status = "waiting"
  <2>1. CASE calls' = Answered(r, "lost")
    <3> DEFINE q == [r EXCEPT !.answer = "lost"]
    <3>1. "lost" \in Answers
      BY DEF Answers
    <3>2. q \in Calls /\ Lost(q)
      BY <1>3, <3>1, AnsweredCall
    <3>3. calls' = (calls \ {r}) \cup {q}
      BY <2>1 DEF Answered
    <3> HIDE DEF q
    <3>4. Listens(q)
      BY <1>2, <3>2 DEF Listens
    <3> QED
      BY <3>2, <3>3, <3>4
  <2>2. CASE r.who = "tab" /\ r.kind \in {"token", "adopt"} /\ calls' = calls \ {r}
    BY <1>2, <1>3, <2>2 DEF TabCall
  <2> QED
    BY <1>2, <2>1, <2>2
<1>6. /\ \A q \in calls' : (q \in calls /\ q # r) \/ (q \in Calls /\ Lost(q) /\ Listens(q))
      /\ \A q \in calls : q # r => q \in calls'
      /\ \A q, o \in calls' : q \notin calls \ {r} /\ o \notin calls \ {r} => q = o
  BY <1>5
<1> HIDE DEF Lost
<1>7. ScanTyped'
  <2>1. IsFiniteSet(calls')
    <3>1. IsFiniteSet(calls \ {r})
      BY <1>1, FS_Subset DEF ScanTyped
    <3> QED
      BY <1>5, <3>1, FS_AddElement
  <2>2. \A q \in calls' : SoundCall(q)'
    BY <1>1, <1>2, <1>3, <1>6 DEF ScanTyped, SoundCall, Lost
  <2>3. turns' \in 0..MaxTurns /\ mishaps' \in 0..turns'
    <3>1. turns \in 0..MaxTurns /\ mishaps \in 0..turns /\ MaxTurns \in Nat
      BY <1>1, ScanAssumption DEF ScanTyped, ScanTypeOK
    <3> QED
      BY <1>2, <3>1
  <2>4. tab'.gen <= turns' + 1 /\ \A p \in Phones : scanner'[p].view <= turns' + 1
    <3>1. turns \in Nat /\ tab.gen \in Nat /\ \A p \in Phones : scanner[p].view \in Nat
      BY <1>1, ScanAssumption DEF ScanTyped, ScanTypeOK, Codes
    <3>2. tab.gen <= turns + 1 /\ \A p \in Phones : scanner[p].view <= turns + 1
      BY <1>1 DEF ScanTyped
    <3> QED
      BY <1>2, <3>1, <3>2
  <2> QED
    BY <1>1, <1>2, <2>1, <2>2, <2>3, <2>4 DEF ScanTyped, ScanTypeOK
<1>8. OneCall'
  <2>1. \A q \in calls : TabCall(q)' /\ PhoneCall(q)'
    BY <1>1, <1>2, <1>4 DEF OneCall, TabCall, PhoneCall
  <2>2. \A q \in calls' : TabCall(q)' /\ PhoneCall(q)'
    BY <1>2, <1>3, <1>4, <1>6, <2>1 DEF TabCall, PhoneCall, Lost
  <2>3. \A q, o \in calls' : q.who = o.who /\ q.view = o.view => q = o
    BY <1>1, <1>6 DEF OneCall, Lost
  <2>4. \A q \in calls' : q.answer # "none" => Listens(q)'
    BY <1>1, <1>4, <1>6 DEF OneCall
  <2> QED
    BY <1>1, <1>2, <2>2, <2>3, <2>4 DEF OneCall
<1>9. CodesOnce' /\ \A p, c : Real(p, c) => Real(p, c)'
  <2>1. \A q \in calls' : q.kind = "code" /\ q.answer = "none" => q \in calls
    BY <1>6 DEF Lost
  <2>2. tab.status = "loading" /\ InTouch => InTouch'
    BY <1>4, <1>5 DEF InTouch, Lost
  <2> QED
    BY <1>2, <2>1, <2>2, RowsKept
<1>10. Confirmed'
  <2>1. \A q \in calls' : q.kind = "approve" /\ q.answer = "ok" => Real(q.who, q.of)'
    BY <1>1, <1>6, <1>9 DEF Confirmed, Lost
  <2>2. (\A p \in Phones : scanner[p].phase = "approved" => Real(p, scanner[p].code))'
    BY <1>1, <1>2 DEF Confirmed, Real
  <2> QED
    BY <2>1, <2>2 DEF Confirmed
<1>11. TabSessionApproved'
  BY <1>1, <1>2 DEF TabSessionApproved
<1>12. Accounted'
  <2>1. IsFiniteSet(Orphans) /\ IsFiniteSet(Strays) /\ mishaps \in Nat /\ mishaps' \in Nat
    BY <1>1, <1>2, CountedFinite
  <2>2. PICK x : /\ r.kind = "adopt" => x = r.of
                 /\ r.kind = "token" => \A i \in DOMAIN sessions : sessions[i].code = r.of => i = x
    BY <1>1 DEF CodesOnce
  <2>3. Orphans' \subseteq Orphans \cup {x}
    <3>1. \A i \in DOMAIN sessions : Carried(i) /\ i # x => Carried(i)'
      BY <1>2, <1>4, <1>6, <2>2 DEF Carried
    <3> QED
      BY <1>2, <3>1 DEF Orphans
  <2>4. Strays' \subseteq Strays
    BY <1>4, <1>6 DEF Strays, Lost
  <2>5. Cardinality(Orphans') + Cardinality(Strays') <= mishaps'
    <3>1. Cardinality(Orphans) + Cardinality(Strays) <= mishaps
      BY <1>1 DEF Accounted
    <3>2. IsFiniteSet(Orphans \cup {x}) /\ Cardinality(Orphans \cup {x}) + Cardinality(Strays) <= mishaps'
      <4>1. /\ IsFiniteSet(Orphans \cup {x}) /\ Cardinality(Orphans) \in Nat /\ Cardinality(Orphans \cup {x}) \in Nat
            /\ Cardinality(Orphans \cup {x}) <= Cardinality(Orphans) + 1
        BY <2>1, OneMore
      <4>2. Cardinality(Strays) \in Nat
        BY <2>1, FS_CardinalityType
      <4> QED
        BY <1>2, <2>1, <3>1, <4>1, <4>2
    <3> QED
      BY <2>1, <2>3, <2>4, <3>2, CountKeeps
  <2>6. \A q \in calls' : q.kind = "adopt" /\ q.answer = "failed" => ~sessions'[q.of].live
    BY <1>1, <1>2, <1>6 DEF Accounted, Lost
  <2> QED
    BY <2>5, <2>6 DEF Accounted
<1> QED
  BY <1>7, <1>8, <1>9, <1>10, <1>11, <1>12 DEF ScanInv

-----------------------------------------------------------------------------
\* The theorem

LEMMA ScanInitInv ==
  ASSUME ScanInit
  PROVE  ScanInv
<1>1. ScanTyped
  <2>1. calls = {} /\ IsFiniteSet(calls)
    BY FS_EmptySet DEF ScanInit
  <2>2. sessions = <<>> /\ sessions \in Seq(Sessions) /\ Len(sessions) = 0
    BY DEF ScanInit
  <2>3. device \in [Codes -> [status : RowStatuses, user : Phones \union {Nobody},
                              by : Phones \union {Nobody}, expired : BOOLEAN]]
    BY DEF ScanInit, NoRow, RowStatuses
  <2>4. MaxTurns \in Nat /\ 0 \in 0..MaxTurns /\ 0 \in 0..(MaxTurns + 1) /\ 1 \in 1..(MaxTurns + 1) /\ turns = 0 /\ mishaps = 0
    BY ScanAssumption DEF ScanInit
  <2>5. tab \in [gen : {0} \union Codes, status : {"closed", "loading", "waiting"} \union Finals, code : 0..(MaxTurns + 1)]
    BY <2>4 DEF ScanInit
  <2>6. scanner \in [Phones -> [view : 1..(MaxTurns + 1), phase : Phases, code : 0..(MaxTurns + 1)]]
    BY <2>4 DEF ScanInit, Phases
  <2>7. tab.gen = 0 /\ tab.status = "closed" /\ (\A p \in Phones : scanner[p].view = 1) /\ cookie = 0
    BY DEF ScanInit
  <2> QED
    BY <2>1, <2>2, <2>3, <2>4, <2>5, <2>6, <2>7 DEF ScanTyped, ScanTypeOK
<1>2. OneCall /\ Confirmed /\ TabSessionApproved
  BY DEF ScanInit, OneCall, Confirmed, TabSessionApproved
<1>3. CodesOnce
  <2>1. \A c \in Codes : Unserved(c) /\ device[c] = NoRow
    BY DEF ScanInit, Unserved
  <2> QED
    BY <2>1 DEF ScanInit, CodesOnce, NoRow
<1>4. Accounted
  <2>1. Orphans = {} /\ Strays = {} /\ mishaps = 0 /\ calls = {}
    BY DEF ScanInit, Orphans, Strays
  <2>2. Cardinality({}) = 0
    BY FS_EmptySet
  <2> QED
    BY <2>1, <2>2 DEF Accounted
<1> QED
  BY <1>1, <1>2, <1>3, <1>4 DEF ScanInv

LEMMA ScanNextInv ==
  ASSUME ScanInv, [ScanNext]_scanVars
  PROVE  ScanInv'
<1>1. CASE UNCHANGED scanVars
  BY <1>1 DEF scanVars, ScanInv, ScanTyped, ScanTypeOK, SoundCall, OneCall, TabCall, PhoneCall, Listens, CodesOnce,
     Unserved, InTouch, Confirmed, Real, Accounted, Orphans, Strays, Carried, TabSessionApproved
<1>2. ASSUME NEW r \in calls, ServeScan(r) \/ TabHears(r) \/ PhoneHears(r) \/ Lose(r)
      PROVE  ScanInv'
  BY <1>2, ServeScanKeeps, TabHearsKeeps, PhoneHearsKeeps, LoseKeeps
<1>3. ASSUME NEW p \in Phones, Scan(p) \/ Approve(p) \/ Cancel(p) \/ Rescan(p) \/ Close(p)
      PROVE  ScanInv'
  <2>1. CASE Scan(p)
    BY <2>1, ScanKeeps
  <2>2. CASE Approve(p) \/ Cancel(p)
    BY <2>2, DecideKeeps DEF Approve, Cancel
  <2>3. CASE Rescan(p) \/ Close(p)
    BY <2>3, NewViewKeeps DEF Rescan, Close
  <2> QED
    BY <1>3, <2>1, <2>2, <2>3
<1>4. CASE Expire \/ Revoke
  BY <1>4, ExpireKeeps, RevokeKeeps
<1>5. CASE OpenLogin \/ FetchCode \/ PollToken \/ Regenerate \/ Reload
  BY <1>5, OpenLoginKeeps, FetchCodeKeeps, PollTokenKeeps, RegenerateKeeps, ReloadKeeps
<1> QED
  BY <1>1, <1>2, <1>3, <1>4, <1>5 DEF ScanNext

(* The invariant that runs check says no more than the inductive one: nobody *)
(* is signed in but by a confirmation of the very code the tab shows, no     *)
(* session is lost but by a fault, and no phone claims an approval that was  *)
(* none (use-scan-login.ts, ScanLoginModel.swift, scan-login-cookie.ts).     *)
THEOREM ScanAlwaysSound == ScanSpec => []ScanSound
<1>1. ScanInit => ScanInv
  BY ScanInitInv
<1>2. ScanInv /\ [ScanNext]_scanVars => ScanInv'
  BY ScanNextInv
<1>3. ScanInv => ScanSound
  <2> SUFFICES ASSUME ScanInv PROVE ScanSound
    OBVIOUS
  <2>1. ScanTypeOK /\ TabSessionApproved
    BY DEF ScanInv, ScanTyped
  <2>2. OrphansAreFaults
    <3>1. Cardinality(Orphans) \in Nat /\ Cardinality(Strays) \in Nat /\ mishaps \in Nat
      BY CountedFinite, FS_CardinalityType DEF ScanInv
    <3>2. Cardinality(Orphans) + Cardinality(Strays) <= mishaps
      BY DEF ScanInv, Accounted
    <3>3. Cardinality(Orphans) <= mishaps
      BY <3>1, <3>2
    <3> QED
      BY <3>3 DEF OrphansAreFaults, Orphans
  <2>3. ApprovalIsReal
    BY DEF ScanInv, Confirmed, Real, ApprovalIsReal
  <2> QED
    BY <2>1, <2>2, <2>3 DEF ScanSound
<1> QED
  BY <1>1, <1>2, <1>3, PTL DEF ScanSpec

-----------------------------------------------------------------------------
\* The login screen: the invariant

RequestKinds == SignInKinds \union {"send", "resend", "restore"}
LoginCalls == [n : Nat, kind : RequestKinds, for : Addresses \union {NoAddress},
               at : {"sheet", "asked", "answered", "session", "told"},
               answer : Addresses \union {NoAddress, "none", "failed", "unauthorized"}]
Accounts == [users : SUBSET Addresses, homes : SUBSET Addresses, passwords : SUBSET Addresses,
             made : SUBSET Addresses, codes : SUBSET Addresses]
Screens == [way : {"otp", "password"}, step : {"email", "code"}, address : Addresses \union {NoAddress},
            code : BOOLEAN, word : BOOLEAN, busy : BOOLEAN]

(* What a call at each of its stages can be.                                 *)
SoundRequest(c) ==
    /\ c.kind # "restore" => c.for \in Addresses
    /\ c.at = "sheet" => c.kind \in {"google", "apple"}
    /\ c.at \in {"session", "told"} => app # "web"
    /\ c.kind \in {"send", "resend"} => c.at \in {"asked", "answered"}
    /\ c.kind = "restore" => c.at \in {"session", "told"}
    /\ c.at = "answered" => c.answer \in {c.for, "failed"}

LoginTyped ==
    /\ LoginTypeOK
    /\ app \in {"web", "ios", "android"}
    /\ server \in Accounts
    /\ requests \subseteq LoginCalls
    /\ used \in [{"calls", "edits", "turns"} -> Nat]
    /\ \A c \in requests : SoundRequest(c)

(* Users have a workspace, and whoever is, or was told to be, signed in is a *)
(* user, as long as the hook has not failed.                                 *)
Homed(a) == a \in Addresses => a \in server.homes
UsersHaveHomes ==
    "hook" \notin odd =>
      /\ server.users = server.homes
      /\ Homed(bearer) /\ Homed(session)
      /\ \A c \in requests : c.kind \notin {"send", "resend"} => Homed(c.answer)

Signing(c) == c.kind \in SignInKinds \union {"restore"}
Parted == app = "android" /\ "overlap" \in odd

(* Unless sign-ins were parted, one is under way at most, and none once      *)
(* somebody is signed in; a session that was told is the bearer's.           *)
OneSignIn ==
    /\ \A c, d \in requests : c.kind = "restore" => c = d
    /\ ~Parted =>
         /\ \A c, d \in requests : Signing(c) /\ Signing(d) => c = d
         /\ session # NoAddress => session = bearer /\ \A c \in requests : ~Signing(c)
         /\ \A c \in requests : c.at = "told" /\ c.answer \in Addresses => c.answer = bearer

(* The browser and the iPhone have one call under way, and are busy with it  *)
(* or show a sheet.                                                          *)
OneAtATime ==
    app # "android" =>
      /\ \A c, d \in requests : c = d
      /\ \A c \in requests : screen.busy \/ c.at = "sheet"

(* The task that is to submit a code runs while nothing but another code can *)
(* be asked for.                                                             *)
TypedAlone ==
    typed => app = "ios" /\ session = NoAddress /\ \A c \in requests : c.kind = "resend"

(* A form asks for the code of its address, and so does the call that will   *)
(* make it ask.                                                              *)
Unedited == app = "ios" \/ "edited" \notin odd
CodeOfAddress ==
    /\ \A c \in requests : c.kind = "send" /\ c.at = "answered" /\ c.answer # "failed" => c.for \in server.made
    /\ Unedited =>
         /\ screen.step = "code" => screen.address \in server.made \union {NoAddress}
         /\ \A c \in requests : c.kind = "send" => c.for = screen.address
    /\ app = "ios" /\ screen.step = "code" => screen.address # NoAddress

(* The iPhone's code page: only a code, tried or made anew, is under way.    *)
CodeTried ==
    app = "ios" =>
      /\ screen.step = "email" => ~screen.code
      /\ session = NoAddress /\ screen.code => screen.busy \/ typed
      /\ \A c \in requests :
           /\ c.kind \notin {"code", "resend"} => screen.step = "email"
           /\ c.kind = "resend" => ~screen.code

LoginInv ==
    /\ LoginTyped /\ UsersHaveHomes /\ OneSignIn /\ OneAtATime /\ TypedAlone /\ CodeOfAddress /\ CodeTried

-----------------------------------------------------------------------------
\* Calls that start

LEMMA ScreenTyped == LoginTyped => screen \in Screens
BY DEF LoginTyped, LoginTypeOK, Screens

(* What a new call is.                                                       *)
LEMMA NewCall ==
  ASSUME LoginTyped, NEW kind \in SignInKinds \union {"send", "resend"}, NEW for \in Addresses,
         NEW at \in {"sheet", "asked"}, at = "sheet" => kind \in {"google", "apple"}, Start(kind, for, at)
  PROVE  \E c \in LoginCalls :
           /\ requests' = requests \union {c} /\ SoundRequest(c)
           /\ c.kind = kind /\ c.for = for /\ c.at = at /\ c.answer = "none"
<1>1. PICK c : c = LoginCall(kind, for, at)
  OBVIOUS
<1>2. c \in LoginCalls /\ c.kind = kind /\ c.for = for /\ c.at = at /\ c.answer = "none"
  <2>1. used["calls"] \in Nat
    BY DEF LoginTyped
  <2> QED
    BY <1>1, <2>1 DEF LoginCall, LoginCalls, RequestKinds
<1>3. SoundRequest(c)
  BY <1>2 DEF SoundRequest, SignInKinds
<1> QED
  BY <1>1, <1>2, <1>3 DEF Start

(* Whatever is under way when a call starts: the form it starts from has     *)
(* been checked for it by the button, the task or the sheet.                 *)
MayStart(kind, for, at) ==
    /\ kind \in SignInKinds \union {"send", "resend"} /\ for \in Addresses
    /\ at \in {"sheet", "asked"} /\ (at = "sheet" => kind \in {"google", "apple"})
    /\ session = NoAddress
    /\ \A c \in requests : c.kind # "restore"
    /\ app # "android" => requests = {} /\ (screen'.busy \/ at = "sheet")
    /\ kind = "send" => for = screen.address
    /\ typed' \in BOOLEAN /\ (typed' => typed /\ kind = "resend")
    /\ app = "ios" => /\ kind \notin {"code", "resend"} => screen.step = "email"
                      /\ kind = "resend" => ~screen'.code
                      /\ screen'.code => screen.code /\ (screen'.busy \/ typed')

SameForm ==
    screen' \in Screens /\ screen'.address = screen.address /\ screen'.step = screen.step
      /\ (screen'.code => screen.code)

LEMMA StartKeeps ==
  ASSUME LoginInv, NEW kind, NEW for, NEW at, MayStart(kind, for, at), SameForm, Start(kind, for, at)
  PROVE  LoginInv'
<1>1. PICK c \in LoginCalls :
        /\ requests' = requests \union {c} /\ SoundRequest(c)
        /\ c.kind = kind /\ c.for = for /\ c.at = at /\ c.answer = "none"
  BY NewCall DEF LoginInv, MayStart
<1>2. UNCHANGED <<app, bearer, session, server>> /\ odd \subseteq odd' /\ odd' \subseteq odd \union {"overlap"}
      /\ (kind \in SignInKinds /\ SigningIn => "overlap" \in odd')
  BY DEF Start
<1>3. used' \in [{"calls", "edits", "turns"} -> Nat]
  BY DEF Start, Use, LoginInv, LoginTyped
<1>4. LoginTyped'
  <2>1. LoginTypeOK'
    BY <1>1, <1>2 DEF LoginInv, LoginTyped, LoginTypeOK, SameForm, Screens, MayStart
  <2>2. \A d \in requests' : SoundRequest(d)'
    BY <1>1, <1>2 DEF LoginInv, LoginTyped, SoundRequest
  <2>3. requests' \subseteq LoginCalls
    BY <1>1 DEF LoginInv, LoginTyped
  <2> QED
    BY <1>2, <1>3, <2>1, <2>2, <2>3 DEF LoginInv, LoginTyped
<1>5. UsersHaveHomes'
  <2>1. ~(c.answer \in Addresses)
    BY <1>1, LoginAssumption
  <2> QED
    BY <1>1, <1>2, <2>1 DEF LoginInv, UsersHaveHomes, Homed
<1>6. OneSignIn'
  <2>1. \A d, e \in requests' : d.kind = "restore" => d = e
    BY <1>1 DEF MayStart, SignInKinds
  <2>2. ASSUME ~Parted' PROVE \A d, e \in requests' : Signing(d) /\ Signing(e) => d = e
    <3>1. ~Parted
      BY <1>2, <2>2 DEF Parted
    <3>2. CASE kind \in {"send", "resend"}
      BY <1>1, <3>1, <3>2 DEF LoginInv, OneSignIn, Signing, SignInKinds
    <3>3. CASE kind \in SignInKinds
      <4>1. \A d \in requests : ~Signing(d)
        BY <1>2, <2>2, <3>3 DEF SigningIn, Signing, MayStart, Parted, LoginInv, LoginTyped
      <4> QED
        BY <1>1, <4>1
    <3> QED
      BY <3>2, <3>3 DEF MayStart
  <2>3. ~Parted' => \A d \in requests' : d.at = "told" /\ d.answer \in Addresses => d.answer = bearer
    BY <1>1, <1>2 DEF LoginInv, OneSignIn, Parted, MayStart
  <2> QED
    BY <1>2, <2>1, <2>2, <2>3 DEF OneSignIn, MayStart
<1>7. OneAtATime'
  BY <1>1, <1>2 DEF OneAtATime, MayStart
<1>8. TypedAlone'
  BY <1>1, <1>2 DEF LoginInv, TypedAlone, MayStart
<1>9. CodeOfAddress'
  BY <1>1, <1>2 DEF LoginInv, CodeOfAddress, Unedited, MayStart, SameForm
<1>10. CodeTried'
  BY <1>1, <1>2 DEF LoginInv, CodeTried, MayStart, SameForm
<1> QED
  BY <1>4, <1>5, <1>6, <1>7, <1>8, <1>9, <1>10 DEF LoginInv

(* A form that is shown while nothing is under way in the browser or on the  *)
(* iPhone, and not while a session is restored.                              *)
LEMMA Free ==
  ASSUME LoginInv, Shown, app = "android" \/ ~screen.busy
  PROVE  /\ session = NoAddress /\ typed = FALSE
         /\ \A c \in requests : c.kind # "restore"
         /\ app # "android" => requests = {}
<1>1. app # "android" => requests = {}
  BY DEF LoginInv, OneAtATime, Shown
<1> QED
  BY <1>1 DEF Shown, Restoring, LoginInv, LoginTyped, LoginTypeOK

LEMMA PressKeeps == LoginInv /\ Press => LoginInv'
<1> SUFFICES ASSUME LoginInv, Press PROVE LoginInv'
  OBVIOUS
<1>0. screen \in Screens /\ ~screen.busy /\ screen.address # NoAddress
  BY ScreenTyped DEF LoginInv, Press, Enabled
<1>1. PICK kind \in Pressed : Start(kind, screen.address, "asked")
  BY DEF Press
<1>2. kind \in SignInKinds \union {"send"} /\ (app = "ios" => kind \notin {"code", "resend"})
  BY DEF Press, Pressed, CodeField, SignInKinds
<1>3. /\ screen'.busy /\ screen'.address = screen.address /\ screen'.step = screen.step /\ screen'.code = screen.code
      /\ screen' \in Screens /\ typed' = typed
  BY <1>0 DEF Press, Screens
<1>4. Shown /\ (app = "ios" => screen.step = "email")
  BY DEF Press
<1>5. MayStart(kind, screen.address, "asked")
  BY <1>0, <1>2, <1>3, <1>4, Free DEF MayStart, Screens
<1> QED
  BY <1>1, <1>3, <1>5, StartKeeps DEF SameForm

LEMMA SubmitKeeps == LoginInv /\ Submit => LoginInv'
<1> SUFFICES ASSUME LoginInv, Submit PROVE LoginInv'
  OBVIOUS
<1>0. screen \in Screens /\ app = "ios" /\ session = NoAddress /\ typed /\ ~typed' /\ typed' \in BOOLEAN
      /\ \A c \in requests : c.kind = "resend"
  BY ScreenTyped DEF LoginInv, Submit, TypedAlone
<1>1. CASE Enabled
  <2>1. ~screen.busy /\ screen.address # NoAddress
    BY <1>1 DEF Enabled
  <2>2. requests = {}
    <3>1. \A c \in requests : c.at # "sheet"
      BY <1>0 DEF LoginInv, LoginTyped, SoundRequest
    <3> QED
      BY <1>0, <2>1, <3>1 DEF LoginInv, OneAtATime
  <2>3. PICK kind : kind = (IF screen.step = "email" THEN "send" ELSE "code")
    OBVIOUS
  <2>4. Start(kind, screen.address, "asked") /\ screen' = [screen EXCEPT !.busy = TRUE]
    BY <1>1, <2>3 DEF Submit
  <2>5. /\ screen'.busy /\ screen'.address = screen.address /\ screen'.step = screen.step /\ screen'.code = screen.code
        /\ screen' \in Screens
    BY <1>0, <2>4 DEF Screens
  <2>6. MayStart(kind, screen.address, "asked")
    BY <1>0, <2>1, <2>2, <2>3, <2>5 DEF MayStart, Screens, SignInKinds
  <2> QED
    BY <2>4, <2>5, <2>6, StartKeeps DEF SameForm
<1>2. CASE ~Enabled
  <2>1. UNCHANGED <<app, screen, requests, bearer, session, server, used, odd>>
    BY <1>2 DEF Submit
  <2>2. screen.code => screen.busy
    <3>1. SUFFICES ASSUME screen.code, ~screen.busy PROVE FALSE
      OBVIOUS
    <3>2. screen.step = "code" /\ screen.address # NoAddress
      BY <1>0, <3>1 DEF LoginInv, CodeTried, CodeOfAddress, Screens
    <3>3. Filled
      BY <1>0, <3>1, <3>2 DEF Filled, WordField, CodeField
    <3> QED
      BY <1>2, <3>1, <3>2, <3>3 DEF Enabled
  <2>3. LoginTyped' /\ UsersHaveHomes' /\ OneSignIn' /\ OneAtATime' /\ CodeOfAddress'
    BY <1>0, <2>1 DEF LoginInv, LoginTyped, LoginTypeOK, SoundRequest, UsersHaveHomes, Homed, OneSignIn, Parted,
         OneAtATime, CodeOfAddress, Unedited
  <2>4. TypedAlone' /\ CodeTried'
    BY <1>0, <2>1, <2>2 DEF LoginInv, TypedAlone, CodeTried
  <2> QED
    BY <2>3, <2>4 DEF LoginInv
<1> QED
  BY <1>1, <1>2

LEMMA ResendKeeps == LoginInv /\ Resend => LoginInv'
<1> SUFFICES ASSUME LoginInv, Resend PROVE LoginInv'
  OBVIOUS
<1>0. screen \in Screens /\ app = "ios" /\ session = NoAddress /\ screen.step = "code" /\ ~screen.busy
      /\ screen.address \in Addresses
  BY ScreenTyped DEF LoginInv, Resend, OnCodePage, CodeOfAddress, Screens
<1>1. requests = {}
  <2>1. \A c \in requests : c.kind \in {"code", "resend"} /\ c.at = "sheet"
    BY <1>0 DEF LoginInv, CodeTried, OneAtATime
  <2> QED
    BY <2>1 DEF LoginInv, LoginTyped, SoundRequest
<1>2. /\ screen'.busy /\ screen'.address = screen.address /\ screen'.step = screen.step /\ ~screen'.code
      /\ screen' \in Screens /\ typed' = typed /\ Start("resend", screen.address, "asked")
  BY <1>0 DEF Resend, Screens
<1>3. MayStart("resend", screen.address, "asked")
  BY <1>0, <1>1, <1>2 DEF MayStart, LoginInv, LoginTyped, LoginTypeOK
<1> QED
  BY <1>2, <1>3, StartKeeps DEF SameForm

LEMMA GoogleKeeps == LoginInv /\ SignInWithGoogle => LoginInv'
<1> SUFFICES ASSUME LoginInv, SignInWithGoogle PROVE LoginInv'
  OBVIOUS
<1>0. screen \in Screens /\ Shown /\ (app # "android" => ~screen.busy) /\ (app = "ios" => screen.step = "email")
  BY ScreenTyped DEF LoginInv, SignInWithGoogle
<1>1. PICK a \in Addresses : Start("google", a, "sheet")
  BY DEF SignInWithGoogle
<1>2. /\ screen'.busy /\ screen'.address = screen.address /\ screen'.step = screen.step /\ screen'.code = screen.code
      /\ screen' \in Screens /\ typed' = typed
  BY <1>0 DEF SignInWithGoogle, Screens
<1>3. MayStart("google", a, "sheet")
  BY <1>0, <1>2, Free DEF MayStart, SignInKinds
<1> QED
  BY <1>1, <1>2, <1>3, StartKeeps DEF SameForm

LEMMA AppleKeeps == LoginInv /\ SignInWithApple => LoginInv'
<1> SUFFICES ASSUME LoginInv, SignInWithApple PROVE LoginInv'
  OBVIOUS
<1>0. screen \in Screens /\ Shown /\ ~screen.busy /\ app = "ios" /\ screen.step = "email" /\ UNCHANGED <<screen, typed>>
  BY ScreenTyped DEF LoginInv, SignInWithApple
<1>1. PICK a \in Addresses : Start("apple", a, "sheet")
  BY DEF SignInWithApple
<1>2. ~screen.code
  BY <1>0 DEF LoginInv, CodeTried
<1>3. MayStart("apple", a, "sheet")
  BY <1>0, <1>2, Free DEF MayStart, SignInKinds
<1> QED
  BY <1>0, <1>1, <1>3, StartKeeps DEF SameForm

-----------------------------------------------------------------------------
\* Calls that are served

(* A call with the answer it gets, and what the server makes of it.          *)
Serves(c, d) ==
    /\ requests' = (requests \ {c}) \union {d} /\ d \in LoginCalls /\ SoundRequest(d)
    /\ d.kind = c.kind /\ d.for = c.for /\ d.at \in {"answered", "told"}
    /\ server' \in Accounts /\ server'.homes \subseteq server'.users /\ server'.codes \subseteq server'.made
    /\ server.homes \subseteq server'.homes /\ server.made \subseteq server'.made
    /\ odd' \in {odd, odd \union {"hook"}}
    /\ "hook" \notin odd' /\ server.users = server.homes =>
         /\ server'.users = server'.homes
         /\ d.kind \notin {"send", "resend"} /\ d.answer \in Addresses => d.answer \in server'.homes \/ d.answer = bearer
    /\ d.kind = "send" /\ d.answer # "failed" => d.for \in server'.made
    /\ d.at = "told" /\ d.answer \in Addresses => d.answer = bearer

LEMMA RepliesSound ==
  ASSUME LoginTyped, NEW c \in requests, c.at = "asked", NEW answer \in {c.for, "failed"}, Replied(c, answer)
  PROVE  \E d \in LoginCalls :
           /\ requests' = (requests \ {c}) \union {d} /\ SoundRequest(d)
           /\ d.kind = c.kind /\ d.for = c.for /\ d.at = "answered" /\ d.answer = answer
<1>1. PICK d : d = [[c EXCEPT !.at = "answered"] EXCEPT !.answer = answer]
  OBVIOUS
<1>2. c \in LoginCalls /\ SoundRequest(c)
  BY DEF LoginTyped
<1>3. answer \in Addresses \union {NoAddress, "failed", "unauthorized"}
  BY <1>2 DEF LoginCalls
<1>4. d \in LoginCalls /\ d.kind = c.kind /\ d.for = c.for /\ d.at = "answered" /\ d.answer = answer
  BY <1>1, <1>2, <1>3 DEF LoginCalls
<1>5. SoundRequest(d)
  BY <1>2, <1>4 DEF SoundRequest
<1> QED
  BY <1>1, <1>4, <1>5 DEF Replied

LEMMA ServeLoginServes ==
  ASSUME LoginInv, ServeLogin
  PROVE  \E c \in requests : \E d \in LoginCalls : Serves(c, d)
<1>0. server \in Accounts /\ server.homes \subseteq server.users /\ server.codes \subseteq server.made
      /\ LoginTyped
  BY DEF LoginInv, LoginTyped, LoginTypeOK
<1> PICK c \in requests :
      \/ c.at = "asked" /\ (ServeSend(c) \/ ServeSignIn(c) \/ RefuseLogin(c))
      \/ c.at = "session" /\ ServeSession(c)
  BY DEF ServeLogin
<1>c. c \in LoginCalls /\ SoundRequest(c)
  BY <1>0 DEF LoginTyped
<1>1. CASE c.at = "asked" /\ ServeSend(c)
  <2>1. PICK d \in LoginCalls :
          /\ requests' = (requests \ {c}) \union {d} /\ SoundRequest(d)
          /\ d.kind = c.kind /\ d.for = c.for /\ d.at = "answered" /\ d.answer = c.for
    BY <1>0, <1>1, RepliesSound DEF ServeSend
  <2>2. c.for \in Addresses /\ c.kind \in {"send", "resend"}
    BY <1>1, <1>c DEF ServeSend, SoundRequest
  <2>3. /\ server' \in Accounts /\ server'.users = server.users /\ server'.homes = server.homes
        /\ server'.made = server.made \union {c.for} /\ server'.codes = server.codes \union {c.for}
    <3>1. server' = [[server EXCEPT !.made = @ \union {c.for}] EXCEPT !.codes = @ \union {c.for}]
      BY <1>1 DEF ServeSend
    <3> QED
      BY <1>0, <2>2, <3>1 DEF Accounts
  <2>4. odd' = odd
    BY <1>1 DEF ServeSend
  <2>5. Serves(c, d)
    BY <1>0, <2>1, <2>2, <2>3, <2>4 DEF Serves
  <2> QED
    BY <2>5
<1>2. CASE c.at = "asked" /\ RefuseLogin(c)
  <2>1. PICK d \in LoginCalls :
          /\ requests' = (requests \ {c}) \union {d} /\ SoundRequest(d)
          /\ d.kind = c.kind /\ d.for = c.for /\ d.at = "answered" /\ d.answer = "failed"
    BY <1>0, <1>2, RepliesSound DEF RefuseLogin
  <2>2. "failed" \notin Addresses /\ server' = server /\ odd' = odd
    BY <1>2, LoginAssumption DEF RefuseLogin
  <2>3. Serves(c, d)
    BY <1>0, <2>1, <2>2 DEF Serves
  <2> QED
    BY <2>3
<1>3. CASE c.at = "asked" /\ ServeSignIn(c)
  <2>0. c.kind \in SignInKinds /\ c.for \in Addresses
    BY <1>3, <1>c DEF ServeSignIn, SoundRequest, SignInKinds
  <2>1. /\ Changes(c) \in Accounts /\ Changes(c).users = server.users /\ Changes(c).homes = server.homes
        /\ Changes(c).made = server.made /\ Changes(c).codes \subseteq server.codes
    BY <1>0, <2>0 DEF Changes, Accounts, SignInKinds
  <2>2. CASE Admit(c.for, Changes(c)) /\ Replied(c, c.for)
    <3>1. PICK d \in LoginCalls :
            /\ requests' = (requests \ {c}) \union {d} /\ SoundRequest(d)
            /\ d.kind = c.kind /\ d.for = c.for /\ d.at = "answered" /\ d.answer = c.for
      BY <1>0, <1>3, <2>2, RepliesSound
    <3>2. /\ server' \in Accounts /\ server'.made = server.made /\ server'.codes \subseteq server.codes
          /\ \/ c.for \in server.users /\ server'.users = server.users /\ server'.homes = server.homes
             \/ server'.users = server.users \union {c.for} /\ server'.homes = server.homes \union {c.for}
      <4>1. PICK x : x = Changes(c)
        OBVIOUS
      <4>2. CASE server' = x /\ c.for \in server.users
        BY <2>1, <4>1, <4>2
      <4>3. CASE server' = [[x EXCEPT !.users = @ \union {c.for}] EXCEPT !.homes = server.homes \union {c.for}]
        BY <1>0, <2>0, <2>1, <4>1, <4>3 DEF Accounts
      <4> QED
        BY <2>2, <4>1, <4>2, <4>3 DEF Admit, CreatePersonalWorkspace
    <3>3. odd' = odd
      BY <2>2 DEF Admit
    <3>4. server.users = server.homes => c.for \in server'.homes
      BY <3>2
    <3>5. Serves(c, d)
      BY <1>0, <2>0, <3>1, <3>2, <3>3, <3>4 DEF Serves, SignInKinds
    <3> QED
      BY <3>5
  <2>3. CASE HookFails(c.for, Changes(c)) /\ Replied(c, "failed")
    <3>1. PICK d \in LoginCalls :
            /\ requests' = (requests \ {c}) \union {d} /\ SoundRequest(d)
            /\ d.kind = c.kind /\ d.for = c.for /\ d.at = "answered" /\ d.answer = "failed"
      BY <1>0, <1>3, <2>3, RepliesSound
    <3>2. /\ server' \in Accounts /\ server'.made = server.made /\ server'.codes \subseteq server.codes
          /\ server'.users = server.users \union {c.for} /\ server'.homes = server.homes
      <4>1. PICK x : x = Changes(c)
        OBVIOUS
      <4>2. server' = [x EXCEPT !.users = @ \union {c.for}]
        BY <2>3, <4>1 DEF HookFails
      <4> QED
        BY <1>0, <2>0, <2>1, <4>1, <4>2 DEF Accounts
    <3>3. odd' = odd \union {"hook"}
      BY <2>3 DEF HookFails
    <3>4. Serves(c, d)
      BY <1>0, <2>0, <3>1, <3>2, <3>3, LoginAssumption DEF Serves, SignInKinds
    <3> QED
      BY <3>4
  <2> QED
    BY <1>3, <2>2, <2>3 DEF ServeSignIn
<1>4. CASE c.at = "session" /\ ServeSession(c)
  <2>1. PICK answer \in {bearer, "unauthorized", "failed"} :
          requests' = (requests \ {c}) \union {[[c EXCEPT !.at = "told"] EXCEPT !.answer = answer]}
    BY <1>4 DEF ServeSession
  <2>2. PICK d : d = [[c EXCEPT !.at = "told"] EXCEPT !.answer = answer]
    OBVIOUS
  <2>3. d \in LoginCalls /\ d.kind = c.kind /\ d.for = c.for /\ d.at = "told" /\ d.answer = answer
    <3>1. answer \in Addresses \union {NoAddress, "failed", "unauthorized"}
      BY <1>0, <2>1 DEF LoginTyped, LoginTypeOK
    <3> QED
      BY <1>c, <2>2, <3>1 DEF LoginCalls
  <2>4. SoundRequest(d)
    BY <1>4, <1>c, <2>3 DEF SoundRequest
  <2>5. server' = server /\ odd' = odd /\ (d.answer \in Addresses => d.answer = bearer)
    BY <1>4, <2>1, <2>3, LoginAssumption DEF ServeSession
  <2>6. d.kind \notin {"send", "resend"}
    BY <1>4, <1>c, <2>3 DEF SoundRequest
  <2>7. Serves(c, d)
    BY <1>0, <2>1, <2>2, <2>3, <2>4, <2>5, <2>6 DEF Serves
  <2> QED
    BY <2>3, <2>7
<1> QED
  BY <1>1, <1>2, <1>3, <1>4

LEMMA ServeLoginKeeps == LoginInv /\ ServeLogin => LoginInv'
<1> SUFFICES ASSUME LoginInv, ServeLogin PROVE LoginInv'
  OBVIOUS
<1>0. PICK c \in requests : \E d \in LoginCalls : Serves(c, d)
  BY ServeLoginServes
<1>1. PICK d \in LoginCalls : Serves(c, d)
  BY <1>0
<1>2. UNCHANGED <<app, screen, typed, bearer, session, used>>
  BY DEF ServeLogin
<1>3. /\ requests' = (requests \ {c}) \union {d} /\ SoundRequest(d)
      /\ d.kind = c.kind /\ d.for = c.for /\ d.at \in {"answered", "told"}
  BY <1>1 DEF Serves
<1>4. c.at # "sheet" => d.at # "sheet"
  BY <1>3
<1>5. LoginTyped'
  <2>1. LoginTypeOK'
    BY <1>1, <1>2, <1>3 DEF Serves, LoginInv, LoginTyped, LoginTypeOK, LoginCalls, RequestKinds
  <2>2. \A e \in requests' : SoundRequest(e)'
    BY <1>2, <1>3 DEF LoginInv, LoginTyped, SoundRequest
  <2> QED
    BY <1>1, <1>2, <2>1, <2>2 DEF Serves, LoginInv, LoginTyped
<1>6. UsersHaveHomes'
  <2>1. SUFFICES ASSUME "hook" \notin odd' PROVE UsersHaveHomes'
    BY DEF UsersHaveHomes
  <2>2. "hook" \notin odd
    BY <1>1, <2>1 DEF Serves
  <2>3. /\ server.users = server.homes /\ Homed(bearer) /\ Homed(session)
        /\ \A e \in requests : e.kind \notin {"send", "resend"} => Homed(e.answer)
    BY <2>2 DEF LoginInv, UsersHaveHomes
  <2>4. server'.users = server'.homes /\ server.homes \subseteq server'.homes
        /\ (d.kind \notin {"send", "resend"} /\ d.answer \in Addresses => d.answer \in server'.homes \/ d.answer = bearer)
    BY <1>1, <2>1, <2>3 DEF Serves
  <2> QED
    BY <1>2, <1>3, <2>3, <2>4 DEF UsersHaveHomes, Homed
<1>7. OneSignIn'
  <2>1. Parted' <=> Parted
    BY <1>1, <1>2 DEF Serves, Parted
  <2>2. d.at = "told" /\ d.answer \in Addresses => d.answer = bearer
    BY <1>1 DEF Serves
  <2> QED
    BY <1>2, <1>3, <2>1, <2>2 DEF LoginInv, OneSignIn, Signing
<1>8. OneAtATime'
  BY <1>2, <1>3 DEF LoginInv, OneAtATime, ServeLogin
<1>9. TypedAlone' /\ CodeTried'
  BY <1>2, <1>3 DEF LoginInv, TypedAlone, CodeTried
<1>10. CodeOfAddress'
  <2>1. Unedited' <=> Unedited
    BY <1>1, <1>2 DEF Serves, Unedited
  <2>2. (d.kind = "send" /\ d.answer # "failed" => d.for \in server'.made) /\ server.made \subseteq server'.made
    BY <1>1 DEF Serves
  <2> QED
    BY <1>2, <1>3, <2>1, <2>2 DEF LoginInv, CodeOfAddress
<1> QED
  BY <1>5, <1>6, <1>7, <1>8, <1>9, <1>10 DEF LoginInv

-----------------------------------------------------------------------------
\* The form

(* What the form does not touch.                                             *)
LEMMA FormTouched ==
  ASSUME LoginInv, UNCHANGED <<app, requests, bearer, session, server>>, odd' \in {odd, odd \union {"edited"}},
         used' \in [{"calls", "edits", "turns"} -> Nat], screen' \in Screens, typed' \in BOOLEAN
  PROVE  LoginTyped' /\ UsersHaveHomes' /\ OneSignIn'
<1>1. LoginTypeOK'
  BY DEF LoginInv, LoginTyped, LoginTypeOK, Screens
<1>2. \A c \in requests' : SoundRequest(c)'
  BY DEF LoginInv, LoginTyped, SoundRequest
<1>3. ("hook" \in odd' <=> "hook" \in odd) /\ ("overlap" \in odd' <=> "overlap" \in odd)
  OBVIOUS
<1> QED
  BY <1>1, <1>2, <1>3 DEF LoginInv, LoginTyped, UsersHaveHomes, Homed, OneSignIn, Parted

LEMMA TypeAddressKeeps == LoginInv /\ TypeAddress => LoginInv'
<1> SUFFICES ASSUME LoginInv, TypeAddress PROVE LoginInv'
  OBVIOUS
<1>0. screen \in Screens /\ Shown /\ AddressField /\ UNCHANGED <<app, typed, requests, bearer, session, server>>
  BY ScreenTyped DEF LoginInv, TypeAddress
<1>1. PICK a \in Addresses : screen' = [screen EXCEPT !.address = a]
  BY DEF TypeAddress
<1>2. /\ screen' \in Screens /\ screen'.step = screen.step /\ screen'.code = screen.code /\ screen'.busy = screen.busy
      /\ screen'.address = a
  BY <1>0, <1>1 DEF Screens
<1>3. used' \in [{"calls", "edits", "turns"} -> Nat]
  BY DEF TypeAddress, Use, LoginInv, LoginTyped
<1>4. odd' \in {odd, odd \union {"edited"}}
      /\ (screen.step = "code" \/ (\E c \in requests : c.kind = "send") => "edited" \in odd')
  BY DEF TypeAddress
<1>5. LoginTyped' /\ UsersHaveHomes' /\ OneSignIn'
  BY <1>0, <1>2, <1>3, <1>4, FormTouched DEF LoginInv, LoginTyped, LoginTypeOK
<1>6. app = "ios" => screen.step = "email" /\ requests = {}
  BY <1>0, Free DEF AddressField
<1>7. CodeOfAddress'
  BY <1>0, <1>2, <1>4, <1>6 DEF LoginInv, CodeOfAddress, Unedited
<1>8. OneAtATime' /\ TypedAlone' /\ CodeTried'
  BY <1>0, <1>2 DEF LoginInv, OneAtATime, TypedAlone, CodeTried
<1> QED
  BY <1>5, <1>7, <1>8 DEF LoginInv

LEMMA FillInKeeps == LoginInv /\ FillIn => LoginInv'
<1> SUFFICES ASSUME LoginInv, FillIn PROVE LoginInv'
  OBVIOUS
<1>0. screen \in Screens /\ Shown /\ (app = "ios" => ~screen.busy)
      /\ UNCHANGED <<app, requests, bearer, session, server, used, odd>>
  BY ScreenTyped DEF LoginInv, FillIn
<1>1. session = NoAddress /\ typed = FALSE /\ (app = "ios" => requests = {})
  BY <1>0, Free DEF Shown, LoginInv, LoginTyped, LoginTypeOK
<1>2. /\ screen' \in Screens /\ screen'.step = screen.step /\ screen'.busy = screen.busy
      /\ screen'.address = screen.address
      /\ \/ typed' = (app = "ios") /\ CodeField
         \/ typed' = FALSE /\ screen'.code = screen.code
  BY <1>0, <1>1 DEF FillIn, Screens
<1>3. LoginTyped' /\ UsersHaveHomes' /\ OneSignIn'
  BY <1>0, <1>2, FormTouched DEF LoginInv, LoginTyped
<1>4. OneAtATime' /\ TypedAlone' /\ CodeOfAddress'
  BY <1>0, <1>1, <1>2 DEF LoginInv, OneAtATime, TypedAlone, CodeOfAddress, Unedited
<1>5. CodeTried'
  BY <1>0, <1>1, <1>2 DEF LoginInv, CodeTried, CodeField
<1> QED
  BY <1>3, <1>4, <1>5 DEF LoginInv

LEMMA ChooseWayKeeps == LoginInv /\ ChooseWay => LoginInv'
<1> SUFFICES ASSUME LoginInv, ChooseWay PROVE LoginInv'
  OBVIOUS
<1>0. screen \in Screens /\ UNCHANGED <<app, typed, requests, bearer, session, server, odd>>
  BY ScreenTyped DEF LoginInv, ChooseWay
<1>1. /\ screen' \in Screens /\ screen'.step \in {screen.step, "email"} /\ screen'.busy = screen.busy
      /\ screen'.address = screen.address
      /\ app = "ios" => screen'.step = screen.step /\ screen'.code = screen.code
  BY <1>0 DEF ChooseWay, Screens
<1>2. used' \in [{"calls", "edits", "turns"} -> Nat]
  BY DEF ChooseWay, Use, LoginInv, LoginTyped
<1>3. LoginTyped' /\ UsersHaveHomes' /\ OneSignIn'
  BY <1>0, <1>1, <1>2, FormTouched DEF LoginInv, LoginTyped, LoginTypeOK
<1>4. OneAtATime' /\ TypedAlone' /\ CodeOfAddress' /\ CodeTried'
  BY <1>0, <1>1 DEF LoginInv, OneAtATime, TypedAlone, CodeOfAddress, Unedited, CodeTried
<1> QED
  BY <1>3, <1>4 DEF LoginInv

LEMMA BackToEmailKeeps == LoginInv /\ BackToEmail => LoginInv'
<1> SUFFICES ASSUME LoginInv, BackToEmail PROVE LoginInv'
  OBVIOUS
<1>0. screen \in Screens /\ app = "ios" /\ UNCHANGED <<app, typed, requests, bearer, session, server, odd>>
  BY ScreenTyped DEF LoginInv, BackToEmail, OnCodePage
<1>1. /\ screen' \in Screens /\ screen'.step = "email" /\ screen'.busy = screen.busy
      /\ screen'.address = screen.address /\ ~screen'.code
  BY <1>0 DEF BackToEmail, Screens
<1>2. used' \in [{"calls", "edits", "turns"} -> Nat]
  BY DEF BackToEmail, Use, LoginInv, LoginTyped
<1>3. LoginTyped' /\ UsersHaveHomes' /\ OneSignIn'
  BY <1>0, <1>1, <1>2, FormTouched DEF LoginInv, LoginTyped, LoginTypeOK
<1>4. OneAtATime' /\ TypedAlone' /\ CodeOfAddress' /\ CodeTried'
  BY <1>0, <1>1 DEF LoginInv, OneAtATime, TypedAlone, CodeOfAddress, Unedited, CodeTried
<1> QED
  BY <1>3, <1>4 DEF LoginInv

(* While a sheet is open the iPhone shows the page with the address.         *)
LEMMA SheetEndsKeeps == LoginInv /\ SheetEnds => LoginInv'
<1> SUFFICES ASSUME LoginInv, SheetEnds PROVE LoginInv'
  OBVIOUS
<1>0. screen \in Screens /\ UNCHANGED <<app, typed, bearer, session, server, used, odd>>
  BY ScreenTyped DEF LoginInv, SheetEnds
<1>1. PICK c \in requests :
        /\ c.at = "sheet"
        /\ \/ /\ requests' = (requests \ {c}) \union {[c EXCEPT !.at = "asked"]}
              /\ screen' = [screen EXCEPT !.busy = TRUE]
           \/ /\ requests' = requests \ {c}
              /\ screen' = [screen EXCEPT !.busy = FALSE]
  BY DEF SheetEnds
<1>2. c \in LoginCalls /\ SoundRequest(c) /\ c.kind \in {"google", "apple"} /\ c.for \in Addresses
  BY <1>1 DEF LoginInv, LoginTyped, SoundRequest
<1>3. PICK d : d = [c EXCEPT !.at = "asked"]
  OBVIOUS
<1>4. d \in LoginCalls /\ d.kind = c.kind /\ d.for = c.for /\ d.at = "asked" /\ d.answer = c.answer
  BY <1>2, <1>3 DEF LoginCalls
<1>5. SoundRequest(d)
  BY <1>2, <1>4 DEF SoundRequest
<1>6. /\ screen' \in Screens /\ screen'.step = screen.step /\ screen'.code = screen.code
      /\ screen'.address = screen.address
      /\ \/ requests' = (requests \ {c}) \union {d} /\ screen'.busy
         \/ requests' = requests \ {c}
  BY <1>0, <1>1, <1>3 DEF Screens
<1>7. ~typed /\ (app = "ios" => screen.step = "email" /\ ~screen.code)
  BY <1>2 DEF LoginInv, TypedAlone, CodeTried
<1>8. LoginTyped'
  <2>1. LoginTypeOK'
    BY <1>0, <1>2, <1>4, <1>6 DEF LoginInv, LoginTyped, LoginTypeOK, Screens
  <2>2. \A e \in requests' : SoundRequest(e)'
    BY <1>0, <1>5, <1>6 DEF LoginInv, LoginTyped, SoundRequest
  <2>3. requests' \subseteq LoginCalls
    BY <1>4, <1>6 DEF LoginInv, LoginTyped
  <2> QED
    BY <1>0, <2>1, <2>2, <2>3 DEF LoginInv, LoginTyped
<1>9. UsersHaveHomes' /\ OneSignIn'
  BY <1>0, <1>4, <1>6 DEF LoginInv, UsersHaveHomes, Homed, OneSignIn, Signing, Parted
<1>10. OneAtATime'
  BY <1>0, <1>6 DEF LoginInv, OneAtATime
<1>11. TypedAlone' /\ CodeOfAddress'
  BY <1>0, <1>2, <1>4, <1>6, <1>7 DEF LoginInv, TypedAlone, CodeOfAddress, Unedited
<1>12. CodeTried'
  BY <1>0, <1>4, <1>6, <1>7 DEF LoginInv, CodeTried
<1> QED
  BY <1>8, <1>9, <1>10, <1>11, <1>12 DEF LoginInv

-----------------------------------------------------------------------------
\* Answers

LEMMA FailedForm ==
  ASSUME screen \in Screens, NEW c, screen' = Failed(c)
  PROVE  /\ screen' \in Screens /\ screen'.step = screen.step /\ screen'.address = screen.address
         /\ ~screen'.busy /\ (screen'.code => screen.code)
         /\ app = "ios" /\ c.kind \in {"send", "code"} /\ screen.step = "code" => ~screen'.code
<1>1. screen' = [[screen EXCEPT !.busy = FALSE]
            EXCEPT !.code = @ /\ ~(app = "ios" /\ c.kind \in {"send", "code"} /\ screen.step = "code")]
  BY DEF Failed
<1> QED
  BY <1>1 DEF Screens

(* A call that ends leaves the others as they are.                           *)
LEMMA CallEnds ==
  ASSUME LoginInv, NEW c \in requests, requests' = requests \ {c}, UNCHANGED <<app, server, used, odd, typed>>,
         screen' \in Screens, bearer' \in Addresses \union {NoAddress}, session' \in Addresses \union {NoAddress}
  PROVE  LoginTyped'
<1>1. LoginTypeOK'
  BY DEF LoginInv, LoginTyped, LoginTypeOK, Screens
<1>2. \A e \in requests' : SoundRequest(e)'
  BY DEF LoginInv, LoginTyped, SoundRequest
<1> QED
  BY <1>1, <1>2 DEF LoginInv, LoginTyped

LEMMA HearSentKeeps ==
  ASSUME LoginInv, NEW c \in requests, c.at = "answered", HearSent(c), UNCHANGED <<app, typed, server, used, odd>>
  PROVE  LoginInv'
<1>0. /\ screen \in Screens /\ c.kind \in {"send", "resend"} /\ requests' = requests \ {c}
      /\ UNCHANGED <<bearer, session>> /\ c.for \in Addresses
  BY ScreenTyped DEF LoginInv, LoginTyped, SoundRequest, HearSent
<1>1. /\ screen' \in Screens /\ screen'.address = screen.address /\ ~screen'.busy /\ (screen'.code => screen.code)
      /\ \/ screen'.step = screen.step
         \/ c.kind = "send" /\ c.answer # "failed" /\ screen'.step = "code"
      /\ app = "ios" /\ c.kind = "send" /\ screen.step = "code" => ~screen'.code
  <2>1. CASE c.answer = "failed"
    BY <1>0, <2>1, FailedForm DEF HearSent
  <2>2. CASE c.answer # "failed"
    <3>1. screen' = [[screen EXCEPT !.busy = FALSE] EXCEPT !.step = IF c.kind = "send" THEN "code" ELSE @]
      BY <2>2 DEF HearSent
    <3>2. c.kind = "send" /\ app = "ios" => screen.step = "email"
      BY DEF LoginInv, CodeTried
    <3> QED
      BY <1>0, <2>2, <3>1, <3>2 DEF Screens
  <2> QED
    BY <2>1, <2>2
<1>2. LoginTyped'
  BY <1>0, <1>1, CallEnds DEF LoginInv, LoginTyped, LoginTypeOK
<1>3. UsersHaveHomes' /\ OneSignIn'
  BY <1>0 DEF LoginInv, UsersHaveHomes, Homed, OneSignIn, Parted
<1>4. app # "android" => requests' = {}
  BY <1>0 DEF LoginInv, OneAtATime
<1>5. OneAtATime' /\ TypedAlone'
  BY <1>0, <1>4 DEF LoginInv, OneAtATime, TypedAlone
<1>6. CodeOfAddress'
  <2>1. c.kind = "send" /\ c.answer # "failed" => c.for \in server.made /\ (Unedited => c.for = screen.address)
    BY DEF LoginInv, CodeOfAddress
  <2>2. app = "ios" => Unedited
    BY DEF Unedited
  <2> QED
    BY <1>0, <1>1, <2>1, <2>2, LoginAssumption DEF LoginInv, CodeOfAddress, Unedited
<1>7. CodeTried'
  <2>1. SUFFICES ASSUME app = "ios" PROVE CodeTried'
    BY DEF CodeTried
  <2>2. ~screen'.code
    <3>1. CASE c.kind = "send"
      BY <1>1, <2>1, <3>1 DEF LoginInv, CodeTried
    <3>2. CASE c.kind = "resend"
      BY <1>1, <2>1, <3>2 DEF LoginInv, CodeTried
    <3> QED
      BY <1>0, <3>1, <3>2
  <2> QED
    BY <1>4, <2>1, <2>2 DEF CodeTried
<1> QED
  BY <1>2, <1>3, <1>5, <1>6, <1>7 DEF LoginInv

(* A sign-in or a restored session that came to nothing.                     *)
LEMMA SignInFails ==
  ASSUME LoginInv, NEW c \in requests, Signing(c), c.at # "sheet", requests' = requests \ {c}, screen' = Failed(c),
         bearer' \in {NoAddress, bearer}, UNCHANGED <<app, typed, server, used, odd, session>>
  PROVE  LoginInv'
<1>0. /\ screen' \in Screens /\ screen'.step = screen.step /\ screen'.address = screen.address
      /\ ~screen'.busy /\ (screen'.code => screen.code)
      /\ app = "ios" /\ c.kind \in {"send", "code"} /\ screen.step = "code" => ~screen'.code
      /\ screen \in Screens
  BY ScreenTyped, FailedForm DEF LoginInv
<1>1. c.kind \notin {"send", "resend"}
  BY DEF Signing, SignInKinds
<1>2. LoginTyped'
  BY <1>0, CallEnds DEF LoginInv, LoginTyped, LoginTypeOK
<1>3. UsersHaveHomes'
  BY LoginAssumption DEF LoginInv, UsersHaveHomes, Homed
<1>4. OneSignIn'
  <2>1. ~Parted => /\ session = NoAddress
                   /\ \A e \in requests \ {c} : ~Signing(e)
    BY DEF LoginInv, OneSignIn
  <2>2. \A e \in requests : e.at = "told" => Signing(e)
    BY DEF LoginInv, LoginTyped, SoundRequest, LoginCalls, RequestKinds, Signing
  <2>3. Parted' <=> Parted
    BY DEF Parted
  <2>4. ~Parted => \A e \in requests' : e.at # "told"
    BY <2>1, <2>2
  <2>5. \A e, f \in requests' : e.kind = "restore" => e = f
    BY DEF LoginInv, OneSignIn
  <2> QED
    BY <2>1, <2>3, <2>4, <2>5 DEF OneSignIn
<1>5. app # "android" => requests' = {}
  BY DEF LoginInv, OneAtATime
<1>6. OneAtATime' /\ TypedAlone'
  BY <1>5 DEF LoginInv, OneAtATime, TypedAlone
<1>7. CodeOfAddress'
  BY <1>0 DEF LoginInv, CodeOfAddress, Unedited
<1>8. CodeTried'
  <2>1. SUFFICES ASSUME app = "ios" PROVE CodeTried'
    BY DEF CodeTried
  <2>2. ~screen'.code
    BY <1>0, <1>1, <2>1 DEF LoginInv, CodeTried, Screens
  <2> QED
    BY <1>5, <2>1, <2>2 DEF CodeTried
<1> QED
  BY <1>2, <1>3, <1>4, <1>6, <1>7, <1>8 DEF LoginInv

LEMMA HearSignedInKeeps ==
  ASSUME LoginInv, NEW c \in requests, c.at = "answered", HearSignedIn(c), UNCHANGED <<app, typed, server, used, odd>>
  PROVE  LoginInv'
<1>0. screen \in Screens /\ c.kind \in SignInKinds /\ Signing(c) /\ c \in LoginCalls /\ SoundRequest(c)
  BY ScreenTyped DEF LoginInv, LoginTyped, HearSignedIn, Signing
<1>1. CASE c.answer = "failed"
  <2>1. screen' = Failed(c) /\ requests' = requests \ {c} /\ UNCHANGED <<bearer, session>>
    BY <1>1 DEF HearSignedIn
  <2> QED
    BY <1>0, <2>1, SignInFails
<1>2. CASE c.answer # "failed"
  <2>0. c.answer = c.for /\ c.for \in Addresses /\ bearer' = c.answer /\ screen' = screen
    BY <1>0, <1>2 DEF HearSignedIn, SoundRequest, SignInKinds
  <2>1. "hook" \notin odd => server.users = server.homes /\ c.answer \in server.homes
    BY <1>0, <2>0 DEF LoginInv, UsersHaveHomes, Homed, SignInKinds
  <2>2. CASE app = "web"
    <3>1. session' = c.answer /\ requests' = requests \ {c}
      BY <1>2, <2>2 DEF HearSignedIn
    <3>2. requests' = {}
      BY <2>2, <3>1 DEF LoginInv, OneAtATime
    <3>3. LoginTyped'
      BY <1>0, <2>0, <3>1, CallEnds
    <3>4. UsersHaveHomes' /\ OneSignIn' /\ OneAtATime' /\ TypedAlone' /\ CodeOfAddress' /\ CodeTried'
      BY <2>0, <2>1, <2>2, <3>1, <3>2 DEF LoginInv, UsersHaveHomes, Homed, OneSignIn, OneAtATime, TypedAlone,
         CodeOfAddress, Unedited, CodeTried
    <3> QED
      BY <3>3, <3>4 DEF LoginInv
  <2>3. CASE app # "web"
    <3>1. PICK d : d = [c EXCEPT !.at = "session"]
      OBVIOUS
    <3>2. d \in LoginCalls /\ d.kind = c.kind /\ d.for = c.for /\ d.at = "session" /\ d.answer = c.answer
      BY <1>0, <3>1 DEF LoginCalls
    <3>3. SoundRequest(d)
      BY <1>0, <2>3, <3>2 DEF SoundRequest, SignInKinds
    <3>4. requests' = (requests \ {c}) \union {d} /\ session' = session
      BY <1>2, <2>3, <3>1 DEF HearSignedIn
    <3>5. LoginTyped'
      <4>1. LoginTypeOK'
        BY <2>0, <3>2, <3>4 DEF LoginInv, LoginTyped, LoginTypeOK, LoginCalls, RequestKinds
      <4>2. \A e \in requests' : SoundRequest(e)'
        BY <3>3, <3>4 DEF LoginInv, LoginTyped, SoundRequest
      <4>3. requests' \subseteq LoginCalls
        BY <3>2, <3>4 DEF LoginInv, LoginTyped
      <4> QED
        BY <4>1, <4>2, <4>3 DEF LoginInv, LoginTyped
    <3>6. UsersHaveHomes'
      BY <2>0, <2>1, <3>2, <3>4 DEF LoginInv, UsersHaveHomes, Homed
    <3>7. OneSignIn'
      <4>1. ~Parted => /\ session = NoAddress
                       /\ \A e \in requests \ {c} : ~Signing(e)
        BY <1>0 DEF LoginInv, OneSignIn
      <4>2. \A e \in requests : e.at = "told" => Signing(e)
        BY DEF LoginInv, LoginTyped, SoundRequest, LoginCalls, RequestKinds, Signing
      <4>3. Parted' <=> Parted
        BY DEF Parted
      <4>4. ~Parted => \A e \in requests' : e.at # "told"
        BY <3>2, <3>4, <4>1, <4>2
      <4>5. \A e, f \in requests' : e.kind = "restore" => e = f
        BY <1>0, <3>2, <3>4 DEF LoginInv, OneSignIn, SignInKinds
      <4>6. ~Parted => \A e, f \in requests' : Signing(e) /\ Signing(f) => e = f
        BY <3>4, <4>1
      <4> QED
        BY <3>4, <4>1, <4>3, <4>4, <4>5, <4>6 DEF OneSignIn
    <3>8. OneAtATime'
      BY <2>0, <3>2, <3>4 DEF LoginInv, OneAtATime
    <3>9. TypedAlone' /\ CodeOfAddress' /\ CodeTried'
      BY <1>0, <2>0, <3>2, <3>4 DEF LoginInv, TypedAlone, CodeOfAddress, Unedited, CodeTried, SignInKinds
    <3> QED
      BY <3>5, <3>6, <3>7, <3>8, <3>9 DEF LoginInv
  <2> QED
    BY <2>2, <2>3
<1> QED
  BY <1>1, <1>2

LEMMA HearSessionKeeps ==
  ASSUME LoginInv, NEW c \in requests, c.at = "told", HearSession(c), UNCHANGED <<app, typed, server, used, odd>>
  PROVE  LoginInv'
<1>0. screen \in Screens /\ c \in LoginCalls /\ app # "web" /\ c.kind \notin {"send", "resend"}
  BY ScreenTyped DEF LoginInv, LoginTyped, SoundRequest
<1>1. Signing(c) /\ requests' = requests \ {c}
  BY <1>0 DEF Signing, LoginCalls, RequestKinds, HearSession
<1>2. CASE c.answer \in Addresses
  <2>1. session' = c.answer /\ bearer' = bearer /\ screen' = [screen EXCEPT !.busy = FALSE]
    BY <1>2 DEF HearSession
  <2>2. /\ screen' \in Screens /\ screen'.step = screen.step /\ screen'.address = screen.address
        /\ screen'.code = screen.code
    BY <1>0, <2>1 DEF Screens
  <2>3. LoginTyped'
    BY <1>1, <1>2, <2>1, <2>2, CallEnds DEF LoginInv, LoginTyped, LoginTypeOK
  <2>4. UsersHaveHomes'
    BY <1>0, <1>1, <2>1 DEF LoginInv, UsersHaveHomes, Homed
  <2>5. OneSignIn'
    <3>1. ~Parted => c.answer = bearer /\ \A e \in requests \ {c} : ~Signing(e)
      BY <1>1, <1>2 DEF LoginInv, OneSignIn
    <3>2. Parted' <=> Parted
      BY DEF Parted
    <3> QED
      BY <1>1, <2>1, <3>1, <3>2 DEF LoginInv, OneSignIn
  <2>6. app # "android" => requests' = {}
    BY <1>1 DEF LoginInv, OneAtATime
  <2>7. ~typed /\ session' # NoAddress
    BY <1>0, <1>2, <2>1, LoginAssumption DEF LoginInv, TypedAlone
  <2>8. OneAtATime' /\ TypedAlone' /\ CodeOfAddress'
    BY <1>1, <2>2, <2>6, <2>7 DEF LoginInv, OneAtATime, TypedAlone, CodeOfAddress, Unedited
  <2>9. CodeTried'
    BY <2>2, <2>6, <2>7 DEF LoginInv, CodeTried
  <2> QED
    BY <2>3, <2>4, <2>5, <2>8, <2>9 DEF LoginInv
<1>3. CASE c.answer \notin Addresses
  BY <1>1, <1>3, SignInFails DEF HearSession
<1> QED
  BY <1>2, <1>3

LEMMA HearLoginKeeps == LoginInv /\ HearLogin => LoginInv'
<1> SUFFICES ASSUME LoginInv, HearLogin PROVE LoginInv'
  OBVIOUS
<1>1. UNCHANGED <<app, typed, server, used, odd>>
  BY DEF HearLogin
<1>2. PICK c \in requests :
        \/ c.at = "answered" /\ (HearSent(c) \/ HearSignedIn(c))
        \/ c.at = "told" /\ HearSession(c)
  BY DEF HearLogin
<1> QED
  BY <1>1, <1>2, HearSentKeeps, HearSignedInKeeps, HearSessionKeeps

-----------------------------------------------------------------------------
\* Coming and going

LEMMA LeaveAppKeeps == LoginInv /\ LeaveApp => LoginInv'
<1> SUFFICES ASSUME LoginInv, LeaveApp PROVE LoginInv'
  OBVIOUS
<1>0. /\ screen \in Screens /\ session # NoAddress /\ requests = {} /\ requests' = {} /\ session' = NoAddress
      /\ app # "web" /\ UNCHANGED <<app, typed, server, odd>> /\ bearer' \in {NoAddress, bearer}
  BY ScreenTyped DEF LoginInv, LeaveApp
<1>1. /\ screen' \in Screens /\ ~screen'.code
      /\ app = "ios" => screen'.step = "email"
      /\ app = "android" => screen'.address = NoAddress
  <2>1. CASE app = "ios"
    <3>1. screen' = [way |-> "otp", step |-> "email", address |-> screen.address, code |-> FALSE, word |-> FALSE, busy |-> FALSE]
      BY <2>1 DEF LeaveApp, Form
    <3> QED
      BY <1>0, <2>1, <3>1 DEF Screens
  <2>2. CASE app # "ios"
    <3>1. screen' = [way |-> "otp", step |-> screen.step, address |-> NoAddress, code |-> FALSE, word |-> FALSE, busy |-> FALSE]
      BY <2>2 DEF LeaveApp, Form
    <3> QED
      BY <1>0, <2>2, <3>1 DEF Screens
  <2> QED
    BY <2>1, <2>2
<1>2. used' \in [{"calls", "edits", "turns"} -> Nat]
  BY DEF LeaveApp, Use, LoginInv, LoginTyped
<1>3. LoginTyped'
  BY <1>0, <1>1, <1>2 DEF LoginInv, LoginTyped, LoginTypeOK, Screens
<1>4. UsersHaveHomes' /\ OneSignIn' /\ OneAtATime' /\ CodeTried'
  BY <1>0, <1>1, LoginAssumption DEF LoginInv, UsersHaveHomes, Homed, OneSignIn, Parted, OneAtATime, CodeTried
<1>5. TypedAlone' /\ CodeOfAddress'
  BY <1>0, <1>1 DEF LoginInv, LoginTyped, TypedAlone, CodeOfAddress, Unedited
<1> QED
  BY <1>3, <1>4, <1>5 DEF LoginInv

LEMMA RestartKeeps == LoginInv /\ Restart => LoginInv'
<1> SUFFICES ASSUME LoginInv, Restart PROVE LoginInv'
  OBVIOUS
<1>0. session' = NoAddress /\ typed' = FALSE /\ UNCHANGED <<app, bearer, server, odd>>
  BY DEF Restart
<1>1. PICK asks : asks = (app # "web" /\ bearer # NoAddress)
  OBVIOUS
<1>2. PICK c : c = LoginCall("restore", NoAddress, "session")
  OBVIOUS
<1>3. /\ c \in LoginCalls /\ c.kind = "restore" /\ c.at = "session" /\ c.answer = "none"
      /\ (asks => SoundRequest(c))
  <2>1. used["calls"] \in Nat
    BY DEF LoginInv, LoginTyped
  <2>2. c \in LoginCalls /\ c.kind = "restore" /\ c.at = "session" /\ c.answer = "none"
    BY <1>2, <2>1 DEF LoginCall, LoginCalls, RequestKinds
  <2> QED
    BY <1>1, <2>2 DEF SoundRequest
<1>4. /\ requests' = IF asks THEN {c} ELSE {}
      /\ screen' = [way |-> "otp", step |-> "email", address |-> NoAddress, code |-> FALSE, word |-> FALSE,
                    busy |-> asks /\ app = "ios"]
  BY <1>1, <1>2 DEF Restart, Form
<1>5. /\ screen' \in Screens /\ screen'.step = "email" /\ ~screen'.code
      /\ asks /\ app = "ios" => screen'.busy
  BY <1>1, <1>4 DEF Screens
<1>6. used' \in [{"calls", "edits", "turns"} -> Nat]
  BY DEF Restart, Use, LoginInv, LoginTyped
<1>7. LoginTyped'
  <2>1. LoginTypeOK'
    BY <1>0, <1>3, <1>4, <1>5 DEF LoginInv, LoginTyped, LoginTypeOK, Screens
  <2>2. \A e \in requests' : SoundRequest(e)'
    BY <1>0, <1>3, <1>4 DEF SoundRequest
  <2> QED
    BY <1>0, <1>3, <1>4, <1>6, <2>1, <2>2 DEF LoginInv, LoginTyped
<1>8. UsersHaveHomes' /\ OneSignIn'
  BY <1>0, <1>3, <1>4, LoginAssumption DEF LoginInv, UsersHaveHomes, Homed, OneSignIn
<1>9. OneAtATime'
  BY <1>0, <1>1, <1>4, <1>5 DEF LoginInv, LoginTyped, OneAtATime
<1>10. TypedAlone' /\ CodeOfAddress' /\ CodeTried'
  BY <1>0, <1>3, <1>4, <1>5 DEF TypedAlone, CodeOfAddress, CodeTried
<1> QED
  BY <1>7, <1>8, <1>9, <1>10 DEF LoginInv

-----------------------------------------------------------------------------
\* The properties

LEMMA LoginStart == LoginInit => LoginInv
<1> SUFFICES ASSUME LoginInit PROVE LoginInv
  OBVIOUS
<1>1. /\ screen = [way |-> "otp", step |-> "email", address |-> NoAddress, code |-> FALSE, word |-> FALSE, busy |-> FALSE]
      /\ typed = FALSE /\ requests = {} /\ bearer = NoAddress /\ session = NoAddress /\ odd = {} /\ app \in Apps
      /\ used = [k \in {"calls", "edits", "turns"} |-> 0]
      /\ server = [users |-> Registered, homes |-> Registered, passwords |-> Registered, made |-> {}, codes |-> {}]
  BY DEF LoginInit, Form
<1>2. server \in Accounts /\ server.homes = server.users /\ server.codes = server.made
  BY <1>1, LoginAssumption DEF Accounts
<1>3. LoginTyped
  BY <1>1, <1>2, LoginAssumption DEF LoginTyped, LoginTypeOK
<1>4. UsersHaveHomes /\ OneSignIn /\ OneAtATime
  BY <1>1, <1>2, LoginAssumption DEF UsersHaveHomes, Homed, OneSignIn, OneAtATime
<1>5. TypedAlone /\ CodeOfAddress /\ CodeTried
  BY <1>1 DEF TypedAlone, CodeOfAddress, CodeTried
<1> QED
  BY <1>3, <1>4, <1>5 DEF LoginInv

LEMMA LoginStep == LoginInv /\ [LoginNext]_loginVars => LoginInv'
<1>1. LoginInv /\ UNCHANGED loginVars => LoginInv'
  BY DEF loginVars, LoginInv, LoginTyped, LoginTypeOK, SoundRequest, UsersHaveHomes, Homed, OneSignIn, Parted,
         OneAtATime, TypedAlone, CodeOfAddress, Unedited, CodeTried
<1> QED
  BY <1>1, ServeLoginKeeps, TypeAddressKeeps, FillInKeeps, PressKeeps, SubmitKeeps, ResendKeeps, GoogleKeeps,
     AppleKeeps, SheetEndsKeeps, ChooseWayKeeps, BackToEmailKeeps, HearLoginKeeps, LeaveAppKeeps, RestartKeeps
     DEF LoginNext

LEMMA LoginInvSound == LoginInv => LoginSound
<1> SUFFICES ASSUME LoginInv PROVE LoginSound
  OBVIOUS
<1>1. LoginTypeOK
  BY DEF LoginInv, LoginTyped
<1>2. SessionIsBearers
  BY DEF LoginInv, OneSignIn, Parted, SessionIsBearers
<1>3. CodePageIsTheirs
  BY DEF LoginInv, CodeOfAddress, Unedited, CodePageIsTheirs
<1>4. FullCodeIsTried
  BY DEF LoginInv, CodeTried, FullCodeIsTried, OnCodePage
<1>5. SignedInHasHome
  BY <1>1 DEF LoginInv, UsersHaveHomes, Homed, SignedInHasHome, LoginTypeOK
<1> QED
  BY <1>1, <1>2, <1>3, <1>4, <1>5 DEF LoginSound

(* For any addresses and any number of calls, edits and restarts, on each of *)
(* the three apps: the session shown is the bearer's, the form asks for a    *)
(* code of its address, a full code is being tried and whoever is signed in  *)
(* has a workspace, but for what the properties except (use-login.ts,        *)
(* LoginModel.swift, AppViewModel.kt, auth.ts).                              *)
THEOREM LoginAlwaysSound == LoginSpec => []LoginSound
<1> QED
  BY LoginStart, LoginStep, LoginInvSound, PTL DEF LoginSpec
=============================================================================
