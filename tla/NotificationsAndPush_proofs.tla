--------------------- MODULE NotificationsAndPush_proofs ---------------------
(***************************************************************************)
(* Proofs about Notifications and PushDevices, the two ways in which the   *)
(* server reaches a user, and NotificationViews, what the user then sees.  *)
(*                                                                         *)
(* Notifications: the handlers in the bus's map belong to open streams,    *)
(* and the subscription of the channel follows the map, whatever streams   *)
(* come and go while their commands are under way.                         *)
(*                                                                         *)
(* PushDevices: for every list of users who sign in on a phone and any     *)
(* number of tokens and mishaps, the phone is silent while nobody is       *)
(* signed in, and its row stays with the user who stays. The invariant     *)
(* follows a row back to the session it was registered with (RowOfSession):*)
(* that a signed-out phone has no row says nothing of a phone that is      *)
(* signed in or off, and does not survive the next step.                   *)
(*                                                                         *)
(* NotificationViews: at rest the badge and the list are the inbox's. What *)
(* the viewer heard is the inbox's past, what it has not heard of is on    *)
(* its way (a pulse, a frame, a mark's answer) or is recorded as lost, and *)
(* badge and list are right but for an answer that will set them.          *)
(***************************************************************************)
EXTENDS Notifications, PushDevices, NotificationViews, FiniteSetTheorems, SequenceTheorems, TLAPS

-----------------------------------------------------------------------------
\* The notification streams

(* What the seat of a stream can be at each stage; a handler in the set of *)
(* the map, or promised to it, means that the map has the set.             *)
Seats == \A s \in Streams :
           /\ stage[s] \in {"off", "counting", "closing"} => seat[s] = "none"
           /\ stage[s] \in {"joining", "joined"} => seat[s] \in {"promised", "orphan"}
           /\ stage[s] = "open" => seat[s] \in {"live", "orphan"}
           /\ seat[s] \in {"promised", "live"} => entry

(* A command or a reply under way has a stream that waits for it, and no   *)
(* stream waits for two.                                                   *)
Waits(s) == stage[s] \in {"joining", "closing"}
Done(i)  == down[i].what = "done"

Waiters ==
  /\ \A i \in 1 .. Len(wire) : Waits(wire[i].of)
  /\ \A i \in 1 .. Len(down) : Done(i) => Waits(down[i].of)
  /\ \A i, j \in 1 .. Len(wire) : i # j => wire[i].of # wire[j].of
  /\ \A i, j \in 1 .. Len(down) : i # j /\ Done(i) /\ Done(j) => down[i].of # down[j].of
  /\ \A i \in 1 .. Len(wire), j \in 1 .. Len(down) : Done(j) => wire[i].of # down[j].of

Inv == TypeOK /\ Seats /\ Waiters /\ SubscriptionTracksSet

-----------------------------------------------------------------------------
(* What the operators on sequences do to the elements.                     *)

LEMMA AppendElements ==
  ASSUME NEW S, NEW q \in Seq(S), NEW x \in S
  PROVE  /\ Append(q, x) \in Seq(S)
         /\ Append(q, x) # <<>>
         /\ Len(q) \in Nat
         /\ Len(Append(q, x)) = Len(q) + 1
         /\ \A i \in 1 .. Len(q) : Append(q, x)[i] = q[i]
         /\ Append(q, x)[Len(q) + 1] = x
OBVIOUS

LEMMA TailElements ==
  ASSUME NEW S, NEW q \in Seq(S), q # <<>>
  PROVE  /\ Tail(q) \in Seq(S)
         /\ Len(q) \in Nat \ {0}
         /\ Len(Tail(q)) = Len(q) - 1
         /\ Head(q) = q[1]
         /\ q[1] \in S
         /\ \A i \in 1 .. Len(q) - 1 : Tail(q)[i] = q[i + 1]
OBVIOUS

(* The elements of the two sequences, by type.                             *)
LEMMA Elements ==
  ASSUME TypeOK
  PROVE  /\ \A i \in 1 .. Len(wire) : wire[i] \in Commands /\ wire[i].of \in Streams
         /\ \A i \in 1 .. Len(down) : Done(i) => down[i].of \in Streams
<1>1. \A i \in 1 .. Len(wire) : wire[i] \in Commands
  BY DEF TypeOK
<1>2. \A i \in 1 .. Len(down) : down[i] \in Messages
  BY DEF TypeOK
<1>3. \A c \in Commands : c.of \in Streams
  BY DEF Commands
<1>4. \A m \in Messages : m.what = "done" => m.of \in Streams
  BY DEF Messages
<1>5. QED
  BY <1>1, <1>2, <1>3, <1>4 DEF Done

-----------------------------------------------------------------------------
(* Types.                                                                  *)

LEMMA TypeStep == TypeOK /\ [Next]_vars => TypeOK'
<1> SUFFICES ASSUME TypeOK, [Next]_vars PROVE TypeOK'
  OBVIOUS
<1> USE NotificationsAssumption DEF TypeOK
<1>1. ASSUME NEW s \in Streams, Connect(s) PROVE TypeOK'
  BY <1>1 DEF Connect, busVars, pulseVars
<1>2. ASSUME NEW s \in Streams, Subscribe(s) PROVE TypeOK'
  <2>1. wire' \in Seq(Commands)
    <3>1. [op |-> "SUBSCRIBE", of |-> s] \in Commands
      BY DEF Commands
    <3>2. Append(wire, [op |-> "SUBSCRIBE", of |-> s]) \in Seq(Commands)
      BY <3>1, AppendElements
    <3>3. QED
      BY <1>2, <3>2 DEF Subscribe
  <2>2. QED
    BY <1>2, <2>1 DEF Subscribe, pulseVars
<1>3. ASSUME NEW s \in Streams, Attach(s) PROVE TypeOK'
  BY <1>3 DEF Attach, pulseVars
<1>4. ASSUME NEW s \in Streams, LeaveEarly(s) PROVE TypeOK'
  BY <1>4 DEF LeaveEarly, busVars, pulseVars
<1>5. ASSUME NEW s \in Streams, Leave(s) PROVE TypeOK'
  <2>1. wire' \in Seq(Commands)
    <3>1. [op |-> "UNSUBSCRIBE", of |-> s] \in Commands
      BY DEF Commands
    <3>2. Append(wire, [op |-> "UNSUBSCRIBE", of |-> s]) \in Seq(Commands)
      BY <3>1, AppendElements
    <3>3. QED
      BY <1>5, <3>2 DEF Leave
  <2>2. QED
    BY <1>5, <2>1 DEF Leave, pulseVars
<1>6. ASSUME NEW s \in Streams, CountFails(s) PROVE TypeOK'
  BY <1>6 DEF CountFails, Fault, busVars, pulseVars
<1>7. CASE Execute
  <2>1. /\ wire' \in Seq(Commands)
        /\ Head(wire) \in Commands
    BY <1>7, TailElements DEF Execute
  <2>2. [what |-> "done", of |-> Head(wire).of] \in Messages
    BY <2>1 DEF Commands, Messages
  <2>3. down' \in Seq(Messages)
    BY <1>7, <2>2, AppendElements DEF Execute
  <2>4. QED
    BY <1>7, <2>1, <2>3 DEF Execute, streamVars, pulseVars
<1>8. CASE Reply
  <2>1. down' \in Seq(Messages)
    BY <1>8, TailElements DEF Reply
  <2>2. stage' \in [Streams -> {"off", "counting", "joining", "joined", "open", "closing"}]
    BY <1>8 DEF Reply
  <2>3. QED
    BY <1>8, <2>1, <2>2 DEF Reply, pulseVars
<1>9. CASE Reject
  <2>1. wire' \in Seq(Commands)
    BY <1>9, TailElements DEF Reject
  <2>2. faults' \in 0 .. MaxFaults
    BY <1>9 DEF Reject, Fault
  <2>3. QED
    BY <1>9, <2>1, <2>2 DEF Reject, pulseVars
<1>10. CASE Glitch
  <2>1. down' \in Seq(Messages)
    BY <1>10, TailElements DEF Glitch
  <2>2. faults' \in 0 .. MaxFaults
    BY <1>10 DEF Glitch, Fault
  <2>3. QED
    BY <1>10, <2>1, <2>2 DEF Glitch, streamVars, pulseVars
<1>11. CASE Restart
  <2>1. faults' \in 0 .. MaxFaults
    BY <1>11 DEF Restart, Fault
  <2>2. wire' \in Seq(Commands) /\ down' \in Seq(Messages)
    BY <1>11 DEF Restart
  <2>3. QED
    BY <1>11, <2>1, <2>2 DEF Restart
<1>12. CASE Fanout
  <2>1. /\ down' \in Seq(Messages)
        /\ Head(down) \in Messages
    BY <1>12, TailElements DEF Fanout
  <2>2. Head(down).of \in Notifications
    BY <1>12, <2>1 DEF Fanout, Messages
  <2>3. looking' \in SUBSET (Streams \X Notifications)
    BY <1>12, <2>2 DEF Fanout
  <2>4. QED
    BY <1>12, <2>1, <2>3 DEF Fanout, streamVars
<1>13. ASSUME NEW n \in Notifications, Record(n) PROVE TypeOK'
  BY <1>13 DEF Record, streamVars, busVars
<1>14. ASSUME NEW n \in Notifications, Publish(n) PROVE TypeOK'
  <2>1. [what |-> "pulse", of |-> n] \in Messages
    BY DEF Messages
  <2>2. down' \in Seq(Messages)
    BY <1>14, <2>1, AppendElements DEF Publish
  <2>3. QED
    BY <1>14, <2>2 DEF Publish, streamVars
<1>15. ASSUME NEW n \in Notifications, PublishFails(n) PROVE TypeOK'
  BY <1>15 DEF PublishFails, Fault, streamVars, busVars
<1>16. ASSUME NEW n \in Notifications, NEW s \in Streams, Tell(s, n) PROVE TypeOK'
  BY <1>16 DEF Tell, streamVars, busVars
<1>17. ASSUME NEW n \in Notifications, NEW s \in Streams, TellFails(s, n) PROVE TypeOK'
  BY <1>17 DEF TellFails, Fault, streamVars, busVars
<1>18. CASE UNCHANGED vars
  BY <1>18 DEF vars, streamVars, busVars, pulseVars
<1>19. QED
  BY <1>1, <1>2, <1>3, <1>4, <1>5, <1>6, <1>7, <1>8, <1>9, <1>10, <1>11, <1>12,
     <1>13, <1>14, <1>15, <1>16, <1>17, <1>18 DEF Next, Stream, Connection, Pulse
-----------------------------------------------------------------------------
(* Seats.                                                                  *)

LEMMA SeatsStep == TypeOK /\ Seats /\ Waiters /\ [Next]_vars => Seats'
<1> SUFFICES ASSUME TypeOK, Seats, Waiters, [Next]_vars PROVE Seats'
  OBVIOUS
<1> USE DEF Seats
<1>1. ASSUME NEW s \in Streams, Connect(s) PROVE Seats'
  BY <1>1 DEF Connect, busVars, TypeOK
<1>2. ASSUME NEW s \in Streams, Subscribe(s) PROVE Seats'
  BY <1>2 DEF Subscribe, TypeOK
<1>3. ASSUME NEW s \in Streams, Attach(s) PROVE Seats'
  BY <1>3 DEF Attach, TypeOK
<1>4. ASSUME NEW s \in Streams, LeaveEarly(s) PROVE Seats'
  BY <1>4 DEF LeaveEarly, busVars
<1>5. ASSUME NEW s \in Streams, Leave(s) PROVE Seats'
  BY <1>5 DEF Leave, TypeOK
<1>6. ASSUME NEW s \in Streams, CountFails(s) PROVE Seats'
  BY <1>6 DEF CountFails, busVars, TypeOK
<1>7. CASE Execute
  BY <1>7 DEF Execute, streamVars
<1>8. CASE Reply
  \* The reply wakes a stream that waits: it never ends one that is open.
  <2> DEFINE h == Head(down).of
  <2>1. h = down[1].of /\ Done(1) /\ 1 \in 1 .. Len(down)
    BY <1>8, TailElements DEF Reply, TypeOK, Done
  <2>2. h \in Streams /\ stage[h] \in {"joining", "closing"}
    BY <2>1, Elements DEF Waiters, Waits
  <2>3. QED
    BY <1>8, <2>2 DEF Reply, TypeOK
<1>9. CASE Reject
  BY <1>9 DEF Reject, TypeOK
<1>10. CASE Glitch
  BY <1>10 DEF Glitch, streamVars
<1>11. CASE Restart
  BY <1>11 DEF Restart
<1>12. CASE Fanout
  BY <1>12 DEF Fanout, streamVars
<1>13. ASSUME NEW n \in Notifications, Pulse(n) PROVE Seats'
  <2>1. UNCHANGED <<stage, seat, entry>>
    BY <1>13 DEF Pulse, Record, Publish, PublishFails, Tell, TellFails, streamVars, busVars
  <2>2. QED
    BY <2>1
<1>14. CASE UNCHANGED vars
  BY <1>14 DEF vars, streamVars, busVars
<1>15. QED
  BY <1>1, <1>2, <1>3, <1>4, <1>5, <1>6, <1>7, <1>8, <1>9, <1>10, <1>11, <1>12,
     <1>13, <1>14 DEF Next, Stream, Connection

-----------------------------------------------------------------------------
(* Every command and reply has one stream that waits for it.               *)

(* A stream that does not wait sends a command and waits for it.           *)
LEMMA WaitersSend ==
  ASSUME TypeOK, Waiters, NEW s \in Streams, ~Waits(s),
         NEW op \in {"SUBSCRIBE", "UNSUBSCRIBE"},
         NEW w \in {"joining", "closing"},
         wire' = Append(wire, [op |-> op, of |-> s]),
         stage' = [stage EXCEPT ![s] = w],
         down' = down
  PROVE  Waiters'
<1> DEFINE c == [op |-> op, of |-> s]
<1>1. c \in Commands
  BY DEF Commands
<1>2. /\ Len(wire) \in Nat
      /\ Len(wire') = Len(wire) + 1
      /\ \A i \in 1 .. Len(wire) : wire'[i] = wire[i]
      /\ wire'[Len(wire) + 1].of = s
  BY <1>1, AppendElements DEF TypeOK
<1>3. \A i \in 1 .. Len(wire) : wire[i].of \in Streams /\ wire[i].of # s
  BY Elements DEF Waiters
<1>4. \A i \in 1 .. Len(down) : Done(i) => down[i].of \in Streams /\ down[i].of # s
  BY Elements DEF Waiters
<1>5. /\ Waits(s)'
      /\ \A r \in Streams : Waits(r) => Waits(r)'
  BY DEF Waits, TypeOK
<1>6. \A i \in 1 .. Len(wire') : i \in 1 .. Len(wire) \/ i = Len(wire) + 1
  BY <1>2
<1>7. (\A i \in 1 .. Len(wire) : Waits(wire[i].of))'
  BY <1>2, <1>3, <1>5, <1>6 DEF Waiters, Waits
<1>8. (\A i \in 1 .. Len(down) : Done(i) => Waits(down[i].of))'
  BY <1>4, <1>5 DEF Waiters, Done, Waits
<1>9. \A i, j \in 1 .. Len(wire') : i # j => wire'[i].of # wire'[j].of
  BY <1>2, <1>3, <1>6 DEF Waiters
<1>10. \A i, j \in 1 .. Len(down') :
          i # j /\ Done(i)' /\ Done(j)' => down'[i].of # down'[j].of
  BY DEF Waiters, Done
<1>11. \A i \in 1 .. Len(wire'), j \in 1 .. Len(down') : Done(j)' => wire'[i].of # down'[j].of
  BY <1>2, <1>4, <1>6 DEF Waiters, Done
<1>12. QED
  BY <1>7, <1>8, <1>9, <1>10, <1>11 DEF Waiters

(* Nothing is sent or answered and whoever waits still waits.              *)
LEMMA WaitersStay ==
  ASSUME TypeOK, Waiters, wire' = wire, down' = down,
         \A r \in Streams : Waits(r) => stage'[r] = stage[r]
  PROVE  Waiters'
<1>1. /\ \A i \in 1 .. Len(wire) : wire[i].of \in Streams
      /\ \A i \in 1 .. Len(down) : Done(i) => down[i].of \in Streams
  BY Elements
<1>2. QED
  BY <1>1 DEF Waiters, Waits, Done

LEMMA WaitersStep == TypeOK /\ Waiters /\ [Next]_vars => Waiters'
<1> SUFFICES ASSUME TypeOK, Waiters, [Next]_vars PROVE Waiters'
  OBVIOUS
<1>1. ASSUME NEW s \in Streams, Connect(s) PROVE Waiters'
  BY <1>1, WaitersStay DEF Connect, busVars, TypeOK, Waits
<1>2. ASSUME NEW s \in Streams, Subscribe(s) PROVE Waiters'
  <2>1. CASE entry
    BY <1>2, <2>1, WaitersStay DEF Subscribe, TypeOK, Waits
  <2>2. CASE ~entry
    <3>1. /\ ~Waits(s)
          /\ wire' = Append(wire, [op |-> "SUBSCRIBE", of |-> s])
          /\ stage' = [stage EXCEPT ![s] = "joining"]
          /\ down' = down
      BY <1>2, <2>2 DEF Subscribe, Waits
    <3>2. QED
      BY <3>1, WaitersSend
  <2>3. QED
    BY <2>1, <2>2
<1>3. ASSUME NEW s \in Streams, Attach(s) PROVE Waiters'
  BY <1>3, WaitersStay DEF Attach, TypeOK, Waits
<1>4. ASSUME NEW s \in Streams, LeaveEarly(s) PROVE Waiters'
  BY <1>4, WaitersStay DEF LeaveEarly, busVars, TypeOK
<1>5. ASSUME NEW s \in Streams, Leave(s) PROVE Waiters'
  <2>1. \/ /\ ~Waits(s)
           /\ wire' = Append(wire, [op |-> "UNSUBSCRIBE", of |-> s])
           /\ stage' = [stage EXCEPT ![s] = "closing"]
           /\ down' = down
        \/ /\ wire' = wire
           /\ down' = down
           /\ ~Waits(s)
           /\ stage' = [stage EXCEPT ![s] = "off"]
    BY <1>5 DEF Leave, Waits
  <2>2. CASE wire' = wire /\ down' = down /\ ~Waits(s) /\ stage' = [stage EXCEPT ![s] = "off"]
    BY <2>2, WaitersStay DEF TypeOK
  <2>3. QED
    BY <2>1, <2>2, WaitersSend
<1>6. ASSUME NEW s \in Streams, CountFails(s) PROVE Waiters'
  BY <1>6, WaitersStay DEF CountFails, busVars, TypeOK, Waits
<1>7. CASE Execute
  \* The first command's stream now waits for the last reply.
  <2> DEFINE m == [what |-> "done", of |-> Head(wire).of]
  <2>1. /\ Len(wire) \in Nat \ {0}
        /\ Len(wire') = Len(wire) - 1
        /\ Head(wire) = wire[1]
        /\ wire[1] \in Commands
        /\ \A i \in 1 .. Len(wire') : wire'[i] = wire[i + 1]
    BY <1>7, TailElements DEF Execute, TypeOK
  <2>2. m \in Messages
    BY <2>1 DEF Commands, Messages
  <2>3. /\ Len(down) \in Nat
        /\ Len(down') = Len(down) + 1
        /\ \A i \in 1 .. Len(down) : down'[i] = down[i]
        /\ down'[Len(down) + 1].of = wire[1].of
    BY <1>7, <2>1, <2>2, AppendElements DEF Execute, TypeOK
  <2>4. \A i \in 1 .. Len(down') : i \in 1 .. Len(down) \/ i = Len(down) + 1
    BY <2>3
  <2>5. \A i \in 1 .. Len(wire') : i + 1 \in 1 .. Len(wire) /\ i + 1 # 1
    BY <2>1
  <2>6. stage' = stage /\ 1 \in 1 .. Len(wire)
    BY <1>7, <2>1 DEF Execute, streamVars
  <2>7. (\A i \in 1 .. Len(wire) : Waits(wire[i].of))'
    BY <2>1, <2>5, <2>6 DEF Waiters, Waits
  <2>8. (\A i \in 1 .. Len(down) : Done(i) => Waits(down[i].of))'
    BY <2>3, <2>4, <2>6 DEF Waiters, Waits, Done
  <2>9. \A i, j \in 1 .. Len(wire') : i # j => wire'[i].of # wire'[j].of
    BY <2>1, <2>5 DEF Waiters
  <2>10. \A i, j \in 1 .. Len(down') :
            i # j /\ Done(i)' /\ Done(j)' => down'[i].of # down'[j].of
    BY <2>3, <2>4, <2>6 DEF Waiters, Done
  <2>11. \A i \in 1 .. Len(wire'), j \in 1 .. Len(down') : Done(j)' => wire'[i].of # down'[j].of
    <3> SUFFICES ASSUME NEW i \in 1 .. Len(wire'), NEW j \in 1 .. Len(down'), Done(j)'
                 PROVE  wire[i + 1].of # down'[j].of
      BY <2>1
    <3>1. CASE j \in 1 .. Len(down)
      BY <3>1, <2>3, <2>5 DEF Waiters, Done
    <3>2. CASE j = Len(down) + 1
      BY <3>2, <2>3, <2>5, <2>6 DEF Waiters
    <3>3. QED
      BY <3>1, <3>2, <2>4
  <2>12. QED
    BY <2>7, <2>8, <2>9, <2>10, <2>11 DEF Waiters
<1>8. ASSUME down # <<>>, down' = Tail(down), wire' = wire,
             \A r \in Streams : stage'[r] = stage[r] \/ (Done(1) /\ r = down[1].of)
      PROVE Waiters'
  <2>1. /\ Len(down) \in Nat \ {0}
        /\ Len(down') = Len(down) - 1
        /\ \A i \in 1 .. Len(down') : down'[i] = down[i + 1]
        /\ \A i \in 1 .. Len(down') : i + 1 \in 1 .. Len(down) /\ i + 1 # 1
        /\ 1 \in 1 .. Len(down)
    BY <1>8, TailElements DEF TypeOK
  <2>2. /\ \A i \in 1 .. Len(wire) : wire[i].of \in Streams
        /\ \A i \in 1 .. Len(down) : Done(i) => down[i].of \in Streams
    BY Elements
  <2>3. (\A i \in 1 .. Len(wire) : Waits(wire[i].of))'
    BY <1>8, <2>1, <2>2 DEF Waiters, Waits
  <2>4. (\A i \in 1 .. Len(down) : Done(i) => Waits(down[i].of))'
    BY <1>8, <2>1, <2>2 DEF Waiters, Waits, Done
  <2>5. \A i, j \in 1 .. Len(down') :
            i # j /\ Done(i)' /\ Done(j)' => down'[i].of # down'[j].of
    <3> SUFFICES ASSUME NEW i \in 1 .. Len(down'), NEW j \in 1 .. Len(down'), i # j, Done(i)', Done(j)'
                 PROVE  down'[i].of # down'[j].of
      OBVIOUS
    <3>1. /\ i + 1 \in 1 .. Len(down) /\ down'[i] = down[i + 1]
          /\ j + 1 \in 1 .. Len(down) /\ down'[j] = down[j + 1]
          /\ i + 1 # j + 1
      BY <2>1
    <3>2. Done(i + 1) /\ Done(j + 1)
      BY <3>1 DEF Done
    <3>3. QED
      BY <3>1, <3>2 DEF Waiters
  <2>6. \A i \in 1 .. Len(wire'), j \in 1 .. Len(down') : Done(j)' => wire'[i].of # down'[j].of
    BY <1>8, <2>1 DEF Waiters, Done
  <2>7. QED
    BY <1>8, <2>3, <2>4, <2>5, <2>6 DEF Waiters
<1>9. CASE Reply
  <2>1. Done(1) /\ Head(down) = down[1] /\ down[1] \in Messages
    BY <1>9, TailElements DEF Reply, TypeOK, Done
  <2>2. \A r \in Streams : stage'[r] = stage[r] \/ r = down[1].of
    BY <1>9, <2>1 DEF Reply, TypeOK
  <2>3. QED
    BY <1>8, <1>9, <2>1, <2>2 DEF Reply
<1>10. CASE Glitch
  BY <1>8, <1>10 DEF Glitch, streamVars
<1>11. CASE Fanout
  BY <1>8, <1>11 DEF Fanout, streamVars
<1>12. CASE Reject
  <2>1. /\ Len(wire) \in Nat \ {0}
        /\ Len(wire') = Len(wire) - 1
        /\ Head(wire) = wire[1]
        /\ \A i \in 1 .. Len(wire') : wire'[i] = wire[i + 1]
        /\ \A i \in 1 .. Len(wire') : i + 1 \in 1 .. Len(wire) /\ i + 1 # 1
        /\ 1 \in 1 .. Len(wire)
    BY <1>12, TailElements DEF Reject, TypeOK
  <2>2. /\ \A i \in 1 .. Len(wire) : wire[i].of \in Streams
        /\ \A i \in 1 .. Len(down) : Done(i) => down[i].of \in Streams
    BY Elements
  <2>3. /\ down' = down
        /\ \A r \in Streams : stage'[r] = stage[r] \/ r = wire[1].of
    BY <1>12, <2>1 DEF Reject, TypeOK
  <2>4. (\A i \in 1 .. Len(wire) : Waits(wire[i].of))'
    BY <2>1, <2>2, <2>3 DEF Waiters, Waits
  <2>5. (\A i \in 1 .. Len(down) : Done(i) => Waits(down[i].of))'
    BY <2>1, <2>2, <2>3 DEF Waiters, Waits, Done
  <2>6. \A i, j \in 1 .. Len(wire') : i # j => wire'[i].of # wire'[j].of
    BY <2>1 DEF Waiters
  <2>7. \A i \in 1 .. Len(wire'), j \in 1 .. Len(down') : Done(j)' => wire'[i].of # down'[j].of
    BY <2>1, <2>3 DEF Waiters, Done
  <2>8. \A i, j \in 1 .. Len(down') :
            i # j /\ Done(i)' /\ Done(j)' => down'[i].of # down'[j].of
    BY <2>3 DEF Waiters, Done
  <2>9. QED
    BY <2>4, <2>5, <2>6, <2>7, <2>8 DEF Waiters
<1>13. CASE Restart
  BY <1>13 DEF Restart, Waiters
<1>14. ASSUME NEW n \in Notifications, Publish(n) PROVE Waiters'
  <2>1. CASE ~subscribed
    BY <1>14, <2>1, WaitersStay DEF Publish, streamVars
  <2>2. CASE subscribed
    <3>1. [what |-> "pulse", of |-> n] \in Messages
      BY DEF Messages
    <3>2. /\ Len(down) \in Nat
          /\ Len(down') = Len(down) + 1
          /\ \A i \in 1 .. Len(down) : down'[i] = down[i]
          /\ down'[Len(down) + 1].what = "pulse"
      BY <1>14, <2>2, <3>1, AppendElements DEF Publish, TypeOK
    <3>3. \A i \in 1 .. Len(down') : Done(i)' => i \in 1 .. Len(down) /\ Done(i)
      BY <3>2 DEF Done
    <3>4. wire' = wire /\ stage' = stage
      BY <1>14 DEF Publish, streamVars
    <3>5. QED
      BY <3>2, <3>3, <3>4 DEF Waiters, Waits, Done
  <2>3. QED
    BY <2>1, <2>2
<1>15. ASSUME NEW n \in Notifications, Pulse(n), ~Publish(n) PROVE Waiters'
  BY <1>15, WaitersStay DEF Pulse, Record, PublishFails, Tell, TellFails, streamVars, busVars
<1>16. CASE UNCHANGED vars
  BY <1>16, WaitersStay DEF vars, streamVars, busVars
<1>17. QED
  BY <1>1, <1>2, <1>3, <1>4, <1>5, <1>6, <1>7, <1>9, <1>10, <1>11, <1>12, <1>13,
     <1>14, <1>15, <1>16 DEF Next, Stream, Connection
-----------------------------------------------------------------------------
(* The subscription follows the map.                                       *)

LEMMA TracksStep == TypeOK /\ SubscriptionTracksSet /\ [Next]_vars => SubscriptionTracksSet'
<1> SUFFICES ASSUME TypeOK, SubscriptionTracksSet, [Next]_vars, ~refused'
             PROVE  Outcome' = entry'
  BY DEF SubscriptionTracksSet
<1>1. ASSUME refused' = refused, wire' = wire, subscribed' = subscribed, entry' = entry
      PROVE  Outcome' = entry'
  BY <1>1 DEF SubscriptionTracksSet, Outcome
<1>2. ASSUME NEW s \in Streams, NEW op \in {"SUBSCRIBE", "UNSUBSCRIBE"},
             wire' = Append(wire, [op |-> op, of |-> s])
      PROVE  Outcome' = (op = "SUBSCRIBE")
  <2>1. [op |-> op, of |-> s] \in Commands
    BY DEF Commands
  <2>2. /\ wire' # <<>>
        /\ wire'[Len(wire')] = [op |-> op, of |-> s]
    BY <1>2, <2>1, AppendElements DEF TypeOK
  <2>3. QED
    BY <2>2 DEF Outcome
<1>3. ASSUME NEW s \in Streams, Subscribe(s) PROVE Outcome' = entry'
  <2>1. CASE entry
    BY <1>1, <1>3, <2>1 DEF Subscribe
  <2>2. CASE ~entry
    BY <1>2, <1>3, <2>2 DEF Subscribe
  <2>3. QED
    BY <2>1, <2>2
<1>4. ASSUME NEW s \in Streams, Leave(s) PROVE Outcome' = entry'
  <2>1. \/ /\ entry' = FALSE
           /\ wire' = Append(wire, [op |-> "UNSUBSCRIBE", of |-> s])
        \/ /\ entry' = entry /\ wire' = wire
           /\ subscribed' = subscribed /\ refused' = refused
    BY <1>4 DEF Leave
  <2>2. QED
    BY <1>1, <1>2, <2>1
<1>5. CASE Execute
  \* The last command stays the last, or is now executed.
  <2>1. /\ Len(wire) \in Nat \ {0}
        /\ Len(wire') = Len(wire) - 1
        /\ Head(wire) = wire[1]
        /\ \A i \in 1 .. Len(wire) - 1 : wire'[i] = wire[i + 1]
        /\ wire' \in Seq(Commands)
        /\ wire # <<>>
    BY <1>5, TailElements DEF Execute, TypeOK
  <2>2. /\ subscribed' = (wire[1].op = "SUBSCRIBE")
        /\ entry' = entry /\ refused' = refused
    BY <1>5, <2>1 DEF Execute
  <2>3. Outcome = entry
    BY <2>2 DEF SubscriptionTracksSet
  <2>4. CASE Len(wire) = 1
    <3>1. wire' = <<>>
      BY <2>1, <2>4
    <3>2. QED
      BY <2>1, <2>2, <2>3, <2>4, <3>1 DEF Outcome
  <2>5. CASE Len(wire) # 1
    <3>1. /\ wire' # <<>>
          /\ wire'[Len(wire')] = wire[Len(wire)]
      BY <2>1, <2>5
    <3>2. QED
      BY <2>1, <2>2, <2>3, <3>1 DEF Outcome
  <2>6. QED
    BY <2>4, <2>5
<1>6. CASE Reject
  BY <1>6 DEF Reject
<1>7. CASE Restart
  BY <1>7 DEF Restart, Outcome
<1>8. CASE \E s \in Streams : Connect(s) \/ Attach(s) \/ LeaveEarly(s) \/ CountFails(s)
  BY <1>1, <1>8 DEF Connect, Attach, LeaveEarly, CountFails, busVars
<1>9. CASE Reply \/ Glitch \/ Fanout
  BY <1>1, <1>9 DEF Reply, Glitch, Fanout
<1>10. ASSUME NEW n \in Notifications, Pulse(n) PROVE Outcome' = entry'
  <2>1. UNCHANGED <<refused, wire, subscribed, entry>>
    BY <1>10 DEF Pulse, Record, Publish, PublishFails, Tell, TellFails, busVars
  <2>2. QED
    BY <1>1, <2>1
<1>11. CASE UNCHANGED vars
  BY <1>1, <1>11 DEF vars, busVars
<1>12. QED
  BY <1>3, <1>4, <1>5, <1>6, <1>7, <1>8, <1>9, <1>10, <1>11 DEF Next, Stream, Connection

-----------------------------------------------------------------------------
(* The theorems.                                                           *)

LEMMA InvInit == Init => Inv
<1> SUFFICES ASSUME Init PROVE Inv
  OBVIOUS
<1> USE DEF Init
<1>1. wire \in Seq(Commands) /\ down \in Seq(Messages)
  OBVIOUS
<1>2. TypeOK
  <2>1. faults \in 0 .. MaxFaults
    BY NotificationsAssumption
  <2>2. /\ looking \in SUBSET (Streams \X Notifications)
        /\ told \in SUBSET (Streams \X Notifications)
    OBVIOUS
  <2>3. QED
    BY <1>1, <2>1, <2>2 DEF TypeOK
<1>3. Seats /\ SubscriptionTracksSet
  BY DEF Seats, SubscriptionTracksSet, Outcome
<1>4. Waiters
  BY DEF Waiters
<1>5. QED
  BY <1>2, <1>3, <1>4 DEF Inv

LEMMA InvStep == Inv /\ [Next]_vars => Inv'
BY TypeStep, SeatsStep, WaitersStep, TracksStep DEF Inv

LEMMA InvAlways == Spec => []Inv
BY InvInit, InvStep, PTL DEF Spec

(* Every variable keeps its type: commands have a stream of this process,  *)
(* and only rows of the workspace are looked up and told.                  *)
THEOREM TypeCorrect == Spec => []TypeOK
<1>1. Inv => TypeOK
  BY DEF Inv
<1>2. QED
  BY <1>1, InvAlways, PTL

(* A message reaches the handlers of open streams only, for any number of  *)
(* streams and whatever faults: Seats says when a handler can be in the    *)
(* set, Waiters that a reply never wakes a stream it is not meant for.     *)
THEOREM HandlersAreOpen == Spec => []NoGhostHandlers
<1>1. Inv => NoGhostHandlers
  BY DEF Inv, TypeOK, Seats, NoGhostHandlers
<1>2. QED
  BY <1>1, InvAlways, PTL

(* Unless ioredis gives a command up, the channel ends up subscribed       *)
(* exactly when the map has a set for it, for any number of streams.       *)
THEOREM SubscriptionFollows == Spec => []SubscriptionTracksSet
<1>1. Inv => SubscriptionTracksSet
  BY DEF Inv
<1>2. QED
  BY <1>1, InvAlways, PTL

-----------------------------------------------------------------------------
\* The push token of a phone: the invariant

PhoneStates == [on : BOOLEAN, user : Users \union {Absent}, client : BOOLEAN,
                known : 0..MaxTokens, asked : {"no", "asked", "answered"}]
Bearers == [user : Users, live : BOOLEAN]
PushCalls == [kind : {"register", "unregister", "signout"}, token : 0..MaxTokens, bearer : Nat,
              tap : Taps \cup {"none"}, answer : {"none", "ok", "failed"}]

(* A phone that is off knows nothing, and a known token was asked for; calls *)
(* and rows are of tokens there have been, and the clean-up has the token of *)
(* the phone only if it was refused.                                         *)
PhoneTyped ==
    /\ platform \in {"ios", "android"}
    /\ PushTypeOK
    /\ leaving \in [Taps -> {"idle", "unregister", "signout"}]
    /\ bearers \in Seq(Bearers)
    /\ traffic \subseteq PushCalls
    /\ push \in [stage : {"idle", "sending", "cleaning"}, tokens : SUBSET TokenIds]
    /\ spent \in [events : Nat, lost : BOOLEAN]
    /\ ~phone.on => phone = Off

TokensThereWere ==
    /\ phone.known <= token.id
    /\ \A t \in TokenIds : rows[t] # Absent => t <= token.id
    /\ \A t \in push.tokens : t <= token.id
    /\ \A r \in traffic : r.token <= token.id /\ (r.kind # "signout" => r.token # 0)
    /\ phone.on => ~token.refused
    /\ push.stage = "cleaning" /\ token.id \in push.tokens => token.refused \/ token.back

(* A tap waits for one call at most, of the kind its stage says; nobody      *)
(* hears of a call without one.                                              *)
OneCallEach ==
    /\ \A r \in traffic : r.tap \in Taps => r.kind = leaving[r.tap]
    /\ \A r, q \in traffic : r.tap = q.tap /\ r.tap \in Taps => r = q
    /\ \A r \in traffic : (r.tap = "none" => r.answer = "none") /\ (r.kind = "register" => r.tap = "none")

(* Who is signed in has the session whose bearer is stored.                  *)
SignedInBySession == Signed => stored # 0 /\ bearers[stored].user = phone.user

(* As long as nothing went wrong on an iPhone: one tap at a time, with the   *)
(* calls of the session that is ending, which lives until then; ...          *)
Proper == platform = "ios" /\ ~spent.lost /\ excused = {}

ProperLeaving ==
    /\ leaving["second"] = "idle"
    /\ leaving["first"] # "idle" => Signed /\ ~phone.client
    /\ Signed /\ leaving["first"] = "idle" => phone.client
    /\ Signed /\ leaving["first"] # "signout" => Live(stored)
    /\ phone.known # 0 => phone.asked = "answered"
    /\ \A r \in traffic : r.kind # "register" =>
         /\ r.tap = "first" /\ r.bearer = stored
         /\ r.kind = "unregister" => r.token = phone.known

(* ... and the row of the token is of that session's user, who is signed in  *)
(* if the app runs and has not been unregistered.                            *)
RowOfSession ==
    rows[token.id] # Absent =>
      /\ Live(stored) /\ bearers[stored].user = rows[token.id]
      /\ phone.on => Signed
      /\ leaving["first"] # "signout"
      /\ \A r \in traffic : r.kind = "unregister" /\ r.answer # "none" => r.token # token.id

PushInv ==
    /\ PhoneTyped /\ TokensThereWere /\ OneCallEach /\ SignedInBySession
    /\ Proper => ProperLeaving /\ RowOfSession

-----------------------------------------------------------------------------

(* What is in the air after a call was answered.                             *)
LEMMA Answered ==
  ASSUME NEW r \in traffic, NEW a \in {"ok", "failed"}, traffic \subseteq PushCalls
  PROVE  /\ ToPhone(r, a) \subseteq PushCalls
         /\ \A q \in ToPhone(r, a) : q \in traffic \ {r} \/ (r.tap \in Taps /\ q = [r EXCEPT !.answer = a])
BY DEF ToPhone, PushCalls

(* What a registration puts in the air.                                      *)
LEMMA Registered ==
  ASSUME NEW p, p.known \in 0..MaxTokens, NEW b \in Nat
  PROVE  /\ Registration(p, b) \subseteq PushCalls
         /\ \A q \in Registration(p, b) :
              q.kind = "register" /\ q.tap = "none" /\ q.answer = "none" /\ q.token = p.known /\ p.known # 0
BY DEF Registration, PushCalls

LEMMA BearerTyped ==
  ASSUME bearers \in Seq(Bearers), NEW b, Live(b)
  PROVE  bearers[b] \in Bearers /\ b \in 1..Len(bearers)
BY DEF Live

LEMMA PhoneOf ==
  PhoneTyped => /\ phone \in PhoneStates /\ token.id \in 1..MaxTokens
                /\ ~phone.on => phone = Off
BY DEF PhoneTyped, PushTypeOK, PhoneStates, TokenIds

LEMMA StaysOff ==
  ASSUME NEW p \in PhoneStates, ~p.on => p = Off, NEW q, q = [p EXCEPT !.user = Absent]
  PROVE  ~q.on => q = Off
<1>1. q.on = p.on
  BY DEF PhoneStates
<1>2. p.on = FALSE => q = p
  <2>1. q.user = Absent /\ q.client = p.client /\ q.known = p.known /\ q.asked = p.asked /\ q \in PhoneStates
    BY DEF PhoneStates
  <2>2. p.on = FALSE => p.user = Absent
    BY DEF Off
  <2> QED
    BY <1>1, <2>1, <2>2 DEF PhoneStates
<1> QED
  BY <1>1, <1>2 DEF PhoneStates

LEMMA TypedStart == PushInit => PhoneTyped
<1> SUFFICES ASSUME PushInit PROVE PhoneTyped
  OBVIOUS
<1>1. phone = [on |-> TRUE, user |-> Absent, client |-> FALSE, known |-> 0, asked |-> "no"]
  BY DEF PushInit, Off
<1>2. rows \in [TokenIds -> Users \union {Absent}] /\ token \in [id : TokenIds, refused : BOOLEAN, back : BOOLEAN]
  BY PushAssumption DEF PushInit, TokenIds
<1>3. bearers \in Seq(Bearers) /\ stored \in 0..Len(bearers) /\ excused = {} /\ traffic = {}
  BY DEF PushInit
<1>4. push \in [stage : {"idle", "sending", "cleaning"}, tokens : SUBSET TokenIds]
  BY DEF PushInit, Idle
<1>5. leaving \in [Taps -> {"idle", "unregister", "signout"}] /\ spent \in [events : Nat, lost : BOOLEAN]
  BY DEF PushInit
<1>6. platform \in {"ios", "android"}
  BY PushAssumption DEF PushInit
<1> QED
  BY <1>1, <1>2, <1>3, <1>4, <1>5, <1>6, PushAssumption DEF PhoneTyped, PushTypeOK, PhoneStates

(* The steps of the server.                                                  *)
LEMMA TypedServe ==
  ASSUME PhoneTyped, ServePhone
  PROVE  PhoneTyped'
<1> PICK r \in traffic : r.answer = "none" /\ (ServeRegister(r) \/ ServeUnregister(r) \/ ServeSignOut(r))
  BY DEF ServePhone
<1>0. r \in PushCalls /\ UNCHANGED <<platform, phone, leaving, stored, token, push, spent>>
  BY DEF ServePhone, PhoneTyped
<1>1. CASE ServeRegister(r)
  <2>1. rows' \in [TokenIds -> Users \union {Absent}]
    BY <1>0, <1>1, BearerTyped DEF ServeRegister, PhoneTyped, PushTypeOK, Bearers
  <2>2. excused' \subseteq {"overtaken", "tapped", "unknown", "killed"}
    BY <1>1 DEF ServeRegister, PhoneTyped, PushTypeOK
  <2>3. traffic' \subseteq PushCalls /\ UNCHANGED bearers
    BY <1>1 DEF ServeRegister, PhoneTyped
  <2> QED
    BY <1>0, <2>1, <2>2, <2>3 DEF PhoneTyped, PushTypeOK
<1>2. CASE ServeUnregister(r)
  <2>1. rows' \in [TokenIds -> Users \union {Absent}]
    BY <1>0, <1>2 DEF ServeUnregister, DeleteByToken, PhoneTyped, PushTypeOK
  <2>2. traffic' \subseteq PushCalls
    BY <1>2, Answered DEF ServeUnregister, PhoneTyped
  <2> QED
    BY <1>0, <1>2, <2>1, <2>2 DEF ServeUnregister, PhoneTyped, PushTypeOK
<1>3. CASE ServeSignOut(r)
  <2>1. bearers' \in Seq(Bearers) /\ Len(bearers') = Len(bearers)
    <3>1. CASE Live(r.bearer)
      <4>1. [bearers[r.bearer] EXCEPT !.live = FALSE] \in Bearers
        BY <3>1, BearerTyped DEF PhoneTyped, Bearers
      <4> QED
        BY <1>3, <3>1, <4>1, ExceptSeq DEF ServeSignOut, PhoneTyped, Live
    <3> QED
      BY <1>3, <3>1 DEF ServeSignOut, PhoneTyped
  <2>2. traffic' \subseteq PushCalls
    BY <1>3, Answered DEF ServeSignOut, PhoneTyped
  <2> QED
    BY <1>0, <1>3, <2>1, <2>2 DEF ServeSignOut, PhoneTyped, PushTypeOK
<1> QED
  BY <1>1, <1>2, <1>3

(* The steps of the app.                                                     *)
LEMMA TypedApp ==
  ASSUME PhoneTyped,
         SignIn \/ TokenArrives \/ (\E t \in Taps : SignOut(t))
           \/ (\E r \in traffic : HearUnregistered(r) \/ HearSignedOut(r))
  PROVE  PhoneTyped'
<1>0. phone \in PhoneStates /\ token.id \in 0..MaxTokens /\ (~phone.on => phone = Off)
  BY PhoneOf
<1>1. CASE SignIn
  <2>1. Signers[Len(bearers) + 1] \in Users
    BY <1>1 DEF SignIn, PhoneTyped, Users
  <2>2. bearers' \in Seq(Bearers) /\ Len(bearers') = Len(bearers) + 1
    BY <1>1, <2>1, AppendProperties DEF SignIn, PhoneTyped, Bearers
  <2>3. phone' \in PhoneStates /\ phone'.on
    BY <1>1, <2>1, PhoneOf DEF SignIn, Activated, PhoneStates
  <2>4. traffic' \subseteq PushCalls
    BY <1>1, <2>3, Registered DEF SignIn, Activated, PhoneTyped, PhoneStates
  <2> QED
    BY <1>1, <2>2, <2>3, <2>4 DEF SignIn, PhoneTyped, PushTypeOK, PhoneStates
<1>2. CASE TokenArrives
  <2>1. phone' \in PhoneStates /\ phone'.on
    <3>1. phone.on /\ phone' = [[phone EXCEPT !.known = token.id] EXCEPT !.asked = "answered"]
      BY <1>2 DEF TokenArrives
    <3> QED
      BY <1>0, <3>1 DEF PhoneStates
  <2>2. traffic' \subseteq PushCalls
    <3>1. phone'.known \in 0..MaxTokens /\ stored \in Nat
      BY <2>1 DEF PhoneTyped, PushTypeOK, PhoneStates
    <3>2. Registration(phone', stored) \subseteq PushCalls
      BY <3>1, Registered
    <3> QED
      BY <1>2, <3>2 DEF TokenArrives, PhoneTyped
  <2> QED
    BY <1>2, <2>1, <2>2 DEF TokenArrives, PhoneTyped, PushTypeOK, PhoneStates
<1>3. ASSUME NEW t \in Taps, SignOut(t) PROVE PhoneTyped'
  <2>1. phone' \in PhoneStates /\ phone'.on
    BY <1>3, PhoneOf DEF SignOut, Signed, PhoneStates
  <2>2. traffic' \subseteq PushCalls
    BY <1>3, PushAssumption DEF SignOut, EndSession, Request, PhoneTyped, PushTypeOK, PushCalls, Taps
  <2>3. leaving' \in [Taps -> {"idle", "unregister", "signout"}]
    BY <1>3 DEF SignOut, EndSession, PhoneTyped
  <2>4. spent' \in [events : Nat, lost : BOOLEAN]
    BY <1>3 DEF SignOut, Happens, PhoneTyped
  <2>5. excused' \subseteq {"overtaken", "tapped", "unknown", "killed"}
    BY <1>3 DEF SignOut, Unknown, PhoneTyped, PushTypeOK
  <2>6. UNCHANGED <<platform, stored, bearers, token, rows, push>>
    BY <1>3 DEF SignOut
  <2> QED
    BY <2>1, <2>2, <2>3, <2>4, <2>5, <2>6 DEF PhoneTyped, PushTypeOK, PhoneStates
<1>4. ASSUME NEW r \in traffic, HearUnregistered(r) PROVE PhoneTyped'
  <2>1. phone' \in PhoneStates
        /\ (phone' = phone \/ phone' = [phone EXCEPT !.user = Absent])
    BY <1>4, PhoneOf DEF HearUnregistered, PhoneStates
  <2>2. traffic' \subseteq PushCalls
    BY <1>4, PushAssumption DEF HearUnregistered, EndSession, Request, PhoneTyped, PushTypeOK, PushCalls, Taps
  <2>3. leaving' \in [Taps -> {"idle", "unregister", "signout"}]
    BY <1>4 DEF HearUnregistered, EndSession, PhoneTyped
  <2>4. excused' \subseteq {"overtaken", "tapped", "unknown", "killed"}
    BY <1>4 DEF HearUnregistered, Unknown, PhoneTyped, PushTypeOK
  <2>5. UNCHANGED <<platform, stored, bearers, token, rows, push, spent>>
    BY <1>4 DEF HearUnregistered
  <2>6. ~phone'.on => phone' = Off
    <3>1. CASE phone' = phone
      BY <3>1 DEF PhoneTyped
    <3>2. CASE phone' = [phone EXCEPT !.user = Absent]
      BY <1>0, <3>2, StaysOff
    <3> QED
      BY <2>1, <3>1, <3>2
  <2> QED
    BY <2>1, <2>2, <2>3, <2>4, <2>5, <2>6 DEF PhoneTyped, PushTypeOK, PhoneStates
<1>5. ASSUME NEW r \in traffic, HearSignedOut(r) PROVE PhoneTyped'
  <2>1. phone' \in PhoneStates
        /\ phone' = [phone EXCEPT !.user = Absent]
    BY <1>5, PhoneOf DEF HearSignedOut, PhoneStates
  <2>2. traffic' \subseteq PushCalls /\ stored' \in {0, stored}
    BY <1>5 DEF HearSignedOut, PhoneTyped
  <2>3. leaving' \in [Taps -> {"idle", "unregister", "signout"}]
    BY <1>5 DEF HearSignedOut, PhoneTyped
  <2>4. UNCHANGED <<platform, bearers, token, rows, push, spent, excused>>
    BY <1>5 DEF HearSignedOut
  <2>5. ~phone'.on => phone' = Off
    BY <1>0, <2>1, StaysOff
  <2> QED
    BY <2>1, <2>2, <2>3, <2>4, <2>5 DEF PhoneTyped, PushTypeOK, PhoneStates
<1> QED
  BY <1>1, <1>2, <1>3, <1>4, <1>5

(* The steps of the process, the token and the network, and of the worker.   *)
LEMMA TypedRest ==
  ASSUME PhoneTyped,
         Kill \/ Launch \/ Lapse \/ Rotate \/ (\E r \in traffic : LoseCall(r))
           \/ (\E u \in Users : ReadDevices(u)) \/ SendToDevices \/ DeleteInvalid
  PROVE  PhoneTyped'
<1>1. CASE Kill
  <2>1. phone' = Off /\ Off \in PhoneStates
    BY <1>1, PushAssumption DEF Kill, Off, PhoneStates
  <2>2. traffic' \subseteq PushCalls
    <3>1. \A q \in PushCalls : [q EXCEPT !.tap = "none"] \in PushCalls
      BY DEF PushCalls
    <3> QED
      BY <1>1, <3>1 DEF Kill, PhoneTyped
  <2>3. leaving' \in [Taps -> {"idle", "unregister", "signout"}]
    BY <1>1 DEF Kill
  <2>4. spent' \in [events : Nat, lost : BOOLEAN]
    BY <1>1 DEF Kill, Happens, PhoneTyped
  <2>5. excused' \subseteq {"overtaken", "tapped", "unknown", "killed"}
    BY <1>1 DEF Kill, PhoneTyped, PushTypeOK
  <2> QED
    BY <1>1, <2>1, <2>2, <2>3, <2>4, <2>5 DEF Kill, PhoneTyped, PushTypeOK, PhoneStates
<1>2. CASE Launch
  <2>1. token' \in [id : TokenIds, refused : BOOLEAN, back : BOOLEAN]
    BY <1>2 DEF Launch, PhoneTyped, PushTypeOK
  <2>2. phone' \in PhoneStates /\ phone'.on
    <3>1. CASE Live(stored) /\ Activated(bearers[stored].user, stored)
      BY <3>1, BearerTyped, PhoneOf DEF Activated, Bearers, PhoneTyped, PhoneStates
    <3>2. CASE phone' = [Off EXCEPT !.on = TRUE]
      <4>1. phone' = [on |-> TRUE, user |-> Absent, client |-> FALSE, known |-> 0, asked |-> "no"]
        BY <3>2 DEF Off
      <4> QED
        BY <4>1, PushAssumption DEF PhoneStates
    <3> QED
      BY <1>2, <3>1, <3>2 DEF Launch
  <2>3. traffic' \subseteq PushCalls /\ stored' \in {0, stored}
    BY <1>2, <2>2, Registered DEF Launch, Activated, PhoneTyped, PushTypeOK, PhoneStates
  <2> QED
    BY <1>2, <2>1, <2>2, <2>3 DEF Launch, PhoneTyped, PushTypeOK, PhoneStates
<1>3. CASE Lapse
  <2>1. token' \in [id : TokenIds, refused : BOOLEAN, back : BOOLEAN]
    BY <1>3 DEF Lapse, PhoneTyped, PushTypeOK
  <2> QED
    BY <1>3, <2>1 DEF Lapse, PhoneTyped, PushTypeOK
<1>4. CASE Rotate
  <2>1. token' \in [id : TokenIds, refused : BOOLEAN, back : BOOLEAN] /\ token'.id = token.id + 1
    BY <1>4, PushAssumption DEF Rotate, PhoneTyped, PushTypeOK, TokenIds
  <2>2. traffic' \subseteq PushCalls
    BY <1>4, <2>1 DEF Rotate, Request, PhoneTyped, PushTypeOK, PushCalls, TokenIds
  <2>3. spent' \in [events : Nat, lost : BOOLEAN]
    BY <1>4 DEF Rotate, Happens, PhoneTyped
  <2> QED
    BY <1>4, <2>1, <2>2, <2>3 DEF Rotate, PhoneTyped, PushTypeOK
<1>5. ASSUME NEW r \in traffic, LoseCall(r) PROVE PhoneTyped'
  <2>1. traffic' \subseteq PushCalls
    <3>1. ToPhone(r, "failed") \subseteq PushCalls
      BY Answered DEF PhoneTyped
    <3>2. [r EXCEPT !.tap = "none"] \in PushCalls
      BY DEF PhoneTyped, PushCalls
    <3> QED
      BY <1>5, <3>1, <3>2 DEF LoseCall
  <2>2. spent' \in [events : Nat, lost : BOOLEAN]
    BY <1>5 DEF LoseCall, PhoneTyped
  <2> QED
    BY <1>5, <2>1, <2>2 DEF LoseCall, PhoneTyped, PushTypeOK
<1>6. ASSUME NEW u \in Users, ReadDevices(u) PROVE PhoneTyped'
  <2>1. push' \in [stage : {"idle", "sending", "cleaning"}, tokens : SUBSET TokenIds]
    BY <1>6 DEF ReadDevices
  <2>2. spent' \in [events : Nat, lost : BOOLEAN]
    BY <1>6 DEF ReadDevices, Happens, PhoneTyped
  <2> QED
    BY <1>6, <2>1, <2>2 DEF ReadDevices, PhoneTyped, PushTypeOK
<1>7. CASE SendToDevices
  <2>1. push' \in [stage : {"idle", "sending", "cleaning"}, tokens : SUBSET TokenIds]
    BY <1>7 DEF SendToDevices, PhoneTyped, PushTypeOK
  <2> QED
    BY <1>7, <2>1 DEF SendToDevices, PhoneTyped, PushTypeOK
<1>8. CASE DeleteInvalid
  <2>1. push' \in [stage : {"idle", "sending", "cleaning"}, tokens : SUBSET TokenIds]
    BY <1>8 DEF DeleteInvalid, Idle
  <2>2. rows' \in [TokenIds -> Users \union {Absent}]
    BY <1>8 DEF DeleteInvalid, PhoneTyped, PushTypeOK
  <2> QED
    BY <1>8, <2>1, <2>2 DEF DeleteInvalid, PhoneTyped, PushTypeOK
<1> QED
  BY <1>1, <1>2, <1>3, <1>4, <1>5, <1>6, <1>7, <1>8

LEMMA TypedStep == PhoneTyped /\ [PushNext]_pushVars => PhoneTyped'
<1>1. CASE UNCHANGED pushVars
  BY <1>1 DEF pushVars, PhoneTyped, PushTypeOK
<1> QED
  BY <1>1, TypedServe, TypedApp, TypedRest DEF PushNext

-----------------------------------------------------------------------------
\* Tokens

(* What keeps the calls' tokens.                                             *)
CallTokens(calls, id) == \A r \in calls : r.token <= id /\ (r.kind # "signout" => r.token # 0)

LEMMA ToPhoneTokens ==
  ASSUME traffic \subseteq PushCalls, NEW r \in traffic, NEW a \in {"ok", "failed"}, CallTokens(traffic, token.id)
  PROVE  CallTokens(ToPhone(r, a), token.id)
BY DEF ToPhone, PushCalls, CallTokens

LEMMA RegistrationTokens ==
  ASSUME NEW p, NEW b, NEW id \in Nat, p.known \in 0..id
  PROVE  CallTokens(Registration(p, b), id)
BY DEF Registration, CallTokens

LEMMA TokensServe ==
  ASSUME PhoneTyped, TokensThereWere, ServePhone
  PROVE  TokensThereWere'
<1> PICK r \in traffic : r.answer = "none" /\ (ServeRegister(r) \/ ServeUnregister(r) \/ ServeSignOut(r))
  BY DEF ServePhone
<1>0. r \in PushCalls /\ UNCHANGED <<platform, phone, leaving, stored, token, push, spent>>
  BY DEF ServePhone, PhoneTyped
<1>1. r.token <= token.id /\ (r.kind # "signout" => r.token # 0) /\ traffic \subseteq PushCalls
  BY DEF TokensThereWere, PhoneTyped
<1>2. CallTokens(traffic', token.id)
  <2>1. CallTokens(traffic, token.id)
    BY DEF TokensThereWere, CallTokens
  <2>2. CASE ServeRegister(r)
    BY <2>1, <2>2 DEF ServeRegister, CallTokens
  <2>3. CASE ServeUnregister(r)
    BY <1>1, <2>1, <2>3, ToPhoneTokens DEF ServeUnregister
  <2>4. CASE ServeSignOut(r)
    BY <1>1, <2>1, <2>4, ToPhoneTokens DEF ServeSignOut
  <2> QED
    BY <2>2, <2>3, <2>4
<1>3. \A t \in TokenIds : rows'[t] # Absent => t <= token.id
  <2>1. \A t \in TokenIds : rows'[t] # Absent => rows[t] # Absent \/ t = r.token
    BY DEF ServeRegister, ServeUnregister, ServeSignOut, DeleteByToken, PhoneTyped, PushTypeOK
  <2> QED
    BY <1>1, <2>1 DEF TokensThereWere
<1> QED
  BY <1>0, <1>2, <1>3 DEF TokensThereWere, CallTokens

LEMMA TokensApp ==
  ASSUME PhoneTyped, TokensThereWere,
         SignIn \/ TokenArrives \/ (\E t \in Taps : SignOut(t))
           \/ (\E r \in traffic : HearUnregistered(r) \/ HearSignedOut(r))
  PROVE  TokensThereWere'
<1>0. phone \in PhoneStates /\ token.id \in 1..MaxTokens /\ CallTokens(traffic, token.id)
  BY PhoneOf DEF TokensThereWere, CallTokens
<1>1. UNCHANGED <<token, rows, push>>
  BY DEF SignIn, TokenArrives, SignOut, HearUnregistered, HearSignedOut
<1>2. SUFFICES phone'.known <= token.id /\ CallTokens(traffic', token.id) /\ (phone'.on => phone.on)
  BY <1>1 DEF TokensThereWere, CallTokens
<1>3. CASE SignIn
  <2>1. phone'.known \in 0..token.id /\ phone.on
    BY <1>0, <1>3 DEF SignIn, Activated, PhoneStates, TokensThereWere
  <2>2. CallTokens(Registration(phone', Len(bearers) + 1), token.id)
    BY <1>0, <2>1, RegistrationTokens
  <2>3. traffic' = traffic \union Registration(phone', Len(bearers) + 1)
    BY <1>3 DEF SignIn, Activated
  <2>4. CallTokens(traffic', token.id)
    BY <1>0, <2>2, <2>3 DEF CallTokens
  <2> QED
    BY <1>0, <2>1, <2>4
<1>4. CASE TokenArrives
  <2>1. phone'.known \in 0..token.id /\ phone.on
    BY <1>0, <1>4 DEF TokenArrives, PhoneStates
  <2>2. CallTokens(Registration(phone', stored), token.id)
    BY <1>0, <2>1, RegistrationTokens
  <2> QED
    BY <1>0, <1>4, <2>1, <2>2 DEF TokenArrives, CallTokens
<1>5. ASSUME NEW t \in Taps, SignOut(t)
     PROVE phone'.known <= token.id /\ CallTokens(traffic', token.id) /\ (phone'.on => phone.on)
  <2>1. phone'.known = phone.known /\ phone'.on = phone.on
    BY <1>0, <1>5 DEF SignOut, PhoneStates
  <2>2. CallTokens(traffic', token.id)
    BY <1>0, <1>5 DEF SignOut, UnregistersFirst, EndSession, Request, CallTokens, TokensThereWere, PhoneStates
  <2> QED
    BY <1>0, <2>1, <2>2 DEF TokensThereWere
<1>6. ASSUME NEW r \in traffic, HearUnregistered(r)
     PROVE phone'.known <= token.id /\ CallTokens(traffic', token.id) /\ (phone'.on => phone.on)
  <2>1. phone'.known = phone.known /\ phone'.on = phone.on
    BY <1>0, <1>6 DEF HearUnregistered, PhoneStates
  <2>2. CallTokens(traffic', token.id)
    BY <1>0, <1>6 DEF HearUnregistered, EndSession, Request, CallTokens
  <2> QED
    BY <1>0, <2>1, <2>2 DEF TokensThereWere
<1>7. ASSUME NEW r \in traffic, HearSignedOut(r)
     PROVE phone'.known <= token.id /\ CallTokens(traffic', token.id) /\ (phone'.on => phone.on)
  BY <1>0, <1>7 DEF HearSignedOut, CallTokens, TokensThereWere, PhoneStates
<1> QED
  BY <1>3, <1>4, <1>5, <1>6, <1>7

LEMMA TokensRest ==
  ASSUME PhoneTyped, TokensThereWere, PhoneTyped',
         Kill \/ Launch \/ Lapse \/ Rotate \/ (\E r \in traffic : LoseCall(r))
           \/ (\E u \in Users : ReadDevices(u)) \/ SendToDevices \/ DeleteInvalid
  PROVE  TokensThereWere'
<1>0. phone \in PhoneStates /\ token.id \in 1..MaxTokens /\ CallTokens(traffic, token.id) /\ traffic \subseteq PushCalls
  BY PhoneOf DEF TokensThereWere, CallTokens, PhoneTyped
<1>1. CASE Kill
  <2>1. phone'.known = 0 /\ ~phone'.on
    BY <1>1 DEF Kill, Off
  <2>2. CallTokens(traffic', token.id)
    BY <1>0, <1>1 DEF Kill, CallTokens, PushCalls
  <2> QED
    BY <1>0, <1>1, <2>1, <2>2 DEF Kill, TokensThereWere, CallTokens
<1>2. CASE Launch
  <2>1. token'.id = token.id /\ ~token'.refused /\ token'.back = (token.back \/ token.refused)
    BY <1>2 DEF Launch
  <2>2. phone'.known \in 0..token.id /\ phone'.on
    <3>1. CASE Live(stored) /\ Activated(bearers[stored].user, stored)
      BY <1>0, <3>1 DEF Activated, PhoneStates, TokensThereWere
    <3>2. CASE phone' = [Off EXCEPT !.on = TRUE]
      BY <1>0, <3>2 DEF Off
    <3> QED
      BY <1>2, <3>1, <3>2 DEF Launch
  <2>3. CallTokens(Registration(phone', stored), token.id)
    BY <1>0, <2>2, RegistrationTokens
  <2>4. CallTokens(traffic', token.id)
    BY <1>0, <1>2, <2>3 DEF Launch, Activated, CallTokens
  <2>5. UNCHANGED <<rows, push>>
    BY <1>2 DEF Launch
  <2>6. push.stage = "cleaning" /\ token.id \in push.tokens => token'.back
    BY <2>1 DEF TokensThereWere
  <2> QED
    BY <1>0, <2>1, <2>2, <2>4, <2>5, <2>6 DEF TokensThereWere, CallTokens
<1>3. CASE Lapse
  <2>1. token'.id = token.id /\ token'.refused /\ token'.back = token.back /\ ~phone.on
    BY <1>3 DEF Lapse, PhoneTyped, PushTypeOK
  <2> QED
    BY <1>3, <2>1 DEF Lapse, TokensThereWere
<1>4. CASE Rotate
  <2>1. token'.id = token.id + 1 /\ ~token'.refused
    BY <1>4 DEF Rotate
  <2>2. CallTokens(traffic', token.id + 1)
    BY <1>0, <1>4 DEF Rotate, Request, CallTokens, PushCalls
  <2>3. token.id + 1 \notin push.tokens
    BY <1>0 DEF TokensThereWere
  <2>4. push.tokens \subseteq TokenIds /\ UNCHANGED <<phone, rows, push>>
    BY <1>4 DEF Rotate, PhoneTyped, PushTypeOK
  <2> QED
    BY <1>0, <2>1, <2>2, <2>3, <2>4 DEF TokensThereWere, CallTokens, PhoneStates, TokenIds
<1>5. ASSUME NEW r \in traffic, LoseCall(r) PROVE TokensThereWere'
  <2>1. CallTokens(ToPhone(r, "failed"), token.id)
    BY <1>0, ToPhoneTokens
  <2>2. CallTokens({[r EXCEPT !.tap = "none"]}, token.id)
    BY <1>0 DEF CallTokens, PushCalls
  <2>3. CallTokens(traffic', token.id)
    BY <1>5, <2>1, <2>2 DEF LoseCall, CallTokens
  <2> QED
    BY <1>5, <2>3 DEF LoseCall, TokensThereWere, CallTokens
<1>6. ASSUME NEW u \in Users, ReadDevices(u) PROVE TokensThereWere'
  <2>1. push'.stage = "sending" /\ push'.tokens = {t \in TokenIds : rows[t] = u} /\ u # Absent
    BY <1>6, PushAssumption DEF ReadDevices
  <2> QED
    BY <1>6, <2>1 DEF ReadDevices, TokensThereWere
<1>7. CASE SendToDevices
  <2>1. push'.stage = "cleaning" /\ push'.tokens \subseteq {t \in push.tokens : Refused(t)}
    BY <1>7 DEF SendToDevices, IsUnregistered
  <2> QED
    BY <1>7, <2>1 DEF SendToDevices, Refused, TokensThereWere
<1>8. CASE DeleteInvalid
  <2>1. push'.stage = "idle" /\ push'.tokens = {}
    BY <1>8 DEF DeleteInvalid, Idle
  <2>2. \A t \in TokenIds : rows'[t] # Absent => rows[t] # Absent
    BY <1>8 DEF DeleteInvalid
  <2> QED
    BY <1>8, <2>1, <2>2 DEF DeleteInvalid, TokensThereWere
<1> QED
  BY <1>1, <1>2, <1>3, <1>4, <1>5, <1>6, <1>7, <1>8

LEMMA TokensStep == PhoneTyped /\ TokensThereWere /\ [PushNext]_pushVars => TokensThereWere'
<1>1. CASE UNCHANGED pushVars
  BY <1>1 DEF pushVars, TokensThereWere
<1> QED
  BY <1>1, TypedStep, TokensServe, TokensApp, TokensRest DEF PushNext

-----------------------------------------------------------------------------
\* Calls and sessions

OnePerTap(calls) == \A r, q \in calls : r.tap = q.tap /\ r.tap \in Taps => r = q
Answerable(calls) == \A r \in calls : (r.tap = "none" => r.answer = "none") /\ (r.kind = "register" => r.tap = "none")
OfStage(calls, stages) == \A r \in calls : r.tap \in Taps => r.kind = stages[r.tap]

LEMMA ToPhoneCalls ==
  ASSUME PhoneTyped, OneCallEach, NEW r \in traffic, NEW a \in {"ok", "failed"}
  PROVE  OnePerTap(ToPhone(r, a)) /\ Answerable(ToPhone(r, a)) /\ OfStage(ToPhone(r, a), leaving)
<1>1. traffic \subseteq PushCalls
  BY DEF PhoneTyped
<1>2. CASE r.tap \in Taps
  <2>1. [r EXCEPT !.answer = a].tap = r.tap /\ [r EXCEPT !.answer = a].kind = r.kind
    BY <1>1 DEF PushCalls
  <2>2. r.tap # "none" /\ r.kind # "register" /\ r.kind = leaving[r.tap]
    BY <1>2 DEF OneCallEach, Taps
  <2> QED
    BY <1>2, <2>1, <2>2, ZenonT(60) DEF OneCallEach, OnePerTap, Answerable, OfStage, ToPhone
<1>3. CASE r.tap \notin Taps
  BY <1>3 DEF OneCallEach, OnePerTap, Answerable, OfStage, ToPhone
<1> QED
  BY <1>2, <1>3

(* Registrations, which nobody waits for, change nothing.                    *)
LEMMA WithRegistration ==
  ASSUME NEW calls, NEW p, NEW b, NEW stages, OnePerTap(calls), Answerable(calls), OfStage(calls, stages)
  PROVE  LET all == calls \union Registration(p, b)
         IN  OnePerTap(all) /\ Answerable(all) /\ OfStage(all, stages)
<1>1. \A q \in Registration(p, b) : q.kind = "register" /\ q.tap = "none" /\ q.answer = "none"
  BY DEF Registration
<1>2. "none" \notin Taps
  BY DEF Taps
<1> QED
  BY <1>1, <1>2 DEF OnePerTap, Answerable, OfStage

LEMMA CallsStep ==
  ASSUME PhoneTyped, OneCallEach, [PushNext]_pushVars
  PROVE  OneCallEach'
<1>0. traffic \subseteq PushCalls /\ OnePerTap(traffic) /\ Answerable(traffic) /\ OfStage(traffic, leaving)
  BY DEF PhoneTyped, OneCallEach, OnePerTap, Answerable, OfStage
<1>q. leaving \in [Taps -> {"idle", "unregister", "signout"}] /\ "none" \notin Taps
  BY DEF PhoneTyped, Taps
<1>s. SUFFICES OnePerTap(traffic') /\ Answerable(traffic') /\ OfStage(traffic', leaving')
  BY DEF OneCallEach, OnePerTap, Answerable, OfStage
<1>1. CASE ServePhone
  <2> PICK r \in traffic : r.answer = "none" /\ (ServeRegister(r) \/ ServeUnregister(r) \/ ServeSignOut(r))
    BY <1>1 DEF ServePhone
  <2>1. leaving' = leaving
    BY <1>1 DEF ServePhone
  <2>2. CASE ServeRegister(r)
    BY <1>0, <2>1, <2>2 DEF ServeRegister, OnePerTap, Answerable, OfStage
  <2>3. CASE ServeUnregister(r)
    BY <2>1, <2>3, ToPhoneCalls DEF ServeUnregister
  <2>4. CASE ServeSignOut(r)
    BY <2>1, <2>4, ToPhoneCalls DEF ServeSignOut
  <2> QED
    BY <2>2, <2>3, <2>4
<1>2. CASE SignIn
  <2>1. traffic' = traffic \union Registration(phone', Len(bearers) + 1) /\ leaving' = leaving
    BY <1>2 DEF SignIn, Activated
  <2> QED
    BY <1>0, <2>1, WithRegistration
<1>3. CASE TokenArrives
  <2>1. traffic' = traffic \union Registration(phone', stored) /\ leaving' = leaving
    BY <1>3 DEF TokenArrives
  <2> QED
    BY <1>0, <2>1, WithRegistration
<1>4. CASE Launch
  <2>1. leaving' = leaving /\ (traffic' = traffic \union Registration(phone', stored) \/ traffic' = traffic)
    BY <1>4 DEF Launch, Activated
  <2> QED
    BY <1>0, <2>1, WithRegistration
<1>5. ASSUME NEW t \in Taps, SignOut(t)
     PROVE OnePerTap(traffic') /\ Answerable(traffic') /\ OfStage(traffic', leaving')
  <2>1. \A r \in traffic : r.tap # t
    BY <1>0, <1>5 DEF SignOut, OfStage, PushCalls
  <2>2. \E kind \in {"unregister", "signout"} :
          /\ leaving' \in {[leaving EXCEPT ![t] = kind], [leaving EXCEPT ![t] = "idle"]}
          /\ \A r \in traffic' : \/ r \in traffic
                                 \/ leaving'[t] = kind /\ r.kind = kind /\ r.tap = t /\ r.answer = "none"
    BY <1>5, <1>q DEF SignOut, EndSession, Request
  <2>3. \A r, q \in traffic' : r \notin traffic /\ q \notin traffic => r = q
    BY <1>5 DEF SignOut, EndSession, Request
  <2> QED
    BY <1>0, <1>q, <2>1, <2>2, <2>3 DEF OnePerTap, Answerable, OfStage
<1>6. ASSUME NEW c \in traffic, HearUnregistered(c)
     PROVE OnePerTap(traffic') /\ Answerable(traffic') /\ OfStage(traffic', leaving')
  <2>0. c.tap \in Taps
    BY <1>6 DEF HearUnregistered
  <2>1. \A r \in traffic \ {c} : r.tap # c.tap
    BY <1>0, <2>0 DEF OnePerTap
  <2>2. /\ leaving' \in {[leaving EXCEPT ![c.tap] = "signout"], [leaving EXCEPT ![c.tap] = "idle"]}
        /\ \A r \in traffic' : \/ r \in traffic \ {c}
                               \/ leaving'[c.tap] = "signout" /\ r.kind = "signout" /\ r.tap = c.tap /\ r.answer = "none"
    <3>1. leaving' = [leaving EXCEPT ![c.tap] = IF stored = 0 THEN "idle" ELSE "signout"]
          /\ traffic' = (traffic \ {c}) \union (IF stored = 0 THEN {} ELSE {Request("signout", 0, c.tap)})
      BY <1>6 DEF HearUnregistered, EndSession
    <3>2. CASE stored = 0
      BY <1>q, <2>0, <3>1, <3>2
    <3>3. CASE stored # 0
      <4>1. leaving' = [leaving EXCEPT ![c.tap] = "signout"] /\ leaving'[c.tap] = "signout"
        BY <1>q, <2>0, <3>1, <3>3
      <4>2. traffic' = (traffic \ {c}) \union {Request("signout", 0, c.tap)}
        BY <3>1, <3>3
      <4> QED
        BY <4>1, <4>2 DEF Request
    <3> QED
      BY <3>2, <3>3
  <2>3. \A r, q \in traffic' : r \notin traffic \ {c} /\ q \notin traffic \ {c} => r = q
    BY <1>6 DEF HearUnregistered, EndSession, Request
  <2> QED
    BY <1>0, <1>q, <2>0, <2>1, <2>2, <2>3 DEF OnePerTap, Answerable, OfStage
<1>7. ASSUME NEW c \in traffic, HearSignedOut(c)
     PROVE OnePerTap(traffic') /\ Answerable(traffic') /\ OfStage(traffic', leaving')
  <2>1. c.tap \in Taps /\ traffic' = traffic \ {c} /\ leaving' = [leaving EXCEPT ![c.tap] = "idle"]
    BY <1>7 DEF HearSignedOut
  <2>2. \A r \in traffic' : r.tap # c.tap
    BY <1>0, <2>1 DEF OnePerTap
  <2> QED
    BY <1>0, <1>q, <2>1, <2>2 DEF OnePerTap, Answerable, OfStage
<1>8. CASE Kill
  <2>1. \A r \in traffic' : r.tap = "none" /\ r.answer = "none"
    BY <1>0, <1>8 DEF Kill, PushCalls
  <2> QED
    BY <1>q, <2>1 DEF OnePerTap, Answerable, OfStage
<1>9. CASE Rotate
  <2>1. leaving' = leaving
        /\ \A r \in traffic' : r \in traffic \/ (r.kind = "register" /\ r.tap = "none" /\ r.answer = "none")
    BY <1>9 DEF Rotate, Request
  <2> QED
    BY <1>0, <1>q, <2>1 DEF OnePerTap, Answerable, OfStage
<1>10. ASSUME NEW r \in traffic, LoseCall(r)
     PROVE OnePerTap(traffic') /\ Answerable(traffic') /\ OfStage(traffic', leaving')
  <2>1. OnePerTap(ToPhone(r, "failed")) /\ Answerable(ToPhone(r, "failed")) /\ OfStage(ToPhone(r, "failed"), leaving)
    BY ToPhoneCalls
  <2>2. r.answer = "none" => [r EXCEPT !.tap = "none"].tap = "none" /\ [r EXCEPT !.tap = "none"].answer = "none"
    BY <1>0 DEF PushCalls
  <2>3. leaving' = leaving
    BY <1>10 DEF LoseCall
  <2>4. CASE traffic' = ToPhone(r, "failed")
    BY <2>1, <2>3, <2>4
  <2>5. CASE r.answer = "none" /\ r.tap \in Taps /\ traffic' = ToPhone(r, "failed") \union {[r EXCEPT !.tap = "none"]}
    <3>1. \A q \in traffic' : q \in ToPhone(r, "failed") \/ (q.tap = "none" /\ q.answer = "none")
      BY <2>2, <2>5
    <3> QED
      BY <1>q, <2>1, <2>3, <3>1 DEF OnePerTap, Answerable, OfStage
  <2> QED
    BY <1>10, <2>4, <2>5 DEF LoseCall
<1>11. CASE Lapse \/ (\E u \in Users : ReadDevices(u)) \/ SendToDevices \/ DeleteInvalid \/ UNCHANGED pushVars
  <2>1. UNCHANGED <<traffic, leaving>>
    BY <1>11 DEF Lapse, ReadDevices, SendToDevices, DeleteInvalid, pushVars
  <2> QED
    BY <1>0, <2>1
<1> QED
  BY <1>1, <1>2, <1>3, <1>4, <1>5, <1>6, <1>7, <1>8, <1>9, <1>10, <1>11 DEF PushNext

(* Sessions stay with whom they were made for.                               *)
LEMMA SessionsStay ==
  ASSUME PhoneTyped, ServePhone
  PROVE  /\ DOMAIN bearers' = DOMAIN bearers
         /\ \A b \in DOMAIN bearers : bearers'[b].user = bearers[b].user /\ bearers[b] \in Bearers
<1> PICK r \in traffic : r.answer = "none" /\ (ServeRegister(r) \/ ServeUnregister(r) \/ ServeSignOut(r))
  BY DEF ServePhone
<1>1. \A b \in DOMAIN bearers : bearers[b] \in Bearers
  BY DEF PhoneTyped
<1>2. CASE bearers' = bearers
  BY <1>1, <1>2
<1>3. CASE Live(r.bearer) /\ bearers' = [bearers EXCEPT ![r.bearer].live = FALSE]
  BY <1>1, <1>3 DEF Live, Bearers
<1> QED
  BY <1>2, <1>3 DEF ServeRegister, ServeUnregister, ServeSignOut

LEMMA SessionStep ==
  ASSUME PhoneTyped, SignedInBySession, [PushNext]_pushVars
  PROVE  SignedInBySession'
<1>0. phone \in PhoneStates /\ stored \in 0..Len(bearers) /\ bearers \in Seq(Bearers)
  BY PhoneOf DEF PhoneTyped, PushTypeOK
<1>1. CASE ServePhone
  <2>1. UNCHANGED <<phone, stored>>
    BY <1>1 DEF ServePhone
  <2>2. stored # 0 => bearers'[stored].user = bearers[stored].user
    BY <1>0, <1>1, SessionsStay
  <2> QED
    BY <2>1, <2>2 DEF SignedInBySession, Signed
<1>2. CASE SignIn
  <2>1. stored' = Len(bearers) + 1 /\ phone'.user = Signers[Len(bearers) + 1]
        /\ bearers' = Append(bearers, [user |-> Signers[Len(bearers) + 1], live |-> TRUE])
    BY <1>2 DEF SignIn, Activated
  <2>2. bearers'[Len(bearers) + 1] = [user |-> Signers[Len(bearers) + 1], live |-> TRUE]
    BY <1>0, <2>1
  <2> QED
    BY <1>0, <2>1, <2>2 DEF SignedInBySession
<1>3. CASE TokenArrives
  <2>1. phone'.on = phone.on /\ phone'.user = phone.user
    BY <1>0, <1>3 DEF TokenArrives, PhoneStates
  <2> QED
    BY <1>3, <2>1 DEF TokenArrives, SignedInBySession, Signed
<1>4. CASE Launch
  <2>1. CASE Live(stored) /\ Activated(bearers[stored].user, stored) /\ UNCHANGED stored
    BY <1>0, <1>4, <2>1 DEF Launch, Activated, Live, SignedInBySession
  <2>2. CASE phone' = [Off EXCEPT !.on = TRUE]
    BY <2>2 DEF Off, SignedInBySession, Signed
  <2> QED
    BY <1>4, <2>1, <2>2 DEF Launch
<1>5. ASSUME NEW t \in Taps, SignOut(t) PROVE SignedInBySession'
  <2>1. phone'.on = phone.on /\ (phone'.user = phone.user \/ phone'.user = Absent)
    BY <1>0, <1>5 DEF SignOut, PhoneStates
  <2> QED
    BY <1>5, <2>1 DEF SignOut, SignedInBySession, Signed
<1>6. ASSUME NEW r \in traffic, HearUnregistered(r) PROVE SignedInBySession'
  <2>1. phone'.on = phone.on /\ (phone'.user = phone.user \/ phone'.user = Absent)
    BY <1>0, <1>6 DEF HearUnregistered, PhoneStates
  <2> QED
    BY <1>6, <2>1 DEF HearUnregistered, SignedInBySession, Signed
<1>7. ASSUME NEW r \in traffic, HearSignedOut(r) PROVE SignedInBySession'
  BY <1>0, <1>7 DEF HearSignedOut, SignedInBySession, Signed, PhoneStates
<1>8. CASE Kill
  BY <1>8 DEF Kill, Off, SignedInBySession, Signed
<1>9. CASE Lapse \/ Rotate \/ (\E r \in traffic : LoseCall(r)) \/ (\E u \in Users : ReadDevices(u))
           \/ SendToDevices \/ DeleteInvalid \/ UNCHANGED pushVars
  <2>1. UNCHANGED <<phone, stored, bearers>>
    BY <1>9 DEF Lapse, Rotate, LoseCall, ReadDevices, SendToDevices, DeleteInvalid, pushVars
  <2> QED
    BY <2>1 DEF SignedInBySession, Signed
<1> QED
  BY <1>1, <1>2, <1>3, <1>4, <1>5, <1>6, <1>7, <1>8, <1>9 DEF PushNext

-----------------------------------------------------------------------------
\* While nothing goes wrong

(* What went wrong stays so.                                                 *)
LEMMA ProperBefore ==
  ASSUME PhoneTyped, [PushNext]_pushVars, Proper'
  PROVE  Proper
<1>1. CASE UNCHANGED pushVars
  BY <1>1 DEF pushVars, Proper
<1>2. CASE ServePhone
  BY <1>2 DEF ServePhone, ServeRegister, ServeUnregister, ServeSignOut, Proper
<1>3. CASE SignIn \/ TokenArrives \/ Launch \/ Lapse \/ SendToDevices \/ DeleteInvalid
  BY <1>3 DEF SignIn, TokenArrives, Launch, Lapse, SendToDevices, DeleteInvalid, Proper
<1>4. ASSUME NEW t \in Taps, SignOut(t) PROVE Proper
  BY <1>4 DEF SignOut, Happens, Proper, PhoneTyped
<1>5. CASE Kill \/ Rotate \/ \E u \in Users : ReadDevices(u)
  BY <1>5 DEF Kill, Rotate, ReadDevices, Happens, Proper, PhoneTyped
<1>6. ASSUME NEW r \in traffic, HearUnregistered(r) \/ HearSignedOut(r) \/ LoseCall(r) PROVE Proper
  BY <1>6 DEF HearUnregistered, HearSignedOut, LoseCall, Proper
<1> QED
  BY <1>1, <1>2, <1>3, <1>4, <1>5, <1>6 DEF PushNext

PushInductive == PhoneTyped /\ TokensThereWere /\ OneCallEach /\ SignedInBySession

(* A registration that does not overtake anything is of whoever is signed in.*)
LEMMA ProperRegister ==
  ASSUME PushInductive, Proper, ProperLeaving, RowOfSession, ServePhone, Proper',
         NEW r \in traffic, r.answer = "none", ServeRegister(r)
  PROVE  ProperLeaving' /\ RowOfSession'
<1>0. UNCHANGED <<platform, phone, leaving, stored, token, push, spent, bearers>> /\ traffic' = traffic \ {r}
  BY DEF ServePhone, ServeRegister
<1>1. ProperLeaving'
  BY <1>0 DEF ProperLeaving, Signed, Live
<1>2. CASE ~Live(r.bearer)
  <2>1. rows' = rows
    BY <1>2 DEF ServeRegister
  <2> QED
    BY <1>0, <1>1, <2>1 DEF RowOfSession, Signed, Live
<1>3. CASE Live(r.bearer)
  <2>1. leaving["first"] = "idle" /\ phone.user = bearers[r.bearer].user
    BY <1>3 DEF ServeRegister, Proper
  <2>2. bearers[r.bearer].user # Absent
    BY <1>3, BearerTyped, PushAssumption DEF PushInductive, PhoneTyped, Bearers
  <2>3. Signed
    BY <2>1, <2>2 DEF PushInductive, PhoneTyped, Off, Signed
  <2>4. Live(stored) /\ bearers[stored].user = phone.user
    BY <2>1, <2>3 DEF ProperLeaving, PushInductive, SignedInBySession
  <2>5. rows'[token.id] # Absent => rows'[token.id] = phone.user \/ rows'[token.id] = rows[token.id]
    BY <1>3, <2>1 DEF ServeRegister, PushInductive, PhoneTyped, PushTypeOK
  <2>6. \A q \in traffic : q.kind = "unregister" => leaving["first"] = "unregister"
    BY DEF ProperLeaving, PushInductive, OneCallEach, Taps
  <2>7. \A q \in traffic' : q.kind # "unregister"
    BY <1>0, <2>1, <2>6
  <2> QED
    BY <1>0, <1>1, <2>1, <2>3, <2>4, <2>5, <2>7 DEF RowOfSession, Signed, Live
<1> QED
  BY <1>2, <1>3

(* The unregistration of a session deletes the row of that session's user.   *)
LEMMA ProperUnregister ==
  ASSUME PushInductive, Proper, ProperLeaving, RowOfSession, ServePhone,
         NEW r \in traffic, r.answer = "none", ServeUnregister(r)
  PROVE  ProperLeaving' /\ RowOfSession'
<1>0. UNCHANGED <<platform, phone, leaving, stored, token, push, spent, bearers>> /\ r \in PushCalls
  BY DEF ServePhone, ServeUnregister, PushInductive, PhoneTyped
<1>1. r.kind = "unregister" /\ r.tap = "first" /\ r.bearer = stored
  BY DEF ServeUnregister, ProperLeaving
<1>2. traffic' = (traffic \ {r}) \union {[r EXCEPT !.answer = "ok"]}
  BY <1>1 DEF ServeUnregister, ToPhone, Taps
<1>a. PICK a : a = [r EXCEPT !.answer = "ok"]
  OBVIOUS
<1>3. a.kind = r.kind /\ a.tap = r.tap /\ a.bearer = r.bearer /\ a.token = r.token
  BY <1>0, <1>a DEF PushCalls
<1>4. ProperLeaving'
  BY <1>0, <1>1, <1>2, <1>a, <1>3 DEF ProperLeaving, Signed, Live
<1>5. r.token = token.id => rows'[token.id] = Absent
  <2>1. ASSUME r.token = token.id, rows[token.id] # Absent PROVE rows'[token.id] = Absent
    <3>1. Live(r.bearer) /\ bearers[r.bearer].user = rows[token.id]
      BY <1>1, <2>1 DEF RowOfSession
    <3>2. rows' = [rows EXCEPT ![token.id] = Absent]
      BY <2>1, <3>1 DEF ServeUnregister, DeleteByToken
    <3> QED
      BY <3>2 DEF PushInductive, PhoneTyped, PushTypeOK
  <2>2. CASE rows[token.id] = Absent
    BY <2>2 DEF ServeUnregister, DeleteByToken, PushInductive, PhoneTyped, PushTypeOK
  <2> QED
    BY <2>1, <2>2
<1>6. rows'[token.id] = Absent \/ rows'[token.id] = rows[token.id]
  BY DEF ServeUnregister, DeleteByToken, PushInductive, PhoneTyped, PushTypeOK
<1>7. RowOfSession'
  BY <1>0, <1>2, <1>a, <1>3, <1>5, <1>6, ZenonT(60) DEF RowOfSession, Signed, Live
<1> QED
  BY <1>4, <1>7

(* A session ends after its row.                                             *)
LEMMA ProperSignOut ==
  ASSUME PushInductive, Proper, ProperLeaving, RowOfSession, ServePhone,
         NEW r \in traffic, r.answer = "none", ServeSignOut(r)
  PROVE  ProperLeaving' /\ RowOfSession'
<1>0. UNCHANGED <<platform, phone, leaving, stored, token, push, spent, rows>> /\ r \in PushCalls
  BY DEF ServePhone, ServeSignOut, PushInductive, PhoneTyped
<1>1. r.kind = "signout" /\ r.tap = "first" /\ r.bearer = stored
  BY DEF ServeSignOut, ProperLeaving
<1>2. leaving["first"] = "signout"
  BY <1>1 DEF PushInductive, OneCallEach, Taps
<1>a. PICK x \in {"ok", "failed"} : traffic' = (traffic \ {r}) \union {[r EXCEPT !.answer = x]}
  BY <1>1 DEF ServeSignOut, ToPhone, Taps
<1>b. PICK a : a = [r EXCEPT !.answer = x]
  OBVIOUS
<1>3. traffic' = (traffic \ {r}) \union {a} /\ a.kind = r.kind /\ a.tap = r.tap /\ a.bearer = r.bearer
  BY <1>0, <1>a, <1>b DEF PushCalls
<1>4. ProperLeaving'
  BY <1>0, <1>1, <1>2, <1>3 DEF ProperLeaving, Signed
<1>5. rows[token.id] = Absent
  BY <1>2 DEF RowOfSession
<1> QED
  BY <1>0, <1>4, <1>5 DEF RowOfSession

(* A tap takes the way over the unregistration; the other ways went wrong.   *)
LEMMA ProperTap ==
  ASSUME PushInductive, Proper, ProperLeaving, RowOfSession, NEW t \in Taps, SignOut(t), Proper'
  PROVE  ProperLeaving' /\ RowOfSession'
<1>0. phone \in PhoneStates /\ UNCHANGED <<platform, stored, bearers, token, rows, push>>
  BY PhoneOf DEF SignOut, PushInductive
<1>1. UnregistersFirst
  <2>1. SUFFICES ASSUME ~UnregistersFirst PROVE FALSE
    OBVIOUS
  <2>2. t # "second" /\ Unknown = {}
    BY <2>1 DEF SignOut, Proper
  <2>3. phone.known # 0
    BY <2>2, PhoneOf DEF Unknown, PushInductive
  <2>4. leaving["first"] = "idle" /\ Signed
    BY <2>2 DEF SignOut, Taps
  <2> QED
    BY <2>1, <2>3, <2>4 DEF UnregistersFirst, Proper, ProperLeaving
<1>2. t = "first"
  BY <1>1 DEF SignOut, UnregistersFirst, ProperLeaving, Taps
<1>3. PICK c : c = Request("unregister", phone.known, "first")
  OBVIOUS
<1>4. /\ traffic' = traffic \union {c} /\ phone' = [phone EXCEPT !.client = FALSE]
      /\ leaving' = [leaving EXCEPT !["first"] = "unregister"] /\ Signed /\ leaving["first"] = "idle"
  BY <1>1, <1>2, <1>3 DEF SignOut
<1>5. c.kind = "unregister" /\ c.tap = "first" /\ c.bearer = stored /\ c.token = phone.known /\ c.answer = "none"
  BY <1>3 DEF Request
<1>6. /\ Signed' /\ ~phone'.client /\ phone'.known = phone.known /\ phone'.asked = phone.asked
      /\ leaving'["first"] = "unregister" /\ leaving'["second"] = leaving["second"]
  BY <1>0, <1>4 DEF PhoneStates, Signed, PushInductive, PhoneTyped, Taps
<1>7. Live(stored)
  BY <1>4 DEF ProperLeaving
<1>8. ProperLeaving'
  BY <1>0, <1>4, <1>5, <1>6, <1>7 DEF ProperLeaving, Live
<1>9. RowOfSession'
  BY <1>0, <1>4, <1>5, <1>6 DEF RowOfSession, Live
<1> QED
  BY <1>8, <1>9

(* After the unregistration the row is gone.                                 *)
LEMMA ProperUnregistered ==
  ASSUME PushInductive, Proper, ProperLeaving, RowOfSession, NEW r \in traffic, HearUnregistered(r), Proper'
  PROVE  ProperLeaving' /\ RowOfSession'
<1>0. phone \in PhoneStates /\ UNCHANGED <<platform, stored, bearers, token, rows, push>>
  BY PhoneOf DEF HearUnregistered, PushInductive
<1>1. r.tap = "first" /\ r.token = phone.known /\ r.answer # "none" /\ leaving["first"] = "unregister"
  BY DEF HearUnregistered, ProperLeaving
<1>2. r.token = token.id
  BY <1>1 DEF HearUnregistered, Unknown, Proper
<1>3. rows[token.id] = Absent
  BY <1>1, <1>2 DEF HearUnregistered, RowOfSession
<1>4. Signed /\ ~phone.client /\ stored # 0
  BY <1>1 DEF ProperLeaving, PushInductive, SignedInBySession
<1>5. PICK c : c = Request("signout", 0, "first")
  OBVIOUS
<1>6. /\ traffic' = (traffic \ {r}) \union {c} /\ phone' = [phone EXCEPT !.user = phone.user]
      /\ leaving' = [leaving EXCEPT !["first"] = "signout"]
  BY <1>1, <1>4, <1>5 DEF HearUnregistered, EndSession
<1>7. c.kind = "signout" /\ c.tap = "first" /\ c.bearer = stored
  BY <1>5 DEF Request
<1>8. phone' = phone /\ leaving'["first"] = "signout" /\ leaving'["second"] = leaving["second"]
  BY <1>0, <1>6 DEF PhoneStates, PushInductive, PhoneTyped, Taps
<1>9. ProperLeaving'
  BY <1>0, <1>4, <1>6, <1>7, <1>8 DEF ProperLeaving, Signed
<1> QED
  BY <1>0, <1>3, <1>9 DEF RowOfSession

LEMMA ProperSignedOut ==
  ASSUME PushInductive, Proper, ProperLeaving, RowOfSession, NEW r \in traffic, HearSignedOut(r)
  PROVE  ProperLeaving' /\ RowOfSession'
<1>0. phone \in PhoneStates /\ UNCHANGED <<platform, bearers, token, rows, push>>
  BY PhoneOf DEF HearSignedOut, PushInductive
<1>1. r.tap = "first" /\ leaving["first"] = "signout" /\ traffic' = traffic \ {r}
  BY DEF HearSignedOut, ProperLeaving
<1>2. phone'.user = Absent /\ phone'.known = phone.known /\ phone'.asked = phone.asked
      /\ leaving'["first"] = "idle" /\ leaving'["second"] = leaving["second"]
  BY <1>0, <1>1 DEF HearSignedOut, PhoneStates, PushInductive, PhoneTyped, Taps
<1>3. \A q \in traffic' : q.kind = "register"
  BY <1>1 DEF ProperLeaving, PushInductive, OneCallEach, Taps
<1>4. rows[token.id] = Absent
  BY <1>1 DEF RowOfSession
<1> QED
  BY <1>0, <1>2, <1>3, <1>4 DEF ProperLeaving, RowOfSession, Signed

(* Signing in finds no row.                                                  *)
LEMMA ProperSignIn ==
  ASSUME PushInductive, Proper, ProperLeaving, RowOfSession, SignIn
  PROVE  ProperLeaving' /\ RowOfSession'
<1>0. phone \in PhoneStates /\ UNCHANGED <<platform, token, rows, push, leaving>> /\ bearers \in Seq(Bearers)
  BY PhoneOf DEF SignIn, PushInductive, PhoneTyped
<1>1. leaving["first"] = "idle" /\ rows[token.id] = Absent
  BY DEF SignIn, Signed, ProperLeaving, RowOfSession
<1>2. stored' = Len(bearers) + 1 /\ bearers' = Append(bearers, [user |-> Signers[Len(bearers) + 1], live |-> TRUE])
      /\ phone'.client /\ platform = "ios" /\ phone'.known = phone.known
      /\ phone'.asked = (IF phone.asked = "no" THEN "asked" ELSE phone.asked)
  BY DEF SignIn, Activated, Proper
<1>3. Live(stored)'
  BY <1>0, <1>2 DEF Live
<1>4. \A q \in traffic' : q.kind = "register"
  <2>1. \A q \in traffic : q.kind = "register"
    BY <1>1 DEF ProperLeaving, PushInductive, OneCallEach, PhoneTyped, PushCalls, Taps
  <2> QED
    BY <2>1 DEF SignIn, Activated, Registration
<1>5. ProperLeaving'
  BY <1>0, <1>1, <1>2, <1>3, <1>4 DEF ProperLeaving
<1> QED
  BY <1>0, <1>1, <1>5 DEF RowOfSession

LEMMA ProperToken ==
  ASSUME PushInductive, Proper, ProperLeaving, RowOfSession, TokenArrives
  PROVE  ProperLeaving' /\ RowOfSession'
<1>0. phone \in PhoneStates /\ UNCHANGED <<platform, stored, bearers, token, rows, push, leaving>>
  BY PhoneOf DEF TokenArrives, PushInductive
<1>1. phone.asked = "asked" /\ phone.known = 0
  BY DEF TokenArrives, ProperLeaving
<1>2. phone'.on = phone.on /\ phone'.user = phone.user /\ phone'.client = phone.client /\ phone'.asked = "answered"
  BY <1>0 DEF TokenArrives, PhoneStates
<1>3. \A q \in traffic' : q \in traffic \/ q.kind = "register"
  BY DEF TokenArrives, Registration
<1>4. \A q \in traffic' : q.kind # "unregister"
  <2>1. \A q \in traffic : q.kind = "unregister" => q.token = 0
    BY <1>1 DEF ProperLeaving
  <2> QED
    BY <1>3, <2>1 DEF PushInductive, TokensThereWere
<1> QED
  BY <1>0, <1>2, <1>3, <1>4 DEF ProperLeaving, RowOfSession, Signed, Live

(* The app is killed between two sign-outs, and comes back with the session. *)
LEMMA ProperKill ==
  ASSUME PushInductive, Proper, ProperLeaving, RowOfSession, Kill, Proper'
  PROVE  ProperLeaving' /\ RowOfSession'
<1>0. UNCHANGED <<platform, stored, bearers, token, rows, push>> /\ phone' = Off /\ leaving' = [t \in Taps |-> "idle"]
  BY DEF Kill
<1>1. leaving["first"] = "idle"
  BY DEF Kill, Proper
<1>2. \A q \in traffic : q.kind = "register" /\ q \in PushCalls
  BY <1>1 DEF ProperLeaving, PushInductive, OneCallEach, PhoneTyped, PushCalls, Taps
<1>3. \A q \in traffic' : q.kind = "register"
  BY <1>2 DEF Kill, PushCalls
<1> QED
  BY <1>0, <1>3 DEF ProperLeaving, RowOfSession, Signed, Live, Off, Taps

LEMMA ProperLaunch ==
  ASSUME PushInductive, Proper, ProperLeaving, RowOfSession, Launch
  PROVE  ProperLeaving' /\ RowOfSession'
<1>0. UNCHANGED <<platform, bearers, rows, leaving, push>> /\ token'.id = token.id /\ platform = "ios" /\ ~phone.on
  BY DEF Launch, Proper
<1>1. leaving["first"] = "idle" /\ phone.known = 0
  BY <1>0, PhoneOf DEF ProperLeaving, Signed, PushInductive, Off
<1>2. \A q \in traffic : q.kind = "register"
  BY <1>1 DEF ProperLeaving, PushInductive, OneCallEach, PhoneTyped, PushCalls, Taps
<1>3. \A q \in traffic' : q.kind = "register"
  BY <1>2 DEF Launch, Activated, Registration
<1>4. CASE Live(stored) /\ Activated(bearers[stored].user, stored) /\ UNCHANGED stored
  <2>1. bearers[stored].user # Absent
    BY <1>4, BearerTyped, PushAssumption DEF PushInductive, PhoneTyped, Bearers
  <2>2. phone'.client /\ phone'.known = 0 /\ Signed'
    BY <1>0, <1>1, <1>4, <2>1 DEF Activated, Signed
  <2> QED
    BY <1>0, <1>1, <1>3, <1>4, <2>2 DEF ProperLeaving, RowOfSession, Live
<1>5. CASE ~Live(stored) /\ phone' = [Off EXCEPT !.on = TRUE]
  <2>1. rows[token.id] = Absent
    BY <1>5 DEF RowOfSession
  <2>2. phone'.user = Absent /\ phone'.known = 0
    BY <1>5 DEF Off
  <2> QED
    BY <1>0, <1>1, <1>3, <2>1, <2>2 DEF ProperLeaving, RowOfSession, Signed
<1> QED
  BY <1>4, <1>5 DEF Launch

(* A new token has no row yet; the worker only deletes rows.                 *)
LEMMA ProperOthers ==
  ASSUME PushInductive, Proper, ProperLeaving, RowOfSession, PhoneTyped',
         Lapse \/ Rotate \/ (\E u \in Users : ReadDevices(u)) \/ SendToDevices \/ DeleteInvalid \/ UNCHANGED pushVars
  PROVE  ProperLeaving' /\ RowOfSession'
<1>0. UNCHANGED <<platform, phone, leaving, stored, bearers>>
  BY DEF Lapse, Rotate, ReadDevices, SendToDevices, DeleteInvalid, pushVars
<1>1. UNCHANGED traffic
  BY DEF Lapse, Rotate, ReadDevices, SendToDevices, DeleteInvalid, pushVars, Proper
<1>2. ProperLeaving'
  BY <1>0, <1>1 DEF ProperLeaving, Signed, Live
<1>3. rows'[token'.id] = Absent \/ (token'.id = token.id /\ rows'[token.id] = rows[token.id])
  <2>1. CASE Rotate
    <3>1. token'.id = token.id + 1 /\ rows' = rows /\ token'.id \in TokenIds /\ token.id \in Nat
      BY <2>1, PhoneOf DEF Rotate, PhoneTyped, PushTypeOK, PushInductive
    <3> QED
      BY <3>1 DEF PushInductive, TokensThereWere
  <2>2. CASE DeleteInvalid
    BY <2>2 DEF DeleteInvalid, PushInductive, PhoneTyped, PushTypeOK
  <2>3. CASE Lapse \/ (\E u \in Users : ReadDevices(u)) \/ SendToDevices \/ UNCHANGED pushVars
    BY <2>3 DEF Lapse, ReadDevices, SendToDevices, pushVars, PushInductive, PhoneTyped, PushTypeOK
  <2> QED
    BY <2>1, <2>2, <2>3
<1>4. RowOfSession'
  BY <1>0, <1>1, <1>3 DEF RowOfSession, Signed, Live
<1> QED
  BY <1>2, <1>4

LEMMA ProperStep ==
  ASSUME PushInductive, Proper => ProperLeaving /\ RowOfSession, [PushNext]_pushVars, PhoneTyped', Proper'
  PROVE  ProperLeaving' /\ RowOfSession'
<1>0. Proper /\ ProperLeaving /\ RowOfSession
  BY ProperBefore DEF PushInductive
<1>1. CASE ServePhone
  <2> PICK r \in traffic : r.answer = "none" /\ (ServeRegister(r) \/ ServeUnregister(r) \/ ServeSignOut(r))
    BY <1>1 DEF ServePhone
  <2> QED
    BY <1>0, <1>1, ProperRegister, ProperUnregister, ProperSignOut
<1>2. ASSUME NEW t \in Taps, SignOut(t) PROVE ProperLeaving' /\ RowOfSession'
  BY <1>0, <1>2, ProperTap
<1>3. ASSUME NEW r \in traffic, HearUnregistered(r) PROVE ProperLeaving' /\ RowOfSession'
  BY <1>0, <1>3, ProperUnregistered
<1>4. ASSUME NEW r \in traffic, HearSignedOut(r) PROVE ProperLeaving' /\ RowOfSession'
  BY <1>0, <1>4, ProperSignedOut
<1>5. CASE SignIn \/ TokenArrives \/ Kill \/ Launch
  BY <1>0, <1>5, ProperSignIn, ProperToken, ProperKill, ProperLaunch
<1>6. CASE Lapse \/ Rotate \/ (\E u \in Users : ReadDevices(u)) \/ SendToDevices \/ DeleteInvalid \/ UNCHANGED pushVars
  BY <1>0, <1>6, ProperOthers
<1>7. ASSUME NEW r \in traffic, LoseCall(r) PROVE FALSE
  BY <1>7 DEF LoseCall, Proper
<1> QED
  BY <1>1, <1>2, <1>3, <1>4, <1>5, <1>6, <1>7 DEF PushNext

-----------------------------------------------------------------------------
\* The properties

LEMMA PushStart == PushInit => PushInv
<1> SUFFICES ASSUME PushInit PROVE PushInv
  OBVIOUS
<1>1. PhoneTyped
  BY TypedStart
<1>2. traffic = {} /\ stored = 0 /\ leaving["first"] = "idle" /\ leaving["second"] = "idle" /\ ~Signed
  BY DEF PushInit, Off, Signed, Taps
<1>3. phone.known = 0 /\ phone.on /\ ~token.refused /\ token.id = 1
  BY DEF PushInit, Off
<1>4. push.stage = "idle" /\ push.tokens = {} /\ \A t \in TokenIds : rows[t] = Absent
  BY DEF PushInit, Idle
<1>5. TokensThereWere
  BY <1>2, <1>3, <1>4 DEF TokensThereWere
<1>6. OneCallEach /\ SignedInBySession
  BY <1>2 DEF OneCallEach, SignedInBySession
<1>7. ProperLeaving
  BY <1>2, <1>3 DEF ProperLeaving
<1>8. RowOfSession
  BY <1>1, <1>4 DEF RowOfSession, PhoneTyped, PushTypeOK
<1> QED
  BY <1>1, <1>5, <1>6, <1>7, <1>8 DEF PushInv

LEMMA PushStep == PushInv /\ [PushNext]_pushVars => PushInv'
<1> SUFFICES ASSUME PushInv, [PushNext]_pushVars PROVE PushInv'
  OBVIOUS
<1>1. PushInductive /\ (Proper => ProperLeaving /\ RowOfSession)
  BY DEF PushInv, PushInductive
<1>2. PhoneTyped' /\ TokensThereWere' /\ OneCallEach' /\ SignedInBySession'
  BY <1>1, TypedStep, TokensStep, CallsStep, SessionStep DEF PushInductive
<1>3. Proper' => ProperLeaving' /\ RowOfSession'
  BY <1>1, <1>2, ProperStep
<1> QED
  BY <1>2, <1>3 DEF PushInv

THEOREM PushInvariant == PushSpec => []PushInv
<1> QED
  BY PushStart, PushStep, PTL DEF PushSpec

LEMMA SilentBySession == PushInv => SilentWhenSignedOut
BY DEF PushInv, SilentWhenSignedOut, Proper, RowOfSession

(* Whoever's phone it is, and stays ...                                      *)
KeepsPhone == Bound /\ Settled /\ Signed' /\ phone'.user = phone.user /\ Settled' /\ token'.id = token.id
(* ... keeps the row, but for what excuses it.                               *)
RowKept == \/ rows'[token.id] = phone.user
           \/ token.back \/ Astray(excused') \/ \E r \in traffic \ traffic' : ComesLate(r)

LEMMA KeptServing ==
  ASSUME PushInv, KeepsPhone, NEW r \in traffic, r.answer = "none",
         ServeRegister(r) \/ ServeUnregister(r) \/ ServeSignOut(r)
  PROVE  RowKept
<1>0. r \in PushCalls /\ rows \in [TokenIds -> Users \union {Absent}] /\ token.id \in TokenIds
      /\ rows[token.id] = phone.user
  BY DEF PushInv, PhoneTyped, PushTypeOK, KeepsPhone, Bound
<1>1. CASE ServeRegister(r)
  <2>1. CASE Live(r.bearer) /\ phone.user # bearers[r.bearer].user
    <3>1. "overtaken" \in excused'
      BY <1>1, <2>1 DEF ServeRegister
    <3> QED
      BY <3>1 DEF RowKept, Astray
  <2>2. CASE Live(r.bearer) /\ phone.user = bearers[r.bearer].user
    <3>1. rows' = [rows EXCEPT ![r.token] = phone.user]
      BY <1>1, <2>2 DEF ServeRegister
    <3> QED
      BY <1>0, <3>1 DEF RowKept
  <2>3. CASE ~Live(r.bearer)
    BY <1>0, <1>1, <2>3 DEF ServeRegister, RowKept
  <2> QED
    BY <2>1, <2>2, <2>3
<1>2. CASE ServeUnregister(r)
  <2>1. r.tap = "none" /\ r.kind = "unregister"
    BY <1>0, <1>2 DEF ServeUnregister, PushInv, OneCallEach, KeepsPhone, Settled, PushCalls
  <2>2. r \in traffic \ traffic'
    BY <1>2, <2>1 DEF ServeUnregister, ToPhone, Taps
  <2>3. CASE Live(r.bearer) /\ bearers[r.bearer].user = phone.user
    BY <2>1, <2>2, <2>3 DEF ComesLate, RowKept
  <2>4. CASE ~(Live(r.bearer) /\ bearers[r.bearer].user = phone.user)
    <3>1. rows'[token.id] = rows[token.id]
      BY <1>0, <1>2, <2>4 DEF ServeUnregister, DeleteByToken
    <3> QED
      BY <1>0, <3>1 DEF RowKept
  <2> QED
    BY <2>3, <2>4
<1>3. CASE ServeSignOut(r)
  BY <1>0, <1>3 DEF ServeSignOut, RowKept
<1> QED
  BY <1>1, <1>2, <1>3

LEMMA Kept ==
  ASSUME PushInv, KeepsPhone, [PushNext]_pushVars
  PROVE  RowKept
<1>1. CASE ServePhone
  BY <1>1, KeptServing DEF ServePhone
<1>2. CASE DeleteInvalid
  <2>1. rows[token.id] = phone.user /\ token.id \in TokenIds /\ phone.on
    BY DEF PushInv, PhoneTyped, PushTypeOK, KeepsPhone, Bound, Signed
  <2>2. CASE token.id \in push.tokens
    BY <1>2, <2>1, <2>2 DEF DeleteInvalid, PushInv, TokensThereWere, RowKept
  <2>3. CASE token.id \notin push.tokens
    BY <1>2, <2>1, <2>3 DEF DeleteInvalid, RowKept
  <2> QED
    BY <2>2, <2>3
<1>3. CASE ~ServePhone /\ ~DeleteInvalid
  <2>1. rows' = rows
    BY <1>3 DEF PushNext, SignIn, TokenArrives, SignOut, HearUnregistered, HearSignedOut, Kill, Launch, Lapse,
                Rotate, LoseCall, ReadDevices, SendToDevices, pushVars
  <2> QED
    BY <2>1 DEF KeepsPhone, Bound, RowKept
<1> QED
  BY <1>1, <1>2, <1>3

(* For every list of users, tokens and mishaps: a phone that is signed out   *)
(* gets no pushes, and no late call or clean-up takes the phone away from a  *)
(* user who stays, but for the exceptions the two properties name            *)
(* (registerIfReady, deactivate, upsertDevice, deleteByToken,                *)
(* deleteInvalidTokens).                                                     *)
THEOREM PushAlwaysSound == PushSpec => PushSound
<1>1. PushInv => PushTypeOK /\ SilentWhenSignedOut
  BY SilentBySession DEF PushInv, PhoneTyped
<1>2. PushInv /\ [PushNext]_pushVars =>
        [(Bound /\ Settled /\ Signed' /\ phone'.user = phone.user /\ Settled' /\ token'.id = token.id)
           => \/ rows'[token.id] = phone.user
              \/ token.back \/ Astray(excused') \/ \E r \in traffic \ traffic' : ComesLate(r)]_pushVars
  BY Kept DEF KeepsPhone, RowKept
<1> QED
  BY <1>1, <1>2, PushInvariant, PTL DEF PushSpec, PushSound, RowsStay

-----------------------------------------------------------------------------
\* NotificationViews: the invariant

Answers == Inboxes \union {NotYet}
CallKinds == {{"list"}, {"count"}, {"read"}, {"readAll"}, {"list", "count"}}
Calls == [kinds : CallKinds, of : Notices \union {"bell", "run", "pull"},
          got : UNION {[ks -> Answers] : ks \in CallKinds}, late : BOOLEAN]
FrameSet == [event : {"snapshot", "created"}, of : Notices \union {"all"}, box : Inboxes]
Feeds == [stage : {"off", "counting", "counted", "open"}, looking : SUBSET Notices, frames : Seq(FrameSet)]
Bells == [count : Nat, counted : BOOLEAN, list : Answers]

(* What each viewer asks; on the web one count at a time.                    *)
CallsOf(who, rs) ==
    /\ rs \subseteq Calls /\ \A r \in rs : r.got \in [r.kinds -> Answers]
    /\ who = "none" => rs = {}
    /\ who = "web" =>
         /\ \A r \in rs : r.kinds # {"list", "count"}
         /\ \A r, q \in rs : "count" \in r.kinds /\ "count" \in q.kinds => r = q
    /\ who = "ios" => \A r \in rs : r.kinds \in {{"list", "count"}, {"readAll"}}

BellTyped ==
    /\ viewer \in {"none", "web", "ios"}
    /\ inbox \in Inboxes /\ heard \in Inboxes
    /\ due \subseteq Notices /\ gap \subseteq missed /\ missed \subseteq Notices
    /\ feed \in Feeds /\ shown \in Bells /\ races \subseteq {"badge", "list"}
    /\ CallsOf(viewer, asks)
    /\ viewer = "none" => feed = FeedOff /\ heard = Empty /\ shown.count = 0

(* The way of a row's pulse: where it waits, once.                           *)
CreatedAt(n, i) == i \in DOMAIN feed.frames /\ feed.frames[i].event = "created" /\ feed.frames[i].of = n
Pending(n) == n \in due \/ n \in feed.looking \/ \E i \in DOMAIN feed.frames : CreatedAt(n, i)
OnceEach ==
    /\ due \intersect feed.looking = {}
    /\ \A n \in Notices : \A i \in DOMAIN feed.frames : CreatedAt(n, i) => n \notin due /\ n \notin feed.looking
    /\ \A n \in Notices : \A i, j \in DOMAIN feed.frames : CreatedAt(n, i) /\ CreatedAt(n, j) => i = j
    /\ \A n \in Notices : Pending(n) => inbox[n] # "none"
    /\ \A i \in DOMAIN feed.frames : feed.frames[i].event = "created" =>
         feed.frames[i].of \in Notices /\ feed.frames[i].box[feed.frames[i].of] # "none"

(* The number is of rows that were counted, and of those that came since.    *)
Waiting == {n \in Notices : inbox[n] = "none" \/ Pending(n)}
CountBounded == shown.count + Cardinality(Waiting) <= 2 * Cardinality(Notices)

(* Whatever was read of the inbox is its past.                               *)
Past(box) == \A n \in Notices : ~Behind(inbox[n], box[n])
AllPast ==
    /\ Past(heard)
    /\ \A i \in DOMAIN feed.frames : Past(feed.frames[i].box)
    /\ \A r \in asks : \A k \in r.kinds : r.got[k] \in Inboxes => Past(r.got[k])

(* A mark that was served, and the rows it says are read.                    *)
Served(r, k) == k \in {"read", "readAll"} /\ r.kinds = {k} /\ r.got[k] \in Inboxes
ReadBy(r, n) == \E k \in {"read", "readAll"} : Served(r, k) /\ r.got[k][n] = "read"
MarkComing(n) == \E r \in asks : ReadBy(r, n)

(* What the viewer has not heard of is on its way, or was lost.              *)
FeedNews ==
    feed.stage \in {"counted", "open"} =>
         \A n \in Notices : inbox[n] # "none" =>
           \/ heard[n] # "none" \/ Pending(n) \/ n \in gap
           \/ \E i \in DOMAIN feed.frames : feed.frames[i].event = "snapshot" /\ feed.frames[i].box[n] # "none"
RowNews == \A n \in Notices \ missed : inbox[n] # "none" => heard[n] # "none" \/ Pending(n)
ReadNews == \A n \in Notices : inbox[n] = "read" => heard[n] = "read" \/ MarkComing(n)
AllRead == \A r \in asks : r.kinds = {"readAll"} /\ r.got["readAll"] \in Inboxes => UnreadIn(r.got["readAll"]) = {}
NewsComing == FeedNews /\ RowNews /\ ReadNews /\ AllRead

(* The badge is what was heard, or a count, or what a mark brings, will set it. *)
CountComing == \E r \in asks : "count" \in r.kinds \/ \E k \in {"read", "readAll"} : Served(r, k)
CountsNew == \A r \in asks : ~r.late /\ "count" \in r.kinds /\ r.got["count"] \in Inboxes => ~Older(r.got["count"])
BadgeIs == "badge" \notin races => CountComing \/ shown.count = Cardinality(UnreadIn(heard))
BadgeComing == CountsNew /\ BadgeIs

(* A list is right but for what is on its way to change it.                  *)
Fits(box, n) == box[n] = inbox[n] \/ Pending(n) \/ (box[n] = "unread" /\ MarkComing(n))
ListFits(box) == \A n \in Notices \ missed : Fits(box, n)
ListFetched == \E r \in asks : "list" \in r.kinds
ListsFit ==
    \A r \in asks : ~r.late /\ "list" \in r.kinds /\ r.got["list"] \in Inboxes => ListFits(r.got["list"])
ListIs ==
    viewer # "none" /\ "list" \notin races => ListFetched \/ (shown.list \in Inboxes /\ ListFits(shown.list))
ListIsComing == ListsFit /\ ListIs

BellInv == BellTyped /\ OnceEach /\ CountBounded /\ AllPast /\ NewsComing /\ BadgeComing /\ ListIsComing
-----------------------------------------------------------------------------
\* NotificationViews: rows, calls and frames

LEMMA RowIsAnswer ==
    ASSUME NEW n \in Notices
    PROVE  NotYet \notin Inboxes
<1>1. DOMAIN NotYet = 1..0
  BY DEF NotYet
<1>2. \A box \in Inboxes : DOMAIN box = Notices
  BY DEF Inboxes
<1> QED
  BY <1>1, <1>2

LEMMA EmptyTyped == Empty \in Inboxes
BY DEF Empty, Inboxes

LEMMA NewestTyped ==
    ASSUME heard \in Inboxes, NEW box \in Inboxes
    PROVE  /\ Newest(box) \in Inboxes
           /\ \A n \in Notices : Newest(box)[n] = IF Behind(box[n], heard[n]) THEN heard[n] ELSE box[n]
           /\ ~Older(box) => Newest(box) = box
<1>1. Newest(box) \in Inboxes /\ \A n \in Notices : Newest(box)[n] = IF Behind(box[n], heard[n]) THEN heard[n] ELSE box[n]
  BY DEF Newest, Inboxes
<1>2. ASSUME ~Older(box) PROVE Newest(box) = box
  <2>1. \A n \in Notices : Newest(box)[n] = box[n]
    BY <1>1, <1>2 DEF Older
  <2> QED
    BY <1>1, <2>1 DEF Inboxes
<1> QED
  BY <1>1, <1>2

LEMMA MarkedTyped ==
    ASSUME inbox \in Inboxes, NEW kind, NEW of
    PROVE  /\ MarkedBy(kind, of) \in Inboxes
           /\ \A n \in Notices : MarkedBy(kind, of)[n] =
                IF inbox[n] = "unread" /\ (kind = "readAll" \/ (kind = "read" /\ n = of)) THEN "read" ELSE inbox[n]
           /\ kind \notin {"read", "readAll"} => MarkedBy(kind, of) = inbox
<1>1. /\ MarkedBy(kind, of) \in Inboxes
      /\ \A n \in Notices : MarkedBy(kind, of)[n] =
           IF inbox[n] = "unread" /\ (kind = "readAll" \/ (kind = "read" /\ n = of)) THEN "read" ELSE inbox[n]
  BY DEF MarkedBy, Inboxes
<1>2. ASSUME kind \notin {"read", "readAll"} PROVE MarkedBy(kind, of) = inbox
  <2>1. \A n \in Notices : MarkedBy(kind, of)[n] = inbox[n]
    BY <1>1, <1>2
  <2> QED
    BY <1>1, <2>1 DEF Inboxes
<1> QED
  BY <1>1, <1>2

LEMMA NewCall ==
    ASSUME NEW ks \in CallKinds, NEW of \in Notices \union {"bell", "run", "pull"}
    PROVE  /\ Call(ks, of) \in Calls /\ Call(ks, of).got \in [Call(ks, of).kinds -> Answers]
           /\ Call(ks, of).kinds = ks /\ Call(ks, of).late = FALSE
           /\ \A k \in ks : Call(ks, of).got[k] = NotYet
<1>1. PICK g : g = [k \in ks |-> NotYet]
  OBVIOUS
<1>2. g \in [ks -> Answers] /\ \A k \in ks : g[k] = NotYet
  BY <1>1 DEF Answers
<1>3. PICK c : c = Call(ks, of)
  OBVIOUS
<1>4. c = [kinds |-> ks, of |-> of, got |-> g, late |-> FALSE]
  BY <1>1, <1>3 DEF Call
<1>5. g \in UNION {[js -> Answers] : js \in CallKinds}
  BY <1>2
<1>6. c \in Calls /\ c.kinds = ks /\ c.got = g /\ c.late = FALSE
  BY <1>4, <1>5 DEF Calls
<1> QED
  BY <1>2, <1>3, <1>6

(* A call that differs from another only in being late.                      *)
SameCall(r, q) == r.kinds = q.kinds /\ r.of = q.of /\ r.got = q.got

LEMMA LateCalls ==
    ASSUME NEW rs, rs \subseteq Calls
    PROVE  /\ Late(rs) \subseteq Calls
           /\ \A q \in Late(rs) : q.late /\ \E r \in rs : SameCall(r, q)
           /\ \A r \in rs : \E q \in Late(rs) : SameCall(r, q)
<1>1. ASSUME NEW r \in rs
      PROVE  [r EXCEPT !.late = TRUE] \in Calls /\ SameCall(r, [r EXCEPT !.late = TRUE]) /\ [r EXCEPT !.late = TRUE].late
  BY DEF Calls, SameCall
<1> QED
  BY <1>1 DEF Late

LEMMA AnsweredCall ==
    ASSUME NEW r \in Calls, r.got \in [r.kinds -> Answers], NEW kind \in r.kinds, NEW box \in Inboxes,
           NEW q, q = [r EXCEPT !.got[kind] = box]
    PROVE  /\ q \in Calls /\ q.got \in [q.kinds -> Answers]
           /\ q.kinds = r.kinds /\ q.of = r.of /\ q.late = r.late /\ q.got[kind] = box
           /\ \A k \in r.kinds \ {kind} : q.got[k] = r.got[k]
<1>1. PICK g : g = [r.got EXCEPT ![kind] = box]
  OBVIOUS
<1>2. g \in [r.kinds -> Answers] /\ g[kind] = box /\ \A k \in r.kinds \ {kind} : g[k] = r.got[k]
  BY <1>1 DEF Answers
<1>3. q = [r EXCEPT !.got = g]
  BY <1>1
<1>4. r.kinds \in CallKinds
  BY DEF Calls
<1>5. g \in UNION {[js -> Answers] : js \in CallKinds}
  BY <1>2, <1>4
<1>6. q \in Calls /\ q.kinds = r.kinds /\ q.of = r.of /\ q.late = r.late /\ q.got = g
  BY ONLY <1>3, <1>5, r \in Calls DEF Calls
<1> QED
  BY <1>2, <1>6

LEMMA CallFields ==
    ASSUME BellTyped, NEW r \in asks
    PROVE  /\ r \in Calls /\ r.kinds \in CallKinds /\ r.late \in BOOLEAN
           /\ r.got \in [r.kinds -> Answers]
           /\ \A k \in r.kinds : r.got[k] \in Answers
BY DEF BellTyped, CallsOf, Calls

\* Frames are written at the end and heard from the front.
LEMMA FrameWritten ==
    ASSUME NEW s \in Seq(FrameSet), NEW f \in FrameSet, NEW t, t = Append(s, f)
    PROVE  /\ t \in Seq(FrameSet) /\ DOMAIN t = DOMAIN s \union {Len(s) + 1} /\ Len(s) + 1 \notin DOMAIN s
           /\ t[Len(s) + 1] = f
           /\ \A i \in DOMAIN s : t[i] = s[i]
<1>1. t \in Seq(FrameSet) /\ Len(t) = Len(s) + 1 /\ t[Len(s) + 1] = f /\ \A i \in 1..Len(s) : t[i] = s[i]
  BY AppendProperties
<1> QED
  BY <1>1, LenProperties

LEMMA FrameHeard ==
    ASSUME NEW s \in Seq(FrameSet), s # <<>>, NEW t, t = Tail(s)
    PROVE  /\ t \in Seq(FrameSet) /\ Head(s) \in FrameSet /\ Head(s) = s[1] /\ 1 \in DOMAIN s
           /\ \A i \in DOMAIN t : i + 1 \in DOMAIN s /\ t[i] = s[i + 1] /\ i \in Nat
           /\ \A i \in DOMAIN s : i # 1 => i - 1 \in DOMAIN t /\ t[i - 1] = s[i] /\ i \in Nat
<1>1. t \in Seq(FrameSet) /\ Len(t) = Len(s) - 1 /\ \A i \in 1..Len(t) : t[i] = s[i + 1]
  BY HeadTailProperties
<1>2. Len(s) \in Nat /\ Len(s) # 0 /\ DOMAIN s = 1..Len(s) /\ DOMAIN t = 1..Len(t)
  BY <1>1, LenProperties, EmptySeq
<1>3. Head(s) = s[1] /\ 1 \in DOMAIN s /\ s[1] \in FrameSet
  BY <1>2, HeadTailProperties, ElementOfSeq
<1> QED
  BY <1>1, <1>2, <1>3
-----------------------------------------------------------------------------
\* What the steps make of the calls

(* A call that was there, or has no answer; a mark that was served goes on.  *)
Unanswered(q) == \A k \in q.kinds : q.got[k] = NotYet
Continues(rs, qs) ==
    /\ \A q \in qs : Unanswered(q) \/ \E r \in rs : SameCall(r, q) /\ (q.late \/ q = r)
    /\ \A r \in rs : (\E k \in {"read", "readAll"} : Served(r, k)) => \E q \in qs : SameCall(r, q)

LEMMA ContinuesMark ==
    ASSUME Continues(asks, asks'), NEW n \in Notices, MarkComing(n)
    PROVE  MarkComing(n)'
<1>1. PICK r \in asks, k \in {"read", "readAll"} : Served(r, k) /\ r.got[k][n] = "read"
  BY DEF MarkComing, ReadBy
<1>2. PICK q \in asks' : SameCall(r, q)
  BY <1>1 DEF Continues
<1>3. Served(q, k) /\ q.got[k][n] = "read"
  BY <1>1, <1>2 DEF Served, SameCall
<1> QED
  BY <1>2, <1>3 DEF MarkComing, ReadBy

LEMMA LateContinues ==
    ASSUME NEW rs, NEW who, CallsOf(who, rs)
    PROVE  /\ CallsOf(who, Late(rs)) /\ Continues(rs, Late(rs))
           /\ \A q \in Late(rs) : q.late
           /\ \A k \in {"list", "count"} : (\E r \in rs : k \in r.kinds) => \E q \in Late(rs) : k \in q.kinds
<1>1. /\ Late(rs) \subseteq Calls
      /\ \A q \in Late(rs) : q.late /\ \E r \in rs : SameCall(r, q)
      /\ \A r \in rs : \E q \in Late(rs) : SameCall(r, q)
  BY LateCalls DEF CallsOf
<1>2. Continues(rs, Late(rs))
  BY <1>1 DEF Continues
<1>3. ASSUME who = "web", NEW r \in Late(rs), NEW q \in Late(rs), "count" \in r.kinds, "count" \in q.kinds
      PROVE  r = q
  <2>1. PICK a \in rs : r = [a EXCEPT !.late = TRUE]
    BY DEF Late
  <2>2. PICK b \in rs : q = [b EXCEPT !.late = TRUE]
    BY DEF Late
  <2>3. a \in Calls /\ b \in Calls
    BY DEF CallsOf
  <2>4. a.kinds = r.kinds /\ b.kinds = q.kinds
    BY <2>1, <2>2, <2>3 DEF Calls
  <2>5. a = b
    BY <1>3, <2>4 DEF CallsOf
  <2> QED
    BY <2>1, <2>2, <2>5
<1>4. \A q \in Late(rs) : q.got \in [q.kinds -> Answers]
  BY <1>1 DEF CallsOf, SameCall
<1>5. who = "web" => \A q \in Late(rs) : q.kinds # {"list", "count"}
  BY <1>1 DEF CallsOf, SameCall
<1>6. who = "ios" => \A q \in Late(rs) : q.kinds \in {{"list", "count"}, {"readAll"}}
  BY <1>1 DEF CallsOf, SameCall
<1>7. who = "none" => Late(rs) = {}
  BY DEF CallsOf, Late
<1>8. \A k \in {"list", "count"} : (\E r \in rs : k \in r.kinds) => \E q \in Late(rs) : k \in q.kinds
  BY <1>1 DEF SameCall
<1> QED
  BY <1>1, <1>2, <1>3, <1>4, <1>5, <1>6, <1>7, <1>8 DEF CallsOf

LEMMA FewerCalls ==
    ASSUME NEW rs, NEW who, CallsOf(who, rs), NEW qs, qs \subseteq rs
    PROVE  CallsOf(who, qs)
BY DEF CallsOf

(* An answer that was heard is gone, and the others are as they were.        *)
LEMMA WithoutCall ==
    ASSUME NEW rs, NEW r \in rs, NEW qs, ~\E k \in {"read", "readAll"} : Served(r, k), Continues(rs \ {r}, qs)
    PROVE  Continues(rs, qs)
BY DEF Continues

LEMMA RestContinues ==
    ASSUME NEW rs, NEW r \in rs, ~\E k \in {"read", "readAll"} : Served(r, k)
    PROVE  Continues(rs, rs \ {r})
BY DEF Continues, SameCall

LEMMA MoreContinues ==
    ASSUME NEW rs, NEW qs, \A q \in qs : Unanswered(q)
    PROVE  Continues(rs, rs \union qs)
BY DEF Continues, SameCall

(* A web client that fetches anew has a list and a count under way.          *)
LEMMA InvalidatedCalls ==
    ASSUME NEW base, CallsOf("web", base), NEW qs, qs = Invalidated(base)
    PROVE  /\ CallsOf("web", qs) /\ Continues(base, qs)
           /\ (\E q \in qs : "list" \in q.kinds) /\ (\E q \in qs : "count" \in q.kinds)
           /\ \A q \in qs : ~q.late /\ (("list" \in q.kinds) \/ ("count" \in q.kinds)) => Unanswered(q)
<1> DEFINE lists == IF shown.list = NotYet THEN Fetches(base, "list") ELSE {}
           counts == IF shown.counted THEN {} ELSE Fetches(base, "count")
           first == lists \union counts
           kept == base \ (Fetches(base, "list") \union Fetches(base, "count"))
           again == {k \in {"list", "count"} : Fetches(first, k) = {}}
           fresh == {Call({k}, "bell") : k \in again}
<1>1. qs = kept \union Late(first) \union fresh
  BY DEF Invalidated
<1>2. first \subseteq base /\ (\A r \in lists : "list" \in r.kinds) /\ (\A r \in counts : "count" \in r.kinds)
  BY DEF Fetches
<1>3. \A r \in base : r.kinds \in {{"list"}, {"count"}, {"read"}, {"readAll"}}
  BY DEF CallsOf, Calls, CallKinds
<1>4. \A r \in kept : r \in base /\ r.kinds \in {{"read"}, {"readAll"}} /\ "list" \notin r.kinds /\ "count" \notin r.kinds
  <2> SUFFICES ASSUME NEW r \in kept
               PROVE  r \in base /\ r.kinds \in {{"read"}, {"readAll"}} /\ "list" \notin r.kinds /\ "count" \notin r.kinds
    OBVIOUS
  <2>1. r \in base /\ "list" \notin r.kinds /\ "count" \notin r.kinds
    BY DEF Fetches
  <2> QED
    BY <1>3, <2>1
<1>5. CallsOf("web", first)
  BY <1>2, FewerCalls
<1>6. PICK late : late = Late(first)
  OBVIOUS
<1>7. CallsOf("web", late) /\ Continues(first, late) /\ (\A q \in late : q.late)
      /\ \A k \in {"list", "count"} : (\E r \in first : k \in r.kinds) => \E q \in late : k \in q.kinds
  BY <1>5, <1>6, LateContinues
<1>8. ASSUME NEW q \in late PROVE \E r \in first : SameCall(r, q)
  BY <1>6, <1>5, LateCalls DEF CallsOf
<1>9. ASSUME NEW q \in fresh
      PROVE  /\ q \in Calls /\ q.got \in [q.kinds -> Answers] /\ Unanswered(q)
             /\ \E k \in again : q = Call({k}, "bell") /\ q.kinds = {k}
  <2>1. PICK k \in again : q = Call({k}, "bell")
    OBVIOUS
  <2>2. {k} \in CallKinds
    BY DEF CallKinds
  <2>3. /\ Call({k}, "bell") \in Calls /\ Call({k}, "bell").got \in [Call({k}, "bell").kinds -> Answers]
        /\ Call({k}, "bell").kinds = {k} /\ \A j \in {k} : Call({k}, "bell").got[j] = NotYet
    BY <2>2, NewCall, ZenonT(60)
  <2> QED
    BY <2>1, <2>3 DEF Unanswered
<1>10. qs = kept \union late \union fresh
  BY <1>1, <1>6
<1>11. qs \subseteq Calls /\ \A q \in qs : q.got \in [q.kinds -> Answers]
  BY <1>4, <1>7, <1>9, <1>10 DEF CallsOf
<1>12. \A q \in qs : q.kinds # {"list", "count"}
  <2> HIDE DEF fresh, kept, first, again
  <2>1. \A q \in fresh : q.kinds # {"list", "count"}
    <3> SUFFICES ASSUME NEW q \in fresh, q.kinds = {"list", "count"} PROVE FALSE
      OBVIOUS
    <3>1. PICK k \in again : q.kinds = {k}
      BY <1>9
    <3>2. "list" \in {k} /\ "count" \in {k}
      BY <3>1
    <3> QED
      BY <3>2
  <2> QED
    BY <1>4, <1>7, <1>10, <2>1 DEF CallsOf
<1>13. ASSUME NEW k \in {"list", "count"} PROVE \E q \in qs : k \in q.kinds
  <2>1. CASE k \in again
    <3>1. Call({k}, "bell") \in fresh
      BY <2>1
    <3>2. {k} \in CallKinds
      BY DEF CallKinds
    <3>3. Call({k}, "bell").kinds = {k}
      BY <3>2, NewCall
    <3> QED
      BY <1>10, <3>1, <3>3
  <2>2. CASE k \notin again
    <3>1. \E r \in first : k \in r.kinds
      BY <2>2 DEF Fetches
    <3> QED
      BY <1>7, <1>10, <3>1
  <2> QED
    BY <2>1, <2>2
<1>14. ASSUME NEW r \in qs, NEW q \in qs, "count" \in r.kinds, "count" \in q.kinds
       PROVE  r = q
  <2>1. r \in late \union fresh /\ q \in late \union fresh
    BY <1>4, <1>10, <1>14
  <2>2. \A x \in fresh : "count" \in x.kinds => x = Call({"count"}, "bell") /\ "count" \in again
    BY <1>9
  <2>3. CASE r \in late /\ q \in late
    BY <1>7, <1>14, <2>3 DEF CallsOf
  <2>4. CASE r \in fresh /\ q \in fresh
    BY <1>14, <2>2, <2>4
  <2>5. ASSUME NEW x \in late, "count" \in x.kinds PROVE "count" \notin again
    <3>1. \E y \in first : "count" \in y.kinds
      BY <1>8, <2>5 DEF SameCall
    <3> QED
      BY <3>1 DEF Fetches
  <2> QED
    BY <1>14, <2>1, <2>2, <2>3, <2>4, <2>5
<1>15. CallsOf("web", qs)
  BY <1>11, <1>12, <1>14 DEF CallsOf
<1>16. Continues(base, qs)
  <2>1. ASSUME NEW q \in qs PROVE Unanswered(q) \/ \E r \in base : SameCall(r, q) /\ (q.late \/ q = r)
    <3>1. CASE q \in kept
      BY <1>4, <3>1 DEF SameCall
    <3>2. CASE q \in late
      BY <1>2, <1>7, <1>8, <3>2
    <3>3. CASE q \in fresh
      BY <1>9, <3>3
    <3> QED
      BY <1>10, <3>1, <3>2, <3>3
  <2>2. ASSUME NEW r \in base, NEW k \in {"read", "readAll"}, Served(r, k) PROVE \E q \in qs : SameCall(r, q)
    <3>1. r \in kept
      BY <2>2 DEF Served, Fetches
    <3> QED
      BY <1>10, <3>1 DEF SameCall
  <2> QED
    BY <2>1, <2>2 DEF Continues
<1>17. ASSUME NEW q \in qs, ~q.late, ("list" \in q.kinds) \/ ("count" \in q.kinds) PROVE Unanswered(q)
  BY <1>4, <1>7, <1>9, <1>10, <1>17
<1> QED
  BY <1>13, <1>15, <1>16, <1>17

LEMMA CallMade ==
    ASSUME NEW ks \in CallKinds, NEW of \in Notices \union {"bell", "run", "pull"}, NEW c, c = Call(ks, of)
    PROVE  c \in Calls /\ c.got \in [c.kinds -> Answers] /\ c.kinds = ks /\ Unanswered(c)
<1>1. /\ Call(ks, of) \in Calls /\ Call(ks, of).got \in [Call(ks, of).kinds -> Answers]
      /\ Call(ks, of).kinds = ks /\ \A k \in ks : Call(ks, of).got[k] = NotYet
  BY NewCall
<1>2. c \in Calls /\ c.got \in [c.kinds -> Answers] /\ c.kinds = ks /\ \A k \in ks : c.got[k] = NotYet
  BY <1>1, Zenon
<1> QED
  BY <1>2 DEF Unanswered

LEMMA SnapshotCalls ==
    ASSUME NEW rs, NEW who, CallsOf(who, rs),
           NEW qs, qs = (rs \ Fetches(rs, "count")) \union Late(Fetches(rs, "count"))
    PROVE  /\ CallsOf(who, qs) /\ Continues(rs, qs)
           /\ \A q \in qs : "count" \in q.kinds => q.late
           /\ \A k \in {"list", "count"} : (\E r \in rs : k \in r.kinds) => \E q \in qs : k \in q.kinds
           /\ \A q \in qs : ~q.late => q \in rs
<1>1. PICK counts : counts = Fetches(rs, "count")
  OBVIOUS
<1>2. PICK late : late = Late(counts)
  OBVIOUS
<1>3. counts \subseteq rs /\ (\A r \in rs : "count" \in r.kinds <=> r \in counts)
  BY <1>1 DEF Fetches
<1>4. qs = (rs \ counts) \union late
  BY <1>1, <1>2
<1>5. CallsOf(who, counts)
  BY <1>3, FewerCalls
<1>6. CallsOf(who, late) /\ Continues(counts, late) /\ (\A q \in late : q.late)
      /\ \A k \in {"list", "count"} : (\E r \in counts : k \in r.kinds) => \E q \in late : k \in q.kinds
  BY <1>2, <1>5, LateContinues
<1>7. ASSUME NEW q \in late PROVE \E r \in counts : SameCall(r, q)
  BY <1>2, <1>5, LateCalls DEF CallsOf
<1>8. CallsOf(who, qs)
  <2>1. qs \subseteq Calls /\ \A q \in qs : q.got \in [q.kinds -> Answers]
    BY <1>4, <1>6 DEF CallsOf
  <2>2. who = "none" => qs = {}
    BY <1>3, <1>4, <1>6 DEF CallsOf
  <2>3. who = "web" => \A q \in qs : q.kinds # {"list", "count"}
    BY <1>4, <1>6 DEF CallsOf
  <2>4. who = "ios" => \A q \in qs : q.kinds \in {{"list", "count"}, {"readAll"}}
    BY <1>4, <1>6 DEF CallsOf
  <2>5. \A q \in qs : "count" \in q.kinds => q \in late
    BY <1>3, <1>4
  <2> QED
    BY <1>6, <2>1, <2>2, <2>3, <2>4, <2>5 DEF CallsOf
<1>9. Continues(rs, qs)
  <2>1. \A q \in qs : \E r \in rs : SameCall(r, q) /\ (q.late \/ q = r)
    BY <1>3, <1>4, <1>6, <1>7 DEF SameCall
  <2>2. \A r \in rs : (\E k \in {"read", "readAll"} : Served(r, k)) => r \in qs
    BY <1>3, <1>4 DEF Served
  <2> QED
    BY <2>1, <2>2 DEF Continues, SameCall
<1>10. ASSUME NEW k \in {"list", "count"}, NEW r \in rs, k \in r.kinds PROVE \E q \in qs : k \in q.kinds
  BY <1>4, <1>6, <1>10
<1> QED
  BY <1>3, <1>4, <1>6, <1>8, <1>9, <1>10

LEMMA MarkCalls ==
    ASSUME BellTyped, Mark
    PROVE  /\ CallsOf(viewer, asks') /\ Continues(asks, asks') /\ asks \subseteq asks'
           /\ \A q \in asks' \ asks : Unanswered(q)
           /\ viewer # "none"
<1>1. CASE viewer = "web" /\ \E n \in UnreadIn(shown.list) : asks' = asks \union {Call({"read"}, n)}
  <2>1. PICK n \in UnreadIn(shown.list) : asks' = asks \union {Call({"read"}, n)}
    BY <1>1
  <2>2. n \in Notices /\ {"read"} \in CallKinds
    BY DEF UnreadIn, CallKinds
  <2>3. PICK c : c = Call({"read"}, n)
    OBVIOUS
  <2>4. c \in Calls /\ c.got \in [c.kinds -> Answers] /\ c.kinds = {"read"} /\ Unanswered(c)
    BY <2>2, <2>3, CallMade
  <2> QED
    BY <1>1, <2>1, <2>3, <2>4, MoreContinues, ZenonT(60) DEF CallsOf, BellTyped
<1>2. CASE shown.count > 0 /\ asks' = asks \union {Call({"readAll"}, "bell")}
  <2>1. viewer # "none" /\ {"readAll"} \in CallKinds
    BY <1>2 DEF BellTyped, CallKinds
  <2>3. PICK c : c = Call({"readAll"}, "bell")
    OBVIOUS
  <2>4. c \in Calls /\ c.got \in [c.kinds -> Answers] /\ c.kinds = {"readAll"} /\ Unanswered(c)
    BY <2>1, <2>3, CallMade
  <2>5. Continues(asks, asks')
    BY <1>2, <2>3, <2>4, MoreContinues
  <2>6. CallsOf(viewer, asks')
    <3>1. asks' = asks \union {c} /\ CallsOf(viewer, asks)
      BY <1>2, <2>3 DEF BellTyped
    <3>2. "count" \notin c.kinds /\ c.kinds # {"list", "count"}
      BY <2>4
    <3> QED
      BY <2>1, <2>4, <3>1, <3>2 DEF CallsOf
  <2> QED
    BY <1>2, <2>1, <2>3, <2>4, <2>5, <2>6
<1>3. CASE viewer = "ios" /\ asks' = asks \union {LoadOf("pull")}
  <2>1. {"list", "count"} \in CallKinds
    BY DEF CallKinds
  <2>3. PICK c : c = LoadOf("pull")
    OBVIOUS
  <2>4. c \in Calls /\ c.got \in [c.kinds -> Answers] /\ c.kinds = {"list", "count"} /\ Unanswered(c)
    BY <2>1, <2>3, CallMade DEF LoadOf
  <2> QED
    BY <1>3, <2>1, <2>3, <2>4, MoreContinues DEF CallsOf, BellTyped
<1> QED
  BY <1>1, <1>2, <1>3 DEF Mark

LEMMA OpenCalls ==
    ASSUME BellTyped, OpenViewer
    PROVE  /\ CallsOf(viewer', asks') /\ Continues(asks, asks')
           /\ \A q \in asks' : Unanswered(q)
           /\ (\E q \in asks' : "list" \in q.kinds) /\ (\E q \in asks' : "count" \in q.kinds)
<1>1. viewer' \in {"web", "ios"} /\ asks = {}
  BY DEF OpenViewer, BellTyped, CallsOf
<1>2. {"list"} \in CallKinds /\ {"count"} \in CallKinds /\ {"list", "count"} \in CallKinds
  BY DEF CallKinds
<1>3. PICK l, c, b : l = Call({"list"}, "bell") /\ c = Call({"count"}, "bell") /\ b = LoadOf("run")
  OBVIOUS
<1>4. /\ l \in Calls /\ l.got \in [l.kinds -> Answers] /\ l.kinds = {"list"} /\ Unanswered(l)
      /\ c \in Calls /\ c.got \in [c.kinds -> Answers] /\ c.kinds = {"count"} /\ Unanswered(c)
      /\ b \in Calls /\ b.got \in [b.kinds -> Answers] /\ b.kinds = {"list", "count"} /\ Unanswered(b)
  <2>1. l \in Calls /\ l.got \in [l.kinds -> Answers] /\ l.kinds = {"list"} /\ Unanswered(l)
    BY <1>2, <1>3, CallMade
  <2>2. c \in Calls /\ c.got \in [c.kinds -> Answers] /\ c.kinds = {"count"} /\ Unanswered(c)
    BY <1>2, <1>3, CallMade
  <2>3. b \in Calls /\ b.got \in [b.kinds -> Answers] /\ b.kinds = {"list", "count"} /\ Unanswered(b)
    BY <1>2, <1>3, CallMade DEF LoadOf
  <2> QED
    BY <2>1, <2>2, <2>3
<1>5. asks' = IF viewer' = "ios" THEN {b} ELSE {l, c}
  BY <1>3 DEF OpenViewer
<1> QED
  BY <1>1, <1>4, <1>5 DEF CallsOf, Continues

LEMMA HeardCalls ==
    ASSUME BellTyped, NEW r \in asks, HearCall(r)
    PROVE  /\ CallsOf(viewer, asks') /\ viewer # "none"
           /\ \A q \in asks' : Unanswered(q) \/ \E p \in asks \ {r} : SameCall(p, q) /\ (q.late \/ q = p)
           /\ \A p \in asks \ {r} : (\E k \in {"read", "readAll"} : Served(p, k)) => \E q \in asks' : SameCall(p, q)
           /\ viewer = "ios" => asks' = Late(asks \ {r})
           /\ viewer = "web" /\ r.kinds \in {{"list"}, {"count"}} => asks' = asks \ {r}
           /\ viewer = "web" /\ r.kinds \notin {{"list"}, {"count"}} => asks' = Invalidated(asks \ {r})
<1>1. CallsOf(viewer, asks \ {r}) /\ viewer \in {"web", "ios"}
  BY FewerCalls DEF BellTyped, CallsOf
<1>2. CASE viewer = "ios"
  <2>1. asks' = Late(asks \ {r})
    BY <1>2 DEF HearCall, HearIos
  <2>2. CallsOf(viewer, Late(asks \ {r})) /\ Continues(asks \ {r}, Late(asks \ {r}))
    BY <1>1, LateContinues
  <2> QED
    BY <1>2, <2>1, <2>2 DEF Continues
<1>3. CASE viewer = "web"
  <2>1. asks' = IF r.kinds \in {{"list"}, {"count"}} THEN asks \ {r} ELSE Invalidated(asks \ {r})
    BY <1>3 DEF HearCall, HearWeb
  <2>2. CASE r.kinds \in {{"list"}, {"count"}}
    BY <1>1, <1>3, <2>1, <2>2 DEF SameCall
  <2>3. CASE r.kinds \notin {{"list"}, {"count"}}
    <3>1. CallsOf("web", asks') /\ Continues(asks \ {r}, asks')
      BY <1>1, <1>3, <2>1, <2>3, InvalidatedCalls
    <3> QED
      BY <1>3, <2>1, <2>3, <3>1 DEF Continues
  <2> QED
    BY <2>2, <2>3
<1> QED
  BY <1>1, <1>2, <1>3

-----------------------------------------------------------------------------
\* NotificationViews: types

LEMMA UnreadCounted ==
    ASSUME NEW box
    PROVE  /\ IsFiniteSet(UnreadIn(box)) /\ Cardinality(UnreadIn(box)) \in Nat
           /\ Cardinality(UnreadIn(box)) <= Cardinality(Notices) /\ Cardinality(Notices) \in Nat
BY ViewsAssumption, FS_Subset, FS_CardinalityType DEF UnreadIn

LEMMA AnswerThere ==
    ASSUME BellTyped, NEW r \in asks, Complete(r), NEW k \in r.kinds
    PROVE  r.got[k] \in Inboxes
BY CallFields DEF Complete, Answers

LEMMA OnlyKind ==
    ASSUME NEW k
    PROVE  (CHOOSE j \in {k} : TRUE) = k
OBVIOUS

(* What is heard of a mark is its answer.                                    *)
LEMMA MarkAnswer ==
    ASSUME BellTyped, NEW r \in asks, Complete(r), r.kinds \subseteq {"read", "readAll"}
    PROVE  \E k \in {"read", "readAll"} : Served(r, k) /\ r.got[CHOOSE j \in r.kinds : TRUE] = r.got[k]
<1>1. r.kinds \in {{"read"}, {"readAll"}}
  BY CallFields DEF CallKinds
<1>2. PICK k \in {"read", "readAll"} : r.kinds = {k}
  BY <1>1
<1>3. r.got[k] \in Inboxes
  BY <1>2, AnswerThere
<1>4. (CHOOSE j \in r.kinds : TRUE) = k
  BY <1>2, OnlyKind
<1> QED
  BY <1>2, <1>3, <1>4 DEF Served

FeedStep ==
    \/ \E n \in Notices : RecordNotice(n) \/ PublishPulse(n) \/ LosePulse(n) \/ WriteCreated(n)
    \/ WriteSnapshot \/ SubscribeFeed \/ ConnectFeed \/ BreakFeed

LEMMA FeedRest ==
    ASSUME FeedStep
    PROVE  UNCHANGED <<viewer, asks, shown, heard, races>>
BY DEF FeedStep, RecordNotice, PublishPulse, LosePulse, WriteCreated, WriteSnapshot, SubscribeFeed, ConnectFeed, BreakFeed

LEMMA FeedOffTyped == FeedOff \in Feeds /\ FeedOff.stage = "off" /\ FeedOff.looking = {} /\ FeedOff.frames = <<>>
<1>1. <<>> \in Seq(FrameSet)
  OBVIOUS
<1> QED
  BY <1>1 DEF FeedOff, Feeds

LEMMA WrittenTyped ==
    ASSUME feed \in Feeds, inbox \in Inboxes
    PROVE  /\ WriteSnapshot =>
                /\ feed' \in Feeds /\ feed'.stage = "counted" /\ feed'.looking = feed.looking
                /\ feed'.frames = Append(feed.frames, [event |-> "snapshot", of |-> "all", box |-> inbox])
                /\ [event |-> "snapshot", of |-> "all", box |-> inbox] \in FrameSet
           /\ \A n \in Notices : WriteCreated(n) =>
                /\ feed' \in Feeds /\ feed'.stage = feed.stage /\ feed'.looking = feed.looking \ {n}
                /\ feed'.frames = Append(feed.frames, [event |-> "created", of |-> n, box |-> inbox])
                /\ [event |-> "created", of |-> n, box |-> inbox] \in FrameSet
<1>1. feed.frames \in Seq(FrameSet)
  BY DEF Feeds
<1>2. ASSUME WriteSnapshot PROVE
                /\ feed' \in Feeds /\ feed'.stage = "counted" /\ feed'.looking = feed.looking
                /\ feed'.frames = Append(feed.frames, [event |-> "snapshot", of |-> "all", box |-> inbox])
                /\ [event |-> "snapshot", of |-> "all", box |-> inbox] \in FrameSet
  <2>1. PICK f : f = [event |-> "snapshot", of |-> "all", box |-> inbox]
    OBVIOUS
  <2>2. f \in FrameSet
    BY <2>1 DEF FrameSet
  <2>3. PICK s : s = Append(feed.frames, f)
    OBVIOUS
  <2>4. s \in Seq(FrameSet)
    BY <1>1, <2>2, <2>3, AppendProperties
  <2>5. feed' = [[feed EXCEPT !.stage = "counted"] EXCEPT !.frames = s]
    BY <1>2, <2>1, <2>3 DEF WriteSnapshot, Feeds
  <2> QED
    BY <2>1, <2>2, <2>3, <2>4, <2>5 DEF Feeds
<1>3. ASSUME NEW n \in Notices, WriteCreated(n) PROVE
                /\ feed' \in Feeds /\ feed'.stage = feed.stage /\ feed'.looking = feed.looking \ {n}
                /\ feed'.frames = Append(feed.frames, [event |-> "created", of |-> n, box |-> inbox])
                /\ [event |-> "created", of |-> n, box |-> inbox] \in FrameSet
  <2>1. PICK f : f = [event |-> "created", of |-> n, box |-> inbox]
    OBVIOUS
  <2>2. f \in FrameSet
    BY <2>1 DEF FrameSet
  <2>3. PICK s : s = Append(feed.frames, f)
    OBVIOUS
  <2>4. s \in Seq(FrameSet)
    BY <1>1, <2>2, <2>3, AppendProperties
  <2>5. feed' = [[feed EXCEPT !.looking = @ \ {n}] EXCEPT !.frames = s]
    BY <1>3, <2>1, <2>3 DEF WriteCreated, Feeds
  <2> QED
    BY <2>1, <2>2, <2>3, <2>4, <2>5 DEF Feeds
<1> QED
  BY <1>2, <1>3

LEMMA TypedFeed ==
    ASSUME BellTyped, FeedStep
    PROVE  BellTyped'
<1>1. UNCHANGED <<viewer, asks, shown, heard, races>> /\ feed \in Feeds /\ inbox \in Inboxes
  BY FeedRest DEF BellTyped
<1> USE DEF BellTyped
<1>2. ASSUME NEW n \in Notices, RecordNotice(n) PROVE BellTyped'
  <2>1. inbox' \in Inboxes
    BY <1>2 DEF RecordNotice, Inboxes
  <2> QED
    BY <1>1, <1>2, <2>1 DEF RecordNotice
<1>3. ASSUME NEW n \in Notices, PublishPulse(n) PROVE BellTyped'
  <2>1. feed' \in Feeds /\ (viewer = "none" => feed' = feed)
    BY <1>3 DEF PublishPulse, Feeds, FeedOff
  <2> QED
    BY <1>1, <1>3, <2>1 DEF PublishPulse, Missed
<1>4. ASSUME NEW n \in Notices, LosePulse(n) PROVE BellTyped'
  BY <1>1, <1>4 DEF LosePulse, Missed
<1>5. ASSUME NEW n \in Notices, WriteCreated(n) PROVE BellTyped'
  <2>1. viewer # "none" /\ UNCHANGED <<inbox, due, missed, gap>>
    BY <1>5 DEF WriteCreated, Feeds, FeedOff
  <2> QED
    BY <1>1, <1>5, <2>1, WrittenTyped
<1>6. ASSUME WriteSnapshot PROVE BellTyped'
  <2>1. viewer # "none" /\ UNCHANGED <<inbox, due, missed, gap>>
    BY <1>6 DEF WriteSnapshot, FeedOff
  <2> QED
    BY <1>1, <1>6, <2>1, WrittenTyped
<1>7. ASSUME SubscribeFeed PROVE BellTyped'
  <2>1. feed' \in Feeds /\ viewer # "none"
    BY <1>7 DEF SubscribeFeed, Feeds, FeedOff
  <2> QED
    BY <1>1, <1>7, <2>1 DEF SubscribeFeed
<1>8. ASSUME ConnectFeed PROVE BellTyped'
  <2>1. feed' \in Feeds
    BY <1>8 DEF ConnectFeed, Feeds
  <2> QED
    BY <1>1, <1>8, <2>1 DEF ConnectFeed
<1>9. ASSUME BreakFeed PROVE BellTyped'
  <2>1. feed.looking \subseteq Notices
    BY DEF Feeds
  <2> QED
    BY <1>1, <1>9, <2>1, FeedOffTyped DEF BreakFeed
<1> QED
  BY <1>2, <1>3, <1>4, <1>5, <1>6, <1>7, <1>8, <1>9 DEF FeedStep

LEMMA ServeCalls ==
    ASSUME BellTyped, NEW r \in asks, NEW kind \in r.kinds, ServeView(r, kind)
    PROVE  /\ UNCHANGED <<viewer, due, feed, shown, heard, missed, gap, races>>
           /\ inbox' = MarkedBy(kind, r.of) /\ inbox' \in Inboxes
           /\ CallsOf(viewer, asks')
           /\ \E q \in asks' :
                /\ asks' = (asks \ {r}) \union {q}
                /\ q.kinds = r.kinds /\ q.late = r.late /\ q.got[kind] = inbox'
                /\ \A k \in r.kinds \ {kind} : q.got[k] = r.got[k]
<1>1. UNCHANGED <<viewer, due, feed, shown, heard, missed, gap, races>> /\ inbox' = MarkedBy(kind, r.of)
  BY DEF ServeView
<1>2. inbox' \in Inboxes
  BY <1>1, MarkedTyped DEF BellTyped
<1>3. r \in Calls /\ r.got \in [r.kinds -> Answers]
  BY CallFields
<1>4. PICK q : q = [r EXCEPT !.got[kind] = inbox']
  OBVIOUS
<1>5. /\ q \in Calls /\ q.got \in [q.kinds -> Answers]
      /\ q.kinds = r.kinds /\ q.of = r.of /\ q.late = r.late /\ q.got[kind] = inbox'
      /\ \A k \in r.kinds \ {kind} : q.got[k] = r.got[k]
  BY <1>2, <1>3, <1>4, AnsweredCall
<1>6. asks' = (asks \ {r}) \union {q}
  BY <1>1, <1>4 DEF ServeView
<1>7. CallsOf(viewer, asks')
  BY <1>5, <1>6 DEF BellTyped, CallsOf
<1> QED
  BY <1>1, <1>2, <1>5, <1>6, <1>7

LEMMA TypedServing ==
    ASSUME BellTyped, NEW r \in asks, NEW kind \in r.kinds, ServeView(r, kind)
    PROVE  BellTyped'
BY ServeCalls DEF BellTyped

LEMMA ClearedTyped ==
    ASSUME shown \in Bells, NEW r, NEW now, now = Cleared(r)
    PROVE  /\ now \in Bells /\ now.count = 0 /\ now.list \in Inboxes
           /\ \A n \in Notices : now.list[n] = IF shown.list # NotYet /\ shown.list[n] # "none" THEN "read" ELSE "none"
<1>1. PICK l : l = [n \in Notices |-> IF shown.list # NotYet /\ shown.list[n] # "none" THEN "read" ELSE "none"]
  OBVIOUS
<1>2. l \in Inboxes /\ \A n \in Notices : l[n] = IF shown.list # NotYet /\ shown.list[n] # "none" THEN "read" ELSE "none"
  BY <1>1 DEF Inboxes
<1>3. now = [[shown EXCEPT !.count = 0] EXCEPT !.list = l]
  BY <1>1 DEF Cleared, Bells
<1>4. now \in Bells /\ now.count = 0 /\ now.list = l
  BY ONLY <1>2, <1>3, shown \in Bells DEF Bells, Answers
<1> QED
  BY <1>2, <1>4

(* The answer to a load, to a mark, and what is shown then.                  *)
LEMMA HeardAnswers ==
    ASSUME BellTyped, NEW r \in asks, HearCall(r)
    PROVE  /\ UNCHANGED <<viewer, inbox, due, feed, missed, gap>>
           /\ viewer = "web" /\ r.kinds = {"list"} =>
                /\ r.got["list"] \in Inboxes /\ shown' = [shown EXCEPT !.list = r.got["list"]]
                /\ races' = Races("list", r.late, r.got["list"]) /\ UNCHANGED heard
           /\ viewer = "web" /\ r.kinds = {"count"} =>
                /\ r.got["count"] \in Inboxes /\ shown'.count = Cardinality(UnreadIn(r.got["count"]))
                /\ shown'.list = shown.list /\ shown' \in Bells
                /\ races' = Races("badge", r.late, r.got["count"]) /\ heard' = Newest(r.got["count"])
           /\ viewer = "web" /\ r.kinds \notin {{"list"}, {"count"}} =>
                /\ UNCHANGED <<shown, races>>
                /\ \E k \in {"read", "readAll"} : Served(r, k) /\ heard' = Newest(r.got[k])
           /\ viewer = "ios" /\ r.kinds = {"list", "count"} =>
                /\ r.got["list"] \in Inboxes /\ r.got["count"] \in Inboxes
                /\ shown'.count = Cardinality(UnreadIn(r.got["count"])) /\ shown'.list = r.got["list"] /\ shown' \in Bells
                /\ races' = {w \in {"list", "badge"} : r.late /\ Older(r.got[IF w = "list" THEN w ELSE "count"])}
                /\ heard' = Newest(r.got["count"])
           /\ viewer = "ios" /\ r.kinds # {"list", "count"} =>
                /\ Served(r, "readAll") /\ shown' = Cleared(r) /\ heard' = Newest(r.got["readAll"])
                /\ races' = races \union (IF Older(r.got["readAll"]) THEN {"badge", "list"} ELSE {})
<1>0. Complete(r) /\ viewer \in {"web", "ios"} /\ shown \in Bells
  BY HeardCalls DEF HearCall, BellTyped
<1>1. UNCHANGED <<viewer, inbox, due, feed, missed, gap>>
  BY DEF HearCall
<1>2. ASSUME viewer = "web", r.kinds = {"list"} PROVE
                /\ r.got["list"] \in Inboxes /\ shown' = [shown EXCEPT !.list = r.got["list"]]
                /\ races' = Races("list", r.late, r.got["list"]) /\ UNCHANGED heard
  <2>1. r.got["list"] \in Inboxes
    BY <1>0, <1>2, AnswerThere
  <2> QED
    BY <1>2, <2>1 DEF HearCall, HearWeb
<1>3. ASSUME viewer = "web", r.kinds = {"count"} PROVE
                /\ r.got["count"] \in Inboxes /\ shown'.count = Cardinality(UnreadIn(r.got["count"]))
                /\ shown'.list = shown.list /\ shown' \in Bells
                /\ races' = Races("badge", r.late, r.got["count"]) /\ heard' = Newest(r.got["count"])
  <2>1. r.got["count"] \in Inboxes
    BY <1>0, <1>3, AnswerThere
  <2>2. PICK c : c = Cardinality(UnreadIn(r.got["count"]))
    OBVIOUS
  <2>3. c \in Nat
    BY <2>2, UnreadCounted
  <2>4. shown' = [[shown EXCEPT !.count = c] EXCEPT !.counted = TRUE]
    BY <1>3, <2>2 DEF HearCall, HearWeb
  <2>5. shown' \in Bells /\ shown'.count = c /\ shown'.list = shown.list
    BY <1>0, <2>3, <2>4 DEF Bells
  <2> QED
    BY <1>3, <2>1, <2>2, <2>5 DEF HearCall, HearWeb
<1>4. ASSUME viewer = "web", r.kinds \notin {{"list"}, {"count"}} PROVE
                /\ UNCHANGED <<shown, races>>
                /\ \E k \in {"read", "readAll"} : Served(r, k) /\ heard' = Newest(r.got[k])
  <2>1. r.kinds \in {{"read"}, {"readAll"}}
    BY <1>4, CallFields DEF CallKinds, BellTyped, CallsOf
  <2>2. r.kinds \subseteq {"read", "readAll"}
    BY <2>1
  <2>3. PICK k \in {"read", "readAll"} : Served(r, k) /\ r.got[CHOOSE j \in r.kinds : TRUE] = r.got[k]
    BY <1>0, <2>2, MarkAnswer
  <2>4. heard' = Newest(r.got[CHOOSE j \in r.kinds : TRUE]) /\ UNCHANGED <<shown, races>>
    BY <1>4 DEF HearCall, HearWeb
  <2> QED
    BY <2>3, <2>4
<1>5. ASSUME viewer = "ios", r.kinds = {"list", "count"} PROVE
                /\ r.got["list"] \in Inboxes /\ r.got["count"] \in Inboxes
                /\ shown'.count = Cardinality(UnreadIn(r.got["count"])) /\ shown'.list = r.got["list"] /\ shown' \in Bells
                /\ races' = {w \in {"list", "badge"} : r.late /\ Older(r.got[IF w = "list" THEN w ELSE "count"])}
                /\ heard' = Newest(r.got["count"])
  <2>1. r.got["count"] \in Inboxes /\ r.got["list"] \in Inboxes
    BY <1>0, <1>5, AnswerThere
  <2>2. PICK c : c = Cardinality(UnreadIn(r.got["count"]))
    OBVIOUS
  <2>3. c \in Nat
    BY <2>2, UnreadCounted
  <2>6. r.kinds # {"readAll"}
    BY <1>5
  <2>4. /\ shown' = [count |-> c, counted |-> TRUE, list |-> r.got["list"]]
        /\ races' = {w \in {"list", "badge"} : r.late /\ Older(r.got[IF w = "list" THEN w ELSE "count"])}
        /\ heard' = Newest(r.got["count"])
    BY <1>5, <2>2, <2>6 DEF HearCall, HearIos
  <2>5. shown' \in Bells /\ shown'.count = c /\ shown'.list = r.got["list"]
    BY <2>1, <2>3, <2>4 DEF Bells, Answers
  <2> QED
    BY <2>1, <2>2, <2>4, <2>5
<1>6. ASSUME viewer = "ios", r.kinds # {"list", "count"} PROVE
                /\ Served(r, "readAll") /\ shown' = Cleared(r) /\ heard' = Newest(r.got["readAll"])
                /\ races' = races \union (IF Older(r.got["readAll"]) THEN {"badge", "list"} ELSE {})
  <2>1. r.kinds = {"readAll"}
    BY <1>6 DEF BellTyped, CallsOf
  <2>2. r.got["readAll"] \in Inboxes
    BY <1>0, <2>1, AnswerThere
  <2> QED
    BY <1>6, <2>1, <2>2 DEF HearCall, HearIos, Served
<1> QED
  BY <1>1, <1>2, <1>3, <1>4, <1>5, <1>6

LEMMA TypedHearing ==
    ASSUME BellTyped, NEW r \in asks, HearCall(r)
    PROVE  BellTyped'
<1>1. CallsOf(viewer, asks') /\ viewer \in {"web", "ios"} /\ UNCHANGED <<viewer, inbox, due, feed, missed, gap>>
  BY HeardCalls, HeardAnswers DEF BellTyped
<1>2. heard' \in Inboxes /\ shown' \in Bells /\ races' \subseteq {"badge", "list"}
  <2>1. CASE viewer = "web" /\ r.kinds = {"list"}
    <3>1. r.got["list"] \in Inboxes /\ shown' = [shown EXCEPT !.list = r.got["list"]]
          /\ races' = Races("list", r.late, r.got["list"]) /\ UNCHANGED heard
      BY <2>1, HeardAnswers
    <3> QED
      BY <3>1 DEF BellTyped, Bells, Answers, Races
  <2>2. CASE viewer = "web" /\ r.kinds = {"count"}
    <3>1. /\ r.got["count"] \in Inboxes /\ shown' \in Bells
          /\ races' = Races("badge", r.late, r.got["count"]) /\ heard' = Newest(r.got["count"])
      BY <2>2, HeardAnswers
    <3> QED
      BY <3>1, NewestTyped DEF BellTyped, Races
  <2>3. CASE viewer = "web" /\ r.kinds \notin {{"list"}, {"count"}}
    <3>1. UNCHANGED <<shown, races>> /\ \E k \in {"read", "readAll"} : Served(r, k) /\ heard' = Newest(r.got[k])
      BY <2>3, HeardAnswers
    <3>2. PICK k \in {"read", "readAll"} : r.got[k] \in Inboxes /\ heard' = Newest(r.got[k])
      BY <3>1 DEF Served
    <3> QED
      BY <3>1, <3>2, NewestTyped DEF BellTyped
  <2>4. CASE viewer = "ios" /\ r.kinds = {"list", "count"}
    <3>1. /\ r.got["count"] \in Inboxes /\ shown' \in Bells /\ heard' = Newest(r.got["count"])
          /\ races' = {w \in {"list", "badge"} : r.late /\ Older(r.got[IF w = "list" THEN w ELSE "count"])}
      BY <2>4, HeardAnswers
    <3> QED
      BY <3>1, NewestTyped DEF BellTyped
  <2>5. CASE viewer = "ios" /\ r.kinds # {"list", "count"}
    <3>1. /\ r.got["readAll"] \in Inboxes /\ shown' = Cleared(r) /\ heard' = Newest(r.got["readAll"])
          /\ races' = races \union (IF Older(r.got["readAll"]) THEN {"badge", "list"} ELSE {})
      BY <2>5, HeardAnswers DEF Served
    <3> QED
      BY <3>1, NewestTyped, ClearedTyped DEF BellTyped
  <2> QED
    BY <1>1, <2>1, <2>2, <2>3, <2>4, <2>5
<1> QED
  BY <1>1, <1>2 DEF BellTyped

LEMMA FailedCall ==
    ASSUME BellTyped, NEW r \in asks, FailCall(r)
    PROVE  /\ UNCHANGED <<viewer, inbox, due, feed, shown, missed, gap>> /\ viewer # "none"
           /\ asks' = Late(asks \ {r}) /\ CallsOf(viewer, asks')
           /\ races' = {"badge", "list"}
           /\ \/ UNCHANGED heard /\ ~\E k \in {"read", "readAll"} : Served(r, k)
              \/ \E k \in {"read", "readAll"} : Served(r, k) /\ heard' = Newest(r.got[k])
<1>1. /\ UNCHANGED <<viewer, inbox, due, feed, shown, missed, gap>> /\ viewer # "none"
      /\ asks' = Late(asks \ {r}) /\ races' = {"badge", "list"}
  BY DEF FailCall, BellTyped, CallsOf
<1>2. CallsOf(viewer, asks')
  BY <1>1, FewerCalls, LateContinues DEF BellTyped
<1>3. CASE r.kinds \subseteq {"read", "readAll"} /\ Complete(r)
  <2>1. PICK k \in {"read", "readAll"} : Served(r, k) /\ r.got[CHOOSE j \in r.kinds : TRUE] = r.got[k]
    BY <1>3, MarkAnswer
  <2>2. heard' = Newest(r.got[CHOOSE j \in r.kinds : TRUE])
    BY <1>3 DEF FailCall
  <2> QED
    BY <1>1, <1>2, <2>1, <2>2
<1>4. CASE ~(r.kinds \subseteq {"read", "readAll"} /\ Complete(r))
  <2>1. heard' = heard
    BY <1>4 DEF FailCall
  <2>2. ASSUME NEW k \in {"read", "readAll"}, Served(r, k), heard # Newest(r.got[k]) PROVE FALSE
    <3>1. r.kinds = {k} /\ r.got[k] \in Inboxes
      BY <2>2 DEF Served
    <3>2. r.got[k] = NotYet
      BY <1>4, <3>1 DEF Complete
    <3>3. Notices = {}
      BY <3>1, <3>2, RowIsAnswer
    <3>4. heard \in Inboxes /\ Newest(r.got[k]) \in Inboxes
      BY <3>1, NewestTyped DEF BellTyped
    <3> QED
      BY <2>2, <3>3, <3>4 DEF Inboxes
  <2> QED
    BY <1>1, <1>2, <2>1, <2>2
<1> QED
  BY <1>3, <1>4

LEMMA TypedFailing ==
    ASSUME BellTyped, NEW r \in asks, FailCall(r)
    PROVE  BellTyped'
<1>1. heard' \in Inboxes
  BY FailedCall, NewestTyped DEF BellTyped, Served
<1> QED
  BY <1>1, FailedCall DEF BellTyped

LEMMA TypedMarking ==
    ASSUME BellTyped, Mark \/ OpenViewer
    PROVE  BellTyped'
<1>1. CASE Mark
  BY <1>1, MarkCalls DEF BellTyped, Mark
<1>2. CASE OpenViewer
  BY <1>2, OpenCalls DEF BellTyped, OpenViewer
<1> QED
  BY <1>1, <1>2

LEMMA FrameTaken ==
    ASSUME BellTyped, HearFrame
    PROVE  /\ feed.frames # <<>> /\ feed.frames \in Seq(FrameSet)
           /\ Head(feed.frames) \in FrameSet /\ Head(feed.frames) = feed.frames[1]
           /\ feed' \in Feeds /\ feed'.stage = feed.stage /\ feed'.looking = feed.looking
           /\ feed'.frames = Tail(feed.frames)
           /\ UNCHANGED <<viewer, inbox, due, missed, gap>> /\ viewer \in {"web", "ios"}
<1>1. feed.frames # <<>> /\ feed.frames \in Seq(FrameSet) /\ feed' = [feed EXCEPT !.frames = Tail(@)]
  BY DEF HearFrame, BellTyped, Feeds
<1>2. Tail(feed.frames) \in Seq(FrameSet) /\ Head(feed.frames) \in FrameSet /\ Head(feed.frames) = feed.frames[1]
  BY <1>1, FrameHeard
<1>3. feed' \in Feeds /\ feed'.stage = feed.stage /\ feed'.looking = feed.looking /\ feed'.frames = Tail(feed.frames)
  BY <1>1, <1>2 DEF BellTyped, Feeds
<1>4. UNCHANGED <<viewer, inbox, due, missed, gap>>
  BY DEF HearFrame
<1>5. viewer # "none"
  BY <1>1, FeedOffTyped DEF BellTyped
<1> QED
  BY <1>1, <1>2, <1>3, <1>4, <1>5 DEF BellTyped

LEMMA SnapshotTaken ==
    ASSUME BellTyped, HearFrame, NEW f, f = Head(feed.frames), f.event = "snapshot"
    PROVE  /\ asks' = (asks \ Fetches(asks, "count")) \union Late(Fetches(asks, "count"))
           /\ shown' \in Bells /\ shown'.count = Cardinality(UnreadIn(f.box)) /\ shown'.list = shown.list
           /\ races' = Races("badge", TRUE, f.box) /\ heard' = Newest(f.box) /\ f.box \in Inboxes
<1>1. HearSnapshot(f) /\ f \in FrameSet
  BY FrameTaken DEF HearFrame
<1>2. PICK c : c = Cardinality(UnreadIn(f.box))
  OBVIOUS
<1>3. c \in Nat /\ shown \in Bells
  BY <1>2, UnreadCounted DEF BellTyped
<1>4. shown' = [[shown EXCEPT !.count = c] EXCEPT !.counted = TRUE]
  BY <1>1, <1>2 DEF HearSnapshot
<1>5. shown' \in Bells /\ shown'.count = c /\ shown'.list = shown.list
  BY <1>3, <1>4 DEF Bells
<1> QED
  BY <1>1, <1>2, <1>5 DEF HearSnapshot, FrameSet

LEMMA CreatedTaken ==
    ASSUME BellTyped, OnceEach, HearFrame, NEW f, f = Head(feed.frames), f.event = "created",
           NEW n, n = f.of, NEW as, as = f.box[n]
    PROVE  /\ n \in Notices /\ f.box \in Inboxes /\ as \in {"unread", "read"} /\ CreatedAt(n, 1)
           /\ heard' \in Inboxes
           /\ heard'[n] = IF Behind(as, heard[n]) THEN heard[n] ELSE as
           /\ \A m \in Notices \ {n} : heard'[m] = heard[m]
           /\ viewer = "web" => asks' = Invalidated(asks) /\ UNCHANGED <<shown, races>>
           /\ viewer = "ios" =>
                /\ asks' = Late(asks) /\ shown' \in Bells /\ shown'.list \in Inboxes
                /\ shown'.count = IF as = "unread" THEN shown.count + 1 ELSE shown.count
                /\ shown'.list[n] = as
                /\ \A m \in Notices \ {n} : shown'.list[m] = IF shown.list = NotYet THEN "none" ELSE shown.list[m]
                /\ races' = races \union (IF as = "unread" /\ heard[n] # "none" THEN {"badge"} ELSE {})
                                  \union (IF Behind(as, heard[n]) THEN {"list"} ELSE {})
<1>1. f \in FrameSet /\ f = feed.frames[1] /\ 1 \in DOMAIN feed.frames
  BY FrameTaken, FrameHeard
<1>2. n \in Notices /\ f.box \in Inboxes /\ as \in {"unread", "read"} /\ CreatedAt(n, 1)
  BY <1>1 DEF OnceEach, FrameSet, CreatedAt, Inboxes
<1>3. HearCreated(f)
  BY DEF HearFrame
<1>4. heard' = [heard EXCEPT ![n] = Newest(f.box)[n]]
  BY <1>3 DEF HearCreated
<1>5. Newest(f.box)[n] = IF Behind(as, heard[n]) THEN heard[n] ELSE as
  BY <1>2, NewestTyped DEF BellTyped
<1>6. heard \in Inboxes /\ heard[n] \in {"none", "unread", "read"}
  BY <1>2 DEF BellTyped, Inboxes
<1>7. /\ heard' \in Inboxes /\ heard'[n] = IF Behind(as, heard[n]) THEN heard[n] ELSE as
      /\ \A m \in Notices \ {n} : heard'[m] = heard[m]
  BY <1>2, <1>4, <1>5, <1>6, ZenonT(60) DEF Inboxes
<1>8. viewer = "web" => asks' = Invalidated(asks) /\ UNCHANGED <<shown, races>>
  BY <1>3 DEF HearCreated
<1>9. ASSUME viewer = "ios" PROVE
                /\ asks' = Late(asks) /\ shown' \in Bells /\ shown'.list \in Inboxes
                /\ shown'.count = IF as = "unread" THEN shown.count + 1 ELSE shown.count
                /\ shown'.list[n] = as
                /\ \A m \in Notices \ {n} : shown'.list[m] = IF shown.list = NotYet THEN "none" ELSE shown.list[m]
                /\ races' = races \union (IF as = "unread" /\ heard[n] # "none" THEN {"badge"} ELSE {})
                                  \union (IF Behind(as, heard[n]) THEN {"list"} ELSE {})
  <2>1. shown \in Bells
    BY DEF BellTyped
  <2>2. PICK l : l = [m \in Notices |-> IF m = n THEN as ELSE IF shown.list = NotYet THEN "none" ELSE shown.list[m]]
    OBVIOUS
  <2>3. shown.list # NotYet => shown.list \in Inboxes
    BY <2>1 DEF Bells, Answers
  <2>4. l \in Inboxes /\ \A m \in Notices : l[m] = IF m = n THEN as ELSE IF shown.list = NotYet THEN "none" ELSE shown.list[m]
    BY <1>2, <2>2, <2>3 DEF Inboxes
  <2>5. shown' = [[shown EXCEPT !.count = IF as = "unread" THEN @ + 1 ELSE @] EXCEPT !.list = l]
    BY <1>3, <1>9, <2>1, <2>2, ZenonT(60) DEF HearCreated, Bells
  <2>8. PICK c : c = IF as = "unread" THEN shown.count + 1 ELSE shown.count
    OBVIOUS
  <2>9. c \in Nat /\ l \in Answers
    BY <2>1, <2>4, <2>8 DEF Bells, Answers
  <2>10. shown' = [[shown EXCEPT !.count = c] EXCEPT !.list = l]
    BY <2>5, <2>8, SMTT(60)
  <2>6. shown' \in Bells /\ shown'.list = l /\ shown'.count = IF as = "unread" THEN shown.count + 1 ELSE shown.count
    BY ONLY <2>1, <2>8, <2>9, <2>10 DEF Bells
  <2>7. /\ asks' = Late(asks)
        /\ races' = races \union (IF as = "unread" /\ heard[n] # "none" THEN {"badge"} ELSE {})
                                  \union (IF Behind(as, heard[n]) THEN {"list"} ELSE {})
    BY <1>3, <1>9 DEF HearCreated
  <2> QED
    BY <1>2, <2>4, <2>6, <2>7
<1> QED
  BY <1>2, <1>7, <1>8, <1>9

LEMMA FrameCalls ==
    ASSUME BellTyped, OnceEach, HearFrame
    PROVE  /\ CallsOf(viewer, asks') /\ Continues(asks, asks')
           /\ \A k \in {"list", "count"} : (\E r \in asks : k \in r.kinds) => \E q \in asks' : k \in q.kinds
           /\ \A q \in asks' : ~q.late /\ "count" \in q.kinds => Unanswered(q)
           /\ \A q \in asks' : ~q.late /\ "list" \in q.kinds => Unanswered(q) \/ q \in asks
<1>1. CallsOf(viewer, asks) /\ viewer \in {"web", "ios"}
  BY FrameTaken DEF BellTyped
<1>2. Head(feed.frames).event \in {"snapshot", "created"}
  BY FrameTaken DEF FrameSet
<1>3. CASE Head(feed.frames).event = "snapshot"
  <2>1. asks' = (asks \ Fetches(asks, "count")) \union Late(Fetches(asks, "count"))
    BY <1>3, SnapshotTaken
  <2> QED
    BY <1>1, <2>1, SnapshotCalls
<1>4. CASE Head(feed.frames).event = "created" /\ viewer = "web"
  <2>1. asks' = Invalidated(asks)
    BY <1>4, CreatedTaken
  <2> QED
    BY <1>1, <1>4, <2>1, InvalidatedCalls
<1>5. CASE Head(feed.frames).event = "created" /\ viewer = "ios"
  <2>1. asks' = Late(asks)
    BY <1>5, CreatedTaken
  <2> QED
    BY <1>1, <2>1, LateContinues
<1> QED
  BY <1>1, <1>2, <1>3, <1>4, <1>5

LEMMA TypedFrame ==
    ASSUME BellTyped, OnceEach, HearFrame
    PROVE  BellTyped'
<1>1. CallsOf(viewer, asks') /\ UNCHANGED <<viewer, inbox, due, missed, gap>> /\ viewer # "none" /\ feed' \in Feeds
  BY FrameCalls, FrameTaken
<1>2. heard' \in Inboxes /\ shown' \in Bells /\ races' \subseteq {"badge", "list"}
  <2>1. CASE Head(feed.frames).event = "snapshot"
    <3>1. heard' = Newest(Head(feed.frames).box) /\ Head(feed.frames).box \in Inboxes /\ shown' \in Bells
          /\ races' = Races("badge", TRUE, Head(feed.frames).box)
      BY <2>1, SnapshotTaken
    <3>2. heard' \in Inboxes
      BY <3>1, NewestTyped DEF BellTyped
    <3> QED
      BY <3>1, <3>2 DEF Races, BellTyped
  <2>2. CASE Head(feed.frames).event = "created"
    <3>1. heard' \in Inboxes
      BY <2>2, CreatedTaken
    <3>2. CASE viewer = "web"
      <4>1. UNCHANGED <<shown, races>>
        BY <2>2, <3>2, CreatedTaken
      <4> QED
        BY <3>1, <4>1 DEF BellTyped
    <3>3. CASE viewer = "ios"
      <4> DEFINE n == Head(feed.frames).of
                 as == Head(feed.frames).box[n]
                 badges == IF as = "unread" /\ heard[n] # "none" THEN {"badge"} ELSE {}
                 lists == IF Behind(as, heard[n]) THEN {"list"} ELSE {}
      <4>1. shown' \in Bells /\ races' = races \union badges \union lists
        BY <2>2, <3>3, CreatedTaken
      <4>2. badges \subseteq {"badge"} /\ lists \subseteq {"list"}
        OBVIOUS
      <4> HIDE DEF badges, lists
      <4> QED
        BY <3>1, <4>1, <4>2 DEF BellTyped
    <3> QED
      BY <1>1, <3>2, <3>3, FrameTaken
  <2> QED
    BY <2>1, <2>2, FrameTaken DEF FrameSet
<1> QED
  BY <1>1, <1>2 DEF BellTyped

LEMMA BellTypedStep ==
    ASSUME BellTyped, OnceEach, [ViewNext]_viewVars
    PROVE  BellTyped'
<1>1. CASE UNCHANGED viewVars
  BY <1>1 DEF viewVars, BellTyped, CallsOf
<1>2. CASE ViewNext
  <2>1. CASE FeedStep
    BY <2>1, TypedFeed
  <2>2. CASE \E r \in asks : \E kind \in r.kinds : ServeView(r, kind)
    BY <2>2, TypedServing
  <2>3. CASE \E r \in asks : HearCall(r)
    BY <2>3, TypedHearing
  <2>4. CASE \E r \in asks : FailCall(r)
    BY <2>4, TypedFailing
  <2>5. CASE HearFrame
    BY <2>5, TypedFrame
  <2>6. CASE Mark \/ OpenViewer
    BY <2>6, TypedMarking
  <2> QED
    BY <1>2, <2>1, <2>2, <2>3, <2>4, <2>5, <2>6 DEF ViewNext, ServerGoesOn, ViewerGoesOn, FeedStep
<1> QED
  BY <1>1, <1>2

-----------------------------------------------------------------------------
\* NotificationViews: a row's way

LEMMA InboxGrows ==
    ASSUME BellTyped, [ViewNext]_viewVars
    PROVE  /\ \A n \in Notices : ~Behind(inbox'[n], inbox[n])
           /\ \A box \in Inboxes : Past(box) => Past(box)'
           /\ \A n \in Notices : inbox[n] # "none" => inbox'[n] # "none"
           /\ \A n \in Notices : inbox[n] = "read" => inbox'[n] = "read"
<1>0. inbox \in Inboxes /\ \A n \in Notices : inbox[n] \in {"none", "unread", "read"}
  BY DEF BellTyped, Inboxes
<1>1. \A n \in Notices : ~Behind(inbox'[n], inbox[n]) /\ inbox'[n] \in {"none", "unread", "read"}
  <2>1. CASE \E n \in Notices : RecordNotice(n)
    <3>1. PICK n \in Notices : RecordNotice(n)
      BY <2>1
    <3>2. inbox' = [inbox EXCEPT ![n] = "unread"] /\ inbox[n] = "none"
      BY <3>1 DEF RecordNotice
    <3>3. ASSUME NEW m \in Notices PROVE ~Behind(inbox'[m], inbox[m]) /\ inbox'[m] \in {"none", "unread", "read"}
      BY <1>0, <3>2 DEF Behind, Inboxes
    <3> QED
      BY <3>3
  <2>2. CASE \E r \in asks : \E kind \in r.kinds : ServeView(r, kind)
    <3>1. PICK r \in asks : \E kind \in r.kinds : ServeView(r, kind)
      BY <2>2
    <3>2. PICK kind \in r.kinds : inbox' = MarkedBy(kind, r.of)
      BY <3>1 DEF ServeView
    <3>3. ASSUME NEW m \in Notices PROVE ~Behind(inbox'[m], inbox[m]) /\ inbox'[m] \in {"none", "unread", "read"}
      BY <1>0, <3>2, MarkedTyped DEF Behind
    <3> QED
      BY <3>3
  <2>3. CASE inbox' = inbox
    BY <1>0, <2>3 DEF Behind
  <2>4. (\E n \in Notices : RecordNotice(n)) \/ (\E r \in asks : \E kind \in r.kinds : ServeView(r, kind)) \/ inbox' = inbox
    BY DEF viewVars, ViewNext, ServerGoesOn, ViewerGoesOn, PublishPulse, LosePulse, WriteCreated, WriteSnapshot,
           SubscribeFeed, ConnectFeed, BreakFeed, HearCall, FailCall, HearFrame, OpenViewer, Mark
  <2> QED
    BY <2>1, <2>2, <2>3, <2>4
<1>2. ASSUME NEW box \in Inboxes, Past(box) PROVE Past(box)'
  <2>1. ASSUME NEW n \in Notices PROVE ~Behind(inbox'[n], box[n])
    <3>1. box[n] \in {"none", "unread", "read"}
      BY DEF Inboxes
    <3> QED
      BY <1>0, <1>1, <1>2, <3>1 DEF Past, Behind
  <2> QED
    BY <2>1 DEF Past
<1> QED
  BY <1>0, <1>1, <1>2 DEF Behind

\* One frame more, one frame fewer.
LEMMA CreatedWritten ==
    ASSUME feed.frames \in Seq(FrameSet), NEW f \in FrameSet, feed'.frames = Append(feed.frames, f)
    PROVE  /\ \A n, i : CreatedAt(n, i)' <=> CreatedAt(n, i) \/ (i = Len(feed.frames) + 1 /\ f.event = "created" /\ f.of = n)
           /\ Len(feed.frames) + 1 \in DOMAIN feed'.frames /\ Len(feed.frames) + 1 \notin DOMAIN feed.frames
           /\ feed'.frames[Len(feed.frames) + 1] = f
           /\ \A i \in DOMAIN feed.frames : i \in DOMAIN feed'.frames /\ feed'.frames[i] = feed.frames[i]
           /\ \A i \in DOMAIN feed'.frames : i \in DOMAIN feed.frames \/ feed'.frames[i] = f
<1>1. PICK s, t, l : s = feed.frames /\ t = feed'.frames /\ l = Len(feed.frames) + 1
  OBVIOUS
<1>2. /\ DOMAIN t = DOMAIN s \union {l} /\ l \notin DOMAIN s /\ t[l] = f
      /\ \A i \in DOMAIN s : t[i] = s[i]
  BY <1>1, FrameWritten
<1>3. \A n, i : CreatedAt(n, i)' <=> CreatedAt(n, i) \/ (i = l /\ f.event = "created" /\ f.of = n)
  BY <1>1, <1>2 DEF CreatedAt
<1> QED
  BY <1>1, <1>2, <1>3

LEMMA CreatedHeard ==
    ASSUME feed.frames \in Seq(FrameSet), feed.frames # <<>>, feed'.frames = Tail(feed.frames)
    PROVE  /\ \A n, i : CreatedAt(n, i)' => CreatedAt(n, i + 1) /\ i \in Nat /\ i + 1 \in DOMAIN feed.frames
           /\ \A n, i : CreatedAt(n, i) /\ i # 1 => CreatedAt(n, i - 1)' /\ i \in Nat /\ i - 1 \in DOMAIN feed'.frames
           /\ \A i \in DOMAIN feed'.frames : i + 1 \in DOMAIN feed.frames /\ feed'.frames[i] = feed.frames[i + 1] /\ i \in Nat
           /\ \A i \in DOMAIN feed.frames : i # 1 => i - 1 \in DOMAIN feed'.frames /\ feed'.frames[i - 1] = feed.frames[i]
           /\ 1 \in DOMAIN feed.frames /\ Head(feed.frames) = feed.frames[1] /\ 1 \in Nat /\ 0 + 1 = 1
           /\ 0 \notin DOMAIN feed'.frames
<1>1. PICK s, t : s = feed.frames /\ t = feed'.frames
  OBVIOUS
<1>2. /\ t \in Seq(FrameSet)
      /\ \A i \in DOMAIN t : i + 1 \in DOMAIN s /\ t[i] = s[i + 1] /\ i \in Nat
      /\ \A i \in DOMAIN s : i # 1 => i - 1 \in DOMAIN t /\ t[i - 1] = s[i] /\ i \in Nat
      /\ Head(s) = s[1] /\ 1 \in DOMAIN s
  BY <1>1, FrameHeard, SMTT(60)
<1>3. 0 \notin DOMAIN t
  BY <1>2, LenProperties
<1> QED
  BY <1>1, <1>2, <1>3, SMTT(60) DEF CreatedAt

LEMMA OnceFeed ==
    ASSUME BellTyped, OnceEach, FeedStep
    PROVE  OnceEach'
<1>0. feed.frames \in Seq(FrameSet) /\ feed \in Feeds /\ inbox \in Inboxes
  BY DEF BellTyped, Feeds
<1>1. ASSUME NEW n \in Notices, RecordNotice(n) PROVE OnceEach'
  <2>1. /\ inbox' = [inbox EXCEPT ![n] = "unread"] /\ inbox[n] = "none" /\ due' = due \union {n} /\ feed' = feed
    BY <1>1 DEF RecordNotice
  <2>2. ~Pending(n)
    BY <2>1 DEF OnceEach
  <2>3. \A m \in Notices : inbox'[m] = IF m = n THEN "unread" ELSE inbox[m]
    BY <1>0, <2>1 DEF Inboxes
  <2> QED
    BY <2>1, <2>2, <2>3 DEF OnceEach, Pending, CreatedAt
<1>2. ASSUME NEW n \in Notices, PublishPulse(n) PROVE OnceEach'
  <2>1. /\ n \in due /\ due' = due \ {n} /\ inbox' = inbox /\ feed'.frames = feed.frames
        /\ feed'.looking \in {feed.looking, feed.looking \union {n}}
    BY <1>0, <1>2 DEF PublishPulse, Feeds
  <2> QED
    BY <2>1 DEF OnceEach, Pending, CreatedAt
<1>3. ASSUME NEW n \in Notices, LosePulse(n) PROVE OnceEach'
  <2>1. due' = due \ {n} /\ inbox' = inbox /\ feed' = feed
    BY <1>3 DEF LosePulse
  <2> QED
    BY <2>1 DEF OnceEach, Pending, CreatedAt
<1>4. ASSUME NEW n \in Notices, WriteCreated(n) PROVE OnceEach'
  <2>1. PICK f : f = [event |-> "created", of |-> n, box |-> inbox]
    OBVIOUS
  <2>2. /\ f \in FrameSet /\ f.event = "created" /\ f.of = n /\ f.box = inbox
        /\ feed'.frames = Append(feed.frames, f) /\ feed'.looking = feed.looking \ {n}
        /\ n \in feed.looking /\ due' = due /\ inbox' = inbox
    BY <1>0, <1>4, <2>1, WrittenTyped DEF WriteCreated
  <2>3. Pending(n) /\ n \notin due /\ inbox[n] # "none" /\ \A i \in DOMAIN feed.frames : ~CreatedAt(n, i)
    BY <2>2 DEF OnceEach, Pending
  <2>4. /\ \A m, i : CreatedAt(m, i)' <=> CreatedAt(m, i) \/ (i = Len(feed.frames) + 1 /\ n = m)
        /\ \A i \in DOMAIN feed.frames : i \in DOMAIN feed'.frames /\ feed'.frames[i] = feed.frames[i]
        /\ \A i \in DOMAIN feed'.frames : i \in DOMAIN feed.frames \/ feed'.frames[i] = f
    BY <1>0, <2>2, CreatedWritten
  <2>5. \A m, i : CreatedAt(m, i) => i \in DOMAIN feed.frames
    BY DEF CreatedAt
  <2>6. due' \intersect feed'.looking = {}
    BY <2>2 DEF OnceEach
  <2>7. \A m \in Notices : \A i \in DOMAIN feed'.frames : CreatedAt(m, i)' => m \notin due' /\ m \notin feed'.looking
    BY <2>2, <2>3, <2>4, <2>5 DEF OnceEach
  <2>8. \A m \in Notices : \A i, j \in DOMAIN feed'.frames : CreatedAt(m, i)' /\ CreatedAt(m, j)' => i = j
    BY <2>3, <2>4, <2>5 DEF OnceEach
  <2>9. \A m \in Notices : Pending(m)' => inbox'[m] # "none"
    BY <2>2, <2>3, <2>4, <2>5 DEF OnceEach, Pending
  <2>10. \A i \in DOMAIN feed'.frames : feed'.frames[i].event = "created" =>
            feed'.frames[i].of \in Notices /\ feed'.frames[i].box[feed'.frames[i].of] # "none"
    BY <2>2, <2>3, <2>4 DEF OnceEach
  <2> QED
    BY <2>6, <2>7, <2>8, <2>9, <2>10 DEF OnceEach
<1>5. ASSUME WriteSnapshot PROVE OnceEach'
  <2>1. PICK f : f = [event |-> "snapshot", of |-> "all", box |-> inbox]
    OBVIOUS
  <2>2. /\ f \in FrameSet /\ f.event = "snapshot"
        /\ feed'.frames = Append(feed.frames, f) /\ feed'.looking = feed.looking
        /\ due' = due /\ inbox' = inbox
    BY <1>0, <1>5, <2>1, WrittenTyped DEF WriteSnapshot
  <2>4. /\ \A m, i : CreatedAt(m, i)' <=> CreatedAt(m, i)
        /\ \A i \in DOMAIN feed'.frames : i \in DOMAIN feed.frames \/ feed'.frames[i] = f
        /\ \A i \in DOMAIN feed.frames : i \in DOMAIN feed'.frames /\ feed'.frames[i] = feed.frames[i]
    BY <1>0, <2>2, CreatedWritten
  <2>5. \A m, i : CreatedAt(m, i) => i \in DOMAIN feed.frames
    BY DEF CreatedAt
  <2>6. due' \intersect feed'.looking = {}
    BY <2>2 DEF OnceEach
  <2>7. \A m \in Notices : \A i \in DOMAIN feed'.frames : CreatedAt(m, i)' => m \notin due' /\ m \notin feed'.looking
    BY <2>2, <2>4, <2>5 DEF OnceEach
  <2>8. \A m \in Notices : \A i, j \in DOMAIN feed'.frames : CreatedAt(m, i)' /\ CreatedAt(m, j)' => i = j
    BY <2>4, <2>5 DEF OnceEach
  <2>9. \A m \in Notices : Pending(m)' => inbox'[m] # "none"
    BY <2>2, <2>4, <2>5 DEF OnceEach, Pending
  <2>10. \A i \in DOMAIN feed'.frames : feed'.frames[i].event = "created" =>
            feed'.frames[i].of \in Notices /\ feed'.frames[i].box[feed'.frames[i].of] # "none"
    BY <2>2, <2>4 DEF OnceEach
  <2> QED
    BY <2>6, <2>7, <2>8, <2>9, <2>10 DEF OnceEach
<1>6. ASSUME SubscribeFeed \/ ConnectFeed PROVE OnceEach'
  <2>1. due' = due /\ inbox' = inbox /\ feed'.frames = feed.frames /\ feed'.looking = feed.looking
    BY <1>0, <1>6 DEF SubscribeFeed, ConnectFeed, Feeds
  <2> QED
    BY <2>1 DEF OnceEach, Pending, CreatedAt
<1>7. ASSUME BreakFeed PROVE OnceEach'
  <2>1. due' = due /\ inbox' = inbox /\ feed'.frames = <<>> /\ feed'.looking = {}
    BY <1>7, FeedOffTyped DEF BreakFeed
  <2>2. DOMAIN feed'.frames = {}
    BY <2>1
  <2> QED
    BY <2>1, <2>2 DEF OnceEach, Pending, CreatedAt
<1> QED
  BY <1>1, <1>2, <1>3, <1>4, <1>5, <1>6, <1>7 DEF FeedStep

LEMMA OnceFrame ==
    ASSUME BellTyped, OnceEach, HearFrame
    PROVE  OnceEach' /\ \A n \in Notices : Pending(n)' => Pending(n)
<1>0. /\ feed.frames # <<>> /\ feed.frames \in Seq(FrameSet) /\ feed'.looking = feed.looking
      /\ feed'.frames = Tail(feed.frames) /\ UNCHANGED <<inbox, due>>
  BY FrameTaken
<1>1. /\ \A n, i : CreatedAt(n, i)' => CreatedAt(n, i + 1) /\ i \in Nat /\ i + 1 \in DOMAIN feed.frames
      /\ \A i \in DOMAIN feed'.frames : i + 1 \in DOMAIN feed.frames /\ feed'.frames[i] = feed.frames[i + 1] /\ i \in Nat
  BY <1>0, CreatedHeard
<1>2. \A n \in Notices : Pending(n)' => Pending(n)
  BY <1>0, <1>1 DEF Pending
<1>3. \A n \in Notices : \A i, j \in DOMAIN feed'.frames : CreatedAt(n, i)' /\ CreatedAt(n, j)' => i = j
  <2>1. ASSUME NEW n \in Notices, NEW i \in DOMAIN feed'.frames, NEW j \in DOMAIN feed'.frames, CreatedAt(n, i)', CreatedAt(n, j)'
        PROVE  i = j
    <3>1. i + 1 = j + 1 /\ i \in Nat /\ j \in Nat
      BY <1>1, <2>1 DEF OnceEach
    <3> QED
      BY <3>1
  <2> QED
    BY <2>1
<1>4. \A n \in Notices : \A i \in DOMAIN feed'.frames : CreatedAt(n, i)' => n \notin due' /\ n \notin feed'.looking
  BY <1>0, <1>1 DEF OnceEach
<1>5. \A n \in Notices : Pending(n)' => inbox'[n] # "none"
  BY <1>0, <1>2 DEF OnceEach
<1>6. \A i \in DOMAIN feed'.frames : feed'.frames[i].event = "created" =>
            feed'.frames[i].of \in Notices /\ feed'.frames[i].box[feed'.frames[i].of] # "none"
  BY <1>1 DEF OnceEach
<1> QED
  BY <1>0, <1>2, <1>3, <1>4, <1>5, <1>6 DEF OnceEach

LEMMA OnceStep ==
    ASSUME BellTyped, OnceEach, [ViewNext]_viewVars
    PROVE  OnceEach'
<1>1. CASE UNCHANGED viewVars
  BY <1>1 DEF viewVars, OnceEach, Pending, CreatedAt
<1>2. CASE ViewNext
  <2>1. CASE FeedStep
    BY <2>1, OnceFeed
  <2>2. CASE HearFrame
    BY <2>2, OnceFrame
  <2>3. CASE UNCHANGED <<due, feed>>
    <3>1. \A n \in Notices : inbox[n] # "none" => inbox'[n] # "none"
      BY InboxGrows
    <3> QED
      BY <2>3, <3>1 DEF OnceEach, Pending, CreatedAt
  <2> QED
    BY <1>2, <2>1, <2>2, <2>3
    DEF ViewNext, ServerGoesOn, ViewerGoesOn, FeedStep, ServeView, HearCall, FailCall, OpenViewer, Mark
<1> QED
  BY <1>1, <1>2

-----------------------------------------------------------------------------
\* NotificationViews: the number on the badge is bounded

LEMMA SubsetCounted ==
    ASSUME NEW W, W \subseteq Notices, NEW V, V \subseteq W
    PROVE  /\ Cardinality(V) \in Nat /\ Cardinality(W) \in Nat /\ Cardinality(Notices) \in Nat
           /\ Cardinality(V) <= Cardinality(W) /\ Cardinality(W) <= Cardinality(Notices)
           /\ \A n \in W : n \notin V => Cardinality(V) + 1 <= Cardinality(W)
<1>1. IsFiniteSet(Notices) /\ IsFiniteSet(W) /\ IsFiniteSet(V)
  BY ViewsAssumption, FS_Subset
<1>2. /\ Cardinality(V) \in Nat /\ Cardinality(W) \in Nat /\ Cardinality(Notices) \in Nat
      /\ Cardinality(V) <= Cardinality(W) /\ Cardinality(W) <= Cardinality(Notices)
  BY <1>1, FS_Subset, FS_CardinalityType
<1>3. ASSUME NEW n \in W, n \notin V PROVE Cardinality(V) + 1 <= Cardinality(W)
  <2>1. V \subseteq W \ {n}
    BY <1>3
  <2>2. IsFiniteSet(W \ {n}) /\ Cardinality(W \ {n}) = Cardinality(W) - 1
    BY <1>1, FS_RemoveElement
  <2>3. Cardinality(V) <= Cardinality(W \ {n})
    BY <2>1, <2>2, FS_Subset
  <2> QED
    BY <1>2, <2>2, <2>3
<1> QED
  BY <1>2, <1>3

LEMMA PendingFeed ==
    ASSUME BellTyped, OnceEach, FeedStep
    PROVE  \A n \in Notices : Pending(n)' => Pending(n) \/ inbox[n] = "none"
<1>0. feed.frames \in Seq(FrameSet) /\ feed \in Feeds /\ inbox \in Inboxes
  BY DEF BellTyped, Feeds
<1>1. ASSUME NEW n \in Notices, RecordNotice(n), NEW m \in Notices, Pending(m)' PROVE Pending(m) \/ inbox[m] = "none"
  BY <1>1 DEF RecordNotice, Pending, CreatedAt
<1>2. ASSUME NEW n \in Notices, PublishPulse(n), NEW m \in Notices, Pending(m)' PROVE Pending(m)
  <2>1. /\ n \in due /\ due' = due \ {n} /\ feed'.frames = feed.frames
        /\ feed'.looking \in {feed.looking, feed.looking \union {n}}
    BY <1>0, <1>2 DEF PublishPulse, Feeds
  <2> QED
    BY <1>2, <2>1 DEF Pending, CreatedAt
<1>3. ASSUME NEW n \in Notices, LosePulse(n), NEW m \in Notices, Pending(m)' PROVE Pending(m)
  BY <1>3 DEF LosePulse, Pending, CreatedAt
<1>4. ASSUME NEW n \in Notices, WriteCreated(n), NEW m \in Notices, Pending(m)' PROVE Pending(m)
  <2>1. PICK f : f = [event |-> "created", of |-> n, box |-> inbox]
    OBVIOUS
  <2>2. /\ f \in FrameSet /\ f.event = "created" /\ f.of = n
        /\ feed'.frames = Append(feed.frames, f) /\ feed'.looking = feed.looking \ {n}
        /\ n \in feed.looking /\ due' = due
    BY <1>0, <1>4, <2>1, WrittenTyped DEF WriteCreated
  <2>4. /\ \A k, i : CreatedAt(k, i)' <=> CreatedAt(k, i) \/ (i = Len(feed.frames) + 1 /\ n = k)
    BY <1>0, <2>2, CreatedWritten
  <2> QED
    BY <1>4, <2>2, <2>4 DEF Pending, CreatedAt
<1>5. ASSUME WriteSnapshot, NEW m \in Notices, Pending(m)' PROVE Pending(m)
  <2>1. PICK f : f = [event |-> "snapshot", of |-> "all", box |-> inbox]
    OBVIOUS
  <2>2. /\ f \in FrameSet /\ f.event = "snapshot"
        /\ feed'.frames = Append(feed.frames, f) /\ feed'.looking = feed.looking
        /\ due' = due
    BY <1>0, <1>5, <2>1, WrittenTyped DEF WriteSnapshot
  <2>4. /\ \A k, i : CreatedAt(k, i)' <=> CreatedAt(k, i)
    BY <1>0, <2>2, CreatedWritten
  <2> QED
    BY <1>5, <2>2, <2>4 DEF Pending, CreatedAt
<1>6. ASSUME SubscribeFeed \/ ConnectFeed, NEW m \in Notices, Pending(m)' PROVE Pending(m)
  <2>1. due' = due /\ feed'.frames = feed.frames /\ feed'.looking = feed.looking
    BY <1>0, <1>6 DEF SubscribeFeed, ConnectFeed, Feeds
  <2> QED
    BY <1>6, <2>1 DEF Pending, CreatedAt
<1>7. ASSUME BreakFeed, NEW m \in Notices, Pending(m)' PROVE Pending(m)
  <2>1. due' = due /\ feed'.frames = <<>> /\ feed'.looking = {}
    BY <1>7, FeedOffTyped DEF BreakFeed
  <2>2. DOMAIN feed'.frames = {}
    BY <2>1
  <2> QED
    BY <1>7, <2>1, <2>2 DEF Pending, CreatedAt
<1> QED
  BY <1>1, <1>2, <1>3, <1>4, <1>5, <1>6, <1>7 DEF FeedStep

LEMMA WaitingFewer ==
    ASSUME BellTyped, OnceEach, [ViewNext]_viewVars
    PROVE  /\ Waiting' \subseteq Waiting /\ Waiting \subseteq Notices
           /\ Cardinality(Waiting') \in Nat /\ Cardinality(Waiting) \in Nat /\ Cardinality(Notices) \in Nat
           /\ Cardinality(Waiting') <= Cardinality(Waiting) /\ Cardinality(Waiting) <= Cardinality(Notices)
           /\ \A n \in Waiting : n \notin Waiting' => Cardinality(Waiting') + 1 <= Cardinality(Waiting)
<1>1. \A n \in Notices : Pending(n)' => Pending(n) \/ inbox[n] = "none"
  <2>1. CASE FeedStep
    BY <2>1, PendingFeed
  <2>2. CASE HearFrame
    BY <2>2, OnceFrame
  <2>3. CASE UNCHANGED <<due, feed>>
    BY <2>3 DEF Pending, CreatedAt
  <2> QED
    BY <2>1, <2>2, <2>3
    DEF ViewNext, ServerGoesOn, ViewerGoesOn, FeedStep, ServeView, HearCall, FailCall, OpenViewer, Mark, viewVars
<1>2. \A n \in Notices : inbox'[n] = "none" => inbox[n] = "none"
  BY InboxGrows
<1>3. PICK W, V : W = Waiting /\ V = Waiting'
  OBVIOUS
<1>4. W \subseteq Notices /\ V \subseteq W
  BY <1>1, <1>2, <1>3 DEF Waiting
<1> QED
  BY <1>3, <1>4, SubsetCounted

LEMMA CountStep ==
    ASSUME BellTyped, OnceEach, CountBounded, [ViewNext]_viewVars
    PROVE  CountBounded'
<1>1. /\ Cardinality(Waiting') \in Nat /\ Cardinality(Waiting) \in Nat /\ Cardinality(Notices) \in Nat
      /\ Cardinality(Waiting') <= Cardinality(Waiting) /\ Cardinality(Waiting) <= Cardinality(Notices)
  BY WaitingFewer
<1>2. shown.count \in Nat /\ BellTyped'
  BY BellTypedStep DEF BellTyped, Bells
<1>3. ASSUME shown'.count \in Nat, shown'.count <= Cardinality(Notices) PROVE CountBounded'
  BY <1>1, <1>3 DEF CountBounded
<1>4. ASSUME shown'.count = shown.count PROVE CountBounded'
  BY <1>1, <1>2, <1>4 DEF CountBounded
<1>5. CASE FeedStep \/ Mark \/ OpenViewer \/ (\E r \in asks : FailCall(r))
         \/ (\E r \in asks : \E kind \in r.kinds : ServeView(r, kind)) \/ UNCHANGED viewVars
  <2>1. shown' = shown
    BY <1>5, FeedRest DEF Mark, OpenViewer, FailCall, ServeView, viewVars
  <2> QED
    BY <1>4, <2>1
<1>6. ASSUME NEW r \in asks, HearCall(r) PROVE CountBounded'
  <2>1. viewer \in {"web", "ios"}
    BY <1>6, HeardCalls DEF BellTyped
  <2>2. CASE viewer = "web" /\ r.kinds = {"list"}
    BY <1>4, <1>6, <2>2, HeardAnswers DEF BellTyped, Bells
  <2>3. CASE viewer = "web" /\ r.kinds = {"count"}
    BY <1>3, <1>6, <2>3, HeardAnswers, UnreadCounted
  <2>4. CASE viewer = "web" /\ r.kinds \notin {{"list"}, {"count"}}
    BY <1>4, <1>6, <2>4, HeardAnswers
  <2>5. CASE viewer = "ios" /\ r.kinds = {"list", "count"}
    BY <1>3, <1>6, <2>5, HeardAnswers, UnreadCounted
  <2>6. CASE viewer = "ios" /\ r.kinds # {"list", "count"}
    BY <1>1, <1>3, <1>6, <2>6, HeardAnswers, ClearedTyped DEF BellTyped
  <2> QED
    BY <2>1, <2>2, <2>3, <2>4, <2>5, <2>6
<1>7. CASE HearFrame
  <2>1. PICK f : f = Head(feed.frames) /\ f.event \in {"snapshot", "created"}
    BY <1>7, FrameTaken DEF FrameSet
  <2>2. CASE f.event = "snapshot"
    BY <1>3, <1>7, <2>1, <2>2, SnapshotTaken, UnreadCounted
  <2>3. CASE f.event = "created"
    <3>1. PICK n, as : n = f.of /\ as = f.box[n]
      OBVIOUS
    <3>2. viewer \in {"web", "ios"} /\ feed'.looking = feed.looking /\ due' = due /\ inbox' = inbox
      BY <1>7, FrameTaken
    <3>3. CASE viewer = "web"
      BY <1>4, <1>7, <2>1, <2>3, <3>1, <3>3, CreatedTaken
    <3>4. CASE viewer = "ios"
      <4>1. n \in Notices /\ CreatedAt(n, 1) /\ shown'.count = IF as = "unread" THEN shown.count + 1 ELSE shown.count
        BY <1>7, <2>1, <2>3, <3>1, <3>4, CreatedTaken
      <4>2. Pending(n) /\ inbox[n] # "none" /\ n \notin due /\ n \notin feed.looking /\ 1 \in DOMAIN feed.frames
        BY <4>1 DEF OnceEach, Pending, CreatedAt
      <4>3. ASSUME Pending(n)' PROVE FALSE
        <5>0. feed.frames \in Seq(FrameSet) /\ feed.frames # <<>> /\ feed'.frames = Tail(feed.frames)
          BY <1>7, FrameTaken
        <5>1. PICK i \in DOMAIN feed'.frames : CreatedAt(n, i)'
          BY <3>2, <4>2, <4>3 DEF Pending
        <5>2. CreatedAt(n, i + 1) /\ i \in Nat /\ i + 1 \in DOMAIN feed.frames /\ 0 \notin DOMAIN feed'.frames
          BY <5>0, <5>1, CreatedHeard
        <5>3. i + 1 = 1
          BY <4>1, <4>2, <5>2 DEF OnceEach
        <5>4. i = 0
          BY <5>2, <5>3
        <5> QED
          BY <5>1, <5>2, <5>4
      <4>4. n \in Waiting /\ n \notin Waiting'
        BY <3>2, <4>1, <4>2, <4>3 DEF Waiting
      <4>5. Cardinality(Waiting') + 1 <= Cardinality(Waiting)
        BY <4>4, WaitingFewer
      <4>6. PICK w, v, c, d, t : /\ w = Cardinality(Waiting) /\ v = Cardinality(Waiting')
                                 /\ c = shown.count /\ d = shown'.count /\ t = Cardinality(Notices)
        OBVIOUS
      <4>7. w \in Nat /\ v \in Nat /\ c \in Nat /\ t \in Nat /\ v + 1 <= w /\ d \in {c, c + 1} /\ c + w <= 2 * t
        BY <1>1, <1>2, <4>1, <4>5, <4>6 DEF CountBounded
      <4>8. d + v <= 2 * t
        BY ONLY <4>7
      <4> QED
        BY <4>6, <4>8 DEF CountBounded
    <3> QED
      BY <3>2, <3>3, <3>4
  <2> QED
    BY <2>1, <2>2, <2>3
<1> QED
  BY <1>5, <1>6, <1>7 DEF ViewNext, ServerGoesOn, ViewerGoesOn, FeedStep

-----------------------------------------------------------------------------
\* NotificationViews: what is read is the inbox's past

LEMMA PastNewest ==
    ASSUME BellTyped, AllPast, NEW box \in Inboxes, Past(box)
    PROVE  Past(Newest(box))
<1>1. heard \in Inboxes /\ Past(heard)
  BY DEF BellTyped, AllPast
<1>2. \A n \in Notices : Newest(box)[n] \in {heard[n], box[n]}
  BY <1>1, NewestTyped
<1> QED
  BY <1>1, <1>2 DEF Past

LEMMA CallsPast ==
    ASSUME BellTyped, AllPast, [ViewNext]_viewVars, CallsOf(viewer', asks'),
           \A q \in asks' : Unanswered(q) \/ (\E r \in asks : SameCall(r, q))
    PROVE  \A q \in asks' : \A k \in q.kinds : q.got[k] \in Inboxes => Past(q.got[k])'
<1>1. ASSUME NEW q \in asks', NEW k \in q.kinds, q.got[k] \in Inboxes, NEW n \in Notices PROVE ~Behind(inbox'[n], q.got[k][n])
  <2>1. ~Unanswered(q)
    BY <1>1, RowIsAnswer DEF Unanswered
  <2>2. PICK r \in asks : SameCall(r, q)
    BY <2>1
  <2>3. k \in r.kinds /\ r.got[k] = q.got[k] /\ Past(q.got[k])
    BY <1>1, <2>2 DEF SameCall, AllPast
  <2>4. Past(q.got[k])'
    BY <1>1, <2>3, InboxGrows
  <2> QED
    BY <2>4 DEF Past
<1> QED
  BY <1>1 DEF Past

LEMMA PastStep ==
    ASSUME BellTyped, OnceEach, AllPast, [ViewNext]_viewVars
    PROVE  AllPast'
<1>0. /\ inbox \in Inboxes /\ heard \in Inboxes /\ Past(heard) /\ BellTyped'
      /\ feed.frames \in Seq(FrameSet) /\ \A i \in DOMAIN feed.frames : feed.frames[i] \in FrameSet /\ feed.frames[i].box \in Inboxes
  <2>1. feed.frames \in Seq(FrameSet)
    BY DEF BellTyped, Feeds
  <2>2. \A i \in DOMAIN feed.frames : feed.frames[i] \in FrameSet
    BY <2>1, LenProperties, ElementOfSeq
  <2> QED
    BY <2>1, <2>2, BellTypedStep DEF BellTyped, AllPast, FrameSet
<1>1. \A box \in Inboxes : Past(box) => Past(box)'
  BY InboxGrows
<1>2. Past(inbox)'
  <2>1. Past(inbox)
    BY DEF Past, Behind
  <2>2. \A n \in Notices : ~Behind(inbox'[n], inbox'[n])
    BY DEF Behind
  <2> QED
    BY <2>2 DEF Past
<1>3. CallsOf(viewer', asks')
  BY <1>0 DEF BellTyped
<1>4. CASE FeedStep
  <2>1. UNCHANGED <<viewer, asks, heard>>
    BY <1>4, FeedRest
  <2>2. \A q \in asks' : \A k \in q.kinds : q.got[k] \in Inboxes => Past(q.got[k])'
    BY <1>3, <2>1, CallsPast DEF SameCall
  <2>10. \A i \in DOMAIN feed.frames : \A n \in Notices : ~Behind(inbox'[n], feed.frames[i].box[n])
    BY <1>0, <1>1 DEF AllPast, Past
  <2>4. \A i \in DOMAIN feed'.frames : \A n \in Notices : ~Behind(inbox'[n], feed'.frames[i].box[n])
    <3>1. CASE feed'.frames = feed.frames
      BY <2>10, <3>1
    <3>2. CASE feed'.frames = <<>>
      BY <3>2
    <3>3. ASSUME NEW f \in FrameSet, f.box = inbox, inbox' = inbox, feed'.frames = Append(feed.frames, f)
          PROVE  \A i \in DOMAIN feed'.frames : \A n \in Notices : ~Behind(inbox'[n], feed'.frames[i].box[n])
      <4>1. /\ \A i \in DOMAIN feed.frames : feed'.frames[i] = feed.frames[i]
            /\ \A i \in DOMAIN feed'.frames : i \in DOMAIN feed.frames \/ feed'.frames[i] = f
        BY <1>0, <3>3, CreatedWritten
      <4>2. \A n \in Notices : ~Behind(inbox'[n], f.box[n])
        BY <3>3 DEF Behind
      <4> QED
        BY <2>10, <4>1, <4>2
    <3>4. CASE \E n \in Notices : WriteCreated(n)
      <4>1. PICK n \in Notices : WriteCreated(n)
        BY <3>4
      <4>2. PICK f : f = [event |-> "created", of |-> n, box |-> inbox]
        OBVIOUS
      <4>3. f \in FrameSet /\ f.box = inbox /\ inbox' = inbox /\ feed'.frames = Append(feed.frames, f)
        BY <1>0, <4>1, <4>2, WrittenTyped DEF WriteCreated, BellTyped
      <4> QED
        BY <3>3, <4>3
    <3>5. CASE WriteSnapshot
      <4>2. PICK f : f = [event |-> "snapshot", of |-> "all", box |-> inbox]
        OBVIOUS
      <4>3. f \in FrameSet /\ f.box = inbox /\ inbox' = inbox /\ feed'.frames = Append(feed.frames, f)
        BY <1>0, <3>5, <4>2, WrittenTyped DEF WriteSnapshot, BellTyped
      <4> QED
        BY <3>3, <4>3
    <3>6. CASE \E n \in Notices : RecordNotice(n) \/ PublishPulse(n) \/ LosePulse(n)
      <4>1. feed'.frames = feed.frames
        BY <3>6 DEF RecordNotice, PublishPulse, LosePulse, BellTyped, Feeds
      <4> QED
        BY <3>1, <4>1
    <3>7. CASE SubscribeFeed \/ ConnectFeed
      <4>1. feed'.frames = feed.frames
        BY <3>7 DEF SubscribeFeed, ConnectFeed, BellTyped, Feeds
      <4> QED
        BY <3>1, <4>1
    <3>8. CASE BreakFeed
      BY <3>2, <3>8, FeedOffTyped DEF BreakFeed
    <3> QED
      BY <1>4, <3>4, <3>5, <3>6, <3>7, <3>8 DEF FeedStep
  <2> QED
    BY <1>0, <1>1, <2>1, <2>2, <2>4 DEF AllPast, Past
<1>5. ASSUME NEW r \in asks, NEW kind \in r.kinds, ServeView(r, kind) PROVE AllPast'
  <2>1. UNCHANGED <<feed, heard>>
    BY <1>5, ServeCalls
  <2>2. PICK q : /\ asks' = (asks \ {r}) \union {q}
                 /\ q.kinds = r.kinds /\ q.got[kind] = inbox'
                 /\ \A k \in r.kinds \ {kind} : q.got[k] = r.got[k]
    BY <1>5, ServeCalls
  <2>3. ASSUME NEW p \in asks', NEW k \in p.kinds, p.got[k] \in Inboxes PROVE Past(p.got[k])'
    <3>1. CASE p.got[k] = inbox'
      BY <1>2, <3>1 DEF Past
    <3>2. CASE p.got[k] # inbox'
      <4>1. \E o \in asks : k \in o.kinds /\ o.got[k] = p.got[k]
        BY <2>2, <2>3, <3>2
      <4> QED
        BY <1>1, <2>3, <4>1 DEF AllPast
    <3> QED
      BY <3>1, <3>2
  <2> QED
    BY <1>0, <1>1, <2>1, <2>3 DEF AllPast, Past
<1>6. ASSUME NEW r \in asks, HearCall(r) PROVE AllPast'
  <2>1. feed' = feed /\ inbox' = inbox
    BY <1>6, HeardAnswers
  <2>2. \A q \in asks' : Unanswered(q) \/ \E p \in asks : SameCall(p, q)
    BY <1>6, HeardCalls
  <2>3. heard' = heard \/ \E k \in r.kinds : r.got[k] \in Inboxes /\ heard' = Newest(r.got[k])
    <3>1. viewer \in {"web", "ios"}
      BY <1>6, HeardCalls DEF BellTyped
    <3>2. CASE r.kinds = {"list"} /\ viewer = "web"
      BY <1>6, <3>2, HeardAnswers
    <3>3. CASE r.kinds = {"count"} /\ viewer = "web"
      <4>1. r.got["count"] \in Inboxes /\ heard' = Newest(r.got["count"])
        BY <1>6, <3>3, HeardAnswers
      <4> QED
        BY <3>3, <4>1
    <3>4. CASE r.kinds \notin {{"list"}, {"count"}} /\ viewer = "web"
      <4>1. \E k \in {"read", "readAll"} : Served(r, k) /\ heard' = Newest(r.got[k])
        BY <1>6, <3>4, HeardAnswers
      <4> QED
        BY <4>1 DEF Served
    <3>5. CASE r.kinds = {"list", "count"} /\ viewer = "ios"
      <4>1. r.got["count"] \in Inboxes /\ heard' = Newest(r.got["count"])
        BY <1>6, <3>5, HeardAnswers
      <4> QED
        BY <3>5, <4>1
    <3>6. CASE r.kinds # {"list", "count"} /\ viewer = "ios"
      <4>1. Served(r, "readAll") /\ heard' = Newest(r.got["readAll"])
        BY <1>6, <3>6, HeardAnswers
      <4> QED
        BY <4>1 DEF Served
    <3> QED
      BY <3>1, <3>2, <3>3, <3>4, <3>5, <3>6
  <2>4. Past(heard')
    BY <1>0, <2>3, PastNewest DEF AllPast
  <2>5. \A q \in asks' : \A k \in q.kinds : q.got[k] \in Inboxes => Past(q.got[k])'
    BY <1>3, <2>2, CallsPast
  <2> QED
    BY <2>1, <2>4, <2>5 DEF AllPast, Past
<1>7. ASSUME NEW r \in asks, FailCall(r) PROVE AllPast'
  <2>1. feed' = feed /\ inbox' = inbox /\ asks' = Late(asks \ {r})
    BY <1>7, FailedCall
  <2>2. \A q \in asks' : \E p \in asks : SameCall(p, q)
    <3>1. asks \ {r} \subseteq Calls
      BY DEF BellTyped, CallsOf
    <3> QED
      BY <2>1, <3>1, LateCalls
  <2>3. heard' = heard \/ \E k \in r.kinds : r.got[k] \in Inboxes /\ heard' = Newest(r.got[k])
    BY <1>7, FailedCall DEF Served
  <2>4. Past(heard')
    BY <1>0, <2>3, PastNewest DEF AllPast
  <2>5. \A q \in asks' : \A k \in q.kinds : q.got[k] \in Inboxes => Past(q.got[k])'
    BY <1>3, <2>2, CallsPast
  <2> QED
    BY <2>1, <2>4, <2>5 DEF AllPast, Past
<1>8. CASE HearFrame
  <2>1. feed.frames # <<>> /\ inbox' = inbox /\ feed'.frames = Tail(feed.frames)
    BY <1>8, FrameTaken
  <2>2. \A q \in asks' : Unanswered(q) \/ \E p \in asks : SameCall(p, q)
    BY <1>8, FrameCalls DEF Continues
  <2>3. \A q \in asks' : \A k \in q.kinds : q.got[k] \in Inboxes => Past(q.got[k])'
    BY <1>3, <2>2, CallsPast
  <2>4. /\ \A i \in DOMAIN feed'.frames : i + 1 \in DOMAIN feed.frames /\ feed'.frames[i] = feed.frames[i + 1]
        /\ 1 \in DOMAIN feed.frames /\ Head(feed.frames) = feed.frames[1]
    BY <1>0, <2>1, CreatedHeard
  <2>5. PICK f : f = Head(feed.frames) /\ f.event \in {"snapshot", "created"} /\ f.box \in Inboxes /\ Past(f.box)
    BY <1>0, <1>8, <2>4, FrameTaken DEF FrameSet, AllPast
  <2>6. Past(heard')
    <3>1. CASE f.event = "snapshot"
      BY <1>8, <2>5, <3>1, SnapshotTaken, PastNewest
    <3>2. CASE f.event = "created"
      <4>1. PICK n, as : n = f.of /\ as = f.box[n]
        OBVIOUS
      <4>2. /\ n \in Notices /\ heard'[n] = IF Behind(as, heard[n]) THEN heard[n] ELSE as
            /\ \A m \in Notices \ {n} : heard'[m] = heard[m]
        BY <1>8, <2>5, <3>2, <4>1, CreatedTaken
      <4>3. \A m \in Notices : heard'[m] \in {heard[m], f.box[m]}
        BY <4>1, <4>2
      <4> QED
        BY <1>0, <2>5, <4>3 DEF Past
    <3> QED
      BY <2>5, <3>1, <3>2
  <2> QED
    BY <2>1, <2>3, <2>4, <2>6 DEF AllPast, Past
<1>9. CASE Mark \/ OpenViewer
  <2>1. UNCHANGED <<feed, inbox, heard>>
    BY <1>9 DEF Mark, OpenViewer
  <2>2. \A q \in asks' : Unanswered(q) \/ \E p \in asks : SameCall(p, q)
    BY <1>9, MarkCalls, OpenCalls DEF Continues
  <2>3. \A q \in asks' : \A k \in q.kinds : q.got[k] \in Inboxes => Past(q.got[k])'
    BY <1>3, <2>2, CallsPast
  <2> QED
    BY <2>1, <2>3 DEF AllPast, Past
<1>10. CASE UNCHANGED viewVars
  BY <1>10 DEF viewVars, AllPast, Past
<1> QED
  BY <1>4, <1>5, <1>6, <1>7, <1>8, <1>9, <1>10 DEF ViewNext, ServerGoesOn, ViewerGoesOn, FeedStep

-----------------------------------------------------------------------------
\* NotificationViews: news on their way

LEMMA HeardNewest ==
    ASSUME BellTyped, NEW box \in Inboxes, heard' = Newest(box)
    PROVE  /\ \A n \in Notices : ~Behind(heard'[n], heard[n]) /\ ~Behind(heard'[n], box[n])
           /\ \A n \in Notices : heard'[n] \in {heard[n], box[n]}
<1>1. ASSUME NEW n \in Notices
      PROVE  heard'[n] \in {heard[n], box[n]} /\ ~Behind(heard'[n], heard[n]) /\ ~Behind(heard'[n], box[n])
  <2>1. heard \in Inboxes
    BY DEF BellTyped
  <2>2. heard[n] \in {"none", "unread", "read"} /\ box[n] \in {"none", "unread", "read"}
    BY <2>1 DEF Inboxes
  <2>3. heard'[n] = IF Behind(box[n], heard[n]) THEN heard[n] ELSE box[n]
    BY <2>1, NewestTyped
  <2> QED
    BY <2>2, <2>3 DEF Behind
<1> QED
  BY <1>1

(* A step in which a viewer hears an answer, and a mark that was heard.      *)
LEMMA HeardMark ==
    ASSUME BellTyped, NEW r \in asks, HearCall(r) \/ FailCall(r)
    PROVE  /\ heard' = heard \/ \E box \in Inboxes : heard' = Newest(box)
           /\ \A k \in {"read", "readAll"} : Served(r, k) => heard' = Newest(r.got[k])
           /\ \A p \in asks \ {r} : (\E k \in {"read", "readAll"} : Served(p, k)) => \E q \in asks' : SameCall(p, q)
           /\ \A q \in asks' : Unanswered(q) \/ \E p \in asks : SameCall(p, q)
           /\ UNCHANGED <<viewer, inbox, due, feed, missed, gap>>
<1>1. CASE HearCall(r)
  <2>1. /\ \A p \in asks \ {r} : (\E k \in {"read", "readAll"} : Served(p, k)) => \E q \in asks' : SameCall(p, q)
        /\ \A q \in asks' : Unanswered(q) \/ \E p \in asks : SameCall(p, q)
        /\ UNCHANGED <<viewer, inbox, due, feed, missed, gap>> /\ viewer \in {"web", "ios"}
    BY <1>1, HeardCalls, HeardAnswers DEF BellTyped
  <2>2. CASE viewer = "web" /\ r.kinds = {"list"}
    BY <1>1, <2>1, <2>2, HeardAnswers DEF Served
  <2>3. CASE viewer = "web" /\ r.kinds = {"count"}
    BY <1>1, <2>1, <2>3, HeardAnswers DEF Served
  <2>4. CASE viewer = "web" /\ r.kinds \notin {{"list"}, {"count"}}
    <3>1. PICK k \in {"read", "readAll"} : Served(r, k) /\ heard' = Newest(r.got[k])
      BY <1>1, <2>4, HeardAnswers
    <3>2. \A j \in {"read", "readAll"} : Served(r, j) => j = k
      BY <3>1 DEF Served
    <3>3. \E box \in Inboxes : heard' = Newest(box)
      BY <3>1 DEF Served
    <3>4. \A j \in {"read", "readAll"} : Served(r, j) => heard' = Newest(r.got[j])
      BY <3>1, <3>2
    <3> QED
      BY <2>1, <3>3, <3>4
  <2>5. CASE viewer = "ios" /\ r.kinds = {"list", "count"}
    BY <1>1, <2>1, <2>5, HeardAnswers DEF Served
  <2>6. CASE viewer = "ios" /\ r.kinds # {"list", "count"}
    <3>1. Served(r, "readAll") /\ heard' = Newest(r.got["readAll"])
      BY <1>1, <2>6, HeardAnswers
    <3>2. \A j \in {"read", "readAll"} : Served(r, j) => j = "readAll"
      BY <3>1 DEF Served
    <3>3. r.got["readAll"] \in Inboxes
      BY <3>1 DEF Served
    <3>4. \E box \in Inboxes : heard' = Newest(box)
      BY <3>1, <3>3
    <3>5. \A j \in {"read", "readAll"} : Served(r, j) => heard' = Newest(r.got[j])
      BY <3>1, <3>2
    <3> QED
      BY <2>1, <3>4, <3>5
  <2> QED
    BY <2>1, <2>2, <2>3, <2>4, <2>5, <2>6
<1>2. CASE FailCall(r)
  <2>1. asks \ {r} \subseteq Calls
    BY DEF BellTyped, CallsOf
  <2>2. /\ asks' = Late(asks \ {r}) /\ UNCHANGED <<viewer, inbox, due, feed, missed, gap>>
        /\ \/ UNCHANGED heard /\ ~\E k \in {"read", "readAll"} : Served(r, k)
           \/ \E k \in {"read", "readAll"} : Served(r, k) /\ heard' = Newest(r.got[k])
    BY <1>2, FailedCall
  <2>3. /\ \A p \in asks \ {r} : \E q \in asks' : SameCall(p, q)
        /\ \A q \in asks' : \E p \in asks : SameCall(p, q)
    BY <2>1, <2>2, LateCalls
  <2>4. \A j, k \in {"read", "readAll"} : Served(r, j) /\ Served(r, k) => j = k /\ r.got[j] \in Inboxes
    BY DEF Served
  <2>5. CASE UNCHANGED heard /\ ~\E k \in {"read", "readAll"} : Served(r, k)
    BY <2>2, <2>3, <2>5
  <2>6. CASE \E k \in {"read", "readAll"} : Served(r, k) /\ heard' = Newest(r.got[k])
    <3>1. PICK k \in {"read", "readAll"} : Served(r, k) /\ heard' = Newest(r.got[k])
      BY <2>6
    <3>2. \E box \in Inboxes : heard' = Newest(box)
      BY <3>1 DEF Served
    <3>3. \A j \in {"read", "readAll"} : Served(r, j) => heard' = Newest(r.got[j])
      BY <2>4, <3>1
    <3> QED
      BY <2>2, <2>3, <3>2, <3>3
  <2> QED
    BY <2>2, <2>5, <2>6
<1> QED
  BY <1>1, <1>2

LEMMA HeardGrows ==
    ASSUME BellTyped, OnceEach, [ViewNext]_viewVars
    PROVE  \A n \in Notices : ~Behind(heard'[n], heard[n])
<1>1. CASE heard' = heard
  BY <1>1 DEF Behind
<1>2. CASE \E box \in Inboxes : heard' = Newest(box)
  BY <1>2, HeardNewest
<1>3. CASE HearFrame
  <2>1. PICK f : f = Head(feed.frames) /\ f.event \in {"snapshot", "created"}
    BY <1>3, FrameTaken DEF FrameSet
  <2>2. CASE f.event = "snapshot"
    BY <1>3, <2>1, <2>2, SnapshotTaken, HeardNewest
  <2>3. CASE f.event = "created"
    <3>1. PICK n, as : n = f.of /\ as = f.box[n]
      OBVIOUS
    <3>2. /\ heard'[n] = IF Behind(as, heard[n]) THEN heard[n] ELSE as
          /\ \A m \in Notices \ {n} : heard'[m] = heard[m]
          /\ as \in {"unread", "read"} /\ n \in Notices
      BY <1>3, <2>1, <2>3, <3>1, CreatedTaken
    <3>3. heard[n] \in {"none", "unread", "read"}
      BY <3>2 DEF BellTyped, Inboxes
    <3> QED
      BY <3>2, <3>3 DEF Behind
  <2> QED
    BY <2>1, <2>2, <2>3
<1>4. ASSUME NEW r \in asks, HearCall(r) \/ FailCall(r) PROVE heard' = heard \/ \E box \in Inboxes : heard' = Newest(box)
  BY <1>4, HeardMark
<1>5. heard' = heard \/ HearFrame \/ \E r \in asks : HearCall(r) \/ FailCall(r)
  BY FeedRest DEF ViewNext, ServerGoesOn, ViewerGoesOn, FeedStep, ServeView, OpenViewer, Mark, viewVars
<1> QED
  BY <1>1, <1>2, <1>3, <1>4, <1>5

LEMMA NewsFeed ==
    ASSUME BellTyped, OnceEach, FeedNews, RowNews, FeedStep
    PROVE  FeedNews' /\ RowNews'
<1>0. feed.frames \in Seq(FrameSet) /\ feed \in Feeds /\ inbox \in Inboxes /\ heard' = heard
  BY FeedRest DEF BellTyped, Feeds
<1>1. ASSUME NEW n \in Notices, RecordNotice(n) PROVE FeedNews' /\ RowNews'
  <2>1. /\ inbox' = [inbox EXCEPT ![n] = "unread"] /\ due' = due \union {n} /\ UNCHANGED <<feed, missed, gap>>
    BY <1>1 DEF RecordNotice
  <2>2. \A m \in Notices : inbox'[m] = IF m = n THEN "unread" ELSE inbox[m]
    BY <1>0, <2>1 DEF Inboxes
  <2>3. Pending(n)' /\ \A m \in Notices : Pending(m) => Pending(m)'
    BY <2>1 DEF Pending, CreatedAt
  <2> QED
    BY <1>0, <2>1, <2>2, <2>3 DEF FeedNews, RowNews
<1>2. ASSUME NEW n \in Notices, PublishPulse(n) PROVE FeedNews' /\ RowNews'
  <2>1. /\ due' = due \ {n} /\ inbox' = inbox /\ feed'.frames = feed.frames /\ feed'.stage = feed.stage
        /\ feed.looking \subseteq feed'.looking
        /\ (n \in feed'.looking /\ UNCHANGED <<missed, gap>>) \/ Missed(n)
    BY <1>0, <1>2 DEF PublishPulse, Feeds
  <2>2. \A m \in Notices : Pending(m) => Pending(m)' \/ m = n
    BY <2>1 DEF Pending, CreatedAt
  <2>3. CASE n \in feed'.looking /\ UNCHANGED <<missed, gap>>
    <3>1. Pending(n)'
      BY <2>3 DEF Pending
    <3> QED
      BY <1>0, <2>1, <2>2, <2>3, <3>1 DEF FeedNews, RowNews
  <2>4. CASE Missed(n)
    <3>1. missed' = missed \union {n} /\ (gap' = IF feed.stage \in {"counted", "open"} THEN gap \union {n} ELSE gap)
      BY <2>4 DEF Missed
    <3> QED
      BY <1>0, <2>1, <2>2, <3>1 DEF FeedNews, RowNews
  <2> QED
    BY <2>1, <2>3, <2>4
<1>3. ASSUME NEW n \in Notices, LosePulse(n) PROVE FeedNews' /\ RowNews'
  <2>1. /\ due' = due \ {n} /\ inbox' = inbox /\ feed' = feed /\ Missed(n)
    BY <1>3 DEF LosePulse
  <2>2. \A m \in Notices : Pending(m) => Pending(m)' \/ m = n
    BY <2>1 DEF Pending, CreatedAt
  <2>3. missed' = missed \union {n} /\ (gap' = IF feed.stage \in {"counted", "open"} THEN gap \union {n} ELSE gap)
    BY <2>1 DEF Missed
  <2> QED
    BY <1>0, <2>1, <2>2, <2>3 DEF FeedNews, RowNews
<1>4. ASSUME NEW n \in Notices, WriteCreated(n) PROVE FeedNews' /\ RowNews'
  <2>1. PICK f : f = [event |-> "created", of |-> n, box |-> inbox]
    OBVIOUS
  <2>2. /\ f \in FrameSet /\ f.event = "created" /\ f.of = n
        /\ feed'.frames = Append(feed.frames, f) /\ feed'.looking = feed.looking \ {n} /\ feed'.stage = feed.stage
        /\ UNCHANGED <<inbox, due, missed, gap>>
    BY <1>0, <1>4, <2>1, WrittenTyped DEF WriteCreated
  <2>4. /\ \A k, i : CreatedAt(k, i)' <=> CreatedAt(k, i) \/ (i = Len(feed.frames) + 1 /\ n = k)
        /\ \A i \in DOMAIN feed.frames : i \in DOMAIN feed'.frames /\ feed'.frames[i] = feed.frames[i]
        /\ Len(feed.frames) + 1 \in DOMAIN feed'.frames
    BY <1>0, <2>2, CreatedWritten
  <2>5. Pending(n)'
    BY <2>4 DEF Pending
  <2>6. \A m \in Notices : Pending(m) => Pending(m)'
    BY <2>2, <2>4, <2>5 DEF Pending
  <2> QED
    BY <1>0, <2>2, <2>4, <2>6 DEF FeedNews, RowNews
<1>5. ASSUME WriteSnapshot PROVE FeedNews' /\ RowNews'
  <2>1. PICK f : f = [event |-> "snapshot", of |-> "all", box |-> inbox]
    OBVIOUS
  <2>2. /\ f \in FrameSet /\ f.event = "snapshot" /\ f.box = inbox
        /\ feed'.frames = Append(feed.frames, f) /\ feed'.looking = feed.looking
        /\ UNCHANGED <<inbox, due, missed, gap>>
    BY <1>0, <1>5, <2>1, WrittenTyped DEF WriteSnapshot
  <2>4. /\ \A k, i : CreatedAt(k, i)' <=> CreatedAt(k, i)
        /\ \A i \in DOMAIN feed.frames : i \in DOMAIN feed'.frames
        /\ Len(feed.frames) + 1 \in DOMAIN feed'.frames /\ feed'.frames[Len(feed.frames) + 1] = f
    BY <1>0, <2>2, CreatedWritten
  <2>6. \A m \in Notices : Pending(m) => Pending(m)'
    BY <2>2, <2>4 DEF Pending
  <2> QED
    BY <1>0, <2>2, <2>4, <2>6 DEF FeedNews, RowNews
<1>6. ASSUME SubscribeFeed \/ ConnectFeed PROVE FeedNews' /\ RowNews'
  <2>1. /\ UNCHANGED <<inbox, due, missed, gap>> /\ feed'.frames = feed.frames /\ feed'.looking = feed.looking
        /\ (feed'.stage = "counting" \/ feed.stage = "counted")
    BY <1>0, <1>6 DEF SubscribeFeed, ConnectFeed, Feeds
  <2>2. \A m \in Notices : Pending(m) => Pending(m)'
    BY <2>1 DEF Pending, CreatedAt
  <2> QED
    BY <1>0, <2>1, <2>2 DEF FeedNews, RowNews
<1>7. ASSUME BreakFeed PROVE FeedNews' /\ RowNews'
  <2>1. /\ due' = due /\ inbox' = inbox /\ feed'.stage = "off"
        /\ missed' = missed \union feed.looking \union {n \in Notices : \E i \in DOMAIN feed.frames : feed.frames[i].of = n}
    BY <1>7, FeedOffTyped DEF BreakFeed
  <2>2. \A n \in Notices \ missed' : Pending(n) => Pending(n)'
    BY <2>1 DEF Pending, CreatedAt
  <2> QED
    BY <1>0, <2>1, <2>2 DEF FeedNews, RowNews
<1> QED
  BY <1>1, <1>2, <1>3, <1>4, <1>5, <1>6, <1>7 DEF FeedStep

LEMMA NewsFrame ==
    ASSUME BellTyped, OnceEach, FeedNews, RowNews, HearFrame
    PROVE  /\ FeedNews' /\ RowNews'
           /\ \A n \in Notices : Pending(n) => Pending(n)' \/ (Head(feed.frames).event = "created" /\ n = Head(feed.frames).of)
<1>0. /\ feed.frames # <<>> /\ feed.frames \in Seq(FrameSet) /\ feed'.looking = feed.looking /\ feed'.stage = feed.stage
      /\ feed'.frames = Tail(feed.frames) /\ UNCHANGED <<inbox, due, missed, gap>> /\ inbox \in Inboxes
  BY FrameTaken DEF BellTyped
<1>1. /\ \A n, i : CreatedAt(n, i) /\ i # 1 => CreatedAt(n, i - 1)' /\ i - 1 \in DOMAIN feed'.frames
      /\ \A i \in DOMAIN feed.frames : i # 1 => i - 1 \in DOMAIN feed'.frames /\ feed'.frames[i - 1] = feed.frames[i]
      /\ 1 \in DOMAIN feed.frames /\ Head(feed.frames) = feed.frames[1]
  BY <1>0, CreatedHeard
<1>2. PICK f : f = Head(feed.frames) /\ f.event \in {"snapshot", "created"}
  BY FrameTaken DEF FrameSet
<1>3. \A n \in Notices : Pending(n) => Pending(n)' \/ (f.event = "created" /\ n = f.of)
  <2>1. ASSUME NEW n \in Notices, Pending(n), ~(f.event = "created" /\ n = f.of) PROVE Pending(n)'
    <3>1. CASE n \in due \/ n \in feed.looking
      BY <1>0, <3>1 DEF Pending
    <3>2. ASSUME NEW i \in DOMAIN feed.frames, CreatedAt(n, i) PROVE Pending(n)'
      <4>1. i # 1
        BY <1>1, <1>2, <2>1, <3>2 DEF CreatedAt
      <4> QED
        BY <1>1, <3>2, <4>1 DEF Pending
    <3> QED
      BY <2>1, <3>1, <3>2 DEF Pending
  <2> QED
    BY <2>1
<1>4. \A n \in Notices : heard[n] # "none" => heard'[n] # "none"
  <2>1. [ViewNext]_viewVars
    BY DEF ViewNext, ViewerGoesOn
  <2>2. \A n \in Notices : ~Behind(heard'[n], heard[n]) /\ heard[n] \in {"none", "unread", "read"}
    BY <2>1, HeardGrows DEF BellTyped, Inboxes
  <2> QED
    BY <2>2 DEF Behind
<1>5. f.event = "created" => heard'[f.of] # "none"
  <2>1. ASSUME f.event = "created" PROVE heard'[f.of] # "none"
    <3>1. PICK n, as : n = f.of /\ as = f.box[n]
      OBVIOUS
    <3>2. n \in Notices /\ as \in {"unread", "read"} /\ heard'[n] = IF Behind(as, heard[n]) THEN heard[n] ELSE as
      BY <1>2, <2>1, <3>1, CreatedTaken
    <3> QED
      BY <3>1, <3>2 DEF Behind
  <2> QED
    BY <2>1
<1>6. \A n \in Notices : f.event = "snapshot" /\ f.box[n] # "none" => heard'[n] # "none"
  <2>1. ASSUME NEW n \in Notices, f.event = "snapshot", f.box[n] # "none" PROVE heard'[n] # "none"
    <3>1. f.box \in Inboxes /\ heard' = Newest(f.box)
      BY <1>2, <2>1, SnapshotTaken
    <3>2. ~Behind(heard'[n], f.box[n]) /\ f.box[n] \in {"none", "unread", "read"}
      BY <3>1, HeardNewest DEF Inboxes
    <3> QED
      BY <2>1, <3>2 DEF Behind
  <2> QED
    BY <2>1
<1>7. RowNews'
  BY <1>0, <1>3, <1>4, <1>5 DEF RowNews
<1>8. FeedNews'
  <2>1. ASSUME NEW n \in Notices, NEW i \in DOMAIN feed.frames, feed.frames[i].event = "snapshot", feed.frames[i].box[n] # "none"
        PROVE  heard'[n] # "none" \/ \E j \in DOMAIN feed'.frames : feed'.frames[j].event = "snapshot" /\ feed'.frames[j].box[n] # "none"
    <3>1. CASE i = 1
      BY <1>1, <1>2, <1>6, <2>1, <3>1
    <3>2. CASE i # 1
      BY <1>1, <2>1, <3>2
    <3> QED
      BY <3>1, <3>2
  <2> QED
    BY <1>0, <1>3, <1>4, <1>5, <2>1 DEF FeedNews
<1> QED
  BY <1>2, <1>3, <1>7, <1>8

LEMMA ServedMark ==
    ASSUME BellTyped, NEW r \in asks, NEW kind \in r.kinds, ServeView(r, kind)
    PROVE  /\ \A n \in Notices : MarkComing(n) => MarkComing(n)' \/ inbox[n] # "read"
           /\ \A n \in Notices : inbox'[n] = "read" => inbox[n] = "read" \/ MarkComing(n)'
           /\ \A n \in Notices : inbox'[n] # inbox[n] => inbox[n] = "unread" /\ inbox'[n] = "read" /\ MarkComing(n)'
           /\ (\E k \in {"read", "readAll"} : \E p \in asks : Served(p, k)) => \E k \in {"read", "readAll"} : \E p \in asks' : Served(p, k)
<1>1. /\ inbox' = MarkedBy(kind, r.of) /\ inbox' \in Inboxes /\ r.kinds \in CallKinds
      /\ inbox \in Inboxes
  BY ServeCalls, CallFields DEF BellTyped
<1>2. PICK q \in asks' : /\ asks' = (asks \ {r}) \union {q}
                         /\ q.kinds = r.kinds /\ q.got[kind] = inbox'
                         /\ \A k \in r.kinds \ {kind} : q.got[k] = r.got[k]
  BY ServeCalls
<1>3. \A n \in Notices : inbox'[n] # inbox[n] => inbox[n] = "unread" /\ inbox'[n] = "read" /\ kind \in {"read", "readAll"}
  BY <1>1, MarkedTyped
<1>4. ASSUME kind \in {"read", "readAll"} PROVE r.kinds = {kind} /\ Served(q, kind)
  BY <1>1, <1>2, <1>4 DEF Served, CallKinds
<1>5. \A n \in Notices : inbox'[n] # inbox[n] => inbox[n] = "unread" /\ inbox'[n] = "read" /\ MarkComing(n)'
  BY <1>2, <1>3, <1>4 DEF MarkComing, ReadBy
<1>6. ASSUME NEW n \in Notices, MarkComing(n), inbox[n] = "read" PROVE MarkComing(n)'
  <2>1. PICK p \in asks, k \in {"read", "readAll"} : Served(p, k) /\ p.got[k][n] = "read"
    BY <1>6 DEF MarkComing, ReadBy
  <2>2. CASE p # r
    BY <1>2, <2>1, <2>2 DEF MarkComing, ReadBy
  <2>3. CASE p = r
    <3>1. kind = k
      BY <2>1, <2>3 DEF Served
    <3>2. inbox'[n] = "read"
      BY <1>3, <1>6
    <3> QED
      BY <1>2, <1>4, <3>1, <3>2 DEF MarkComing, ReadBy
  <2> QED
    BY <2>2, <2>3
<1>7. ASSUME NEW k \in {"read", "readAll"}, NEW p \in asks, Served(p, k)
      PROVE  \E j \in {"read", "readAll"} : \E o \in asks' : Served(o, j)
  <2>1. CASE p # r
    BY <1>2, <1>7, <2>1
  <2>2. CASE p = r
    <3>1. kind = k
      BY <1>7, <2>2 DEF Served
    <3> QED
      BY <1>2, <1>4, <1>7, <3>1
  <2> QED
    BY <2>1, <2>2
<1> QED
  BY <1>5, <1>6, <1>7

LEMMA NewsServing ==
    ASSUME BellTyped, NewsComing, NEW r \in asks, NEW kind \in r.kinds, ServeView(r, kind)
    PROVE  NewsComing'
<1>1. /\ UNCHANGED <<viewer, due, feed, heard, missed, gap>> /\ inbox' = MarkedBy(kind, r.of) /\ inbox \in Inboxes
      /\ r.kinds \in CallKinds
  BY ServeCalls, CallFields DEF BellTyped
<1>2. PICK q \in asks' : /\ asks' = (asks \ {r}) \union {q}
                         /\ q.kinds = r.kinds /\ q.got[kind] = inbox'
                         /\ \A k \in r.kinds \ {kind} : q.got[k] = r.got[k]
  BY ServeCalls
<1>3. \A n \in Notices : inbox'[n] # inbox[n] => inbox[n] = "unread" /\ inbox'[n] = "read" /\ MarkComing(n)'
  BY ServedMark
<1>4. \A n \in Notices : Pending(n) => Pending(n)'
  BY <1>1 DEF Pending, CreatedAt
<1>5. FeedNews' /\ RowNews'
  BY <1>1, <1>3, <1>4 DEF NewsComing, FeedNews, RowNews
<1>6. ReadNews'
  BY <1>1, ServedMark DEF NewsComing, ReadNews
<1>7. ASSUME NEW p \in asks', p.kinds = {"readAll"}, p.got["readAll"] \in Inboxes PROVE UnreadIn(p.got["readAll"]) = {}
  <2>1. CASE p \in asks
    BY <1>7, <2>1 DEF NewsComing, AllRead
  <2>2. CASE p = q
    <3>1. kind = "readAll"
      BY <1>2, <1>7, <2>2
    <3>2. \A n \in Notices : inbox'[n] # "unread"
      BY <1>1, <3>1, MarkedTyped
    <3> QED
      BY <1>2, <2>2, <3>1, <3>2 DEF UnreadIn
  <2> QED
    BY <1>2, <2>1, <2>2
<1> QED
  BY <1>5, <1>6, <1>7 DEF NewsComing, AllRead

LEMMA AllReadStays ==
    ASSUME AllRead, \A q \in asks' : Unanswered(q) \/ \E r \in asks : SameCall(r, q)
    PROVE  AllRead'
<1>1. ASSUME NEW q \in asks', q.kinds = {"readAll"}, q.got["readAll"] \in Inboxes, NEW n \in UnreadIn(q.got["readAll"]) PROVE FALSE
  <2>1. n \in Notices /\ q.got["readAll"] # NotYet
    BY <1>1, RowIsAnswer DEF UnreadIn
  <2>2. PICK r \in asks : SameCall(r, q)
    BY <1>1, <2>1 DEF Unanswered
  <2> QED
    BY <1>1, <2>2 DEF SameCall, AllRead
<1> QED
  BY <1>1 DEF AllRead

LEMMA NewsStep ==
    ASSUME BellTyped, OnceEach, NewsComing, [ViewNext]_viewVars
    PROVE  NewsComing'
<1>0. FeedNews /\ RowNews /\ ReadNews /\ AllRead
  BY DEF NewsComing
<1>1. /\ \A n \in Notices : heard[n] # "none" => heard'[n] # "none"
      /\ \A n \in Notices : heard[n] = "read" => heard'[n] = "read"
  <2>1. BellTyped'
    BY BellTypedStep
  <2>2. \A n \in Notices : /\ ~Behind(heard'[n], heard[n]) /\ heard[n] \in {"none", "unread", "read"}
                           /\ heard'[n] \in {"none", "unread", "read"}
    BY <2>1, HeardGrows DEF BellTyped, Inboxes
  <2> QED
    BY <2>2 DEF Behind
<1>2. CASE FeedStep
  <2>1. asks' = asks /\ heard' = heard
    BY <1>2, FeedRest
  <2>2. \A n \in Notices : inbox'[n] = "read" => inbox[n] = "read"
    <3>1. inbox' = inbox \/ \E n \in Notices : inbox' = [inbox EXCEPT ![n] = "unread"]
      BY <1>2 DEF FeedStep, RecordNotice, PublishPulse, LosePulse, WriteCreated, WriteSnapshot, SubscribeFeed, ConnectFeed, BreakFeed
    <3> QED
      BY <3>1 DEF BellTyped, Inboxes
  <2>3. ReadNews' /\ AllRead'
    BY <1>0, <2>1, <2>2 DEF ReadNews, AllRead, MarkComing
  <2> QED
    BY <1>0, <1>2, <2>3, NewsFeed DEF NewsComing
<1>3. ASSUME NEW r \in asks, NEW kind \in r.kinds, ServeView(r, kind) PROVE NewsComing'
  BY <1>3, NewsServing
<1>4. ASSUME NEW r \in asks, HearCall(r) \/ FailCall(r) PROVE NewsComing'
  <2>1. /\ \A k \in {"read", "readAll"} : Served(r, k) => heard' = Newest(r.got[k])
        /\ \A p \in asks \ {r} : (\E k \in {"read", "readAll"} : Served(p, k)) => \E q \in asks' : SameCall(p, q)
        /\ \A q \in asks' : Unanswered(q) \/ \E p \in asks : SameCall(p, q)
        /\ UNCHANGED <<viewer, inbox, due, feed, missed, gap>>
    BY <1>4, HeardMark
  <2>2. ASSUME NEW n \in Notices, inbox'[n] = "read" PROVE heard'[n] = "read" \/ MarkComing(n)'
    <3>1. heard[n] = "read" \/ MarkComing(n)
      BY <1>0, <2>1, <2>2 DEF ReadNews
    <3>2. ASSUME MarkComing(n) PROVE heard'[n] = "read" \/ MarkComing(n)'
      <4>1. PICK p \in asks, k \in {"read", "readAll"} : Served(p, k) /\ p.got[k][n] = "read"
        BY <3>2 DEF MarkComing, ReadBy
      <4>2. CASE p # r
        <5>1. PICK q \in asks' : SameCall(p, q)
          BY <2>1, <4>1, <4>2
        <5>2. Served(q, k) /\ q.got[k][n] = "read"
          BY <4>1, <5>1 DEF Served, SameCall
        <5> QED
          BY <5>1, <5>2 DEF MarkComing, ReadBy
      <4>3. CASE p = r
        <5>1. r.got[k] \in Inboxes /\ heard' = Newest(r.got[k])
          BY <2>1, <4>1, <4>3 DEF Served
        <5>2. ~Behind(heard'[n], r.got[k][n]) /\ heard'[n] \in {heard[n], r.got[k][n]}
          BY <5>1, HeardNewest
        <5>3. heard[n] \in {"none", "unread", "read"}
          BY DEF BellTyped, Inboxes
        <5> QED
          BY <4>1, <4>3, <5>2, <5>3 DEF Behind
      <4> QED
        BY <4>2, <4>3
    <3> QED
      BY <1>1, <3>1, <3>2
  <2>3. ReadNews'
    BY <2>2 DEF ReadNews
  <2>4. \A n \in Notices : Pending(n)' <=> Pending(n)
    BY <2>1 DEF Pending, CreatedAt
  <2>5. FeedNews' /\ RowNews'
    BY <1>0, <1>1, <2>1, <2>4 DEF FeedNews, RowNews
  <2> QED
    BY <1>0, <2>1, <2>3, <2>5, AllReadStays DEF NewsComing
<1>5. CASE HearFrame
  <2>1. Continues(asks, asks') /\ inbox' = inbox
    BY <1>5, FrameCalls, FrameTaken
  <2>2. ReadNews'
    BY <1>0, <1>1, <2>1, ContinuesMark DEF ReadNews
  <2>3. AllRead'
    BY <1>0, <2>1, AllReadStays DEF Continues
  <2> QED
    BY <1>0, <1>5, <2>2, <2>3, NewsFrame DEF NewsComing
<1>6. CASE Mark \/ OpenViewer
  <2>1. Continues(asks, asks') /\ UNCHANGED <<inbox, due, feed, missed, gap, heard>>
    BY <1>6, MarkCalls, OpenCalls DEF Mark, OpenViewer
  <2>2. ReadNews'
    BY <1>0, <2>1, ContinuesMark DEF ReadNews
  <2>3. AllRead'
    BY <1>0, <2>1, AllReadStays DEF Continues
  <2>4. FeedNews' /\ RowNews'
    BY <1>0, <2>1 DEF FeedNews, RowNews, Pending, CreatedAt
  <2> QED
    BY <2>2, <2>3, <2>4 DEF NewsComing
<1>7. CASE UNCHANGED viewVars
  BY <1>7 DEF viewVars, NewsComing, FeedNews, RowNews, ReadNews, AllRead, Pending, CreatedAt, MarkComing
<1> QED
  BY <1>2, <1>3, <1>4, <1>5, <1>6, <1>7 DEF ViewNext, ServerGoesOn, ViewerGoesOn, FeedStep

-----------------------------------------------------------------------------
\* NotificationViews: the badge

LEMMA CountsUnanswered ==
    ASSUME \A q \in asks' : ~q.late /\ "count" \in q.kinds => Unanswered(q)
    PROVE  CountsNew'
<1>1. ASSUME NEW q \in asks', ~q.late, "count" \in q.kinds, q.got["count"] \in Inboxes, NEW n \in Notices PROVE FALSE
  BY <1>1, RowIsAnswer DEF Unanswered
<1> QED
  BY <1>1 DEF CountsNew, Older

LEMMA CountStays ==
    ASSUME Continues(asks, asks'), CountComing,
           (\E r \in asks : "count" \in r.kinds) => \E q \in asks' : "count" \in q.kinds
    PROVE  CountComing'
<1>1. CASE \E r \in asks : "count" \in r.kinds
  BY <1>1 DEF CountComing
<1>2. ASSUME NEW r \in asks, NEW k \in {"read", "readAll"}, Served(r, k) PROVE CountComing'
  <2>1. PICK q \in asks' : SameCall(r, q)
    BY <1>2 DEF Continues
  <2>2. Served(q, k)
    BY <1>2, <2>1 DEF Served, SameCall
  <2> QED
    BY <2>1, <2>2 DEF CountComing
<1> QED
  BY <1>1, <1>2 DEF CountComing

LEMMA BadgeServing ==
    ASSUME BellTyped, AllPast', CountsNew, BadgeIs, NEW r \in asks, NEW kind \in r.kinds, ServeView(r, kind)
    PROVE  CountsNew' /\ BadgeIs'
<1>1. UNCHANGED <<shown, heard, races>>
  BY ServeCalls
<1>2. PICK q \in asks' : /\ asks' = (asks \ {r}) \union {q}
                         /\ q.kinds = r.kinds /\ q.late = r.late /\ q.got[kind] = inbox'
                         /\ \A k \in r.kinds \ {kind} : q.got[k] = r.got[k]
  BY ServeCalls
<1>3. ~\E n \in Notices : Behind(inbox'[n], heard'[n])
  BY DEF AllPast, Past
<1>4. ASSUME NEW p \in asks', ~p.late, "count" \in p.kinds, p.got["count"] \in Inboxes PROVE ~Older(p.got["count"])'
  <2>1. CASE p \in asks
    BY <1>1, <1>4, <2>1 DEF CountsNew, Older
  <2>2. CASE p = q /\ kind = "count"
    BY <1>2, <1>3, <2>2 DEF Older
  <2>3. CASE p = q /\ kind # "count"
    BY <1>1, <1>2, <1>4, <2>3 DEF CountsNew, Older
  <2> QED
    BY <1>2, <2>1, <2>2, <2>3
<1>5. CountComing => CountComing'
  <2>1. CASE \E p \in asks : "count" \in p.kinds
    BY <1>2, <2>1 DEF CountComing
  <2>2. CASE \E k \in {"read", "readAll"} : \E p \in asks : Served(p, k)
    BY <2>2, ServedMark DEF CountComing
  <2> QED
    BY <2>1, <2>2 DEF CountComing
<1> QED
  BY <1>1, <1>4, <1>5 DEF CountsNew, BadgeIs, Older

LEMMA BadgeHearing ==
    ASSUME BellTyped, AllRead, CountsNew, BadgeIs, NEW r \in asks, HearCall(r)
    PROVE  CountsNew' /\ BadgeIs'
<1>1. viewer \in {"web", "ios"} /\ CallsOf(viewer, asks \ {r}) /\ r.late \in BOOLEAN
  <2>1. viewer \in {"web", "ios"} /\ CallsOf(viewer, asks)
    BY HeardCalls DEF BellTyped
  <2>2. CallsOf(viewer, asks \ {r})
    BY <2>1, FewerCalls
  <2> QED
    BY <2>1, <2>2, CallFields
<1>2. ASSUME "count" \in r.kinds, r.got["count"] \in Inboxes, ~(r.late /\ Older(r.got["count"])), heard' = Newest(r.got["count"])
      PROVE  heard' = r.got["count"]
  BY <1>2, NewestTyped DEF CountsNew, BellTyped
<1>3. CASE viewer = "web" /\ r.kinds = {"list"}
  <2>1. /\ asks' = asks \ {r} /\ shown' = [shown EXCEPT !.list = r.got["list"]]
        /\ races' = Races("list", r.late, r.got["list"]) /\ UNCHANGED heard
    BY <1>3, HeardAnswers, HeardCalls
  <2>2. shown'.count = shown.count
    BY <2>1 DEF BellTyped, Bells
  <2>3. "badge" \in races' <=> "badge" \in races
    BY <2>1 DEF Races
  <2>4. CountComing => CountComing'
    BY <1>3, <2>1 DEF CountComing, Served
  <2> QED
    BY <2>1, <2>2, <2>3, <2>4 DEF CountsNew, BadgeIs, Older
<1>4. CASE viewer = "web" /\ r.kinds = {"count"}
  <2>1. /\ asks' = asks \ {r} /\ r.got["count"] \in Inboxes /\ shown'.count = Cardinality(UnreadIn(r.got["count"]))
        /\ races' = Races("badge", r.late, r.got["count"]) /\ heard' = Newest(r.got["count"])
    BY <1>4, HeardAnswers, HeardCalls
  <2>2. \A q \in asks' : "count" \notin q.kinds
    BY <1>4, <2>1 DEF BellTyped, CallsOf
  <2>3. "badge" \notin races' => ~(r.late /\ Older(r.got["count"]))
    BY <2>1 DEF Races
  <2> QED
    BY <1>2, <1>4, <2>1, <2>2, <2>3 DEF CountsNew, BadgeIs
<1>5. CASE viewer = "web" /\ r.kinds \notin {{"list"}, {"count"}}
  <2>1. asks' = Invalidated(asks \ {r})
    BY <1>5, HeardCalls
  <2>2. /\ \E q \in asks' : "count" \in q.kinds
        /\ \A q \in asks' : ~q.late /\ (("list" \in q.kinds) \/ ("count" \in q.kinds)) => Unanswered(q)
    BY <1>1, <1>5, <2>1, InvalidatedCalls
  <2> QED
    BY <2>2, CountsUnanswered DEF BadgeIs, CountComing
<1>6. CASE viewer = "ios"
  <2>1. \A q \in asks' : q.late
    BY <1>1, <1>6, HeardCalls, LateContinues
  <2>2. CountsNew'
    BY <2>1, CountsUnanswered
  <2>3. CASE r.kinds = {"list", "count"}
    <3>1. /\ r.got["count"] \in Inboxes /\ heard' = Newest(r.got["count"])
          /\ shown'.count = Cardinality(UnreadIn(r.got["count"]))
          /\ races' = {w \in {"list", "badge"} : r.late /\ Older(r.got[IF w = "list" THEN w ELSE "count"])}
      BY <1>6, <2>3, HeardAnswers
    <3>2. "badge" \notin races' => ~(r.late /\ Older(r.got["count"]))
      BY <3>1
    <3> QED
      BY <1>2, <2>2, <2>3, <3>1, <3>2 DEF BadgeIs
  <2>4. CASE r.kinds # {"list", "count"}
    <3>1. /\ Served(r, "readAll") /\ shown' = Cleared(r) /\ heard' = Newest(r.got["readAll"])
          /\ races' = races \union (IF Older(r.got["readAll"]) THEN {"badge", "list"} ELSE {})
      BY <1>6, <2>4, HeardAnswers
    <3>2. shown'.count = 0 /\ r.got["readAll"] \in Inboxes /\ UnreadIn(r.got["readAll"]) = {}
      BY <3>1, ClearedTyped DEF BellTyped, AllRead, Served
    <3>3. "badge" \notin races' => heard' = r.got["readAll"]
      BY <3>1, <3>2, NewestTyped DEF BellTyped
    <3>4. Cardinality({}) = 0
      BY FS_EmptySet
    <3> QED
      BY <2>2, <3>2, <3>3, <3>4 DEF BadgeIs
  <2> QED
    BY <2>3, <2>4
<1> QED
  BY <1>1, <1>3, <1>4, <1>5, <1>6

LEMMA BadgeFrame ==
    ASSUME BellTyped, OnceEach, AllPast, ReadNews, CountsNew, BadgeIs, HearFrame
    PROVE  CountsNew' /\ BadgeIs'
<1>1. viewer \in {"web", "ios"} /\ CallsOf(viewer, asks)
  BY FrameTaken DEF BellTyped
<1>2. /\ Continues(asks, asks')
      /\ (\E r \in asks : "count" \in r.kinds) => \E q \in asks' : "count" \in q.kinds
      /\ \A q \in asks' : ~q.late /\ "count" \in q.kinds => Unanswered(q)
  BY FrameCalls
<1>3. CountsNew' /\ (CountComing => CountComing')
  BY <1>2, CountsUnanswered, CountStays
<1>4. PICK f : f = Head(feed.frames) /\ f.event \in {"snapshot", "created"}
  BY FrameTaken DEF FrameSet
<1>5. CASE f.event = "snapshot"
  <2>1. /\ f.box \in Inboxes /\ heard' = Newest(f.box) /\ shown'.count = Cardinality(UnreadIn(f.box))
        /\ races' = Races("badge", TRUE, f.box)
    BY <1>4, <1>5, SnapshotTaken
  <2>2. "badge" \notin races' => heard' = f.box
    BY <2>1, NewestTyped DEF Races, BellTyped
  <2> QED
    BY <1>3, <2>1, <2>2 DEF BadgeIs
<1>6. CASE f.event = "created" /\ viewer = "web"
  <2>1. asks' = Invalidated(asks)
    BY <1>4, <1>6, CreatedTaken
  <2>2. \E q \in asks' : "count" \in q.kinds
    BY <1>1, <1>6, <2>1, InvalidatedCalls
  <2> QED
    BY <1>3, <2>2 DEF BadgeIs, CountComing
<1>7. CASE f.event = "created" /\ viewer = "ios"
  <2>1. PICK n, as : n = f.of /\ as = f.box[n]
    OBVIOUS
  <2>2. /\ n \in Notices /\ as \in {"unread", "read"} /\ f.box \in Inboxes
        /\ heard' \in Inboxes /\ heard'[n] = IF Behind(as, heard[n]) THEN heard[n] ELSE as
        /\ \A m \in Notices \ {n} : heard'[m] = heard[m]
        /\ shown'.count = IF as = "unread" THEN shown.count + 1 ELSE shown.count
        /\ races' = races \union (IF as = "unread" /\ heard[n] # "none" THEN {"badge"} ELSE {})
                          \union (IF Behind(as, heard[n]) THEN {"list"} ELSE {})
    BY <1>4, <1>7, <2>1, CreatedTaken
  <2>3. heard[n] \in {"none", "unread", "read"} /\ inbox[n] \in {"none", "unread", "read"}
    BY <2>2 DEF BellTyped, Inboxes
  <2>4. SUFFICES ASSUME "badge" \notin races', ~CountComing PROVE shown'.count = Cardinality(UnreadIn(heard'))
    BY <1>3 DEF BadgeIs
  <2>5. "badge" \notin races /\ ~(as = "unread" /\ heard[n] # "none")
    BY <2>2, <2>4
  <2>6. shown.count = Cardinality(UnreadIn(heard)) /\ IsFiniteSet(UnreadIn(heard))
    BY <2>4, <2>5, UnreadCounted DEF BadgeIs
  <2>7. CASE as = "unread"
    <3>1. heard[n] = "none" /\ heard'[n] = "unread"
      BY <2>2, <2>5, <2>7 DEF Behind
    <3>2. UnreadIn(heard') = UnreadIn(heard) \union {n} /\ n \notin UnreadIn(heard)
      BY <2>2, <3>1 DEF UnreadIn
    <3>3. Cardinality(UnreadIn(heard) \union {n}) = Cardinality(UnreadIn(heard)) + 1
      BY <2>6, <3>2, FS_AddElement
    <3> QED
      BY <2>2, <2>6, <2>7, <3>2, <3>3
  <2>8. CASE as = "read"
    <3>1. heard'[n] = "read"
      BY <2>2, <2>3, <2>8 DEF Behind
    <3>2. inbox[n] = "read"
      <4>1. Past(f.box)
        <5>1. feed.frames \in Seq(FrameSet) /\ feed.frames # <<>> /\ f = feed.frames[1]
          BY <1>4, FrameTaken
        <5>2. 1 \in DOMAIN feed.frames
          BY <5>1, FrameHeard
        <5> QED
          BY <5>1, <5>2 DEF AllPast
      <4> QED
        BY <2>1, <2>2, <2>3, <2>8, <4>1 DEF Past, Behind
    <3>3. ~MarkComing(n)
      BY <2>4 DEF MarkComing, ReadBy, CountComing
    <3>4. heard[n] = "read"
      BY <2>2, <3>2, <3>3 DEF ReadNews
    <3>5. UnreadIn(heard') = UnreadIn(heard)
      BY <2>2, <3>1, <3>4 DEF UnreadIn
    <3> QED
      BY <2>2, <2>6, <2>8, <3>5
  <2> QED
    BY <2>2, <2>7, <2>8
<1> QED
  BY <1>1, <1>4, <1>5, <1>6, <1>7

LEMMA BadgeStep ==
    ASSUME BellTyped, OnceEach, AllPast, AllPast', NewsComing, BadgeComing, [ViewNext]_viewVars
    PROVE  BadgeComing'
<1>0. CountsNew /\ BadgeIs /\ ReadNews /\ AllRead
  BY DEF BadgeComing, NewsComing
<1>1. SUFFICES CountsNew' /\ BadgeIs'
  BY DEF BadgeComing
<1>2. CASE FeedStep
  BY <1>0, <1>2, FeedRest DEF CountsNew, BadgeIs, CountComing, Older
<1>3. ASSUME NEW r \in asks, NEW kind \in r.kinds, ServeView(r, kind) PROVE CountsNew' /\ BadgeIs'
  BY <1>0, <1>3, BadgeServing
<1>4. ASSUME NEW r \in asks, HearCall(r) PROVE CountsNew' /\ BadgeIs'
  BY <1>0, <1>4, BadgeHearing
<1>5. ASSUME NEW r \in asks, FailCall(r) PROVE CountsNew' /\ BadgeIs'
  <2>1. asks' = Late(asks \ {r}) /\ races' = {"badge", "list"} /\ CallsOf(viewer, asks \ {r})
    BY <1>5, FailedCall, FewerCalls DEF BellTyped
  <2>2. \A q \in asks' : q.late
    BY <2>1, LateContinues
  <2> QED
    BY <2>1, <2>2, CountsUnanswered DEF BadgeIs
<1>6. CASE HearFrame
  BY <1>0, <1>6, BadgeFrame
<1>7. CASE Mark
  <2>1. asks \subseteq asks' /\ (\A q \in asks' \ asks : Unanswered(q)) /\ UNCHANGED <<shown, heard, races>>
    BY <1>7, MarkCalls DEF Mark
  <2>2. ASSUME NEW q \in asks', ~q.late, "count" \in q.kinds, q.got["count"] \in Inboxes, NEW n \in Notices
        PROVE  ~Behind(q.got["count"][n], heard'[n])
    <3>1. ~Unanswered(q)
      BY <2>2, RowIsAnswer DEF Unanswered
    <3>2. q \in asks
      BY <2>1, <3>1
    <3> QED
      BY <1>0, <2>1, <2>2, <3>2 DEF CountsNew, Older
  <2>3. CountComing => CountComing'
    BY <2>1 DEF CountComing
  <2> QED
    BY <1>0, <2>1, <2>2, <2>3 DEF CountsNew, BadgeIs, Older
<1>8. CASE OpenViewer
  <2>1. (\A q \in asks' : Unanswered(q)) /\ \E q \in asks' : "count" \in q.kinds
    BY <1>8, OpenCalls
  <2> QED
    BY <2>1, CountsUnanswered DEF BadgeIs, CountComing
<1>9. CASE UNCHANGED viewVars
  BY <1>0, <1>9 DEF viewVars, CountsNew, BadgeIs, CountComing, Older
<1> QED
  BY <1>2, <1>3, <1>4, <1>5, <1>6, <1>7, <1>8, <1>9 DEF ViewNext, ServerGoesOn, ViewerGoesOn, FeedStep

-----------------------------------------------------------------------------
\* NotificationViews: the list

(* What a step may do to a row for a list to fit it as before.               *)
Onward(n) ==
    /\ inbox'[n] # inbox[n] => Pending(n)' \/ (inbox[n] = "unread" /\ MarkComing(n)')
    /\ Pending(n) => Pending(n)'
    /\ MarkComing(n) /\ inbox[n] = "read" => MarkComing(n)'

LEMMA MarkStored ==
    ASSUME BellTyped, AllPast, NEW n \in Notices, MarkComing(n)
    PROVE  inbox[n] = "read"
<1>1. PICK r \in asks, k \in {"read", "readAll"} : r.kinds = {k} /\ r.got[k] \in Inboxes /\ r.got[k][n] = "read"
  BY DEF MarkComing, ReadBy, Served
<1>2. Past(r.got[k])
  BY <1>1 DEF AllPast
<1>3. ~Behind(inbox[n], "read") /\ inbox[n] \in {"none", "unread", "read"}
  BY <1>1, <1>2 DEF Past, BellTyped, Inboxes
<1> QED
  BY <1>3 DEF Behind

LEMMA ListFitsOn ==
    ASSUME BellTyped, AllPast, NEW box, ListFits(box), missed \subseteq missed', \A n \in Notices \ missed' : Onward(n)
    PROVE  ListFits(box)'
<1>1. ASSUME NEW n \in Notices \ missed' PROVE Fits(box, n)'
  <2>1. Fits(box, n) /\ Onward(n)
    BY DEF ListFits
  <2>2. MarkComing(n) => inbox[n] = "read"
    BY MarkStored
  <2> QED
    BY <2>1, <2>2 DEF Fits, Onward
<1> QED
  BY <1>1 DEF ListFits

LEMMA ListStays ==
    ASSUME BellTyped, AllPast, ListsFit, ListIs, missed \subseteq missed', \A n \in Notices \ missed' : Onward(n),
           \A q \in asks' : ~q.late /\ "list" \in q.kinds => Unanswered(q) \/ q \in asks,
           ListFetched => ListFetched',
           shown'.list = shown.list, viewer' = viewer, "list" \in races' <=> "list" \in races
    PROVE  ListsFit' /\ ListIs'
<1>1. ASSUME NEW q \in asks', ~q.late, "list" \in q.kinds, q.got["list"] \in Inboxes PROVE ListFits(q.got["list"])'
  <2>1. CASE Unanswered(q)
    <3>1. Notices = {}
      BY <1>1, <2>1, RowIsAnswer DEF Unanswered
    <3> QED
      BY <3>1 DEF ListFits
  <2>2. CASE q \in asks
    <3>1. ListFits(q.got["list"])
      BY <1>1, <2>2 DEF ListsFit
    <3> QED
      BY <3>1, ListFitsOn
  <2> QED
    BY <1>1, <2>1, <2>2
<1>2. PICK box : box = shown.list
  OBVIOUS
<1>3. ListFits(box) => ListFits(box)'
  BY ListFitsOn
<1>4. ListFits(shown.list) => ListFits(shown.list)'
  BY <1>2, <1>3 DEF ListFits, Fits
<1> QED
  BY <1>1, <1>4 DEF ListsFit, ListIs

LEMMA ListsUnanswered ==
    ASSUME \A q \in asks' : ~q.late /\ "list" \in q.kinds => Unanswered(q)
    PROVE  ListsFit'
<1>1. ASSUME NEW q \in asks', ~q.late, "list" \in q.kinds, q.got["list"] \in Inboxes, NEW n \in Notices PROVE FALSE
  BY <1>1, RowIsAnswer DEF Unanswered
<1> QED
  BY <1>1 DEF ListsFit, ListFits

(* A list that is not behind what was heard fits.                            *)
LEMMA FreshFits ==
    ASSUME BellTyped, RowNews, ReadNews, NEW box \in Inboxes, Past(box), ~Older(box)
    PROVE  ListFits(box)
<1>1. ASSUME NEW n \in Notices \ missed, ~Pending(n) PROVE box[n] = inbox[n] \/ (box[n] = "unread" /\ MarkComing(n))
  <2>1. /\ box[n] \in {"none", "unread", "read"} /\ inbox[n] \in {"none", "unread", "read"}
        /\ heard[n] \in {"none", "unread", "read"}
    BY DEF BellTyped, Inboxes
  <2>2. ~Behind(inbox[n], box[n]) /\ ~Behind(box[n], heard[n])
    BY DEF Past, Older
  <2>3. inbox[n] # "none" => heard[n] # "none"
    BY <1>1 DEF RowNews
  <2>4. inbox[n] = "read" => heard[n] = "read" \/ MarkComing(n)
    BY DEF ReadNews
  <2> QED
    BY <2>1, <2>2, <2>3, <2>4 DEF Behind
<1> QED
  BY <1>1 DEF ListFits, Fits

LEMMA PendingKept ==
    ASSUME BellTyped, FeedStep
    PROVE  /\ missed \subseteq missed'
           /\ \A n \in Notices \ missed' : /\ Pending(n) => Pending(n)'
                                           /\ inbox'[n] # inbox[n] => Pending(n)'
<1>0. feed.frames \in Seq(FrameSet) /\ feed \in Feeds /\ inbox \in Inboxes
  BY DEF BellTyped, Feeds
<1>1. ASSUME NEW n \in Notices, RecordNotice(n), NEW m \in Notices
      PROVE  missed' = missed /\ (Pending(m) => Pending(m)') /\ (inbox'[m] # inbox[m] => Pending(m)')
  BY <1>0, <1>1 DEF RecordNotice, Pending, CreatedAt, Inboxes
<1>2. ASSUME NEW n \in Notices, PublishPulse(n)
      PROVE  inbox' = inbox /\ missed \subseteq missed' /\ \A m \in Notices \ missed' : Pending(m) => Pending(m)'
  <2>1. /\ due' = due \ {n} /\ inbox' = inbox /\ feed'.frames = feed.frames /\ feed.looking \subseteq feed'.looking
        /\ (n \in feed'.looking /\ UNCHANGED <<missed, gap>>) \/ Missed(n)
    BY <1>0, <1>2 DEF PublishPulse, Feeds
  <2> QED
    BY <2>1 DEF Pending, CreatedAt, Missed
<1>3. ASSUME NEW n \in Notices, LosePulse(n)
      PROVE  inbox' = inbox /\ missed \subseteq missed' /\ \A m \in Notices \ missed' : Pending(m) => Pending(m)'
  BY <1>3 DEF LosePulse, Missed, Pending, CreatedAt
<1>4. ASSUME NEW n \in Notices, WriteCreated(n)
      PROVE  inbox' = inbox /\ missed' = missed /\ \A m \in Notices : Pending(m) => Pending(m)'
  <2>1. PICK f : f = [event |-> "created", of |-> n, box |-> inbox]
    OBVIOUS
  <2>2. /\ f \in FrameSet /\ f.event = "created" /\ f.of = n
        /\ feed'.frames = Append(feed.frames, f) /\ feed'.looking = feed.looking \ {n}
        /\ UNCHANGED <<inbox, due, missed>>
    BY <1>0, <1>4, <2>1, WrittenTyped DEF WriteCreated
  <2>4. \A k, i : CreatedAt(k, i)' <=> CreatedAt(k, i) \/ (i = Len(feed.frames) + 1 /\ n = k)
    BY <1>0, <2>2, CreatedWritten
  <2>5. \A k, i : CreatedAt(k, i)' => i \in DOMAIN feed'.frames
    BY DEF CreatedAt
  <2>6. \A k, i : CreatedAt(k, i) => i \in DOMAIN feed.frames
    BY DEF CreatedAt
  <2> QED
    BY <2>2, <2>4, <2>5, <2>6 DEF Pending
<1>5. ASSUME WriteSnapshot
      PROVE  inbox' = inbox /\ missed' = missed /\ \A m \in Notices : Pending(m) => Pending(m)'
  <2>1. PICK f : f = [event |-> "snapshot", of |-> "all", box |-> inbox]
    OBVIOUS
  <2>2. /\ f \in FrameSet /\ f.event = "snapshot"
        /\ feed'.frames = Append(feed.frames, f) /\ feed'.looking = feed.looking
        /\ UNCHANGED <<inbox, due, missed>>
    BY <1>0, <1>5, <2>1, WrittenTyped DEF WriteSnapshot
  <2>4. /\ \A k, i : CreatedAt(k, i)' <=> CreatedAt(k, i)
        /\ \A i \in DOMAIN feed.frames : i \in DOMAIN feed'.frames
    BY <1>0, <2>2, CreatedWritten
  <2> QED
    BY <2>2, <2>4 DEF Pending
<1>6. ASSUME SubscribeFeed \/ ConnectFeed
      PROVE  inbox' = inbox /\ missed' = missed /\ \A m \in Notices : Pending(m) => Pending(m)'
  <2>1. UNCHANGED <<inbox, due, missed>> /\ feed'.frames = feed.frames /\ feed'.looking = feed.looking
    BY <1>0, <1>6 DEF SubscribeFeed, ConnectFeed, Feeds
  <2> QED
    BY <2>1 DEF Pending, CreatedAt
<1>7. ASSUME BreakFeed
      PROVE  inbox' = inbox /\ missed \subseteq missed' /\ \A m \in Notices \ missed' : Pending(m) => Pending(m)'
  <2>1. /\ due' = due /\ inbox' = inbox
        /\ missed' = missed \union feed.looking \union {n \in Notices : \E i \in DOMAIN feed.frames : feed.frames[i].of = n}
    BY <1>7 DEF BreakFeed
  <2> QED
    BY <2>1 DEF Pending, CreatedAt
<1> QED
  BY <1>1, <1>2, <1>3, <1>4, <1>5, <1>6, <1>7 DEF FeedStep

LEMMA ListFeed ==
    ASSUME BellTyped, AllPast, ListsFit, ListIs, FeedStep
    PROVE  ListsFit' /\ ListIs'
<1>1. UNCHANGED <<viewer, asks, shown, heard, races>>
  BY FeedRest
<1>2. missed \subseteq missed' /\ \A n \in Notices \ missed' : Onward(n)
  BY <1>1, PendingKept DEF Onward, MarkComing
<1>3. ListFetched => ListFetched'
  BY <1>1 DEF ListFetched
<1> QED
  BY <1>1, <1>2, <1>3, ListStays

LEMMA ListServing ==
    ASSUME BellTyped, AllPast, ListsFit, ListIs, NEW r \in asks, NEW kind \in r.kinds, ServeView(r, kind)
    PROVE  ListsFit' /\ ListIs'
<1>1. UNCHANGED <<viewer, due, feed, shown, heard, missed, races>>
  BY ServeCalls
<1>2. PICK q \in asks' : /\ asks' = (asks \ {r}) \union {q}
                         /\ q.kinds = r.kinds /\ q.late = r.late /\ q.got[kind] = inbox'
                         /\ \A k \in r.kinds \ {kind} : q.got[k] = r.got[k]
  BY ServeCalls
<1>3. \A n \in Notices : Onward(n)
  BY <1>1, ServedMark DEF Onward, Pending, CreatedAt
<1>4. \A box : ListFits(box) => ListFits(box)'
  BY <1>1, <1>3, ListFitsOn
<1>5. ASSUME NEW p \in asks', ~p.late, "list" \in p.kinds, p.got["list"] \in Inboxes PROVE ListFits(p.got["list"])'
  <2>1. CASE p \in asks
    BY <1>4, <1>5, <2>1 DEF ListsFit
  <2>2. CASE p = q /\ kind = "list"
    <3>1. \A n \in Notices : p.got["list"][n] = inbox'[n]
      BY <1>2, <2>2
    <3> QED
      BY <3>1 DEF ListFits, Fits
  <2>3. CASE p = q /\ kind # "list"
    <3>1. ListFits(r.got["list"]) /\ p.got["list"] = r.got["list"]
      BY <1>2, <1>5, <2>3 DEF ListsFit
    <3> QED
      BY <1>4, <3>1
  <2> QED
    BY <1>2, <2>1, <2>2, <2>3
<1>6. ListFetched => ListFetched'
  BY <1>2 DEF ListFetched
<1>7. PICK box : box = shown.list
  OBVIOUS
<1>8. ListFits(shown.list) => ListFits(shown.list)'
  BY <1>1, <1>4, <1>7 DEF ListFits, Fits
<1> QED
  BY <1>1, <1>5, <1>6, <1>8 DEF ListsFit, ListIs

(* A list that is taken over fits, be it late or not, but for what a newer   *)
(* answer has overtaken.                                                     *)
LEMMA TakenFits ==
    ASSUME BellTyped, AllPast, RowNews, ReadNews, ListsFit, NEW r \in asks, "list" \in r.kinds,
           r.got["list"] \in Inboxes, ~(r.late /\ Older(r.got["list"]))
    PROVE  ListFits(r.got["list"])
<1>1. CASE ~r.late
  BY <1>1 DEF ListsFit
<1>2. CASE ~Older(r.got["list"])
  <2>1. Past(r.got["list"])
    BY DEF AllPast
  <2> QED
    BY <1>2, <2>1, FreshFits
<1> QED
  BY <1>1, <1>2

LEMMA ListHeardWeb ==
    ASSUME BellTyped, AllPast, NewsComing, ListsFit, ListIs, viewer = "web", NEW r \in asks, HearCall(r)
    PROVE  ListsFit' /\ ListIs'
<1>1. UNCHANGED <<viewer, inbox, due, feed, missed, gap>> /\ \A n \in Notices : Pending(n) => Pending(n)'
  BY HeardAnswers DEF Pending, CreatedAt
<1>2. ASSUME r.kinds \in {{"list"}, {"count"}}
      PROVE  asks' = asks \ {r} /\ \A n \in Notices : Onward(n)
  <2>1. asks' = asks \ {r}
    BY <1>2, HeardCalls
  <2>2. Continues(asks, asks')
    BY <1>2, <2>1, RestContinues DEF Served
  <2> QED
    BY <1>1, <2>1, <2>2, ContinuesMark DEF Onward
<1>3. CASE r.kinds = {"list"}
  <2>1. /\ r.got["list"] \in Inboxes /\ shown' = [shown EXCEPT !.list = r.got["list"]]
        /\ races' = Races("list", r.late, r.got["list"])
    BY <1>3, HeardAnswers
  <2>2. shown'.list = r.got["list"]
    BY <2>1 DEF BellTyped, Bells
  <2>3. "list" \notin races' => ListFits(r.got["list"])
    <3>1. "list" \notin races' => ~(r.late /\ Older(r.got["list"]))
      BY <2>1 DEF Races
    <3> QED
      BY <1>3, <2>1, <3>1, TakenFits DEF NewsComing
  <2>4. \A box : ListFits(box) => ListFits(box)'
    BY <1>1, <1>2, <1>3, ListFitsOn
  <2>5. ListsFit'
    BY <1>2, <1>3, <2>4 DEF ListsFit
  <2>6. PICK box : box = r.got["list"]
    OBVIOUS
  <2>7. "list" \notin races' => ListFits(box)'
    BY <2>3, <2>4, <2>6
  <2>8. "list" \notin races' => ListFits(shown.list)'
    BY <2>2, <2>6, <2>7 DEF ListFits, Fits
  <2> QED
    BY <2>1, <2>2, <2>5, <2>8 DEF ListIs
<1>4. CASE r.kinds = {"count"}
  <2>1. shown'.list = shown.list /\ races' = Races("badge", r.late, r.got["count"])
    BY <1>4, HeardAnswers
  <2>2. "list" \in races' <=> "list" \in races
    BY <2>1 DEF Races
  <2>3. ListFetched => ListFetched'
    BY <1>2, <1>4 DEF ListFetched
  <2> QED
    BY <1>1, <1>2, <1>4, <2>1, <2>2, <2>3, ListStays
<1>5. CASE r.kinds \notin {{"list"}, {"count"}}
  <2>1. asks' = Invalidated(asks \ {r})
    BY <1>5, HeardCalls
  <2>2. CallsOf("web", asks)
    BY DEF BellTyped
  <2>3. CallsOf("web", asks \ {r})
    BY <2>2, FewerCalls
  <2>4. /\ \E q \in asks' : "list" \in q.kinds
        /\ \A q \in asks' : ~q.late /\ (("list" \in q.kinds) \/ ("count" \in q.kinds)) => Unanswered(q)
    BY <2>1, <2>3, InvalidatedCalls
  <2> QED
    BY <2>4, ListsUnanswered DEF ListIs, ListFetched
<1> QED
  BY <1>3, <1>4, <1>5

LEMMA ListCleared ==
    ASSUME BellTyped, AllPast, NewsComing, ListFits(shown.list), shown.list \in Inboxes, missed' = missed,
           inbox' = inbox, \A n \in Notices : Pending(n) => Pending(n)',
           NEW r \in asks, Served(r, "readAll"), ~Older(r.got["readAll"]), shown' = Cleared(r)
    PROVE  ListFits(shown.list)'
<1> DEFINE got == r.got["readAll"]
<1>1. got \in Inboxes /\ Past(got) /\ UnreadIn(got) = {}
  BY DEF Served, AllPast, NewsComing, AllRead
<1>2. ASSUME NEW n \in Notices \ missed, ~Pending(n) PROVE shown'.list[n] = inbox[n]
  <2>1. shown'.list[n] = IF shown.list # NotYet /\ shown.list[n] # "none" THEN "read" ELSE "none"
    BY ClearedTyped DEF BellTyped
  <2>2. shown.list # NotYet
    BY RowIsAnswer
  <2>3. /\ got[n] \in {"none", "unread", "read"} /\ inbox[n] \in {"none", "unread", "read"}
        /\ heard[n] \in {"none", "unread", "read"}
    BY <1>1 DEF BellTyped, Inboxes
  <2>4. ~Behind(inbox[n], got[n]) /\ ~Behind(got[n], heard[n]) /\ got[n] # "unread"
    BY <1>1 DEF Past, Older, UnreadIn
  <2>5. inbox[n] # "none" => heard[n] # "none"
    BY <1>2 DEF NewsComing, RowNews
  <2>6. shown.list[n] = inbox[n] \/ (shown.list[n] = "unread" /\ MarkComing(n))
    BY <1>2 DEF ListFits, Fits
  <2>7. MarkComing(n) => inbox[n] = "read"
    BY MarkStored
  <2> QED
    BY <2>1, <2>2, <2>3, <2>4, <2>5, <2>6, <2>7 DEF Behind
<1> QED
  BY <1>2 DEF ListFits, Fits

LEMMA ListHeardIos ==
    ASSUME BellTyped, AllPast, NewsComing, ListsFit, ListIs, viewer = "ios", NEW r \in asks, HearCall(r)
    PROVE  ListsFit' /\ ListIs'
<1>1. UNCHANGED <<viewer, inbox, due, feed, missed, gap>> /\ \A n \in Notices : Pending(n) => Pending(n)'
  BY HeardAnswers DEF Pending, CreatedAt
<1>2. asks' = Late(asks \ {r}) /\ CallsOf(viewer, asks)
  BY HeardCalls DEF BellTyped
<1>3. CallsOf(viewer, asks \ {r})
  BY <1>2, FewerCalls
<1>4. /\ Continues(asks \ {r}, asks') /\ \A q \in asks' : q.late
      /\ (\E p \in asks \ {r} : "list" \in p.kinds) => \E q \in asks' : "list" \in q.kinds
  BY <1>2, <1>3, LateContinues
<1>5. ListsFit'
  BY <1>4, ListsUnanswered
<1>6. CASE r.kinds = {"list", "count"}
  <2>1. /\ r.got["list"] \in Inboxes /\ shown'.list = r.got["list"]
        /\ races' = {w \in {"list", "badge"} : r.late /\ Older(r.got[IF w = "list" THEN w ELSE "count"])}
    BY <1>6, HeardAnswers
  <2>2. "list" \notin races' => ~(r.late /\ Older(r.got["list"]))
    BY <2>1
  <2>3. "list" \notin races' => ListFits(r.got["list"])
    BY <1>6, <2>1, <2>2, TakenFits DEF NewsComing
  <2>4. Continues(asks, asks')
    BY <1>4, <1>6, WithoutCall DEF Served
  <2>5. \A n \in Notices : Onward(n)
    BY <1>1, <2>4, ContinuesMark DEF Onward
  <2>6. PICK box : box = r.got["list"]
    OBVIOUS
  <2>7. "list" \notin races' => ListFits(box)'
    BY <1>1, <2>3, <2>5, <2>6, ListFitsOn
  <2>8. "list" \notin races' => ListFits(shown.list)'
    BY <2>1, <2>6, <2>7 DEF ListFits, Fits
  <2> QED
    BY <1>5, <2>1, <2>8 DEF ListIs
<1>7. CASE r.kinds # {"list", "count"}
  <2>1. /\ Served(r, "readAll") /\ shown' = Cleared(r)
        /\ races' = races \union (IF Older(r.got["readAll"]) THEN {"badge", "list"} ELSE {})
    BY <1>7, HeardAnswers
  <2>2. shown'.list \in Inboxes
    BY <2>1, ClearedTyped DEF BellTyped
  <2>3. SUFFICES ASSUME "list" \notin races' PROVE ListFetched' \/ ListFits(shown.list)'
    BY <1>5, <2>2 DEF ListIs
  <2>4. "list" \notin races /\ ~Older(r.got["readAll"])
    BY <2>1, <2>3
  <2>5. CASE ListFetched
    BY <1>4, <2>1, <2>5 DEF ListFetched, Served
  <2>6. CASE shown.list \in Inboxes /\ ListFits(shown.list)
    BY <1>1, <2>1, <2>4, <2>6, ListCleared
  <2> QED
    BY <2>4, <2>5, <2>6 DEF ListIs
<1> QED
  BY <1>6, <1>7

LEMMA ListFrame ==
    ASSUME BellTyped, OnceEach, AllPast, NewsComing, ListsFit, ListIs, HearFrame
    PROVE  ListsFit' /\ ListIs'
<1>1. viewer \in {"web", "ios"} /\ CallsOf(viewer, asks) /\ UNCHANGED <<viewer, inbox, due, missed, gap>>
  BY FrameTaken DEF BellTyped
<1>2. /\ Continues(asks, asks') /\ (ListFetched => ListFetched')
      /\ \A q \in asks' : ~q.late /\ "list" \in q.kinds => Unanswered(q) \/ q \in asks
  BY FrameCalls DEF ListFetched
<1>3. PICK f : f = Head(feed.frames) /\ f.event \in {"snapshot", "created"}
  BY FrameTaken DEF FrameSet
<1>4. \A n \in Notices : Onward(n) \/ (f.event = "created" /\ n = f.of)
  BY <1>1, <1>2, <1>3, NewsFrame, ContinuesMark DEF Onward, NewsComing
<1>5. CASE f.event = "snapshot"
  <2>1. shown'.list = shown.list /\ races' = Races("badge", TRUE, f.box)
    BY <1>3, <1>5, SnapshotTaken
  <2>2. "list" \in races' <=> "list" \in races
    BY <2>1 DEF Races
  <2> QED
    BY <1>1, <1>2, <1>4, <1>5, <2>1, <2>2, ListStays
<1>6. CASE f.event = "created" /\ viewer = "web"
  <2>1. asks' = Invalidated(asks)
    BY <1>3, <1>6, CreatedTaken
  <2>2. /\ \E q \in asks' : "list" \in q.kinds
        /\ \A q \in asks' : ~q.late /\ (("list" \in q.kinds) \/ ("count" \in q.kinds)) => Unanswered(q)
    BY <1>1, <1>6, <2>1, InvalidatedCalls
  <2> QED
    BY <2>2, ListsUnanswered DEF ListIs, ListFetched
<1>7. CASE f.event = "created" /\ viewer = "ios"
  <2>1. PICK n, as : n = f.of /\ as = f.box[n]
    OBVIOUS
  <2>2. /\ n \in Notices /\ as \in {"unread", "read"} /\ f.box \in Inboxes
        /\ asks' = Late(asks) /\ shown'.list \in Inboxes /\ shown'.list[n] = as
        /\ \A m \in Notices \ {n} : shown'.list[m] = IF shown.list = NotYet THEN "none" ELSE shown.list[m]
        /\ races' = races \union (IF as = "unread" /\ heard[n] # "none" THEN {"badge"} ELSE {})
                          \union (IF Behind(as, heard[n]) THEN {"list"} ELSE {})
    BY <1>3, <1>7, <2>1, CreatedTaken
  <2>3. \A q \in asks' : q.late
    BY <1>1, <2>2, LateContinues
  <2>4. ListsFit'
    BY <2>3, ListsUnanswered
  <2>5. SUFFICES ASSUME "list" \notin races', ~ListFetched PROVE ListFits(shown.list)'
    BY <1>2, <2>2, <2>4 DEF ListIs
  <2>6. "list" \notin races /\ ~Behind(as, heard[n])
    BY <2>2, <2>5
  <2>7. shown.list \in Inboxes /\ ListFits(shown.list)
    BY <1>1, <2>5, <2>6 DEF ListIs
  <2>8. ASSUME NEW m \in Notices \ missed, m # n PROVE Fits(shown.list, m)'
    <3>1. Onward(m) /\ Fits(shown.list, m) /\ (MarkComing(m) => inbox[m] = "read")
      BY <1>4, <2>1, <2>7, <2>8, MarkStored DEF ListFits
    <3>2. shown'.list[m] = shown.list[m]
      BY <2>2, <2>7, <2>8, RowIsAnswer
    <3> QED
      BY <1>1, <3>1, <3>2 DEF Fits, Onward
  <2>9. Fits(shown.list, n)'
    <3>1. feed.frames \in Seq(FrameSet) /\ feed.frames # <<>> /\ f = feed.frames[1]
      BY <1>3, FrameTaken
    <3>2. 1 \in DOMAIN feed.frames
      BY <3>1, FrameHeard
    <3>3. Past(f.box)
      BY <3>1, <3>2 DEF AllPast
    <3>4. ~Behind(inbox[n], as) /\ inbox[n] \in {"none", "unread", "read"} /\ heard[n] \in {"none", "unread", "read"}
      BY <2>1, <2>2, <3>3 DEF Past, BellTyped, Inboxes
    <3>5. inbox[n] = "read" => heard[n] = "read" \/ MarkComing(n)'
      BY <1>2, <2>2, ContinuesMark DEF NewsComing, ReadNews
    <3>6. as = inbox[n] \/ (as = "unread" /\ MarkComing(n)')
      BY <2>2, <2>6, <3>4, <3>5 DEF Behind
    <3> QED
      BY <1>1, <2>2, <3>6 DEF Fits
  <2> QED
    BY <1>1, <2>8, <2>9 DEF ListFits
<1> QED
  BY <1>1, <1>3, <1>5, <1>6, <1>7

LEMMA ListStep ==
    ASSUME BellTyped, OnceEach, AllPast, NewsComing, ListIsComing, [ViewNext]_viewVars
    PROVE  ListIsComing'
<1>0. ListsFit /\ ListIs
  BY DEF ListIsComing
<1>1. SUFFICES ListsFit' /\ ListIs'
  BY DEF ListIsComing
<1>2. CASE FeedStep
  BY <1>0, <1>2, ListFeed
<1>3. ASSUME NEW r \in asks, NEW kind \in r.kinds, ServeView(r, kind) PROVE ListsFit' /\ ListIs'
  BY <1>0, <1>3, ListServing
<1>4. ASSUME NEW r \in asks, HearCall(r) PROVE ListsFit' /\ ListIs'
  <2>1. viewer \in {"web", "ios"}
    BY <1>4, HeardCalls DEF BellTyped
  <2> QED
    BY <1>0, <1>4, <2>1, ListHeardWeb, ListHeardIos
<1>5. ASSUME NEW r \in asks, FailCall(r) PROVE ListsFit' /\ ListIs'
  <2>1. asks' = Late(asks \ {r}) /\ races' = {"badge", "list"} /\ CallsOf(viewer, asks)
    BY <1>5, FailedCall DEF BellTyped
  <2>2. CallsOf(viewer, asks \ {r})
    BY <2>1, FewerCalls
  <2>3. \A q \in asks' : q.late
    BY <2>1, <2>2, LateContinues
  <2> QED
    BY <2>1, <2>3, ListsUnanswered DEF ListIs
<1>6. CASE HearFrame
  BY <1>0, <1>6, ListFrame
<1>7. CASE Mark
  <2>1. /\ asks \subseteq asks' /\ (\A q \in asks' \ asks : Unanswered(q)) /\ Continues(asks, asks')
        /\ UNCHANGED <<viewer, inbox, due, feed, missed, shown, races>>
    BY <1>7, MarkCalls DEF Mark
  <2>2. \A n \in Notices : Onward(n)
    BY <2>1, ContinuesMark DEF Onward, Pending, CreatedAt
  <2>3. ListFetched => ListFetched'
    BY <2>1 DEF ListFetched
  <2> QED
    BY <1>0, <2>1, <2>2, <2>3, ListStays
<1>8. CASE OpenViewer
  <2>1. (\A q \in asks' : Unanswered(q)) /\ \E q \in asks' : "list" \in q.kinds
    BY <1>8, OpenCalls
  <2> QED
    BY <2>1, ListsUnanswered DEF ListIs, ListFetched
<1>9. CASE UNCHANGED viewVars
  BY <1>0, <1>9 DEF viewVars, ListsFit, ListIs, ListFetched, ListFits, Fits, Pending, CreatedAt, MarkComing
<1> QED
  BY <1>2, <1>3, <1>4, <1>5, <1>6, <1>7, <1>8, <1>9 DEF ViewNext, ServerGoesOn, ViewerGoesOn, FeedStep

-----------------------------------------------------------------------------
\* NotificationViews: the bell at rest

LEMMA BellInitially == ViewInit => BellInv
<1> SUFFICES ASSUME ViewInit PROVE BellInv
  OBVIOUS
<1>1. /\ viewer = "none" /\ asks = {} /\ due = {} /\ feed = FeedOff /\ inbox = Empty /\ heard = Empty
      /\ missed = {} /\ gap = {} /\ races = {}
      /\ shown = [count |-> 0, counted |-> FALSE, list |-> NotYet]
  BY DEF ViewInit
<1>2. /\ Empty \in Inboxes /\ (\A n \in Notices : Empty[n] = "none")
      /\ FeedOff \in Feeds /\ feed.stage = "off" /\ feed.looking = {} /\ feed.frames = <<>> /\ DOMAIN feed.frames = {}
  BY <1>1, EmptyTyped, FeedOffTyped DEF Empty
<1>3. shown \in Bells /\ shown.count = 0
  BY <1>1 DEF Bells, Answers
<1>4. BellTyped
  BY <1>1, <1>2, <1>3 DEF BellTyped, CallsOf
<1>5. \A n \in Notices : ~Pending(n)
  BY <1>1, <1>2 DEF Pending
<1>6. OnceEach
  BY <1>1, <1>2, <1>5 DEF OnceEach
<1>7. CountBounded
  <2>1. PICK W : W = Waiting
    OBVIOUS
  <2>2. W \subseteq Notices
    BY <2>1 DEF Waiting
  <2>3. Cardinality(W) \in Nat /\ Cardinality(Notices) \in Nat /\ Cardinality(W) <= Cardinality(Notices)
    BY <2>2, SubsetCounted
  <2>4. 0 + Cardinality(W) <= 2 * Cardinality(Notices)
    BY ONLY <2>3
  <2> QED
    BY <1>3, <2>1, <2>4 DEF CountBounded
<1>8. AllPast
  BY <1>1, <1>2 DEF AllPast, Past, Behind
<1>9. NewsComing
  BY <1>1, <1>2 DEF NewsComing, FeedNews, RowNews, ReadNews, AllRead
<1>10. BadgeComing
  <2>1. UnreadIn(heard) = {}
    BY <1>1, <1>2 DEF UnreadIn
  <2>2. shown.count = Cardinality(UnreadIn(heard))
    BY <1>3, <2>1, FS_EmptySet
  <2> QED
    BY <1>1, <2>2 DEF BadgeComing, CountsNew, BadgeIs
<1>11. ListIsComing
  BY <1>1 DEF ListIsComing, ListsFit, ListIs
<1> QED
  BY <1>4, <1>6, <1>7, <1>8, <1>9, <1>10, <1>11 DEF BellInv

LEMMA BellStep == BellInv /\ [ViewNext]_viewVars => BellInv'
<1> SUFFICES ASSUME BellInv, [ViewNext]_viewVars PROVE BellInv'
  OBVIOUS
<1>1. BellTyped /\ OnceEach /\ CountBounded /\ AllPast /\ NewsComing /\ BadgeComing /\ ListIsComing
  BY DEF BellInv
<1>2. BellTyped' /\ OnceEach' /\ CountBounded'
  BY <1>1, BellTypedStep, OnceStep, CountStep
<1>3. AllPast' /\ NewsComing'
  BY <1>1, PastStep, NewsStep
<1>4. BadgeComing' /\ ListIsComing'
  BY <1>1, <1>3, BadgeStep, ListStep
<1> QED
  BY <1>2, <1>3, <1>4 DEF BellInv

LEMMA BellAtRest == BellInv => BellAgrees
<1> SUFFICES ASSUME BellInv PROVE BellAgrees
  OBVIOUS
<1>1. BellTyped /\ CountBounded /\ AllPast /\ NewsComing /\ BadgeIs /\ ListIs
  BY DEF BellInv, BadgeComing, ListIsComing
<1>2. ViewTypeOK
  <2>1. shown.count \in Nat /\ (shown.list = NotYet \/ shown.list \in Inboxes)
    BY <1>1 DEF BellTyped, Bells, Answers
  <2>2. PICK W : W = Waiting
    OBVIOUS
  <2>3. W \subseteq Notices
    BY <2>2 DEF Waiting
  <2>4. Cardinality(W) \in Nat /\ Cardinality(Notices) \in Nat
    BY <2>3, SubsetCounted
  <2>5. shown.count + Cardinality(W) <= 2 * Cardinality(Notices)
    BY <1>1, <2>2 DEF CountBounded
  <2>6. shown.count \in 0..(2 * Cardinality(Notices))
    BY ONLY <2>1, <2>4, <2>5
  <2>7. feed.stage \in {"off", "counting", "counted", "open"} /\ feed.looking \subseteq Notices
    BY <1>1 DEF BellTyped, Feeds
  <2> QED
    BY <1>1, <2>1, <2>6, <2>7 DEF ViewTypeOK, BellTyped
<1>3. Quiet => \A n \in Notices : ~Pending(n) /\ ~MarkComing(n)
  BY DEF Quiet, Pending, CreatedAt, MarkComing
<1>4. BadgeAgrees
  <2> SUFFICES ASSUME Quiet, "badge" \notin races, Skipped = {} PROVE shown.count = Cardinality(UnreadIn(inbox))
    BY DEF BadgeAgrees
  <2>1. shown.count = Cardinality(UnreadIn(heard))
    BY <1>1 DEF BadgeIs, CountComing, Quiet
  <2>2. ASSUME NEW n \in Notices PROVE heard[n] = inbox[n]
    <3>1. heard[n] \in {"none", "unread", "read"} /\ inbox[n] \in {"none", "unread", "read"} /\ ~Behind(inbox[n], heard[n])
      BY <1>1 DEF BellTyped, Inboxes, AllPast, Past
    <3>2. inbox[n] # "none" => heard[n] # "none"
      BY <1>1, <1>3 DEF NewsComing, FeedNews, Quiet, Skipped
    <3>3. inbox[n] = "read" => heard[n] = "read"
      BY <1>1, <1>3 DEF NewsComing, ReadNews
    <3> QED
      BY <3>1, <3>2, <3>3 DEF Behind
  <2>3. UnreadIn(heard) = UnreadIn(inbox)
    BY <2>2 DEF UnreadIn
  <2> QED
    BY <2>1, <2>3
<1>5. ListAgrees
  <2> SUFFICES ASSUME Quiet, "list" \notin races, NEW n \in Notices \ missed PROVE shown.list[n] = inbox[n]
    BY DEF ListAgrees
  <2>1. viewer # "none"
    BY <1>1, FeedOffTyped DEF BellTyped, Quiet
  <2>2. ListFits(shown.list)
    BY <1>1, <2>1 DEF ListIs, ListFetched, Quiet
  <2> QED
    BY <1>3, <2>2 DEF ListFits, Fits
<1> QED
  BY <1>2, <1>4, <1>5 DEF BellAgrees

(* Once nothing is under way, the badge of a web page or of an iPhone counts *)
(* the unread rows and the list shows them as they are stored, but for what  *)
(* was lost or overtaken: whatever the rows, the marks, the answers and the  *)
(* breaks of the stream (use-notifications.ts, NotificationsModel.swift).    *)
THEOREM BellAlwaysAgrees == ViewSpec => []BellAgrees
<1>1. ViewInit => BellInv
  BY BellInitially
<1>2. BellInv /\ [ViewNext]_viewVars => BellInv'
  BY BellStep
<1>3. BellInv => BellAgrees
  BY BellAtRest
<1> QED
  BY <1>1, <1>2, <1>3, PTL DEF ViewSpec
=============================================================================
