--------------------------- MODULE Notifications ---------------------------
(***************************************************************************)
(* Notification pulses from the worker to the open /notifications/stream   *)
(* connections of one API process, for one workspace: the worker writes a  *)
(* row and then publishes a pulse on Redis, RedisNotificationBus keeps one *)
(* Redis subscription for all streams of the workspace, and every stream   *)
(* looks a pulse up in the database before it tells its client.            *)
(*   packages/queue/src/notification-bus.ts                                *)
(*   apps/api/src/modules/notifications/notification.routes.ts             *)
(* The other workspaces have channels of their own and do not interact.    *)
(***************************************************************************)
EXTENDS Naturals, Sequences

CONSTANTS Streams,        \* /stream requests one process serves at a time
          Notifications,  \* rows of the workspace
          ReaderOf,       \* the user behind a stream
          RecipientOf,    \* the user a notification is for
          MaxFaults       \* crashes, lost connections and errors of a behaviour

ASSUME NotificationsAssumption == MaxFaults \in Nat

VARIABLES stage,      \* where the handler of a stream is
          deserted,   \* streams whose client left before onAbort was registered
          seat,       \* where the stream's handler is, or will be put
          entry,      \* the bus's map has a set of handlers for the channel
          wire,       \* commands on the subscriber connection, in order
          subscribed, \* Redis sends the channel's messages to the connection
          down,       \* replies and messages on the way back, in order
          pulse,      \* what has become of a notification's pulse
          looking,    \* lookups of a pulse's row under way
          told,       \* <<stream, notification>> written as a created event
          faults,     \* faults that have happened
          refused     \* history: a command was given up since the process started

busVars    == <<seat, entry, wire, subscribed, down>>
streamVars == <<stage, deserted>>
pulseVars  == <<pulse, looking, told>>
vars == <<streamVars, busVars, pulseVars, faults, refused>>

Commands == [op : {"SUBSCRIBE", "UNSUBSCRIBE"}, of : Streams]
Messages == [what : {"done"}, of : Streams] \cup [what : {"pulse"}, of : Notifications]

(* A stream is "joining" while it awaits the bus, "joined" when the reply  *)
(* has come and the rest of subscribe has not run yet, "closing" while its *)
(* finally block awaits UNSUBSCRIBE.  A seat is "promised" when subscribe  *)
(* holds the set of the map and has not added the handler, "orphan" when   *)
(* that set is no longer the one of the map.                               *)
TypeOK == /\ stage \in [Streams -> {"off", "counting", "joining", "joined", "open", "closing"}]
          /\ deserted \in SUBSET Streams
          /\ seat \in [Streams -> {"none", "promised", "live", "orphan"}]
          /\ entry \in BOOLEAN
          /\ wire \in Seq(Commands)
          /\ subscribed \in BOOLEAN
          /\ down \in Seq(Messages)
          /\ pulse \in [Notifications -> {"none", "due", "sent", "lost"}]
          /\ looking \in SUBSET (Streams \X Notifications)
          /\ told \in SUBSET (Streams \X Notifications)
          /\ faults \in 0 .. MaxFaults
          /\ refused \in BOOLEAN

Init == /\ stage = [s \in Streams |-> "off"]
        /\ deserted = {}
        /\ seat = [s \in Streams |-> "none"]
        /\ entry = FALSE
        /\ wire = <<>>
        /\ subscribed = FALSE
        /\ down = <<>>
        /\ pulse = [n \in Notifications |-> "none"]
        /\ looking = {}
        /\ told = {}
        /\ faults = 0
        /\ refused = FALSE

Fault == /\ faults < MaxFaults
         /\ faults' = faults + 1

-----------------------------------------------------------------------------
(* The stream's handler.                                                   *)

(* A request arrives; it counts the unread rows and writes the snapshot.   *)
Connect(s) == /\ stage[s] = "off"
              /\ stage' = [stage EXCEPT ![s] = "counting"]
              /\ UNCHANGED <<deserted, busVars, pulseVars, faults, refused>>

\* Mutant: subscribe does not wait for Redis, the handler is in the set while
\* the stream may still end with an error.
SubscribeAtOnce(s) ==
  /\ stage[s] = "counting"
  /\ seat' = [seat EXCEPT ![s] = "live"]
  /\ entry' = TRUE
  /\ stage' = [stage EXCEPT ![s] = IF entry THEN "open" ELSE "joining"]
  /\ wire' = IF entry THEN wire ELSE Append(wire, [op |-> "SUBSCRIBE", of |-> s])
  /\ UNCHANGED <<deserted, subscribed, down, pulseVars, faults, refused>>

(* The snapshot is written and the stream subscribes.  The first of the    *)
(* channel makes the set, sends SUBSCRIBE and waits; any later one finds   *)
(* the set and is done, whether or not the first has been answered.        *)
Subscribe(s) ==
  /\ stage[s] = "counting"
  /\ \/ /\ entry
        /\ stage' = [stage EXCEPT ![s] = "open"]
        /\ seat' = [seat EXCEPT ![s] = "live"]
        /\ UNCHANGED <<entry, wire>>
     \/ /\ ~entry
        /\ entry' = TRUE
        /\ stage' = [stage EXCEPT ![s] = "joining"]
        /\ seat' = [seat EXCEPT ![s] = "promised"]
        /\ wire' = Append(wire, [op |-> "SUBSCRIBE", of |-> s])
  /\ UNCHANGED <<deserted, subscribed, down, pulseVars, faults, refused>>

(* SUBSCRIBE has been answered: the handler goes into the set it was       *)
(* promised, and the stream waits for its client to leave.                 *)
Attach(s) == /\ stage[s] = "joined"
             /\ stage' = [stage EXCEPT ![s] = "open"]
             /\ seat' = [seat EXCEPT ![s] = IF @ = "promised" THEN "live" ELSE @]
             /\ UNCHANGED <<deserted, entry, wire, subscribed, down, pulseVars, faults, refused>>

(* The client leaves before the stream listens for it: nobody is told.     *)
LeaveEarly(s) == /\ stage[s] \in {"counting", "joining", "joined"}
                 /\ deserted' = deserted \cup {s}
                 /\ UNCHANGED <<stage, busVars, pulseVars, faults, refused>>

\* Mutant: an empty set leaves the map and the channel stays subscribed.
LeaveQuietly(s) ==
  LET others == {r \in Streams \ {s} : seat[r] = "live"} IN
  /\ stage[s] = "open" /\ s \notin deserted
  /\ stage' = [stage EXCEPT ![s] = "off"]
  /\ entry' = (entry /\ others # {})
  /\ seat' = [r \in Streams |-> IF r = s THEN "none"
                                ELSE IF others = {} /\ seat[r] = "promised" THEN "orphan" ELSE seat[r]]
  /\ UNCHANGED <<wire, deserted, subscribed, down, pulseVars, faults, refused>>

(* The client leaves and the finally block unsubscribes: the set of the    *)
(* map loses the handler, if it has it, and when that set is then empty it *)
(* is taken out of the map and UNSUBSCRIBE is sent.                        *)
Leave(s) ==
  LET others == {r \in Streams \ {s} : seat[r] = "live"} IN
  /\ stage[s] = "open" /\ s \notin deserted
  /\ \/ /\ entry /\ others = {}
        /\ entry' = FALSE
        /\ seat' = [r \in Streams |-> IF r = s THEN "none"
                                      ELSE IF seat[r] = "promised" THEN "orphan" ELSE seat[r]]
        /\ wire' = Append(wire, [op |-> "UNSUBSCRIBE", of |-> s])
        /\ stage' = [stage EXCEPT ![s] = "closing"]
     \/ /\ ~entry \/ others # {}
        /\ seat' = [seat EXCEPT ![s] = "none"]
        /\ stage' = [stage EXCEPT ![s] = "off"]
        /\ UNCHANGED <<entry, wire>>
  /\ UNCHANGED <<deserted, subscribed, down, pulseVars, faults, refused>>

(* Counting the unread rows fails, and the stream ends.                    *)
CountFails(s) == /\ Fault
                 /\ stage[s] = "counting"
                 /\ stage' = [stage EXCEPT ![s] = "off"]
                 /\ deserted' = deserted \ {s}
                 /\ UNCHANGED <<busVars, pulseVars, refused>>

-----------------------------------------------------------------------------
(* The subscriber connection.                                              *)

(* Redis executes the next command and answers it.                         *)
Execute == /\ wire # <<>>
           /\ subscribed' = (Head(wire).op = "SUBSCRIBE")
           /\ wire' = Tail(wire)
           /\ down' = Append(down, [what |-> "done", of |-> Head(wire).of])
           /\ UNCHANGED <<streamVars, seat, entry, pulseVars, faults, refused>>

(* A reply wakes the stream that waits for it.                             *)
Reply == /\ down # <<>> /\ Head(down).what = "done"
         /\ down' = Tail(down)
         /\ stage' = [stage EXCEPT ![Head(down).of] = IF @ = "joining" THEN "joined" ELSE "off"]
         /\ UNCHANGED <<deserted, seat, entry, wire, subscribed, pulseVars, faults, refused>>

(* ioredis gives up on the next command (maxRetriesPerRequest).  subscribe *)
(* throws, so the stream ends without unsubscribing and its set stays in   *)
(* the map; the error of UNSUBSCRIBE is swallowed.                         *)
Reject == /\ Fault
          /\ wire # <<>>
          /\ wire' = Tail(wire)
          /\ LET s == Head(wire).of IN
             /\ stage' = [stage EXCEPT ![s] = "off"]
             /\ seat' = [seat EXCEPT ![s] = "none"]
             /\ deserted' = deserted \ {s}
          /\ refused' = TRUE
          /\ UNCHANGED <<entry, subscribed, down, pulseVars>>

(* The connection breaks and is restored: ioredis sends the commands again *)
(* and renews the subscription, the message under way is lost.             *)
Glitch == /\ Fault
          /\ down # <<>> /\ Head(down).what = "pulse"
          /\ down' = Tail(down)
          /\ UNCHANGED <<streamVars, seat, entry, wire, subscribed, pulseVars, refused>>

(* The API process dies with its streams and its connection.               *)
Restart == /\ Fault
           /\ stage' = [s \in Streams |-> "off"]
           /\ deserted' = {}
           /\ seat' = [s \in Streams |-> "none"]
           /\ entry' = FALSE
           /\ wire' = <<>>
           /\ subscribed' = FALSE
           /\ down' = <<>>
           /\ looking' = {}
           /\ refused' = FALSE
           /\ refused' = FALSE
           /\ UNCHANGED <<pulse, told>>

-----------------------------------------------------------------------------
(* The pulses.                                                             *)

(* The worker commits the final state of a document with its notification. *)
Record(n) == /\ pulse[n] = "none"
             /\ pulse' = [pulse EXCEPT ![n] = "due"]
             /\ UNCHANGED <<streamVars, busVars, looking, told, faults, refused>>

(* It then publishes; Redis keeps nothing for a channel without            *)
(* subscribers.                                                            *)
Publish(n) == /\ pulse[n] = "due"
              /\ pulse' = [pulse EXCEPT ![n] = IF subscribed THEN "sent" ELSE "lost"]
              /\ down' = IF subscribed THEN Append(down, [what |-> "pulse", of |-> n]) ELSE down
              /\ UNCHANGED <<streamVars, seat, entry, wire, subscribed, looking, told, faults, refused>>

(* The worker dies before it publishes, or Redis refuses: a warning.       *)
PublishFails(n) == /\ Fault
                   /\ pulse[n] = "due"
                   /\ pulse' = [pulse EXCEPT ![n] = "lost"]
                   /\ UNCHANGED <<streamVars, busVars, looking, told, refused>>

\* Mutant: the fan-out stops at a handler of another recipient.
FanoutToOneReader ==
  /\ down # <<>> /\ Head(down).what = "pulse"
  /\ down' = Tail(down)
  /\ LET n == Head(down).of
         live == {r \in Streams : entry /\ seat[r] = "live"}
     IN looking' = IF \E r \in live : ReaderOf[r] # RecipientOf[n] THEN looking
                   ELSE looking \cup {<<s, n>> : s \in live}
  /\ UNCHANGED <<streamVars, seat, entry, wire, subscribed, pulse, told, faults, refused>>

(* A message is fanned out to the handlers of the set in the map; those of *)
(* another recipient return, the others look the row up.                   *)
Fanout == /\ down # <<>> /\ Head(down).what = "pulse"
          /\ down' = Tail(down)
          /\ LET n == Head(down).of IN
             looking' = looking \cup
                        {<<s, n>> : s \in {r \in Streams : entry /\ seat[r] = "live"
                                                           /\ ReaderOf[r] = RecipientOf[n]}}
          /\ UNCHANGED <<streamVars, seat, entry, wire, subscribed, pulse, told, faults, refused>>

(* The row is read and, unless the client has left, written to it.         *)
Tell(s, n) == /\ <<s, n>> \in looking
              /\ looking' = looking \ {<<s, n>>}
              /\ told' = IF stage[s] = "open" /\ s \notin deserted THEN told \cup {<<s, n>>} ELSE told
              /\ UNCHANGED <<streamVars, busVars, pulse, faults, refused>>

(* The lookup fails: an error is logged and the pulse is gone.             *)
TellFails(s, n) == /\ Fault
                   /\ <<s, n>> \in looking
                   /\ looking' = looking \ {<<s, n>>}
                   /\ UNCHANGED <<streamVars, busVars, pulse, told, refused>>

-----------------------------------------------------------------------------

Stream(s) == Connect(s) \/ Subscribe(s) \/ Attach(s) \/ LeaveEarly(s) \/ Leave(s) \/ CountFails(s)
Connection == Execute \/ Reply \/ Reject \/ Glitch \/ Restart
Pulse(n) == \/ Record(n) \/ Publish(n) \/ PublishFails(n)
            \/ \E s \in Streams : Tell(s, n) \/ TellFails(s, n)

Next == \/ \E s \in Streams : Stream(s)
        \/ Connection
        \/ Fanout
        \/ \E n \in Notifications : Pulse(n)

(* What the process and the connection have begun they finish; the     *)
(* worker goes on to publish.  Clients come and go as they like.           *)
Fairness == /\ \A s \in Streams : WF_vars(Subscribe(s)) /\ WF_vars(Attach(s))
            /\ WF_vars(Execute) /\ WF_vars(Reply) /\ WF_vars(Fanout)
            /\ \A n \in Notifications : WF_vars(Publish(n))
            /\ \A s \in Streams, n \in Notifications : WF_vars(Tell(s, n))

Spec == Init /\ [][Next]_vars /\ Fairness

-----------------------------------------------------------------------------
(* Properties.                                                             *)

(* What the connection will be when Redis has executed all commands.       *)
Outcome == IF wire = <<>> THEN subscribed ELSE wire[Len(wire)].op = "SUBSCRIBE"

(* However the streams come and go while commands are under way, the       *)
(* channel ends up subscribed exactly when the map has a set for it:       *)
(* neither a set that no message will reach nor a subscription nobody uses *)
(* (notification-bus.ts 58-74).  A command that ioredis gives up breaks    *)
(* this, because the set stays in the map.                                 *)
SubscriptionTracksSet == ~refused => (Outcome = entry)

(* A handler in the set of the map belongs to a stream that is open: no    *)
(* message calls the handler of a stream that has ended, however late its  *)
(* own subscription was answered and whoever emptied the set meanwhile.    *)
NoGhostHandlers == \A s \in Streams : seat[s] = "live" => entry /\ stage[s] = "open"

(* A pulse published while a stream's handler is in the set of the map     *)
(* reaches the stream if it is for its user, unless a fault happens, the   *)
(* stream ends, or Redis had not executed the subscription yet.            *)
ListenersHear ==
  \A s \in Streams, n \in Notifications :
    (ReaderOf[s] = RecipientOf[n] /\ pulse[n] = "due" /\ seat[s] = "live" /\ faults = 0)
      ~> \/ <<s, n>> \in told
         \/ seat[s] # "live" \/ s \in deserted
         \/ pulse[n] = "lost" \/ faults > 0

(* "One handler for every online SSE connection" (notification-bus.ts 37)  *)
(* and UNSUBSCRIBE only when the last subscriber has cancelled             *)
(* (notification-bus.test.ts 118): once all commands are answered an open  *)
(* stream is in the set of the map and the channel is subscribed.  A       *)
(* stream that joins and leaves while the first still waits for its reply  *)
(* empties the set and takes it out of the map: the first one is then      *)
(* added to a set that no message reaches.                                 *)
SettledStreamsListen ==
  wire = <<>> /\ down = <<>> /\ ~refused =>
    \A s \in Streams : stage[s] = "open" => seat[s] = "live" /\ subscribed
=============================================================================
