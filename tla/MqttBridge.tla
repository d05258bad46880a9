------------------------------ MODULE MqttBridge ------------------------------
(***************************************************************************)
(* The core's link to the cloud: requests arrive as QoS 1 messages, each   *)
(* runs rpcCallback (Call, publish the response) in a goroutine of its own *)
(* and is acknowledged after it (internal/pkg/core/mqtt/mqtt.go).  The     *)
(* packets of the session are kept in bbolt (pkg/store/mqtt/mqtt.go).      *)
(*                                                                         *)
(* Of the library (src/vendor/github.com/eclipse/paho.mqtt.golang, as New  *)
(* configures it: clean session off, order does not matter, auto-          *)
(* reconnect): an inbound message is stored before it is dispatched and    *)
(* deleted when it is acknowledged; every connection, the first one        *)
(* included, resumes the stored packets beside what it receives, and the   *)
(* broker sends again what was not acknowledged; a message without a route *)
(* is neither handled nor acknowledged; Disconnect refuses what is         *)
(* published from then on while the connection still works.                *)
(*                                                                         *)
(* The broker gives each request a message id of its own.  A Disconnect    *)
(* that meets a reconnect between its last look at the status and its      *)
(* setConnected (client.go:406-421) is left out.                           *)
(***************************************************************************)
EXTENDS Naturals

CONSTANTS
    Reqs,        \* requests of the cloud
    DbFails,     \* operations on the packet store may fail
    MaxLosses    \* lost connections, crashes and stops during a run

ASSUME BridgeBounds == MaxLosses \in Nat /\ DbFails \in BOOLEAN

VARIABLES
    phase,     \* where New, Close and the process are: see Phases
    net,       \* there is a connection to the broker
    listed,    \* resume has read the store for this connection
    route,     \* rpcCallback is registered
    session,   \* the broker keeps a session with the subscription
    broker,    \* each request: "new", "queued", "sent" or "acked"
    inbox,     \* copies on their way to the router
    resuming,  \* stored requests that resume has still to put there
    exec,      \* goroutines in Call
    waiting,   \* goroutines in the publish of the response or after it
    acks,      \* acknowledgements on their way to the broker (oboundP)
    flying,    \* responses on their way to the broker (obound)
    answered,  \* responses that the broker has
    istore,    \* requests in the packet store ("i." keys)
    ostore,    \* responses in the packet store ("o." keys)
    begun,     \* history: how often each request was run
    losses,    \* history: connections lost, crashes and stops
    missed,    \* history: requests that found no route
    failed,    \* history: requests with a failed operation on their packets
    refused    \* history: requests whose response Publish has refused

process == <<phase, net, listed, route, session>>
inbound == <<broker, inbox, resuming, istore>>
goroutines == <<exec, waiting>>
outbound == <<acks, flying, answered, ostore>>
bridgeVars == <<process, inbound, goroutines, outbound, begun, losses, missed,
                failed, refused>>

(* New goes from "opened" to "serving"; it is "hung" when the answer to    *)
(* its subscription was lost.  Disconnect is "closing", then "closed".     *)
Phases == {"off", "opened", "resuming", "connected", "subscribing", "hung",
           "serving", "closing", "closed"}

None == [m \in Reqs |-> 0]

BridgeInit ==
    /\ phase = "off" /\ net = FALSE /\ listed = FALSE
    /\ route = FALSE /\ session = FALSE
    /\ broker = [m \in Reqs |-> "new"]
    /\ inbox = None /\ resuming = {}
    /\ exec = None /\ waiting = None
    /\ acks = None /\ flying = {} /\ answered = {}
    /\ istore = {} /\ ostore = {}
    /\ begun = None
    /\ losses = 0 /\ missed = {} /\ failed = {} /\ refused = {}

-----------------------------------------------------------------------------
(* The packet store: errors are logged and otherwise ignored               *)

Broken(m, store, new) == DbFails /\ new = store /\ failed' = failed \cup {m}

Put(m, store, new) ==
    \/ new = store \cup {m} /\ UNCHANGED failed
    \/ Broken(m, store, new)

Del(m, store, new) ==
    \/ new = store \ {m} /\ UNCHANGED failed
    \/ Broken(m, store, new)

-----------------------------------------------------------------------------
(* New                                                                     *)

(* NewStore, Open: what an earlier run has stored is still there.          *)
Open ==
    /\ phase = "off"
    /\ phase' = "opened"
    /\ UNCHANGED <<net, listed, route, session, inbound, goroutines, outbound,
                   begun, losses, missed, failed, refused>>

Connect ==
    /\ phase = "opened"
    /\ phase' = "resuming"
    /\ net' = TRUE
    /\ UNCHANGED <<listed, route, session, inbound, goroutines, outbound, begun,
                   losses, missed, failed, refused>>

Reconnect ==
    /\ phase \in {"resuming", "connected", "subscribing", "hung", "serving"}
    /\ ~net
    /\ net' = TRUE
    /\ UNCHANGED <<phase, listed, route, session, inbound, goroutines, outbound,
                   begun, losses, missed, failed, refused>>

(* resume reads the store when the connection already receives: All and    *)
(* Get; what it does not get it leaves there.                              *)
Lost == IF DbFails THEN SUBSET (istore \cup ostore) ELSE {{}}
Resume ==
    /\ net /\ ~listed
    /\ listed' = TRUE
    /\ \E lost \in Lost :
          /\ resuming' = istore \ lost
          /\ flying' = flying \cup (ostore \ lost)
          /\ failed' = failed \cup lost
    /\ UNCHANGED <<phase, net, route, session, broker, inbox, istore, goroutines,
                   acks, answered, ostore, begun, losses, missed, refused>>

(* The token of Connect is done when resume is, with or without connection.*)
Connected ==
    /\ phase = "resuming"
    /\ net => listed /\ resuming = {}
    /\ phase' = "connected"
    /\ UNCHANGED <<net, listed, route, session, inbound, goroutines, outbound,
                   begun, losses, missed, failed, refused>>

(* The route is there before the broker is asked.                          *)
Subscribe ==
    /\ phase = "connected"
    /\ phase' = "subscribing"
    /\ route' = TRUE
    /\ UNCHANGED <<net, listed, session, inbound, goroutines, outbound, begun,
                   losses, missed, failed, refused>>

Granted ==
    /\ phase = "subscribing"
    /\ net
    /\ phase' = "serving"
    /\ session' = TRUE
    /\ UNCHANGED <<net, listed, route, inbound, goroutines, outbound, begun,
                   losses, missed, failed, refused>>

-----------------------------------------------------------------------------
(* Requests come in                                                        *)

(* The cloud publishes; without a session the broker keeps nothing.        *)
Request(m) ==
    /\ session
    /\ broker[m] = "new"
    /\ broker' = [broker EXCEPT ![m] = "queued"]
    /\ UNCHANGED <<process, inbox, resuming, istore, goroutines, outbound, begun,
                   losses, missed, failed, refused>>

(* incoming, alllogic: the packet is stored and handed to the router.      *)
Deliver(m) ==
    /\ net
    /\ broker[m] = "queued"
    /\ broker' = [broker EXCEPT ![m] = "sent"]
    /\ inbox' = [inbox EXCEPT ![m] = @ + 1]
    /\ Put(m, istore, istore')
    /\ UNCHANGED <<process, resuming, goroutines, outbound, begun, losses, missed,
                   refused>>

(* A packet of resume takes the same way, and is stored once more.         *)
Inject(m) ==
    /\ net
    /\ m \in resuming
    /\ resuming' = resuming \ {m}
    /\ inbox' = [inbox EXCEPT ![m] = @ + 1]
    /\ Put(m, istore, istore')
    /\ UNCHANGED <<process, broker, goroutines, outbound, begun, losses, missed,
                   refused>>

\* Mutant of Dispatch: a message that found no route is forgotten.
DispatchOrDrop(m) ==
    /\ inbox[m] > 0
    /\ inbox' = [inbox EXCEPT ![m] = @ - 1]
    /\ IF route THEN /\ exec' = [exec EXCEPT ![m] = @ + 1]
                     /\ begun' = [begun EXCEPT ![m] = @ + 1]
                ELSE UNCHANGED <<exec, begun>>
    /\ UNCHANGED <<process, broker, resuming, istore, waiting, outbound, losses,
                   missed, failed, refused>>

(* matchAndDispatch: every handler in a goroutine of its own.              *)
Dispatch(m) ==
    /\ inbox[m] > 0
    /\ inbox' = [inbox EXCEPT ![m] = @ - 1]
    /\ IF route THEN /\ exec' = [exec EXCEPT ![m] = @ + 1]
                     /\ begun' = [begun EXCEPT ![m] = @ + 1]
                     /\ UNCHANGED missed
                ELSE missed' = missed \cup {m} /\ UNCHANGED <<exec, begun>>
    /\ UNCHANGED <<process, broker, resuming, istore, waiting, outbound, losses,
                   failed, refused>>

-----------------------------------------------------------------------------
(* rpcCallback                                                             *)

Leaving == phase \in {"closing", "closed"}

(* A response that was stored is put to obound, or when there is no        *)
(* connection left to the next resume.                                     *)
Sending(m) == flying' \in IF net THEN {flying \cup {m}}
                                 ELSE {flying, flying \cup {m}}

\* Mutant of Respond: the response is not stored when there is a connection.
RespondUnstored(m) ==
    /\ exec[m] > 0
    /\ exec' = [exec EXCEPT ![m] = @ - 1]
    /\ waiting' = [waiting EXCEPT ![m] = @ + 1]
    /\ IF Leaving
         THEN refused' = refused \cup {m} /\ UNCHANGED <<ostore, flying, failed>>
         ELSE /\ IF net THEN UNCHANGED <<ostore, failed>> ELSE Put(m, ostore, ostore')
              /\ Sending(m)
              /\ UNCHANGED refused
    /\ UNCHANGED <<process, inbound, acks, answered, begun, losses, missed>>

(* Call returns, the response is stored and sent.  From Disconnect on      *)
(* Publish refuses it, and it is lost.                                     *)
Respond(m) ==
    /\ exec[m] > 0
    /\ exec' = [exec EXCEPT ![m] = @ - 1]
    /\ waiting' = [waiting EXCEPT ![m] = @ + 1]
    /\ IF Leaving
         THEN refused' = refused \cup {m} /\ UNCHANGED <<ostore, flying, failed>>
         ELSE Put(m, ostore, ostore') /\ Sending(m) /\ UNCHANGED refused
    /\ UNCHANGED <<process, inbound, acks, answered, begun, losses, missed>>

(* The broker has the response; its acknowledgement may come before the    *)
(* connection breaks or not.                                               *)
Arrive(m) ==
    /\ net
    /\ m \in flying
    /\ flying' = flying \ {m}
    /\ answered' = answered \cup {m}
    /\ (ostore' = ostore /\ UNCHANGED failed) \/ Del(m, ostore, ostore')
    /\ UNCHANGED <<process, inbound, goroutines, acks, begun, losses, missed,
                   refused>>

(* The acknowledgement goes to the buffer; when the connection has ended   *)
(* that is left to chance.                                                 *)
Acknowledging(m) ==
    LET more == [acks EXCEPT ![m] = @ + 1]
    IN  acks' \in IF net THEN {more} ELSE {acks, more}

\* Mutant of Acknowledge: the callback is run again when publish timed out.
AcknowledgeOrRetry(m) ==
    /\ waiting[m] > 0
    /\ waiting' = [waiting EXCEPT ![m] = @ - 1]
    /\ exec' = IF m \notin answered /\ begun[m] < 3
               THEN [exec EXCEPT ![m] = @ + 1] ELSE exec
    /\ begun' = IF m \notin answered /\ begun[m] < 3
                THEN [begun EXCEPT ![m] = @ + 1] ELSE begun
    /\ Del(m, istore, istore')
    /\ Acknowledging(m)
    /\ UNCHANGED <<process, broker, inbox, resuming, flying, answered, ostore,
                   losses, missed, refused>>

(* publish returns nil at its acknowledgement and after a minute alike,    *)
(* and the request is acknowledged: its packet is deleted at once.         *)
Acknowledge(m) ==
    /\ waiting[m] > 0
    /\ waiting' = [waiting EXCEPT ![m] = @ - 1]
    /\ Del(m, istore, istore')
    /\ Acknowledging(m)
    /\ UNCHANGED <<process, broker, inbox, resuming, exec, flying, answered,
                   ostore, begun, losses, missed, refused>>

(* The broker hears it, on this connection or a later one, unless it is    *)
(* lost on the way.                                                        *)
SendAck(m) ==
    /\ net
    /\ acks[m] > 0
    /\ acks' = [acks EXCEPT ![m] = @ - 1]
    /\ \/ UNCHANGED broker
       \/ /\ broker[m] \in {"queued", "sent"}
          /\ broker' = [broker EXCEPT ![m] = "acked"]
    /\ UNCHANGED <<process, inbox, resuming, istore, goroutines, flying, answered,
                   ostore, begun, losses, missed, failed, refused>>

-----------------------------------------------------------------------------
(* Losses                                                                  *)

Unsent == [m \in Reqs |-> IF broker[m] = "sent" THEN "queued" ELSE broker[m]]

\* Mutant of Disconnected: resume goes on without a connection.
DisconnectedOnly ==
    /\ net' = FALSE
    /\ listed' = FALSE
    /\ broker' = Unsent
    /\ UNCHANGED resuming

Disconnected ==
    /\ net' = FALSE
    /\ listed' = FALSE
    /\ broker' = Unsent
    /\ resuming' = {}

(* A subscription that was sent and not answered is not sent again: New    *)
(* waits for ever, whether the broker has it or not.                       *)
LoseSubscription ==
    \/ UNCHANGED <<phase, session>>
    \/ /\ phase = "subscribing"
       /\ phase' = "hung"
       /\ session' \in {session, TRUE}

(* What waits for the router may be stopped with the connection; what is   *)
(* in obound and oboundP waits for the next one.                           *)
Lose ==
    /\ net
    /\ losses < MaxLosses
    /\ losses' = losses + 1
    /\ Disconnected
    /\ LoseSubscription
    /\ inbox' \in {inbox, None}
    /\ flying' \in SUBSET flying
    /\ UNCHANGED <<route, istore, goroutines, acks, answered, ostore, begun,
                   missed, failed, refused>>

(* Disconnect sets the status, and ends the connection within a second.    *)
Disconnect ==
    /\ phase = "serving"
    /\ losses < MaxLosses
    /\ phase' = "closing"
    /\ UNCHANGED <<net, listed, route, session, inbound, goroutines, outbound,
                   begun, losses, missed, failed, refused>>

Close ==
    /\ phase = "closing"
    /\ phase' = "closed"
    /\ losses' = IF net THEN losses + 1 ELSE losses
    /\ Disconnected
    /\ UNCHANGED <<route, session, inbox, istore, goroutines, outbound, begun,
                   missed, failed, refused>>

(* What was refused will be done again, unless the broker forgot it.       *)
Vanish ==
    /\ phase' = "off"
    /\ route' = FALSE
    /\ Disconnected
    /\ inbox' = None /\ exec' = None /\ waiting' = None
    /\ acks' = None /\ flying' = {}
    /\ refused' = {m \in refused : broker[m] = "acked"}
    /\ UNCHANGED <<session, istore, answered, ostore, begun, missed, failed>>

Exit == phase = "closed" /\ Vanish /\ UNCHANGED losses

(* A crash; or New returns an error (no connection, a subscription that    *)
(* could not be written), and main exits.                                  *)
Crash ==
    /\ phase \notin {"off", "closed"}
    /\ losses < MaxLosses
    /\ losses' = losses + 1
    /\ Vanish

Progress(m) == Deliver(m) \/ Inject(m) \/ Dispatch(m) \/ Respond(m)
                  \/ Arrive(m) \/ Acknowledge(m) \/ SendAck(m)

Starting == Open \/ Connect \/ Reconnect \/ Resume \/ Connected \/ Subscribe
               \/ Granted
Stopping == Close \/ Exit

BridgeNext ==
    \/ Starting \/ Stopping
    \/ \E m \in Reqs : Request(m) \/ Progress(m)
    \/ Lose \/ Disconnect \/ Crash

BridgeSpec == BridgeInit /\ [][BridgeNext]_bridgeVars

(* A stopped core is started again, the broker is reachable in the end,    *)
(* Call returns, goroutines run.                                           *)
BridgeFairness ==
    /\ WF_bridgeVars(Starting) /\ WF_bridgeVars(Stopping)
    /\ \A m \in Reqs : /\ WF_bridgeVars(Deliver(m)) /\ WF_bridgeVars(Inject(m))
                        /\ WF_bridgeVars(Dispatch(m)) /\ WF_bridgeVars(Respond(m))
                        /\ WF_bridgeVars(Arrive(m)) /\ WF_bridgeVars(Acknowledge(m))

BridgeFairSpec == BridgeSpec /\ BridgeFairness

-----------------------------------------------------------------------------
(* Types; a process that is off has nothing in memory, a connection and    *)
(* its resume belong to a process that made it, and who serves has a       *)
(* session at the broker.                                                  *)
BridgeTypeOK ==
    /\ phase \in Phases
    /\ {net, listed, route, session} \subseteq BOOLEAN
    /\ broker \in [Reqs -> {"new", "queued", "sent", "acked"}]
    /\ {inbox, exec, waiting, acks, begun} \subseteq [Reqs -> Nat]
    /\ {resuming, flying, answered, istore, ostore, missed, failed, refused}
          \subseteq SUBSET Reqs
    /\ losses \in Nat
    /\ phase \in {"off", "opened"} =>
          /\ ~net /\ ~route /\ flying = {}
          /\ inbox = None /\ exec = None /\ waiting = None /\ acks = None
    /\ ~net => ~listed /\ resuming = {}
    /\ phase \in {"serving", "closing", "closed"} => route /\ session
    /\ \A m \in Reqs : broker[m] = "sent" => net

(* A request the broker has been told to forget was run, and its response  *)
(* is at the broker, on its way, or in the store from where the next       *)
(* connection sends it, through crashes and losses at every point; only a  *)
(* failed write of the store can lose it, or a Call that returned between  *)
(* the two halves of Disconnect (mqtt.go:159-173, Ack after the callback;  *)
(* store/mqtt/mqtt.go:64-83; paho's client.go:470-482, 572).               *)
AckedIsAnswered ==
    \A m \in Reqs : broker[m] = "acked" =>
        /\ begun[m] > 0
        /\ m \in answered \cup flying \cup ostore \cup failed \cup refused

(* The ids of the calls in the hub are unique as long as the cloud's are:  *)
(* a request is run a second time, or beside itself, only after a loss,    *)
(* and at most twice for each (the stored copy, the broker's copy).        *)
RunAgainOnlyAfterLoss ==
    \A m \in Reqs : begun[m] <= 1 + 2 * losses

(* A request that is queued is answered, unless it reached the core before *)
(* the callback was registered (mqtt.go:119-126), the store failed, or its *)
(* response was refused while the broker was told to forget it.            *)
RequestGetsAnswer ==
    \A m \in Reqs :
        broker[m] = "queued" ~>
            \/ m \in answered \cup missed \cup failed
            \/ m \in refused /\ broker[m] = "acked"
=============================================================================
