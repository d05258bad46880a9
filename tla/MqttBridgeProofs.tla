-------------------------- MODULE MqttBridgeProofs --------------------------
(***************************************************************************)
(* Theorems about the bridge to the broker, for any requests and any       *)
(* number of losses.  A response in the making is safe once it is in the   *)
(* packet store: the connection may lose what flies, never what is stored; *)
(* what Disconnect made Publish refuse is not stored, and is held in mind. *)
(* And every run of a request is paid for: by its one publication, or by   *)
(* one of the two copies, the broker's and the store's, that a loss of     *)
(* the connection brings back to life.                                     *)
(***************************************************************************)
EXTENDS MqttBridge, TLAPS

Counts == [Reqs -> Nat]

(* BridgeTypeOK without its sets of sets.                                  *)
Types ==
    /\ phase \in Phases
    /\ net \in BOOLEAN /\ listed \in BOOLEAN /\ route \in BOOLEAN /\ session \in BOOLEAN
    /\ broker \in [Reqs -> {"new", "queued", "sent", "acked"}]
    /\ inbox \in Counts /\ exec \in Counts /\ waiting \in Counts /\ acks \in Counts
    /\ begun \in Counts
    /\ resuming \subseteq Reqs /\ flying \subseteq Reqs /\ answered \subseteq Reqs
    /\ istore \subseteq Reqs /\ ostore \subseteq Reqs
    /\ missed \subseteq Reqs /\ failed \subseteq Reqs /\ refused \subseteq Reqs
    /\ losses \in Nat

Offline ==
    /\ phase \in {"off", "opened"} =>
          /\ ~net /\ ~route /\ flying = {}
          /\ inbox = None /\ exec = None /\ waiting = None /\ acks = None
    /\ phase = "closed" => ~net
    /\ ~net => ~listed /\ resuming = {}
    /\ phase \in {"subscribing", "serving", "closing", "closed"} => route
    /\ phase \in {"serving", "closing", "closed"} => session
    /\ \A m \in Reqs : broker[m] = "sent" => net

Inv == Types /\ Offline

LEMMA InvIsTypeOK == Inv => BridgeTypeOK
<1> SUFFICES ASSUME Inv PROVE BridgeTypeOK
  OBVIOUS
<1>1. {net, listed, route, session} \subseteq BOOLEAN
  BY DEF Inv, Types
<1>2. {inbox, exec, waiting, acks, begun} \subseteq [Reqs -> Nat]
  BY DEF Inv, Types, Counts
<1>3. {resuming, flying, answered, istore, ostore, missed, failed, refused}
        \subseteq SUBSET Reqs
  BY DEF Inv, Types
<1> QED BY <1>1, <1>2, <1>3 DEF Inv, Types, Offline, BridgeTypeOK

(* The steps by what they are about: the connection is made, a request     *)
(* moves on, or the connection is lost.                                    *)
Begins == Open \/ Connect \/ Reconnect \/ Connected \/ Subscribe \/ Granted \/ Disconnect
Moves(m) == \/ Request(m) \/ Deliver(m) \/ Inject(m) \/ Dispatch(m)
            \/ Respond(m) \/ Arrive(m) \/ Acknowledge(m) \/ SendAck(m)
Ends == Lose \/ Close \/ Crash \/ Exit

LEMMA StepCases ==
    ASSUME [BridgeNext]_bridgeVars
    PROVE  \/ UNCHANGED bridgeVars
           \/ Begins \/ Resume \/ (\E m \in Reqs : Moves(m)) \/ Ends
BY DEF BridgeNext, Starting, Stopping, Progress, Begins, Moves, Ends

(* New and Disconnect touch no request.                                    *)
Kept == UNCHANGED <<broker, inbox, resuming, istore, exec, waiting, acks, flying,
                    answered, ostore, begun, losses, missed, failed, refused>>

LEMMA BeginsKeeps ==
    ASSUME Begins
    PROVE  Kept /\ listed' = listed
BY DEF Begins, Open, Connect, Reconnect, Connected, Subscribe, Granted, Disconnect,
   inbound, goroutines, outbound, Kept

LEMMA ResumeFacts ==
    ASSUME Types, Resume
    PROVE  /\ resuming' \subseteq istore /\ flying' \subseteq flying \cup ostore
           /\ failed \subseteq failed' /\ failed' \subseteq Reqs
           /\ net /\ ~listed /\ listed' = TRUE
           /\ UNCHANGED <<phase, net, route, session, broker, inbox, istore, exec, waiting,
                          acks, answered, ostore, begun, losses, missed, refused>>
<1>1. \A lost \in Lost : lost \subseteq Reqs
  BY DEF Lost, Types
<1>2. /\ net /\ ~listed /\ listed' = TRUE
      /\ UNCHANGED <<phase, net, route, session, broker, inbox, istore, exec, waiting,
                     acks, answered, ostore, begun, losses, missed, refused>>
  BY DEF Resume, goroutines
<1>3. PICK lost \in Lost : /\ resuming' = istore \ lost
                           /\ flying' = flying \cup (ostore \ lost)
                           /\ failed' = failed \cup lost
  BY DEF Resume
<1> QED BY <1>1, <1>2, <1>3 DEF Types

LEMMA UnsentFacts ==
    ASSUME Types
    PROVE  /\ Unsent \in [Reqs -> {"new", "queued", "sent", "acked"}]
           /\ \A m \in Reqs : Unsent[m] = IF broker[m] = "sent" THEN "queued"
                                          ELSE broker[m]
BY DEF Unsent, Types

-----------------------------------------------------------------------------
(* Types                                                                   *)

LEMMA StartingInv ==
    ASSUME Inv, Begins \/ Resume
    PROVE  Inv'
<1> USE DEF Inv, Types, Offline
<1>1. CASE Begins
  <2>1. Kept /\ listed' = listed
    BY <1>1, BeginsKeeps
  <2>2. UNCHANGED <<broker, inbox, resuming, istore, exec, waiting, acks, flying,
                    answered, ostore, begun, losses, missed, failed, refused>>
    BY <2>1 DEF Kept
  <2>3. /\ phase' \in Phases /\ net' \in BOOLEAN /\ route' \in BOOLEAN
        /\ session' \in BOOLEAN
    BY <1>1 DEF Begins, Open, Connect, Reconnect, Connected, Subscribe, Granted,
       Disconnect, Phases
  <2>4. /\ net => net'
        /\ phase' \in {"off", "opened"} => phase \in {"off", "opened"} /\ ~net' /\ ~route'
        /\ phase' = "closed" => ~net'
        /\ phase' \in {"subscribing", "serving", "closing", "closed"} => route'
        /\ phase' \in {"serving", "closing", "closed"} => session'
    BY <1>1 DEF Begins, Open, Connect, Reconnect, Connected, Subscribe, Granted,
       Disconnect
  <2>5. Types'
    BY <2>1, <2>2, <2>3, Zenon
  <2>6. Offline'
    BY <2>1, <2>2, <2>4 DEF None
  <2> QED BY <2>5, <2>6
<1>2. CASE Resume
  <2>1. /\ resuming' \subseteq istore /\ flying' \subseteq flying \cup ostore
        /\ failed' \subseteq Reqs /\ net /\ listed' = TRUE
        /\ UNCHANGED <<phase, net, route, session, broker, inbox, istore, exec, waiting,
                       acks, answered, ostore, begun, losses, missed, refused>>
    BY <1>2, ResumeFacts
  <2>2. phase \notin {"off", "opened"}
    BY <2>1
  <2>3. Types'
    BY <2>1
  <2>4. Offline'
    BY <2>1, <2>2 DEF None
  <2> QED BY <2>3, <2>4
<1> QED BY <1>1, <1>2

(* What a request does leaves New and the connection alone.                *)
LEMMA MovesKeep ==
    ASSUME NEW m \in Reqs, Moves(m)
    PROVE  UNCHANGED <<phase, net, listed, route, session, losses>>
BY DEF Moves, Request, Deliver, Inject, Dispatch, Respond, Arrive, Acknowledge, SendAck,
   process

LEMMA MovesTypes ==
    ASSUME Inv, NEW m \in Reqs, Moves(m)
    PROVE  Types'
<1> USE DEF Inv, Types, Counts
<1>0. UNCHANGED <<phase, net, listed, route, session, losses>>
  BY MovesKeep
<1>1. CASE Request(m)
  BY <1>0, <1>1 DEF Request, goroutines, outbound
<1>2. CASE Deliver(m)
  <2>1. istore' \subseteq Reqs /\ failed' \subseteq Reqs
    BY <1>2 DEF Deliver, Put, Broken
  <2> QED BY <1>0, <1>2, <2>1 DEF Deliver, goroutines, outbound
<1>3. CASE Inject(m)
  <2>1. istore' \subseteq Reqs /\ failed' \subseteq Reqs
    BY <1>3 DEF Inject, Put, Broken
  <2> QED BY <1>0, <1>3, <2>1 DEF Inject, goroutines, outbound
<1>4. CASE Dispatch(m)
  <2>1. inbox[m] > 0 /\ inbox[m] - 1 \in Nat
    BY <1>4 DEF Dispatch
  <2>2. exec' \in Counts /\ begun' \in Counts /\ missed' \subseteq Reqs
    BY <1>4 DEF Dispatch
  <2> QED BY <1>0, <1>4, <2>1, <2>2 DEF Dispatch, outbound
<1>5. CASE Respond(m)
  <2>1. exec[m] > 0 /\ exec[m] - 1 \in Nat
    BY <1>5 DEF Respond
  <2>2. /\ ostore' \subseteq Reqs /\ failed' \subseteq Reqs /\ flying' \subseteq Reqs
        /\ refused' \subseteq Reqs
    BY <1>5 DEF Respond, Put, Broken, Sending
  <2>3. exec' \in Counts /\ waiting' \in Counts
    BY <1>5, <2>1 DEF Respond
  <2> QED BY <1>0, <1>5, <2>2, <2>3 DEF Respond, inbound
<1>6. CASE Arrive(m)
  <2>1. ostore' \subseteq Reqs /\ failed' \subseteq Reqs
    BY <1>6 DEF Arrive, Del, Broken
  <2> QED BY <1>0, <1>6, <2>1 DEF Arrive, inbound, goroutines
<1>7. CASE Acknowledge(m)
  <2>1. waiting[m] > 0 /\ waiting[m] - 1 \in Nat
    BY <1>7 DEF Acknowledge
  <2>2. istore' \subseteq Reqs /\ failed' \subseteq Reqs
    BY <1>7 DEF Acknowledge, Del, Broken
  <2>3. acks' \in Counts
    BY <1>7 DEF Acknowledge, Acknowledging
  <2>4. waiting' \in Counts
    BY <1>7, <2>1 DEF Acknowledge
  <2> QED BY <1>0, <1>7, <2>2, <2>3, <2>4 DEF Acknowledge
<1>8. CASE SendAck(m)
  <2>1. acks[m] > 0 /\ acks[m] - 1 \in Nat
    BY <1>8 DEF SendAck
  <2>2. acks' \in Counts /\ broker' \in [Reqs -> {"new", "queued", "sent", "acked"}]
    BY <1>8, <2>1 DEF SendAck
  <2> QED BY <1>0, <1>8, <2>2 DEF SendAck, goroutines
<1> QED BY <1>1, <1>2, <1>3, <1>4, <1>5, <1>6, <1>7, <1>8 DEF Moves

LEMMA MovingInv ==
    ASSUME Inv, NEW m \in Reqs, Moves(m)
    PROVE  Inv'
<1>0. UNCHANGED <<phase, net, listed, route, session, losses>>
  BY MovesKeep
<1>1. Types'
  BY MovesTypes
<1>2. phase \notin {"off", "opened"} \/ Request(m)
  BY DEF Inv, Types, Offline, None, Moves, Deliver, Inject, Dispatch, Respond, Arrive,
     Acknowledge, SendAck
<1>3. Request(m) => UNCHANGED <<flying, inbox, exec, waiting, acks>>
  BY DEF Request, goroutines, outbound
<1>4. \A x \in Reqs : broker'[x] = "sent" => broker[x] = "sent" \/ net
  BY DEF Moves, Request, Deliver, Inject, Dispatch, Respond, Arrive, Acknowledge, SendAck,
     inbound, Inv, Types
<1>5. resuming' \subseteq resuming
  BY DEF Moves, Request, Deliver, Inject, Dispatch, Respond, Arrive, Acknowledge, SendAck,
     inbound
<1>6. Offline'
  BY <1>0, <1>2, <1>3, <1>4, <1>5 DEF Inv, Offline, None
<1> QED BY <1>1, <1>6 DEF Inv

LEMMA LosingInv ==
    ASSUME Inv, Ends
    PROVE  Inv'
<1> USE UnsentFacts DEF Inv, Types, Offline, Disconnected, None, Counts
<1>0. /\ net' = FALSE /\ listed' = FALSE /\ resuming' = {}
      /\ broker' \in [Reqs -> {"new", "queued", "sent", "acked"}]
      /\ \A x \in Reqs : broker'[x] # "sent"
  BY DEF Ends, Lose, Close, Crash, Exit, Vanish
<1>1. CASE Lose
  <2>1. /\ inbox' \in [Reqs -> Nat] /\ flying' \subseteq Reqs /\ losses' \in Nat
        /\ phase \notin {"off", "opened", "closed"}
    BY <1>1 DEF Lose
  <2>2. \/ UNCHANGED <<phase, session>>
        \/ phase' = "hung" /\ session' \in BOOLEAN
    BY <1>1 DEF Lose, LoseSubscription
  <2>3. UNCHANGED <<route, istore, exec, waiting, acks, answered, ostore, begun,
                    missed, failed, refused>>
    BY <1>1 DEF Lose, goroutines
  <2>4. Types'
    BY <1>0, <2>1, <2>2, <2>3, Zenon DEF Phases
  <2>5. Offline'
    BY <1>0, <2>1, <2>2, <2>3
  <2> QED BY <2>4, <2>5
<1>2. CASE Close
  <2>1. /\ losses' \in Nat /\ phase = "closing" /\ phase' = "closed"
        /\ UNCHANGED <<route, session, inbox, istore, exec, waiting, acks, flying,
                       answered, ostore, begun, missed, failed, refused>>
    BY <1>2 DEF Close, goroutines, outbound
  <2>2. Types'
    BY <1>0, <2>1, Zenon DEF Phases
  <2>3. Offline'
    BY <1>0, <2>1
  <2> QED BY <2>2, <2>3
<1>3. CASE Crash \/ Exit
  <2>1. Vanish /\ losses' \in Nat
    BY <1>3 DEF Crash, Exit
  <2>2. None \in [Reqs -> Nat]
    OBVIOUS
  <2>3. Types'
    BY <1>0, <2>1, <2>2 DEF Vanish, Phases
  <2>4. Offline'
    BY <1>0, <2>1 DEF Vanish
  <2> QED BY <2>3, <2>4
<1> QED BY <1>1, <1>2, <1>3 DEF Ends

LEMMA InvStep == Inv /\ [BridgeNext]_bridgeVars => Inv'
<1> SUFFICES ASSUME Inv, [BridgeNext]_bridgeVars PROVE Inv'
  OBVIOUS
<1>1. CASE UNCHANGED bridgeVars
  BY <1>1 DEF bridgeVars, process, inbound, goroutines, outbound, Inv, Types, Offline,
     None, Counts
<1> QED BY <1>1, StepCases, StartingInv, MovingInv, LosingInv

LEMMA InvAlways == BridgeSpec => []Inv
<1>1. BridgeInit => Types
  <2>1. None \in Counts
    BY DEF None, Counts
  <2>2. BridgeInit => broker \in [Reqs -> {"new", "queued", "sent", "acked"}]
    BY DEF BridgeInit
  <2>3. BridgeInit => /\ net \in BOOLEAN /\ listed \in BOOLEAN
                      /\ route \in BOOLEAN /\ session \in BOOLEAN
    BY DEF BridgeInit
  <2>4. BridgeInit => losses \in Nat /\ phase \in Phases
    BY DEF BridgeInit, Phases
  <2> QED BY <2>1, <2>2, <2>3, <2>4 DEF BridgeInit, Types
<1>2. BridgeInit => Offline
  BY DEF BridgeInit, Offline
<1> QED BY <1>1, <1>2, InvStep, PTL DEF BridgeSpec, Inv

(* Types, for any requests and any number of losses: a process that is off *)
(* has nothing in memory, and without a connection nothing is on its way.  *)
THEOREM BridgeTypeCorrect == BridgeSpec => []BridgeTypeOK
BY InvAlways, InvIsTypeOK, PTL
-----------------------------------------------------------------------------
(* Responses are safe                                                      *)

Safe == answered \cup ostore \cup failed

Held(m) == m \in Safe \/ m \in refused

RunsAreCounted == \A m \in Reqs : exec[m] > 0 \/ waiting[m] > 0 \/ acks[m] > 0
                                    => begun[m] > 0
FlyingIsSafe == flying \subseteq Safe
WaitingIsHeld == \A m \in Reqs : waiting[m] > 0 \/ acks[m] > 0 => Held(m)
AckedIsHeld == \A m \in Reqs : broker[m] = "acked" => begun[m] > 0 /\ Held(m)

SafeInv == RunsAreCounted /\ FlyingIsSafe /\ WaitingIsHeld /\ AckedIsHeld

(* What is safe stays safe: only an arrival deletes a response.            *)
LEMMA SafeGrows ==
    ASSUME Inv, [BridgeNext]_bridgeVars
    PROVE  Safe \subseteq Safe'
<1> USE DEF Safe
<1>1. CASE UNCHANGED bridgeVars
  BY <1>1 DEF bridgeVars, outbound
<1>2. CASE Begins
  BY <1>2, BeginsKeeps DEF Kept
<1>3. CASE Resume
  BY <1>3, ResumeFacts DEF Inv
<1>4. ASSUME NEW m \in Reqs, Moves(m)
      PROVE  Safe \subseteq Safe'
  <2>1. CASE Request(m) \/ Deliver(m) \/ Inject(m) \/ Dispatch(m) \/ SendAck(m)
    BY <2>1 DEF Request, Deliver, Inject, Dispatch, SendAck, outbound, Put, Broken
  <2>2. CASE Respond(m) \/ Arrive(m) \/ Acknowledge(m)
    BY <2>2 DEF Respond, Arrive, Acknowledge, outbound, Put, Del, Broken
  <2> QED BY <1>4, <2>1, <2>2 DEF Moves
<1>6. CASE Ends
  BY <1>6 DEF Ends, Lose, Close, Crash, Exit, Vanish, outbound
<1> QED BY <1>1, <1>2, <1>3, <1>4, <1>6, StepCases

(* What a step must leave so that nothing held is let go.                  *)
LEMMA Carry ==
    ASSUME SafeInv, Safe \subseteq Safe', refused \subseteq refused',
           \A x \in Reqs : begun[x] > 0 => begun'[x] > 0,
           \A x \in Reqs : exec'[x] > 0 => exec[x] > 0 \/ begun'[x] > 0,
           \A x \in Reqs : waiting'[x] > 0 \/ acks'[x] > 0 =>
                              waiting[x] > 0 \/ acks[x] > 0 \/ (exec[x] > 0 /\ Held(x)'),
           \A x \in Reqs : broker'[x] = "acked" =>
                              broker[x] = "acked" \/ waiting[x] > 0 \/ acks[x] > 0,
           flying' \subseteq Safe'
    PROVE  SafeInv'
<1>1. \A x \in Reqs : Held(x) => Held(x)'
  BY DEF Held
<1> QED BY <1>1 DEF SafeInv, RunsAreCounted, FlyingIsSafe, WaitingIsHeld, AckedIsHeld

LEMMA SafeStep ==
    ASSUME Inv, SafeInv, [BridgeNext]_bridgeVars
    PROVE  SafeInv'
<1>0. Safe \subseteq Safe'
  BY SafeGrows
<1>f. flying \subseteq Safe'
  BY <1>0 DEF SafeInv, FlyingIsSafe
<1>1. CASE UNCHANGED bridgeVars \/ Begins
  <2>1. UNCHANGED <<broker, exec, waiting, acks, begun, flying, refused>>
    BY <1>1, BeginsKeeps DEF bridgeVars, inbound, goroutines, outbound, Kept
  <2> QED BY <2>1, <1>0, <1>f, Carry
<1>3. CASE Resume
  <2>1. UNCHANGED <<broker, exec, waiting, acks, begun, refused>>
    BY <1>3, ResumeFacts DEF Inv
  <2>2. flying' \subseteq Safe'
    BY <1>0, <1>3, <1>f, ResumeFacts DEF Inv, Safe
  <2> QED BY <2>1, <2>2, <1>0, Carry
<1>4. ASSUME NEW m \in Reqs, Request(m) \/ Deliver(m) \/ Inject(m)
      PROVE  SafeInv'
  <2>1. UNCHANGED <<exec, waiting, acks, begun, flying, refused>>
    BY <1>4 DEF Request, Deliver, Inject, goroutines, outbound
  <2>2. \A x \in Reqs : broker'[x] = "acked" => broker[x] = "acked"
    BY <1>4 DEF Request, Deliver, Inject, Inv, Types
  <2> QED BY <2>1, <2>2, <1>0, <1>f, Carry
<1>5. ASSUME NEW m \in Reqs, Dispatch(m)
      PROVE  SafeInv'
  <2>1. UNCHANGED <<broker, waiting, acks, flying, refused>>
    BY <1>5 DEF Dispatch, outbound
  <2>2. \A x \in Reqs : /\ begun'[x] >= begun[x]
                        /\ exec'[x] > 0 => exec[x] > 0 \/ begun'[x] > 0
    BY <1>5 DEF Dispatch, Inv, Types, Counts
  <2>3. \A x \in Reqs : begun[x] \in Nat /\ begun'[x] \in Nat
    BY <1>5 DEF Dispatch, Inv, Types, Counts
  <2>4. \A x \in Reqs : begun[x] > 0 => begun'[x] > 0
    BY <2>2, <2>3
  <2> QED BY <2>1, <2>2, <2>4, <1>0, <1>f, Carry
<1>6. ASSUME NEW m \in Reqs, Respond(m)
      PROVE  SafeInv'
  <2>1. UNCHANGED <<broker, begun, acks>>
    BY <1>6 DEF Respond, inbound
  <2>2. exec[m] > 0 /\ Held(m)'
    BY <1>6 DEF Respond, Put, Broken, Safe, Held
  <2>3. flying' \subseteq Safe' /\ refused \subseteq refused'
    BY <1>6, <1>f DEF Respond, Sending, Put, Broken, Safe
  <2>4. \A x \in Reqs : /\ exec'[x] > 0 => exec[x] > 0
                        /\ waiting'[x] > 0 => waiting[x] > 0 \/ x = m
    BY <1>6 DEF Respond, Inv, Types, Counts
  <2> QED BY <2>1, <2>2, <2>3, <2>4, <1>0, Carry
<1>7. ASSUME NEW m \in Reqs, Arrive(m)
      PROVE  SafeInv'
  <2>1. UNCHANGED <<broker, begun, acks, exec, waiting, refused>>
    BY <1>7 DEF Arrive, inbound, goroutines
  <2>2. flying' \subseteq flying
    BY <1>7 DEF Arrive
  <2> QED BY <2>1, <2>2, <1>0, <1>f, Carry
<1>8. ASSUME NEW m \in Reqs, Acknowledge(m)
      PROVE  SafeInv'
  <2>1. UNCHANGED <<broker, exec, begun, flying, refused>>
    BY <1>8 DEF Acknowledge
  <2>2. waiting[m] > 0 /\ \A x \in Reqs : waiting'[x] > 0 => waiting[x] > 0
    BY <1>8 DEF Acknowledge, Inv, Types, Counts
  <2>3. \A x \in Reqs : acks'[x] > 0 => acks[x] > 0 \/ x = m
    BY <1>8 DEF Acknowledge, Acknowledging, Inv, Types, Counts
  <2> QED BY <2>1, <2>2, <2>3, <1>0, <1>f, Carry
<1>9. ASSUME NEW m \in Reqs, SendAck(m)
      PROVE  SafeInv'
  <2>1. UNCHANGED <<exec, waiting, begun, flying, refused>>
    BY <1>9 DEF SendAck, goroutines
  <2>2. acks[m] > 0 /\ \A x \in Reqs : acks'[x] > 0 => acks[x] > 0
    BY <1>9 DEF SendAck, Inv, Types, Counts
  <2>3. \A x \in Reqs : broker'[x] = "acked" => broker[x] = "acked" \/ x = m
    BY <1>9 DEF SendAck, Inv, Types
  <2> QED BY <2>1, <2>2, <2>3, <1>0, <1>f, Carry
<1>10. CASE Lose \/ Close
  <2>1. /\ flying' \subseteq flying /\ broker' = Unsent
        /\ UNCHANGED <<begun, exec, waiting, acks, refused>>
    BY <1>10 DEF Lose, Close, Disconnected, goroutines, outbound
  <2>2. \A x \in Reqs : broker'[x] = "acked" => broker[x] = "acked"
    BY <2>1, UnsentFacts DEF Inv
  <2> QED BY <2>1, <2>2, <1>0, <1>f, Carry
<1>11. CASE Crash \/ Exit
  <2>1. /\ flying' = {} /\ broker' = Unsent /\ begun' = begun
        /\ exec' = None /\ waiting' = None /\ acks' = None
        /\ refused' = {x \in refused : broker[x] = "acked"}
    BY <1>11 DEF Crash, Exit, Vanish, Disconnected
  <2>2. \A x \in Reqs : broker'[x] = "acked" => broker[x] = "acked"
    BY <2>1, UnsentFacts DEF Inv
  <2>3. \A x \in Reqs : ~(exec'[x] > 0) /\ ~(waiting'[x] > 0) /\ ~(acks'[x] > 0)
    BY <2>1 DEF None
  <2>4. \A x \in Reqs : broker[x] = "acked" /\ Held(x) => Held(x)'
    BY <2>1, <1>0 DEF Held
  <2> QED BY <2>1, <2>2, <2>3, <2>4
           DEF SafeInv, RunsAreCounted, FlyingIsSafe, WaitingIsHeld, AckedIsHeld
<1> QED BY <1>1, <1>3, <1>4, <1>5, <1>6, <1>7, <1>8, <1>9, <1>10, <1>11, StepCases
        DEF Moves, Ends

(* What the broker may forget was run, and its response is not lost, for   *)
(* any requests, losses, crashes and failures of the store.                *)
THEOREM AcknowledgedAreAnswered == BridgeSpec => []AckedIsAnswered
<1>1. BridgeInit => SafeInv
  BY DEF BridgeInit, SafeInv, RunsAreCounted, FlyingIsSafe, WaitingIsHeld, AckedIsHeld,
     None
<1>2. SafeInv => AckedIsAnswered
  BY DEF SafeInv, AckedIsHeld, AckedIsAnswered, Held, Safe
<1> QED BY <1>1, <1>2, SafeStep, InvAlways, PTL DEF BridgeSpec

-----------------------------------------------------------------------------
(* Runs are paid for                                                       *)

One(b) == IF b THEN 1 ELSE 0

(* The runs a request has had, and those that could follow without a loss: *)
(* a resume that has not begun may find one copy in the store, unless      *)
(* nothing was lost so far.                                                *)
Budget(m) ==
    begun[m] + inbox[m] + One(m \in resuming) + One(broker[m] \in {"new", "queued"})
        + One(~listed /\ losses > 0)

Paid == \A m \in Reqs : Budget(m) <= 1 + 2 * losses

Untouched ==
    /\ phase \in {"off", "opened", "resuming"} /\ ~session
    /\ phase = "resuming" => net
    /\ istore = {} /\ resuming = {}
    /\ \A m \in Reqs : broker[m] = "new"

Fresh == losses = 0 => listed \/ Untouched

LEMMA FreshStep ==
    ASSUME Inv, Fresh, [BridgeNext]_bridgeVars
    PROVE  Fresh'
<1> SUFFICES ASSUME losses' = 0 PROVE listed' \/ Untouched'
  BY DEF Fresh
<1> USE DEF Untouched
<1>1. CASE UNCHANGED bridgeVars
  BY <1>1 DEF bridgeVars, process, inbound, Fresh
<1>2. CASE Begins
  <2>1. Kept /\ listed' = listed
    BY <1>2, BeginsKeeps
  <2>2. UNCHANGED <<broker, resuming, istore, losses>>
    BY <2>1 DEF Kept
  <2>3. CASE listed
    BY <2>1, <2>3
  <2>4. CASE ~listed /\ Untouched
    <3>1. Open \/ Connect \/ Reconnect \/ Connected
      BY <1>2, <2>4 DEF Begins, Subscribe, Granted, Disconnect
    <3>2. ~Connected
      BY <2>4 DEF Connected
    <3>3. session' = session
      BY <3>1, <3>2 DEF Open, Connect, Reconnect
    <3>4. phase' \in {"off", "opened", "resuming"} /\ (phase' = "resuming" => net')
      BY <2>4, <3>1, <3>2 DEF Open, Connect, Reconnect
    <3> QED BY <2>2, <2>4, <3>3, <3>4
  <2> QED BY <2>2, <2>3, <2>4 DEF Fresh
<1>3. CASE Resume
  BY <1>3, ResumeFacts DEF Inv
<1>4. ASSUME NEW m \in Reqs, Moves(m)
      PROVE  listed' \/ Untouched'
  <2>1. UNCHANGED <<phase, net, listed, route, session, losses>>
    BY <1>4, MovesKeep
  <2>2. CASE ~listed /\ Untouched
    <3>1. \/ Dispatch(m) \/ Respond(m) \/ Arrive(m) \/ Acknowledge(m) \/ SendAck(m)
      BY <1>4, <2>2 DEF Moves, Request, Deliver, Inject
    <3>2. resuming' = resuming /\ istore' \subseteq istore
      BY <3>1 DEF Dispatch, Respond, Arrive, Acknowledge, SendAck, inbound, Del, Broken
    <3>3. broker' = broker
      BY <2>2, <3>1 DEF Dispatch, Respond, Arrive, Acknowledge, SendAck, inbound
    <3> QED BY <2>1, <2>2, <3>2, <3>3
  <2> QED BY <2>1, <2>2 DEF Fresh
<1>5. CASE Ends
  <2>1. Ends => losses' > 0 \/ (losses' = losses /\ phase \in {"closing", "closed"} /\ ~net)
    BY DEF Ends, Lose, Close, Crash, Exit, Inv, Types, Offline
  <2>2. losses = 0 /\ phase \in {"closing", "closed"} /\ ~net
    BY <1>5, <2>1
  <2>3. ~listed /\ ~Untouched
    BY <2>2 DEF Inv, Offline
  <2> QED BY <2>2, <2>3 DEF Fresh
<1> QED BY <1>1, <1>2, <1>3, <1>4, <1>5, StepCases

LEMMA PaidStep ==
    ASSUME Inv, Inv', Fresh, Paid, [BridgeNext]_bridgeVars
    PROVE  Paid'
<1> SUFFICES ASSUME NEW x \in Reqs
             PROVE  /\ begun'[x] + inbox'[x] + One(x \in resuming')
                          + One(broker'[x] \in {"new", "queued"})
                          + One(~listed' /\ losses' > 0) <= 1 + 2 * losses'
  BY DEF Paid, Budget
<1>0. /\ begun[x] \in Nat /\ inbox[x] \in Nat /\ losses \in Nat
      /\ begun'[x] \in Nat /\ inbox'[x] \in Nat /\ losses' \in Nat
  BY DEF Inv, Types, Counts
<1>p. begun[x] + inbox[x] + One(x \in resuming) + One(broker[x] \in {"new", "queued"})
        + One(~listed /\ losses > 0) <= 1 + 2 * losses
  BY DEF Paid, Budget
<1> USE DEF One
<1>1. CASE UNCHANGED bridgeVars \/ Begins
  <2>1. UNCHANGED <<begun, inbox, resuming, broker, listed, losses>>
    BY <1>1, BeginsKeeps DEF bridgeVars, process, inbound, Kept
  <2> QED BY <2>1, <1>p
<1>2. CASE Resume
  <2>1. /\ ~listed /\ listed' = TRUE /\ resuming' \subseteq istore
        /\ UNCHANGED <<begun, inbox, broker, losses>>
    BY <1>2, ResumeFacts DEF Inv
  <2>2. losses = 0 => x \notin resuming'
    BY <2>1 DEF Fresh, Untouched
  <2> QED BY <2>1, <2>2, <1>p, <1>0
<1>3. ASSUME NEW m \in Reqs, Moves(m)
      PROVE  /\ begun'[x] + inbox'[x] + One(x \in resuming')
                  + One(broker'[x] \in {"new", "queued"})
                  + One(~listed' /\ losses' > 0) <= 1 + 2 * losses'
  <2>0. UNCHANGED <<listed, losses>>
    BY <1>3, MovesKeep
  <2>3. CASE Request(m)
    <3>1. /\ UNCHANGED <<begun, inbox, resuming>>
          /\ broker'[x] \in {"new", "queued"} => broker[x] \in {"new", "queued"}
      BY <2>3 DEF Request, Inv, Types
    <3> QED BY <2>0, <3>1, <1>p, <1>0
  <2>4. CASE Deliver(m)
    <3>1. /\ UNCHANGED <<begun, resuming>>
          /\ x # m => inbox'[x] = inbox[x] /\ broker'[x] = broker[x]
          /\ x = m => /\ inbox'[x] = inbox[x] + 1
                      /\ broker[x] = "queued" /\ broker'[x] = "sent"
      BY <2>4 DEF Deliver, Inv, Types, Counts
    <3> QED BY <2>0, <3>1, <1>p, <1>0
  <2>5. CASE Inject(m)
    <3>1. /\ UNCHANGED <<begun, broker>>
          /\ x # m => inbox'[x] = inbox[x] /\ (x \in resuming' <=> x \in resuming)
          /\ x = m => /\ inbox'[x] = inbox[x] + 1
                      /\ x \in resuming /\ x \notin resuming'
      BY <2>5 DEF Inject, Inv, Types, Counts
    <3> QED BY <2>0, <3>1, <1>p, <1>0
  <2>6. CASE Dispatch(m)
    <3>1. /\ UNCHANGED <<resuming, broker>>
          /\ begun'[x] + inbox'[x] <= begun[x] + inbox[x]
      BY <2>6, <1>0 DEF Dispatch, Inv, Types, Counts
    <3> QED BY <2>0, <3>1, <1>p, <1>0
  <2>7. CASE Respond(m) \/ Arrive(m) \/ Acknowledge(m)
    <3>1. UNCHANGED <<begun, inbox, resuming, broker>>
      BY <2>7 DEF Respond, Arrive, Acknowledge, inbound
    <3> QED BY <2>0, <3>1, <1>p
  <2>8. CASE SendAck(m)
    <3>1. /\ UNCHANGED <<begun, inbox, resuming>>
          /\ broker'[x] \in {"new", "queued"} => broker[x] \in {"new", "queued"}
      BY <2>8 DEF SendAck, Inv, Types
    <3> QED BY <2>0, <3>1, <1>p, <1>0
  <2> QED BY <1>3, <2>3, <2>4, <2>5, <2>6, <2>7, <2>8 DEF Moves
<1>9. CASE Ends
  <2>1. /\ resuming' = {} /\ listed' = FALSE /\ broker' = Unsent /\ begun' = begun
        /\ inbox' \in {inbox, None}
        /\ losses' = losses + 1 \/ (losses' = losses /\ ~net)
    BY <1>9 DEF Ends, Lose, Close, Crash, Exit, Vanish, Disconnected, Inv, Offline
  <2>2. inbox'[x] <= inbox[x]
    BY <2>1, <1>0 DEF None
  <2>3. broker'[x] \in {"new", "queued"} => broker[x] \in {"new", "queued", "sent"}
    BY <2>1, UnsentFacts DEF Inv, Types
  <2>4. CASE losses' = losses + 1
    BY <2>1, <2>2, <2>4, <1>0, <1>p
  <2>5. CASE losses' = losses /\ ~net
    <3>1. broker[x] # "sent" /\ ~listed
      BY <2>5 DEF Inv, Offline
    <3> QED BY <2>1, <2>2, <2>3, <2>5, <3>1, <1>0, <1>p
  <2> QED BY <2>1, <2>4, <2>5
<1> QED BY <1>1, <1>2, <1>3, <1>9, StepCases

(* No request is run more often than one plus two times the number of      *)
(* losses, so none is run twice while the connection holds.                *)
THEOREM RunsArePaid == BridgeSpec => []RunAgainOnlyAfterLoss
<1>1. BridgeInit => Paid
  <2> SUFFICES ASSUME BridgeInit, NEW m \in Reqs
               PROVE  Budget(m) <= 1 + 2 * losses
    BY DEF Paid
  <2>1. begun[m] = 0 /\ inbox[m] = 0 /\ losses = 0
    BY DEF BridgeInit, None
  <2>2. One(m \in resuming) = 0 /\ One(~listed /\ losses > 0) = 0
    BY <2>1 DEF BridgeInit, One
  <2>3. One(broker[m] \in {"new", "queued"}) \in {0, 1}
    BY DEF One
  <2> QED BY <2>1, <2>2, <2>3 DEF Budget
<1>2. Inv /\ Paid => RunAgainOnlyAfterLoss
  <2> SUFFICES ASSUME Inv, Paid, NEW m \in Reqs
               PROVE  begun[m] <= 1 + 2 * losses
    BY DEF RunAgainOnlyAfterLoss
  <2>1. begun[m] \in Nat /\ inbox[m] \in Nat /\ losses \in Nat
    BY DEF Inv, Types, Counts
  <2> QED BY <2>1 DEF Paid, Budget, One
<1>3. BridgeInit => Fresh
  BY DEF BridgeInit, Fresh, Untouched
<1> QED BY <1>1, <1>2, <1>3, FreshStep, PaidStep, InvAlways, PTL DEF BridgeSpec
=============================================================================
