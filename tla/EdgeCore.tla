------------------------------ MODULE EdgeCore ------------------------------
(***************************************************************************)
(* The core process: the hub of WsHub composed with rpc.Service            *)
(* (internal/app/core/rpc/interceptor.go) and the publishing half of the   *)
(* MQTT bridge (internal/pkg/core/mqtt/mqtt.go).                           *)
(*                                                                         *)
(* Two unbuffered channels join them.  requestsCh carries notifications    *)
(* from the listen goroutines to requestsListener, the `relay'; stateCh    *)
(* carries new values from the relay, and from every call that read a      *)
(* value, to publishListener, the `publisher'.  A send on either is one    *)
(* step of two processes, so whoever sends waits for the receiver.         *)
(***************************************************************************)
EXTENDS WsHub, SequencesExt

CONSTANTS
    Reads,      \* calls whose result is a value to store and to publish
    BadNotes,   \* notifications without a value or a _parent
    DbFails     \* may state.Set fail

ASSUME EdgeAssumption ==
    /\ Reads \subseteq Calls
    /\ BadNotes \subseteq Notes
    /\ DbFails \in BOOLEAN

VARIABLES
    relay,      \* program counter of requestsListener
    load,       \* the notification it works on, or 0
    post,       \* prepareResponse of a call
    stored,     \* the value of the parameter in state.Service
    publisher,  \* program counter of publishListener
    sent,       \* history: what publishListener received from stateCh
    failed,     \* history: notifications the database did not take
    met         \* history: values whose way from Set to send crossed another's

pipeline == <<relay, load, post, stored, publisher, sent, failed, met>>
edgeVars == <<vars, pipeline>>

EdgeInit ==
    /\ Init
    /\ relay = "off"
    /\ load = 0
    /\ post = [c \in Calls |-> "none"]
    /\ stored = None
    /\ publisher = "off"
    /\ sent = <<>>
    /\ failed = {}
    /\ met = {}

-----------------------------------------------------------------------------
(* entrypoint.Start: the hub is up first, then rpc.New starts the relay    *)
(* and the scheduled calls, then mqtt.New the publisher.                   *)

StartRpc ==
    /\ relay = "off"
    /\ relay' = "idle"
    /\ UNCHANGED <<vars, load, post, stored, publisher, sent, failed, met>>

StartMqtt ==
    /\ relay # "off"
    /\ publisher = "off"
    /\ publisher' = "idle"
    /\ UNCHANGED <<vars, relay, load, post, stored, sent, failed, met>>

-----------------------------------------------------------------------------
(* requestsListener                                                        *)

RelayTake(s) ==
    /\ relay = "idle"
    /\ HandOver(s)
    /\ relay' = "work"
    /\ load' = hand[s]
    /\ UNCHANGED <<post, stored, publisher, sent, failed, met>>

RelaySkip ==
    /\ relay = "work"
    /\ load \in BadNotes
    /\ relay' = "idle"
    /\ load' = 0
    /\ UNCHANGED <<vars, post, stored, publisher, sent, failed, met>>

\* Mutant of RelayStore: a select with a default case drops the value when
\* the publisher is busy.
RelayDrops ==
    /\ relay = "work"
    /\ load \notin BadNotes
    /\ stored' = load
    /\ IF publisher = "idle"
       THEN relay' = "send" /\ UNCHANGED load
       ELSE relay' = "idle" /\ load' = 0
    /\ UNCHANGED <<vars, post, publisher, sent, failed, met>>

(* Values that are stored and not yet sent.                                *)
Holding == {c \in Calls : post[c] = "send"}
              \cup IF relay = "send" THEN {load} ELSE {}
Meet(v) == met' = IF Holding = {} THEN met ELSE met \cup Holding \cup {v}

\* state.Set changes the memory before it writes to the database: an error
\* leaves the new value stored, and it is not published.
RelayStore ==
    /\ relay = "work"
    /\ load \notin BadNotes
    /\ stored' = load
    /\ \/ relay' = "send" /\ Meet(load) /\ UNCHANGED <<load, failed>>
       \/ /\ DbFails
          /\ relay' = "idle" /\ load' = 0
          /\ failed' = failed \cup {load}
          /\ UNCHANGED met
    /\ UNCHANGED <<vars, post, publisher, sent>>

Publish(v) ==
    /\ publisher = "idle"
    /\ publisher' = "busy"
    /\ sent' = Append(sent, v)

\* Mutant of RelaySend: the value is sent again when the broker is slow.
RelayResends ==
    /\ relay = "send"
    /\ Publish(load)
    /\ \/ relay' = "idle" /\ load' = 0
       \/ UNCHANGED <<relay, load>>
    /\ UNCHANGED <<vars, post, stored, failed, met>>

RelaySend ==
    /\ relay = "send"
    /\ Publish(load)
    /\ relay' = "idle"
    /\ load' = 0
    /\ UNCHANGED <<vars, post, stored, failed, met>>

RelayEnd ==
    /\ relay = "idle"
    /\ ~chOpen
    /\ relay' = "ended"
    /\ UNCHANGED <<vars, load, post, stored, publisher, sent, failed, met>>

-----------------------------------------------------------------------------
(* prepareResponse, in the goroutine of a call that received an answer:    *)
(* a result is stored and sent, whether or not the database took it; an    *)
(* error answer is returned as it is.                                      *)

MustPost(c) == c \in Reads /\ pc[c] = "answered" /\ result[c] \in Calls
Post(c, place) == post' = [post EXCEPT ![c] = place]

PostStore(c) ==
    /\ MustPost(c)
    /\ post[c] = "none"
    /\ Post(c, "send")
    /\ stored' = c
    /\ Meet(c)
    /\ UNCHANGED <<vars, relay, load, publisher, sent, failed>>

PostSend(c) ==
    /\ post[c] = "send"
    /\ Publish(c)
    /\ Post(c, "done")
    /\ UNCHANGED <<vars, relay, load, stored, failed, met>>

PostError(c) ==
    /\ MustPost(c)
    /\ post[c] = "none"
    /\ Post(c, "done")
    /\ UNCHANGED <<vars, relay, load, stored, publisher, sent, failed, met>>

\* Mutant of PublishDone: it waits without a bound.
PublishHangs == publisher = "busy" /\ FALSE

\* Publish waits for the broker, one minute at most.
PublishDone ==
    /\ publisher = "busy"
    /\ publisher' = "idle"
    /\ UNCHANGED <<vars, relay, load, post, stored, sent, failed, met>>

-----------------------------------------------------------------------------
HubAlone ==
    /\ \/ \E c \in Calls : CallStep(c)
       \/ \E c \in Calls : relay # "off" /\ Lookup(c)
       \/ \E s \in Socks : ListenLocal(s)
       \/ \E s \in Socks : SockStep(s)
       \/ publisher # "off" /\ Shutdown
       \/ Exit
    /\ UNCHANGED pipeline

RelayStep ==
    \/ \E s \in Socks : RelayTake(s)
    \/ RelaySkip \/ RelayStore \/ RelaySend \/ RelayEnd

PostStep(c) == PostStore(c) \/ PostSend(c) \/ PostError(c)

EdgeNext ==
    /\ Running
    /\ \/ HubAlone
       \/ StartRpc \/ StartMqtt
       \/ RelayStep
       \/ \E c \in Calls : PostStep(c)
       \/ PublishDone

EdgeSpec == EdgeInit /\ [][EdgeNext]_edgeVars

(* As in WsHub; the start goes on, the relay and the publisher run, and a  *)
(* publication ends (its wait is bounded by a minute).                     *)
EdgeFairness ==
    /\ \A c \in Calls : WF_edgeVars(Running /\ CallStep(c) /\ UNCHANGED pipeline)
    /\ \A c \in Calls : WF_edgeVars(Running /\ PostStep(c))
    /\ \A s \in Socks :
          /\ WF_edgeVars(Running /\ ListenLocal(s) /\ UNCHANGED pipeline)
          /\ WF_edgeVars(Running /\ RelayTake(s))
          /\ WF_edgeVars(Running /\ Serve(s) /\ UNCHANGED pipeline)
    /\ WF_edgeVars(Running /\ RelayStep)
    /\ WF_edgeVars(Running /\ (StartRpc \/ StartMqtt))
    /\ WF_edgeVars(Running /\ PublishDone)

EdgeFairSpec == EdgeSpec /\ EdgeFairness

-----------------------------------------------------------------------------
(* A reading is published once, although notifications wait for the relay  *)
(* and calls for the publisher; and the notifications of a connector are   *)
(* published in the order in which it sent them, although each one passes  *)
(* from goroutine to goroutine (ws.go:323, interceptor.go:148-216, 432,    *)
(* mqtt.go:139).  The order is stated for one connection; two connections  *)
(* of a type have two listen goroutines.                                   *)
PublishedOnceInOrder ==
    \A i, j \in 1 .. Len(sent) :
        i < j => /\ sent[i] # sent[j]
                 /\ sent[i] \in Notes /\ sent[j] \in Notes => sent[i] < sent[j]

(* When nobody is between its state.Set and its send, the value of         *)
(* state.Service has been published, unless the database did not take it;  *)
(* and it is the last one published, unless its way from Set to send       *)
(* crossed that of the last one (interceptor.go:205-216, 422-432).         *)
StoredIsPublished ==
    Holding = {} /\ stored \notin failed \cup {None} =>
        /\ stored \in ToSet(sent)
        /\ stored = Last(sent) \/ {stored, Last(sent)} \subseteq met

(* A notification that listen has taken is published, if the database      *)
(* takes it, although readers of other values and other connections want   *)
(* the same two channels: nobody waits for ever on requestsCh or stateCh   *)
(* (ws.go:323, interceptor.go:148, mqtt.go:138-148).                       *)
TakenIsPublished ==
    \A s \in Socks, n \in Notes \ BadNotes :
        hand[s] = n ~> (core # "up" \/ n \in ToSet(sent) \cup failed)

(* A call returns to its caller also when it has a value to publish first  *)
(* (interceptor.go:349-371, 432), so MQTT handlers and cron jobs end.      *)
Returned(c) == pc[c] = "answered" /\ (MustPost(c) => post[c] = "done")
EveryReadReturns ==
    \A c \in Calls : pc[c] # "idle" ~> (Returned(c) \/ ~Running)
=============================================================================
