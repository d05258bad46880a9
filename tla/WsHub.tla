------------------------------- MODULE WsHub --------------------------------
(***************************************************************************)
(* The connector hub of the core (internal/pkg/core/ws/ws.go) with the     *)
(* part of rpc.Service.Call that waits for it (interceptor.go) and the     *)
(* connector at the other end of each websocket (pkg/jsonrpc).             *)
(*                                                                         *)
(* One process per HTTP handler and per listen goroutine (both named by    *)
(* their socket), one per goroutine that makes a call, one per connector.  *)
(* The three locks of the code (mx, cmx, rmx) each protect one step, so a  *)
(* step of the model is one critical section or one channel operation.     *)
(*                                                                         *)
(* A frame from the core is the call it carries.  A frame from a connector *)
(* is the call it answers, or the number of a notification.                *)
(***************************************************************************)
EXTENDS Naturals, Sequences

CONSTANTS
    Types,      \* connector types, the URL paths: "ble", "modbus", ...
    Socks,      \* connections that connectors may open during a run
    Calls,      \* calls of rpc.Service.Call during a run
    Ids,        \* json-rpc ids
    TypeOf,     \* the type under which a socket asks to be registered
    TargetOf,   \* the type a call is for
    IdOf,       \* the json-rpc id of a call
    Malformed,  \* calls whose frame the connector cannot decode
    NullId,     \* the id of an answer to such a frame
    WireCap,    \* frames the network holds in one direction of a socket
    MaxNotes,   \* notifications sent during a run
    None

Notes == 1 .. MaxNotes
Frames == Calls \cup Notes
Failures == {"notFound", "notAvailable", "timeout"}
Panics == {"orphanReply", "closedTwice", "sendOnClosed"}

ASSUME ConnectionsAssumption == TypeOf \in [Socks -> Types] /\ None \notin Socks
ASSUME CallsAssumption ==
    /\ TargetOf \in [Calls -> Types]
    /\ IdOf \in [Calls -> Ids]
    /\ NullId \in Ids
    /\ Malformed \subseteq Calls
    /\ None \notin Calls \cup Failures
    /\ Calls \cap Failures = {}
ASSUME BoundsAssumption ==
    WireCap \in Nat \ {0} /\ MaxNotes \in Nat /\ Calls \cap Notes = {}

VARIABLES
    conns,      \* Service.conns: the registered connection of each type
    sock,       \* life of each websocket, seen by the core
    lsn,        \* program counter of the listen goroutine of a socket
    hand,       \* the notification listen is sending into requestsCh, or 0
    req,        \* conn.req: id -> the call whose channel is registered
    inbox,      \* frames on their way to the connector of a socket
    outbox,     \* frames on their way to the core
    pc,         \* program counter of the goroutine that makes a call
    held,       \* the conn value Call copied out of the table
    chan,       \* the reply channel of a call (capacity 1)
    result,     \* what rpc.Service.Call selected
    executed,   \* history: the calls a connector has executed
    notes,      \* notifications sent so far
    chOpen,     \* is requestsCh open
    core        \* "up", "closing" after close(done), or how the process ended

tables == <<conns, sock, lsn, hand, req>>
wires  == <<inbox, outbox, executed, notes>>
callers == <<pc, held, chan, result>>
process == <<chOpen, core>>
vars == <<tables, wires, callers, process>>

Running == core \in {"up", "closing"}

Init ==
    /\ conns = [t \in Types |-> None]
    /\ sock = [s \in Socks |-> "new"]
    /\ lsn = [s \in Socks |-> "off"]
    /\ hand = [s \in Socks |-> 0]
    /\ req = [s \in Socks |-> [i \in Ids |-> None]]
    /\ inbox = [s \in Socks |-> <<>>]
    /\ outbox = [s \in Socks |-> <<>>]
    /\ pc = [c \in Calls |-> "idle"]
    /\ held = [c \in Calls |-> None]
    /\ chan = [c \in Calls |-> None]
    /\ result = [c \in Calls |-> None]
    /\ executed = {}
    /\ notes = 0
    /\ chOpen = TRUE
    /\ core = "up"

-----------------------------------------------------------------------------
(* Service.handler: the look into the table and the insertion are two      *)
(* critical sections with the websocket upgrade between them.  `valid' is  *)
(* the outcome of the version and path checks.                             *)

Free(t) == conns[t] = None

Check(s) ==
    /\ core = "up"
    /\ sock[s] = "new"
    /\ \E valid \in BOOLEAN :
          sock' = [sock EXCEPT ![s] = IF valid /\ Free(TypeOf[s])
                                      THEN "checked" ELSE "refused"]
    /\ UNCHANGED <<conns, lsn, hand, req, wires, callers, process>>

UpgradeFails(s) ==
    /\ sock[s] = "checked"
    /\ sock' = [sock EXCEPT ![s] = "refused"]
    /\ UNCHANGED <<conns, lsn, hand, req, wires, callers, process>>

Insert(s) ==
    /\ sock[s] = "checked"
    /\ sock' = [sock EXCEPT ![s] = "up"]
    /\ conns' = [conns EXCEPT ![TypeOf[s]] = s]
    /\ lsn' = [lsn EXCEPT ![s] = "read"]
    /\ UNCHANGED <<hand, req, wires, callers, process>>

-----------------------------------------------------------------------------
(* Service.closeConnOnErr(conn), run by listen or by a Call: close the     *)
(* websocket, then delete the table entry of the connection's name.        *)
(* `conn.req = nil' assigns to a copy and changes nothing.                 *)

Shut(s) == [sock EXCEPT ![s] = "shut"]
\* Mutant of ForgetName: the entry of a broken connection stays.
KeepName(s) == conns
ForgetName(s) == [conns EXCEPT ![TypeOf[s]] = None]

-----------------------------------------------------------------------------
(* rpc.Service.Call and ws.Service.Call, one goroutine per call.           *)

Goto(c, place) == pc' = [pc EXCEPT ![c] = place]
PutError(c, e) == chan' = [chan EXCEPT ![c] = e]

Lookup(c) ==
    /\ pc[c] = "idle"
    /\ LET s == conns[TargetOf[c]] IN
          \/ /\ s = None
             /\ PutError(c, "notFound")
             /\ Goto(c, "wait")
             /\ UNCHANGED held
          \/ /\ s # None
             /\ held' = [held EXCEPT ![c] = s]
             /\ Goto(c, "write")
             /\ UNCHANGED chan
    /\ UNCHANGED <<tables, wires, result, process>>

\* Mutant of RoomFor: a network that takes everything.
NoLimit(q) == TRUE

\* WriteMessage has no deadline: while the network is full it blocks.
RoomFor(q) == Len(q) < WireCap

\* Mutant of WriteDelivered: an error is reported for a frame that has left.
WriteReportedLost(c) ==
    /\ pc[c] = "write"
    /\ sock[held[c]] = "up"
    /\ RoomFor(inbox[held[c]])
    /\ inbox' = [inbox EXCEPT ![held[c]] = Append(@, c)]
    /\ \E place \in {"register", "close"} : Goto(c, place)
    /\ UNCHANGED <<tables, outbox, executed, notes, held, chan, result, process>>

WriteDelivered(c) ==
    /\ pc[c] = "write"
    /\ sock[held[c]] = "up"
    /\ RoomFor(inbox[held[c]])
    /\ inbox' = [inbox EXCEPT ![held[c]] = Append(@, c)]
    /\ Goto(c, "register")
    /\ UNCHANGED <<tables, outbox, executed, notes, held, chan, result, process>>

\* The kernel of a peer that is gone may still accept the bytes.
WriteVanishes(c) ==
    /\ pc[c] = "write"
    /\ sock[held[c]] = "cut"
    /\ Goto(c, "register")
    /\ UNCHANGED <<tables, wires, held, chan, result, process>>

WriteFails(c) ==
    /\ pc[c] = "write"
    /\ sock[held[c]] \in {"cut", "shut"}
    /\ Goto(c, "close")
    /\ UNCHANGED <<tables, wires, held, chan, result, process>>

CallClose(c) ==
    /\ pc[c] = "close"
    /\ sock' = Shut(held[c])
    /\ Goto(c, "drop")
    /\ UNCHANGED <<conns, lsn, hand, req, wires, held, chan, result, process>>

CallDrop(c) ==
    /\ pc[c] = "drop"
    /\ conns' = ForgetName(held[c])
    /\ PutError(c, "notAvailable")
    /\ Goto(c, "wait")
    /\ UNCHANGED <<sock, lsn, hand, req, wires, held, result, process>>

Register(c) ==
    /\ pc[c] = "register"
    /\ req' = [req EXCEPT ![held[c]][IdOf[c]] = c]
    /\ Goto(c, "wait")
    /\ UNCHANGED <<conns, sock, lsn, hand, wires, held, chan, result, process>>

Receive(c) ==
    /\ pc[c] = "wait"
    /\ chan[c] # None
    /\ result' = [result EXCEPT ![c] = chan[c]]
    /\ chan' = [chan EXCEPT ![c] = None]
    /\ Goto(c, "answered")
    /\ UNCHANGED <<tables, wires, held, process>>

\* Mutants of Timeout: the call removes its registration when it gives up;
\* it never gives up.
TimeoutForgets(c) ==
    /\ pc[c] = "wait"
    /\ result' = [result EXCEPT ![c] = "timeout"]
    /\ req' = [s \in Socks |-> [i \in Ids |-> IF req[s][i] = c THEN None ELSE req[s][i]]]
    /\ Goto(c, "answered")
    /\ UNCHANGED <<conns, sock, lsn, hand, wires, held, chan, process>>
WaitsForEver(c) == pc[c] = "wait" /\ FALSE

\* select takes either ready case, so a full channel does not disable it.
Timeout(c) ==
    /\ pc[c] = "wait"
    /\ result' = [result EXCEPT ![c] = "timeout"]
    /\ Goto(c, "answered")
    /\ UNCHANGED <<tables, wires, held, chan, process>>

CallStep(c) ==
    \/ WriteDelivered(c) \/ WriteVanishes(c) \/ WriteFails(c)
    \/ CallClose(c) \/ CallDrop(c) \/ Register(c) \/ Receive(c) \/ Timeout(c)

-----------------------------------------------------------------------------
(* Service.listen, one goroutine per registered connection.                *)

ReplyId(d) == IF d \in Malformed THEN NullId ELSE IdOf[d]
\* Mutant of Waiter: answers are matched to calls by turn, not by id.
AnyWaiter(s, d) ==
    IF \E i \in Ids : req[s][i] # None
    THEN req[s][CHOOSE i \in Ids : req[s][i] # None]
    ELSE None
Waiter(s, d) == req[s][ReplyId(d)]
\* Mutant of Settled: an answered call stays registered.
KeepWaiter(s, d) == req
Settled(s, d) == [req EXCEPT ![s][ReplyId(d)] = None]

\* What the core has received is read before the end of the connection.
Readable(s) == lsn[s] = "read" /\ sock[s] \in {"up", "cut"} /\ outbox[s] # <<>>
ReadFrame(s) == outbox' = [outbox EXCEPT ![s] = Tail(@)]

ListenReply(s) ==
    /\ Readable(s)
    /\ LET d == Head(outbox[s])
           w == Waiter(s, d) IN
          /\ d \in Calls
          /\ w # None
          /\ chan' = [chan EXCEPT ![w] = d]
          /\ req' = Settled(s, d)
    /\ ReadFrame(s)
    /\ UNCHANGED <<conns, sock, lsn, hand, inbox, executed, notes,
                   pc, held, result, process>>

\* panic("resp chan not found")
ListenOrphan(s) ==
    /\ Readable(s)
    /\ Head(outbox[s]) \in Calls
    /\ Waiter(s, Head(outbox[s])) = None
    /\ core' = "orphanReply"
    /\ ReadFrame(s)
    /\ UNCHANGED <<tables, inbox, executed, notes, callers, chOpen>>

ListenNote(s) ==
    /\ Readable(s)
    /\ Head(outbox[s]) \in Notes
    /\ hand' = [hand EXCEPT ![s] = Head(outbox[s])]
    /\ lsn' = [lsn EXCEPT ![s] = "hold"]
    /\ ReadFrame(s)
    /\ UNCHANGED <<conns, sock, req, inbox, executed, notes, callers, process>>

\* s.requestsCh <- msg meets its receiver.
HandOver(s) ==
    /\ lsn[s] = "hold"
    /\ chOpen
    /\ hand' = [hand EXCEPT ![s] = 0]
    /\ lsn' = [lsn EXCEPT ![s] = "read"]
    /\ UNCHANGED <<conns, sock, req, wires, callers, process>>

HandOverPanics(s) ==
    /\ lsn[s] = "hold"
    /\ ~chOpen
    /\ core' = "sendOnClosed"
    /\ UNCHANGED <<tables, wires, callers, chOpen>>

ReadError(s) ==
    /\ lsn[s] = "read"
    /\ sock[s] = "shut" \/ (sock[s] = "cut" /\ outbox[s] = <<>>)

ListenError(s) ==
    /\ ReadError(s)
    /\ core = "up"
    /\ lsn' = [lsn EXCEPT ![s] = "close"]
    /\ UNCHANGED <<conns, sock, hand, req, wires, callers, process>>

\* The core is shutting down: close(s.requestsCh), which panics when closed.
ListenLeave(s) ==
    /\ ReadError(s)
    /\ core = "closing"
    /\ chOpen' = FALSE
    /\ core' = IF chOpen THEN core ELSE "closedTwice"
    /\ lsn' = [lsn EXCEPT ![s] = "exit"]
    /\ UNCHANGED <<conns, sock, hand, req, wires, callers>>

ListenClose(s) ==
    /\ lsn[s] = "close"
    /\ sock' = Shut(s)
    /\ lsn' = [lsn EXCEPT ![s] = "drop"]
    /\ UNCHANGED <<conns, hand, req, wires, callers, process>>

ListenDrop(s) ==
    /\ lsn[s] = "drop"
    /\ conns' = ForgetName(s)
    /\ lsn' = [lsn EXCEPT ![s] = "exit"]
    /\ UNCHANGED <<sock, hand, req, wires, callers, process>>

ListenLocal(s) ==
    \/ ListenReply(s) \/ ListenOrphan(s) \/ ListenNote(s) \/ HandOverPanics(s)
    \/ ListenError(s) \/ ListenLeave(s) \/ ListenClose(s) \/ ListenDrop(s)

ListenStep(s) == ListenLocal(s) \/ HandOver(s)

-----------------------------------------------------------------------------
(* Service.Close, from the deferred call of entrypoint.Start: close(done), *)
(* then every registered websocket; the process exits afterwards.  Without *)
(* Close it exits when Start fails (cloud or MQTT broker out of reach).    *)

Registered == {conns[t] : t \in Types} \ {None}

Shutdown ==
    /\ core = "up"
    /\ core' = "closing"
    /\ sock' = [s \in Socks |-> IF s \in Registered THEN "shut" ELSE sock[s]]
    /\ UNCHANGED <<conns, lsn, hand, req, wires, callers, chOpen>>

Exit ==
    /\ core' = "exited"
    /\ UNCHANGED <<tables, wires, callers, chOpen>>

-----------------------------------------------------------------------------
(* The connector: jsonrpc.Service.Serve answers one request after another, *)
(* in order; its answer is lost when the connection is gone by then.       *)
(* NotificationService.Send adds frames of its own.                        *)

Serve(s) ==
    /\ inbox[s] # <<>>
    /\ LET c == Head(inbox[s]) IN
          /\ executed' = executed \cup {c}
          /\ inbox' = [inbox EXCEPT ![s] = Tail(@)]
          /\ \/ /\ sock[s] = "up"
                /\ RoomFor(outbox[s])
                /\ outbox' = [outbox EXCEPT ![s] = Append(@, c)]
             \/ sock[s] # "up" /\ UNCHANGED outbox
    /\ UNCHANGED <<tables, notes, callers, process>>

Notify(s) ==
    /\ sock[s] = "up"
    /\ notes < MaxNotes
    /\ RoomFor(outbox[s])
    /\ notes' = notes + 1
    /\ outbox' = [outbox EXCEPT ![s] = Append(@, notes')]
    /\ UNCHANGED <<tables, inbox, executed, callers, process>>

\* The connection breaks: the core still reads what had arrived before.
Cut(s) ==
    /\ sock[s] = "up"
    /\ sock' = [sock EXCEPT ![s] = "cut"]
    /\ \E n \in 0 .. Len(outbox[s]) :
          outbox' = [outbox EXCEPT ![s] = SubSeq(@, 1, n)]
    /\ UNCHANGED <<conns, lsn, hand, req, inbox, executed, notes, callers, process>>

-----------------------------------------------------------------------------
SockStep(s) == \/ Check(s) \/ UpgradeFails(s) \/ Insert(s)
               \/ Serve(s) \/ Notify(s) \/ Cut(s)

Next == /\ Running
        /\ \/ \E c \in Calls : Lookup(c) \/ CallStep(c)
           \/ \E s \in Socks : ListenStep(s) \/ SockStep(s)
           \/ Shutdown
           \/ Exit

Spec == Init /\ [][Next]_vars

(* The Go scheduler runs every goroutine that can run, a timer that was    *)
(* started fires, and the handler of an accepted request goes on.  Nothing *)
(* is assumed of who makes calls, connects, breaks or shuts down.          *)
CoreFairness ==
    /\ \A c \in Calls : WF_vars(Running /\ CallStep(c))
    /\ \A s \in Socks : WF_vars(Running /\ ListenStep(s))
    /\ \A s \in Socks : WF_vars(Running /\ (Insert(s) \/ UpgradeFails(s)))

ConnectorFairness == \A s \in Socks : WF_vars(Running /\ Serve(s))

FairSpec == Spec /\ CoreFairness /\ ConnectorFairness

-----------------------------------------------------------------------------
(* Types of all variables, and the capacity of the wires.                  *)
TypeOK ==
    /\ conns \in [Types -> Socks \cup {None}]
    /\ sock \in [Socks -> {"new", "checked", "refused", "up", "cut", "shut"}]
    /\ lsn \in [Socks -> {"off", "read", "hold", "close", "drop", "exit"}]
    /\ hand \in [Socks -> 0 .. MaxNotes]
    /\ req \in [Socks -> [Ids -> Calls \cup {None}]]
    /\ inbox \in [Socks -> Seq(Calls)]
    /\ outbox \in [Socks -> Seq(Frames)]
    /\ \A s \in Socks : Len(inbox[s]) <= WireCap /\ Len(outbox[s]) <= WireCap
    /\ pc \in [Calls -> {"idle", "write", "close", "drop", "register",
                         "wait", "answered"}]
    /\ held \in [Calls -> Socks \cup {None}]
    /\ chan \in [Calls -> Calls \cup Failures \cup {None}]
    /\ result \in [Calls -> Calls \cup Failures \cup {None}]
    /\ executed \subseteq Calls
    /\ notes \in 0 .. MaxNotes
    /\ chOpen \in BOOLEAN
    /\ core \in {"up", "closing", "exited"} \cup Panics

(* No call of the run is answered under the id of another one: the core    *)
(* draws a nanoid when the caller gave no id, and callers give fresh ones. *)
OwnIds == \A c, d \in Calls : ReplyId(d) = IdOf[c] => c = d

(* With such ids, a call never returns the answer to another call, however *)
(* calls, timeouts, late answers and reconnections interleave              *)
(* (ws.go:337-346, interceptor.go:355-370).                                *)
AnswerIsOwn == \A c \in Calls : result[c] \in Calls => result[c] = c

(* listen answers into a channel of capacity 1 and would block for ever,   *)
(* with every later frame of the connector behind it, if that channel were *)
(* full: whoever is registered has an empty channel, also after it timed   *)
(* out (ws.go:337-346).                                                    *)
ReplyNeverBlocks ==
    \A s \in Socks, i \in Ids :
        req[s][i] # None => /\ chan[req[s][i]] = None
                            /\ result[req[s][i]] \in {None, "timeout"}

(* While the core is up, the table does not name a connection that nobody  *)
(* reads: such an entry would refuse every reconnection of that type       *)
(* (ws.go:237-248) and swallow every call.                                 *)
ListedIsRead ==
    core = "up" => \A t \in Types :
        conns[t] # None => lsn[conns[t]] \in {"read", "hold", "close", "drop"}

(* The core panics for two reasons only: an answer overtook the            *)
(* registration of its call (ws.go:362-378) or names no call, never a late *)
(* one; and in a shutdown another listener has closed requestsCh before    *)
(* (ws.go:293, 323).                                                       *)
PanicHasReason ==
    [][core' \in Panics =>
         IF core' = "orphanReply"
         THEN \E s \in Socks : /\ outbox[s] # <<>>
                                /\ Head(outbox[s]) \in Calls
                                /\ \/ pc[Head(outbox[s])] = "register"
                                   \/ Head(outbox[s]) \in Malformed
         ELSE \E s, t \in Socks : s # t /\ lsn[s] = "exit" /\ lsn[t] \in {"read", "hold"}]_vars

(* The hub keeps the promise of RequestReply: executions happen at most    *)
(* once, refusals mean never executed, answers are the call's own.         *)
Promise == INSTANCE RequestReply WITH
              asked <- {c \in Calls : pc[c] # "idle"},
              reply <- result
KeepsPromise == Promise!Spec

(* Every call comes back (or the process ends), whatever breaks meanwhile: *)
(* interceptor.go:356-370 with the writes of ws.go:362-364.                *)
EveryCallReturns ==
    \A c \in Calls : pc[c] # "idle" ~> (pc[c] = "answered" \/ ~Running)

(* A connection that broke leaves the table, so that its connector can     *)
(* register again (ws.go:283, 237-248), unless the core stops.             *)
BrokenIsForgotten ==
    \A s \in Socks :
        sock[s] \in {"cut", "shut"} ~> (core # "up" \/ conns[TypeOf[s]] # s)

-----------------------------------------------------------------------------
(* Statements of the source that the code does not keep.                   *)

(* A connection that is up and read. *)
Live(s) == sock[s] = "up" /\ lsn[s] \in {"read", "hold"}

(* "connector not found" (error.go:60) is only said when no connector of   *)
(* that type is connected.                                                 *)
LiveIsListed ==
    core = "up" => \A s \in Socks : Live(s) => conns[TypeOf[s]] # None
=============================================================================
