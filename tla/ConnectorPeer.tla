---------------------------- MODULE ConnectorPeer ----------------------------
(***************************************************************************)
(* A connector process at its end of the websocket: jsonrpc.Serve and      *)
(* NotificationService.Send (pkg/jsonrpc/jsonrpc.go), the loop that        *)
(* reconnects (serve.go), the transport (internal/pkg/ws/ws.go) and the    *)
(* start and stop of the process (internal/app/<connector>/entrypoint).    *)
(*                                                                         *)
(* One goroutine, the server, reads a request, runs the handler, writes    *)
(* the answer, and is the only one that reconnects.  Each subscription has *)
(* a goroutine that calls Send for one notification after the other.       *)
(* Server and subscriptions share the writer lock of jsonrpc.Service.      *)
(*                                                                         *)
(* A frame is <<"answer", r>>, <<"parse error">> or <<"note", s, n>>.  A   *)
(* write that fails is reported to nobody (the error of Close is dropped)  *)
(* but remembered by the websocket, which then gives out no more writers.  *)
(***************************************************************************)
EXTENDS Naturals, Sequences

CONSTANTS
    MaxRequests,  \* requests the core sends during a run
    Malformed,    \* requests that cannot be decoded
    Panics,       \* requests whose handler panics
    Nils,         \* requests whose handler returns neither result nor error
    Big,          \* frames that are larger than the write buffer
    NoJson,       \* frames with a value that JSON has no form for
    CatchPanic,   \* the option of the same name
    OneLock,      \* the handler needs the lock that a notification holds
    Subs,         \* subscriptions
    MaxNotes,     \* notifications of each subscription
    MaxConns      \* connections during a run; the last one is not lost

Requests == 1 .. MaxRequests
Conns == 1 .. MaxConns
Notes == 1 .. MaxNotes

Frames == {<<"parse error">>} \cup ({"answer"} \X Requests)
              \cup ({"note"} \X Subs \X Notes)

ASSUME PeerBounds ==
    /\ MaxRequests \in Nat
    /\ MaxNotes \in Nat
    /\ MaxConns \in Nat \ {0}
ASSUME PeerRequests ==
    /\ Malformed \cup Panics \cup Nils \subseteq Requests
    /\ Big \cup NoJson \subseteq Frames
    /\ CatchPanic \in BOOLEAN
    /\ OneLock \in BOOLEAN
    /\ "server" \notin Subs /\ "free" \notin Subs

VARIABLES
    ws,         \* Service.ws, the connection in use
    link,       \* connections: "new", "up" or "cut"
    broken,     \* connections whose websocket remembers a failed write
    inbox,      \* requests on their way to the server
    frames,     \* what each connection has accepted from the connector
    server,     \* program counter of the server
    req,        \* the request it works on, 0 when none
    writer,     \* who holds the writer lock
    target,     \* the connection that gave out the writer in use
    sender,     \* program counter of each subscription
    noted,      \* notifications each subscription has begun to send
    asked,      \* history: the connection of each request sent so far
    life        \* "up", "cancelled", "closed", "exited" or "dead"

transport == <<ws, link, broken, inbox, frames>>
serving == <<server, req>>
writing == <<writer, target>>
sending == <<sender, noted>>
peerVars == <<transport, serving, writing, sending, asked, life>>

Alive == life \in {"up", "cancelled", "closed"}
Cancelled == life # "up"

(* ws.New has connected before the server starts.                          *)
PeerInit ==
    /\ ws = 1
    /\ link = [c \in Conns |-> IF c = 1 THEN "up" ELSE "new"]
    /\ broken = {}
    /\ inbox = [c \in Conns |-> <<>>]
    /\ frames = [c \in Conns |-> <<>>]
    /\ server = "read"
    /\ req = 0
    /\ writer = "free"
    /\ target = 1
    /\ sender = [s \in Subs |-> "idle"]
    /\ noted = [s \in Subs |-> 0]
    /\ asked = <<>>
    /\ life = "up"

-----------------------------------------------------------------------------
(* The core writes to the connection it has registered; connections break. *)

Ask ==
    /\ Len(asked) < MaxRequests
    /\ link[ws] = "up"
    /\ asked' = Append(asked, ws)
    /\ inbox' = [inbox EXCEPT ![ws] = Append(@, Len(asked) + 1)]
    /\ UNCHANGED <<ws, link, broken, frames, serving, writing, sending, life>>

Cut ==
    /\ ws < MaxConns
    /\ link[ws] = "up"
    /\ link' = [link EXCEPT ![ws] = "cut"]
    /\ UNCHANGED <<ws, broken, inbox, frames, serving, writing, sending, asked,
                   life>>

-----------------------------------------------------------------------------
(* Writing one frame.  Closer.Close drops its error.  A frame larger than  *)
(* the buffer is flushed in parts, so its error reaches encoder.Error, and *)
(* so does a float that is no number.  Serve panics with it outside of the *)
(* recover in call, and so does Send.                                      *)

Accepted(f) ==
    /\ link[target] = "up"
    /\ frames' = [frames EXCEPT ![target] = Append(@, f)]
    /\ UNCHANGED <<broken, life>>

Vanished ==
    /\ link[target] = "cut"
    /\ broken' \in {broken, broken \cup {target}}
    /\ UNCHANGED <<frames, life>>

TooBig(f) ==
    /\ link[target] = "cut"
    /\ f \in Big
    /\ life' = "dead"
    /\ broken' = broken \cup {target}
    /\ UNCHANGED frames

(* Nothing is flushed but an empty frame, which the core drops.            *)
Unwritable ==
    /\ life' = "dead"
    /\ UNCHANGED <<broken, frames>>

WriteVal(f) ==
    IF f \in NoJson THEN Unwritable ELSE Accepted(f) \/ Vanished \/ TooBig(f)

\* Mutant of Take: the writer lock is not taken.
TakeAnyway(p) ==
    /\ ws \notin broken
    /\ writer' = p
    /\ target' = ws

(* newEncoder, under the writer lock.                                      *)
Take(p) ==
    /\ writer = "free"
    /\ ws \notin broken
    /\ writer' = p
    /\ target' = ws

-----------------------------------------------------------------------------
(* Serve and ServeWithReconnect                                            *)

(* NextReader and Decode; a message that is no JSON is answered at once,   *)
(* and so is one that the loss of the connection has torn (req 0).         *)
Read ==
    /\ server = "read"
    /\ inbox[ws] # <<>>
    /\ \/ req' = Head(inbox[ws])
       \/ link[ws] = "cut" /\ req' = 0
    /\ inbox' = [inbox EXCEPT ![ws] = Tail(@)]
    /\ server' = IF req' \in Malformed \cup {0} THEN "answer" ELSE "call"
    /\ UNCHANGED <<ws, link, broken, frames, writing, sending, asked, life>>

\* Mutant of ReadFails: Serve goes on with its loop.
ReadsOn ==
    /\ server = "read"
    /\ link[ws] = "cut"
    /\ UNCHANGED peerVars

(* NextReader fails, whether or not requests were left: Serve returns.  So *)
(* it does on an empty message or one that is no text, which the core does *)
(* not send: what it sends it has parsed before (prepareRequest).          *)
ReadFails ==
    /\ server = "read"
    /\ link[ws] = "cut"
    /\ server' = "reconnect"
    /\ UNCHANGED <<transport, req, writing, sending, asked, life>>

(* A handler may need the lock under which the notifications of a device   *)
(* are delivered: gatt.Client holds it while it calls the subscriber.      *)
Holds(s) == sender[s] # "idle"

Enter ==
    /\ server = "call"
    /\ OneLock => ~\E s \in Subs : Holds(s)
    /\ server' = "handle"
    /\ UNCHANGED <<transport, req, writing, sending, asked, life>>

(* call recovers the handler's panic; handleMessage panics itself, outside *)
(* of the recover, when there is neither a result nor an error.            *)
Fatal(r) == r \in Nils \/ (r \in Panics /\ ~CatchPanic)

\* Mutant of Leave: the recover of call forgets to answer.
LeaveSilently ==
    /\ server = "handle"
    /\ IF Fatal(req) THEN life' = "dead" /\ UNCHANGED server
                     ELSE /\ server' = IF req \in Panics THEN "read" ELSE "answer"
                          /\ UNCHANGED life
    /\ UNCHANGED <<transport, req, writing, sending, asked>>

Leave ==
    /\ server = "handle"
    /\ IF Fatal(req) THEN life' = "dead" /\ UNCHANGED server
                     ELSE server' = "answer" /\ UNCHANGED life
    /\ UNCHANGED <<transport, req, writing, sending, asked>>

NextWriter ==
    /\ server = "answer"
    /\ Take("server")
    /\ server' = "write"
    /\ UNCHANGED <<transport, req, sending, asked, life>>

NoWriter ==
    /\ server = "answer"
    /\ writer = "free"
    /\ ws \in broken
    /\ server' = "reconnect"
    /\ UNCHANGED <<transport, req, writing, sending, asked, life>>

Answer(r) ==
    IF r \in Malformed \cup {0} THEN <<"parse error">> ELSE <<"answer", r>>

(* Then the loop looks at the context again.                               *)
WriteAnswer ==
    /\ server = "write"
    /\ WriteVal(Answer(req))
    /\ writer' = "free"
    /\ server' = IF Cancelled THEN "stopped" ELSE "read"
    /\ req' = 0
    /\ UNCHANGED <<ws, link, inbox, target, sending, asked>>

\* Mutant of Reconnect: the answer that found no writer is written again.
AnswersAgain ==
    /\ server = "reconnect"
    /\ ws < MaxConns
    /\ ws' = ws + 1
    /\ link' = [link EXCEPT ![ws + 1] = "up"]
    /\ server' = IF req # 0 THEN "answer" ELSE "read"
    /\ UNCHANGED <<inbox, frames, broken, req, writing, sending, asked, life>>

(* A tick of the retry timer and a dial that succeeds; select may take it  *)
(* although the context is done, and the loop above ends then.             *)
Reconnect ==
    /\ server = "reconnect"
    /\ ws < MaxConns
    /\ ws' = ws + 1
    /\ link' = [link EXCEPT ![ws + 1] = "up"]
    /\ server' = IF Cancelled THEN "stopped" ELSE "read"
    /\ req' = 0
    /\ UNCHANGED <<inbox, frames, broken, writing, sending, asked, life>>

(* ctx.Done in the select.                                                 *)
GiveUp ==
    /\ server = "reconnect"
    /\ Cancelled
    /\ server' = "stopped"
    /\ UNCHANGED <<transport, req, writing, sending, asked, life>>

Serve == Read \/ ReadFails \/ Enter \/ Leave \/ NoWriter \/ WriteAnswer \/ GiveUp

-----------------------------------------------------------------------------
(* Send, one notification of one subscription at a time (sendL)            *)

Goes(s, place) == sender' = [sender EXCEPT ![s] = place]

(* The device notifies, and its client calls the subscriber.               *)
Begin(s) ==
    /\ sender[s] = "idle"
    /\ noted[s] < MaxNotes
    /\ OneLock => server # "handle"
    /\ Goes(s, "send")
    /\ noted' = [noted EXCEPT ![s] = @ + 1]
    /\ UNCHANGED <<transport, serving, writing, asked, life>>

\* Mutant of SendWriter: the writer of the first connection is kept.
SendsOnFirst(s) ==
    /\ sender[s] = "send"
    /\ writer = "free"
    /\ 1 \notin broken
    /\ writer' = s
    /\ target' = 1
    /\ Goes(s, "write")
    /\ UNCHANGED <<transport, serving, noted, asked, life>>

(* As long as there is no writer, Send sleeps a second and tries again.    *)
SendWriter(s) ==
    /\ sender[s] = "send"
    /\ Take(s)
    /\ Goes(s, "write")
    /\ UNCHANGED <<transport, serving, noted, asked, life>>

\* Mutant of WriteNote: a note that has vanished is written once more.
WritesAgain(s) ==
    /\ sender[s] = "write"
    /\ Accepted(<<"note", s, noted[s]>>) \/ Vanished
    /\ writer' = "free"
    /\ \E place \in {"idle", "send"} : Goes(s, place)
    /\ UNCHANGED <<ws, link, inbox, serving, target, noted, asked>>

WriteNote(s) ==
    /\ sender[s] = "write"
    /\ WriteVal(<<"note", s, noted[s]>>)
    /\ writer' = "free"
    /\ Goes(s, "idle")
    /\ UNCHANGED <<ws, link, inbox, serving, target, noted, asked>>

-----------------------------------------------------------------------------
(* entrypoint.Start on a signal: cancel, Close of the websocket in use at  *)
(* that time, and the process ends.                                        *)

Cancel ==
    /\ life = "up"
    /\ life' = "cancelled"
    /\ UNCHANGED <<transport, serving, writing, sending, asked>>

CloseWs ==
    /\ life = "cancelled"
    /\ life' = "closed"
    /\ link' = [link EXCEPT ![ws] = "cut"]
    /\ broken' = broken \cup {ws}
    /\ UNCHANGED <<ws, inbox, frames, serving, writing, sending, asked>>

Exit ==
    /\ life = "closed"
    /\ life' = "exited"
    /\ UNCHANGED <<transport, serving, writing, sending, asked>>

PeerNext ==
    /\ Alive
    /\ \/ Ask \/ Cut
       \/ Serve \/ NextWriter \/ Reconnect
       \/ \E s \in Subs : Begin(s) \/ SendWriter(s) \/ WriteNote(s)
       \/ Cancel \/ CloseWs \/ Exit

PeerSpec == PeerInit /\ [][PeerNext]_peerVars

(* Goroutines run, the writer lock is starvation free, the core accepts a  *)
(* connection in the end.  Nothing makes devices notify, the core ask, or  *)
(* the signal come.                                                        *)
PeerFairness ==
    /\ WF_peerVars(Alive /\ Serve)
    /\ WF_peerVars(Alive /\ Reconnect)
    /\ SF_peerVars(Alive /\ NextWriter)
    /\ \A s \in Subs : /\ SF_peerVars(Alive /\ SendWriter(s))
                        /\ WF_peerVars(Alive /\ WriteNote(s))

PeerFairSpec == PeerSpec /\ PeerFairness

-----------------------------------------------------------------------------
(* Types; and "only one encoder can exists at point of time"               *)
(* (jsonrpc.go:66): who writes a frame holds the writer lock.              *)
PeerTypeOK ==
    /\ ws \in Conns
    /\ link \in [Conns -> {"new", "up", "cut"}]
    /\ broken \subseteq Conns
    /\ inbox \in [Conns -> Seq(Requests)]
    /\ frames \in [Conns -> Seq(Frames)]
    /\ server \in {"read", "call", "handle", "answer", "write", "reconnect",
                    "stopped"}
    /\ req \in 0 .. MaxRequests
    /\ writer \in Subs \cup {"server", "free"}
    /\ target \in Conns
    /\ sender \in [Subs -> {"idle", "send", "write"}]
    /\ noted \in [Subs -> 0 .. MaxNotes]
    /\ asked \in Seq(Conns)
    /\ life \in {"up", "cancelled", "closed", "exited", "dead"}
    /\ server = "write" => writer = "server"
    /\ \A s \in Subs : sender[s] = "write" => writer = s

(* However connections break around a request, its answer is written at    *)
(* most once, in the order of the requests, and to the connection that     *)
(* asked: a call of the core never gets the answer to a call that was made *)
(* over an earlier connection (jsonrpc.go:133-145, serve.go:41-60).        *)
IsAnswer(f) == f[1] = "answer"
AnswersGoBack ==
    \A c \in Conns : \A i \in DOMAIN frames[c] :
        IsAnswer(frames[c][i]) =>
            /\ asked[frames[c][i][2]] = c
            /\ \A j \in 1 .. i - 1 :
                  IsAnswer(frames[c][j]) => frames[c][j][2] < frames[c][i][2]

(* Send repeats only what was not written: over all connections each       *)
(* notification is accepted at most once, and each subscription's in the   *)
(* order of its device, although Send does not know whether its write      *)
(* arrived (jsonrpc.go:211-233).                                           *)
NoteAt(c, i) == frames[c][i][1] = "note"
Before(c, i, d, j) == c < d \/ (c = d /\ i < j)
NotesOnceInOrder ==
    \A c, d \in Conns : \A i \in DOMAIN frames[c], j \in DOMAIN frames[d] :
        NoteAt(c, i) /\ NoteAt(d, j) /\ Before(c, i, d, j)
          /\ frames[c][i][2] = frames[d][j][2]
        => frames[c][i][3] < frames[d][j][3]

(* A connector that lost the core is connected again, from whatever place  *)
(* of the loop it noticed the loss (serve.go:40-66).                       *)
Reconnects == [](link[ws] = "cut" => <>(link[ws] = "up" \/ life # "up"))

(* "wait and try again" (jsonrpc.go:218): Send returns, so the device that *)
(* notifies is not blocked for good, as long as the core comes back.       *)
SendReturns ==
    \A s \in Subs : sender[s] # "idle" ~> (sender[s] = "idle" \/ life # "up")

(* A request that arrived is answered unless its connection is lost.       *)
Settled(r) ==
    /\ Len(asked) >= r
    /\ \/ link[asked[r]] = "cut"
       \/ \E i \in DOMAIN frames[asked[r]] :
             frames[asked[r]][i] = <<"answer", r>>
RequestIsAnswered ==
    \A r \in Requests \ Malformed :
        Len(asked) >= r ~> (Settled(r) \/ life # "up")
=============================================================================
