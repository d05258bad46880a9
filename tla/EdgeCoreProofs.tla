--------------------------- MODULE EdgeCoreProofs ---------------------------
(***************************************************************************)
(* What TLAPS proves of the hub (WsHub), alone and inside of the core      *)
(* process, for every number of connectors, connections, calls and         *)
(* notifications, and every capacity of the wires.                         *)
(*                                                                         *)
(* First the hub: types, the table of connections and the reply channels;  *)
(* then WsHub implements RequestReply: with ids of their own, calls are    *)
(* executed at most once, refused calls never, and answers are own ones.   *)
(* What that takes, where a request and its answer can be, also tells why  *)
(* the core panics.                                                        *)
(*                                                                         *)
(* Then the core process: whatever the relay, the publisher and the start  *)
(* of the process do, the hub's part of the state takes steps of WsHub, so *)
(* every theorem about WsHub holds of EdgeCore.  StoredArePublished rests  *)
(* on the two readings that are stored and not yet taken by the publisher: *)
(* the one the relay holds and the one a read call holds.  PublishedInOrder *)
(* follows a notification along the wire, the hand of the listener, the    *)
(* relay and the list of what was published: at each place everything is   *)
(* later than at the next.                                                 *)
(***************************************************************************)
EXTENDS EdgeCore, SequenceTheorems, TLAPS


(* A call that is past its lookup holds a connection of its target's type. *)
Past == {"write", "close", "drop", "register"}
HeldOK == \A c \in Calls :
             pc[c] \in Past => held[c] \in Socks /\ TypeOf[held[c]] = TargetOf[c]

(* A registered connection is listed under its own type.                   *)
NamesOK == \A t \in Types : conns[t] # None => TypeOf[conns[t]] = t

Shape == TypeOK /\ HeldOK /\ NamesOK

LEMMA InitShape == Init => Shape
  BY ConnectionsAssumption, CallsAssumption, BoundsAssumption
     DEF Init, Shape, TypeOK, HeldOK, NamesOK, Past, Notes, Frames, Failures, Panics

LEMMA CallShape ==
  ASSUME Shape, NEW c \in Calls, Lookup(c) \/ CallStep(c)
  PROVE  Shape'
<1> USE ConnectionsAssumption, CallsAssumption, BoundsAssumption
     DEF Shape, TypeOK, HeldOK, NamesOK, Past, Notes, Frames, Failures, Panics,
         tables, wires, callers, process, Goto, PutError
<1>1. CASE Lookup(c)
  <2>1. conns[TargetOf[c]] \in Socks \cup {None}
    <3>1. TargetOf[c] \in Types
      OBVIOUS
    <3> QED BY <3>1
  <2>2. CASE conns[TargetOf[c]] = None
    <3>1. /\ chan' = [chan EXCEPT ![c] = "notFound"]
          /\ pc' = [pc EXCEPT ![c] = "wait"]
          /\ held' = held
      BY <1>1, <2>2 DEF Lookup
    <3>2. TypeOK'
      BY <1>1, <3>1 DEF Lookup
    <3> QED BY <1>1, <3>1, <3>2 DEF Lookup
  <2>3. CASE conns[TargetOf[c]] # None
    <3>1. conns[TargetOf[c]] \in Socks /\ TypeOf[conns[TargetOf[c]]] = TargetOf[c]
      BY <2>1, <2>3
    <3>2. held' = [held EXCEPT ![c] = conns[TargetOf[c]]]
      BY <1>1, <2>3 DEF Lookup
    <3>3. pc' = [pc EXCEPT ![c] = "write"]
          /\ UNCHANGED <<tables, wires, chan, result, process>>
      BY <1>1, <2>3 DEF Lookup
    <3> QED BY <3>1, <3>2, <3>3
  <2> QED BY <2>2, <2>3
<1>2. CASE WriteDelivered(c)
  <2>1. held[c] \in Socks
    BY <1>2 DEF WriteDelivered
  <2>2. /\ Append(inbox[held[c]], c) \in Seq(Calls)
        /\ Len(Append(inbox[held[c]], c)) <= WireCap
    BY <1>2, <2>1 DEF WriteDelivered, RoomFor
  <2>3. inbox' \in [Socks -> Seq(Calls)]
    BY <1>2, <2>1, <2>2 DEF WriteDelivered
  <2>4. \A s \in Socks : Len(inbox'[s]) <= WireCap
    BY <1>2, <2>1, <2>2 DEF WriteDelivered
  <2> QED BY <1>2, <2>3, <2>4 DEF WriteDelivered
<1>3. CASE WriteVanishes(c)
  BY <1>3 DEF WriteVanishes
<1>4. CASE WriteFails(c)
  BY <1>4 DEF WriteFails
<1>5. CASE CallClose(c)
  BY <1>5 DEF CallClose, Shut
<1>6. CASE CallDrop(c)
  BY <1>6 DEF CallDrop, ForgetName
<1>7. CASE Register(c)
  BY <1>7 DEF Register
<1>8. CASE Receive(c)
  BY <1>8 DEF Receive
<1>9. CASE Timeout(c)
  BY <1>9 DEF Timeout
<1> QED BY <1>1, <1>2, <1>3, <1>4, <1>5, <1>6, <1>7, <1>8, <1>9 DEF CallStep

LEMMA ListenShape ==
  ASSUME Shape, NEW s \in Socks, ListenStep(s)
  PROVE  Shape'
<1> USE ConnectionsAssumption, CallsAssumption, BoundsAssumption
     DEF Shape, TypeOK, HeldOK, NamesOK, Past, Notes, Frames, Failures, Panics,
         tables, wires, callers, process
<1>1. ASSUME Readable(s), ReadFrame(s)
      PROVE  /\ Head(outbox[s]) \in Frames
             /\ outbox' \in [Socks -> Seq(Frames)]
             /\ \A u \in Socks : Len(outbox'[u]) <= WireCap
  BY <1>1 DEF Readable, ReadFrame
<1>2. CASE ListenReply(s)
  <2>1. Head(outbox[s]) \in Calls /\ Waiter(s, Head(outbox[s])) # None
    BY <1>2 DEF ListenReply
  <2>2. ReplyId(Head(outbox[s])) \in Ids
    BY <2>1 DEF ReplyId
  <2>3. Waiter(s, Head(outbox[s])) \in Calls
    BY <2>1, <2>2 DEF Waiter
  <2>4. chan' \in [Calls -> Calls \cup Failures \cup {None}]
    BY <1>2, <2>1, <2>3 DEF ListenReply
  <2>5. req' \in [Socks -> [Ids -> Calls \cup {None}]]
    BY <1>2, <2>2 DEF ListenReply, Settled
  <2> QED BY <1>1, <1>2, <2>4, <2>5 DEF ListenReply
<1>3. CASE ListenOrphan(s)
  BY <1>1, <1>3 DEF ListenOrphan
<1>4. CASE ListenNote(s)
  BY <1>1, <1>4 DEF ListenNote
<1>5. CASE HandOver(s)
  BY <1>5 DEF HandOver
<1>6. CASE HandOverPanics(s)
  BY <1>6 DEF HandOverPanics
<1>7. CASE ListenError(s)
  BY <1>7 DEF ListenError
<1>8. CASE ListenLeave(s)
  BY <1>8 DEF ListenLeave
<1>9. CASE ListenClose(s)
  BY <1>9 DEF ListenClose, Shut
<1>10. CASE ListenDrop(s)
  BY <1>10 DEF ListenDrop, ForgetName
<1> QED BY <1>2, <1>3, <1>4, <1>5, <1>6, <1>7, <1>8, <1>9, <1>10
        DEF ListenStep, ListenLocal

LEMMA SockShape ==
  ASSUME Shape, NEW s \in Socks, SockStep(s)
  PROVE  Shape'
<1> USE ConnectionsAssumption, CallsAssumption, BoundsAssumption
     DEF Shape, TypeOK, HeldOK, NamesOK, Past, Notes, Frames, Failures, Panics,
         tables, wires, callers, process
<1>1. CASE Check(s)
  BY <1>1 DEF Check
<1>2. CASE UpgradeFails(s)
  BY <1>2 DEF UpgradeFails
<1>3. CASE Insert(s)
  BY <1>3 DEF Insert
<1>4. CASE Serve(s)
  <2>1. /\ Head(inbox[s]) \in Calls
        /\ Tail(inbox[s]) \in Seq(Calls)
        /\ Len(Tail(inbox[s])) <= WireCap
    BY <1>4 DEF Serve
  <2>2. ASSUME RoomFor(outbox[s])
        PROVE  /\ Append(outbox[s], Head(inbox[s])) \in Seq(Frames)
               /\ Len(Append(outbox[s], Head(inbox[s]))) <= WireCap
    <3>1. outbox[s] \in Seq(Frames) /\ Head(inbox[s]) \in Frames
      BY <2>1
    <3> QED BY <2>2, <3>1, AppendProperties DEF RoomFor
  <2>3. /\ inbox' \in [Socks -> Seq(Calls)]
        /\ \A u \in Socks : Len(inbox'[u]) <= WireCap
    BY <1>4, <2>1 DEF Serve
  <2>4. /\ outbox' \in [Socks -> Seq(Frames)]
        /\ \A u \in Socks : Len(outbox'[u]) <= WireCap
    <3>1. CASE outbox' = outbox
      BY <3>1
    <3>2. CASE /\ RoomFor(outbox[s])
               /\ outbox' = [outbox EXCEPT ![s] = Append(@, Head(inbox[s]))]
      BY <2>2, <3>2
    <3> QED BY <1>4, <3>1, <3>2 DEF Serve
  <2>5. executed' \subseteq Calls
    BY <1>4, <2>1 DEF Serve
  <2> QED BY <1>4, <2>3, <2>4, <2>5 DEF Serve
<1>5. CASE Notify(s)
  <2>1. notes' \in Notes
    BY <1>5 DEF Notify
  <2>2. /\ Append(outbox[s], notes') \in Seq(Frames)
        /\ Len(Append(outbox[s], notes')) <= WireCap
    BY <1>5, <2>1 DEF Notify, RoomFor
  <2>3. /\ outbox' \in [Socks -> Seq(Frames)]
        /\ \A u \in Socks : Len(outbox'[u]) <= WireCap
    BY <1>5, <2>2 DEF Notify
  <2> QED BY <1>5, <2>1, <2>3 DEF Notify
<1>6. CASE Cut(s)
  <2>1. PICK n \in 0 .. Len(outbox[s]) :
          outbox' = [outbox EXCEPT ![s] = SubSeq(@, 1, n)]
    BY <1>6 DEF Cut
  <2>2. /\ SubSeq(outbox[s], 1, n) \in Seq(Frames)
        /\ Len(SubSeq(outbox[s], 1, n)) <= WireCap
    BY <2>1, SubSeqProperties
  <2>3. /\ outbox' \in [Socks -> Seq(Frames)]
        /\ \A u \in Socks : Len(outbox'[u]) <= WireCap
    BY <2>1, <2>2
  <2> QED BY <1>6, <2>3 DEF Cut
<1> QED BY <1>1, <1>2, <1>3, <1>4, <1>5, <1>6 DEF SockStep

(* The step of Next, and of stuttering, from the three lemmas above.       *)
LEMMA NextShape ==
  ASSUME Shape, [Next]_vars
  PROVE  Shape'
<1>1. CASE Shutdown
  BY <1>1 DEF Shutdown, Shape, TypeOK, HeldOK, NamesOK, Past, wires, callers
<1>2. CASE Exit
  BY <1>2 DEF Exit, Shape, TypeOK, HeldOK, NamesOK, Past, tables, wires, callers
<1>3. CASE UNCHANGED vars
  BY <1>3 DEF vars, Shape, TypeOK, HeldOK, NamesOK, Past, tables, wires, callers, process
<1> QED BY <1>1, <1>2, <1>3, CallShape, ListenShape, SockShape DEF Next

(* Types are never violated: in particular no wire exceeds its capacity,   *)
(* because every writer of the code blocks on a full network.              *)
THEOREM TypeCorrect == Spec => []TypeOK
<1>1. Init => Shape
  BY InitShape
<1>2. Shape /\ [Next]_vars => Shape'
  BY NextShape
<1>3. Shape => TypeOK
  BY DEF Shape
<1> QED BY <1>1, <1>2, <1>3, PTL DEF Spec

-----------------------------------------------------------------------------
(* The table and the readers.                                              *)

(* ListedIsRead and the names of the listed connections are inductive on   *)
(* top of the types: a listener leaves its loop either with the core, or   *)
(* through ListenDrop, which clears the entry of its own name.             *)
LEMMA NextListed ==
  ASSUME Shape, ListedIsRead, Next
  PROVE  ListedIsRead'
<1> USE DEF Shape, TypeOK, NamesOK, ListedIsRead, tables, wires, callers, process
<1>1. ASSUME NEW c \in Calls, Lookup(c) \/ CallStep(c)
      PROVE  ListedIsRead'
  <2>1. CASE CallDrop(c)
    BY <2>1 DEF CallDrop, ForgetName
  <2>2. CASE UNCHANGED <<conns, lsn, core>>
    BY <2>2
  <2> QED BY <1>1, <2>1, <2>2 DEF CallStep, Lookup, WriteDelivered, WriteVanishes,
          WriteFails, CallClose, Register, Receive, Timeout
<1>2. ASSUME NEW s \in Socks, ListenStep(s)
      PROVE  ListedIsRead'
  <2>1. CASE ListenDrop(s)
    BY <2>1, ConnectionsAssumption DEF ListenDrop, ForgetName
  <2>2. ASSUME NEW place \in {"read", "hold", "close", "drop"},
               lsn' = [lsn EXCEPT ![s] = place], UNCHANGED <<conns, core>>
        PROVE  ListedIsRead'
    BY <2>2
  <2>5. CASE \/ ListenNote(s) \/ HandOver(s) \/ ListenError(s) \/ ListenClose(s)
    BY <2>2, <2>5 DEF ListenNote, HandOver, ListenError, ListenClose
  <2>3. CASE ListenLeave(s)
    BY <2>3 DEF ListenLeave
  <2>4. CASE ListenReply(s) \/ ListenOrphan(s) \/ HandOverPanics(s)
    BY <2>4 DEF ListenReply, ListenOrphan, HandOverPanics
  <2> QED BY <1>2, <2>1, <2>3, <2>4, <2>5 DEF ListenStep, ListenLocal
<1>3. ASSUME NEW s \in Socks, SockStep(s)
      PROVE  ListedIsRead'
  <2>1. CASE Insert(s)
    BY <2>1, ConnectionsAssumption DEF Insert
  <2>2. CASE UNCHANGED <<conns, lsn, core>>
    BY <2>2
  <2> QED BY <1>3, <2>1, <2>2 DEF SockStep, Check, UpgradeFails, Serve, Notify, Cut
<1>4. CASE Shutdown \/ Exit
  BY <1>4 DEF Shutdown, Exit
<1> QED BY <1>1, <1>2, <1>3, <1>4 DEF Next

(* While the core is up every listed connection has a goroutine that reads *)
(* it or is about to delete its entry, for any number of connections.      *)
THEOREM ListedConnectionsAreRead == Spec => []ListedIsRead
<1>1. Init => Shape /\ ListedIsRead
  BY InitShape DEF Init, ListedIsRead
<1>2. ListedIsRead /\ UNCHANGED vars => ListedIsRead'
  BY DEF ListedIsRead, vars, tables, process
<1>3. Shape /\ ListedIsRead /\ [Next]_vars => Shape' /\ ListedIsRead'
  BY <1>2, NextShape, NextListed
<1> QED BY <1>1, <1>3, PTL DEF Spec

-----------------------------------------------------------------------------
(* The registry of reply channels.                                         *)

(* Whoever is registered waits on this connection under its own id, or     *)
(* timed out while it did, and has not been answered.                      *)
Pending(w, s, i) ==
    /\ IdOf[w] = i
    /\ held[w] = s
    /\ pc[w] \in {"wait", "answered"}
    /\ chan[w] = None
    /\ result[w] \in {None, "timeout"}

RegistryOK ==
    \A s \in Socks, i \in Ids : req[s][i] # None => Pending(req[s][i], s, i)

(* A channel is empty until its call waits, and only its own answer or a   *)
(* refusal ever enters it.                                                 *)
ChannelOK(c) ==
    /\ pc[c] \notin {"wait", "answered"} => chan[c] = None
    /\ pc[c] # "answered" => result[c] = None
    /\ chan[c] \in {c, "notFound", "notAvailable", None}
    /\ result[c] \in {c, None} \cup Failures

ChannelsOK == \A c \in Calls : ChannelOK(c)

Replies == Shape /\ RegistryOK /\ ChannelsOK

LEMMA InitReplies == Init => Replies
  BY InitShape DEF Init, Replies, RegistryOK, ChannelsOK, ChannelOK

(* A call that does not wait, or has been answered, is not registered.     *)
LEMMA Unregistered ==
  ASSUME Replies, NEW c \in Calls,
         pc[c] \notin {"wait", "answered"} \/ chan[c] # None
  PROVE  \A s \in Socks, i \in Ids : req[s][i] # c
  BY CallsAssumption DEF Replies, RegistryOK, Pending

(* The step of a call leaves the other calls' registrations as they are.   *)
CallerUntouched(w) == /\ pc'[w] = pc[w] /\ held'[w] = held[w]
                      /\ chan'[w] = chan[w] /\ result'[w] = result[w]

LEMMA OthersPending ==
  ASSUME Replies, NEW c \in Calls, UNCHANGED req,
         \A w \in Calls \ {c} : CallerUntouched(w),
         \A s \in Socks, i \in Ids : req[s][i] # c
  PROVE  RegistryOK'
<1>1. ASSUME NEW s \in Socks, NEW i \in Ids, req[s][i] # None
      PROVE  Pending(req[s][i], s, i)'
  <2>1. PICK w \in Calls \ {c} : w = req[s][i]
    BY <1>1 DEF Replies, Shape, TypeOK
  <2>2. Pending(w, s, i) /\ CallerUntouched(w)
    BY <1>1, <2>1 DEF Replies, RegistryOK
  <2>3. Pending(w, s, i)'
    BY <2>2 DEF Pending, CallerUntouched
  <2> QED BY <2>1, <2>3
<1> QED BY <1>1 DEF RegistryOK

LEMMA CallReplies ==
  ASSUME Replies, NEW c \in Calls, Lookup(c) \/ CallStep(c)
  PROVE  RegistryOK' /\ ChannelsOK'
<1> USE CallsAssumption
     DEF Replies, Shape, TypeOK, ChannelsOK, ChannelOK, Failures,
         tables, wires, process, Goto, PutError
<1>1. ASSUME UNCHANGED req, \A w \in Calls \ {c} : CallerUntouched(w),
             pc[c] \notin {"wait", "answered"} \/ chan[c] # None
      PROVE  RegistryOK'
  BY <1>1, Unregistered, OthersPending
<1>2. CASE Lookup(c)
  <2>1. \/ chan' = [chan EXCEPT ![c] = "notFound"]
           /\ pc' = [pc EXCEPT ![c] = "wait"]
           /\ held' = held
        \/ chan' = chan
           /\ pc' = [pc EXCEPT ![c] = "write"]
           /\ held' = [held EXCEPT ![c] = conns[TargetOf[c]]]
    BY <1>2 DEF Lookup
  <2>2. RegistryOK'
    BY <1>1, <1>2, <2>1 DEF Lookup, CallerUntouched
  <2>3. ChannelsOK'
    <3>1. ASSUME NEW d \in Calls, d # c
          PROVE  pc'[d] = pc[d] /\ chan'[d] = chan[d] /\ result'[d] = result[d]
      BY <1>2, <2>1, <3>1 DEF Lookup
    <3>2. pc[c] = "idle" /\ result'[c] = result[c]
      BY <1>2 DEF Lookup
    <3>3. \/ chan'[c] = "notFound" /\ pc'[c] = "wait"
          \/ chan'[c] = chan[c] /\ pc'[c] = "write"
      BY <2>1
    <3>4. ASSUME NEW d \in Calls
          PROVE  ChannelOK(d)'
      <4>1. CASE d = c
        BY <3>2, <3>3, <4>1
      <4>2. CASE d # c
        BY <3>1, <4>2
      <4> QED BY <4>1, <4>2
    <3> QED BY <3>4
  <2> QED BY <2>2, <2>3
<1>3. CASE WriteDelivered(c) \/ WriteVanishes(c) \/ WriteFails(c) \/ CallClose(c)
  <2>1. /\ pc[c] \in {"write", "close"} /\ UNCHANGED <<req, held, chan, result>>
        /\ \E place \in {"register", "close", "drop"} :
              pc' = [pc EXCEPT ![c] = place]
    BY <1>3 DEF WriteDelivered, WriteVanishes, WriteFails, CallClose
  <2>2. RegistryOK'
    BY <1>1, <2>1 DEF CallerUntouched
  <2> QED BY <2>1, <2>2
<1>4. CASE CallDrop(c)
  BY <1>1, <1>4 DEF CallDrop, CallerUntouched
<1>5. CASE Register(c)
  <2>1. held[c] \in Socks /\ IdOf[c] \in Ids
    BY <1>5 DEF Register, HeldOK, Past
  <2>2. \A s \in Socks, i \in Ids :
           req'[s][i] = IF s = held[c] /\ i = IdOf[c] THEN c ELSE req[s][i]
    BY <1>5, <2>1 DEF Register
  <2>3. Pending(c, held[c], IdOf[c])'
    BY <1>5 DEF Register, Pending
  <2>4. ASSUME NEW s \in Socks, NEW i \in Ids, (req[s][i] # None)'
        PROVE  Pending(req[s][i], s, i)'
    <3>1. CASE s = held[c] /\ i = IdOf[c]
      BY <1>5, <2>2, <2>3, <3>1 DEF Register
    <3>2. CASE ~(s = held[c] /\ i = IdOf[c])
      <4>1. PICK w \in Calls : w = req[s][i] /\ w = req'[s][i]
        BY <2>2, <2>4, <3>2
      <4>2. Pending(w, s, i)
        <5>1. req[s][i] # None
          BY <4>1
        <5>2. Pending(req[s][i], s, i)
          BY <5>1, Zenon DEF RegistryOK
        <5> QED BY <4>1, <5>2
      <4>3. w # c
        BY <1>5, <4>2 DEF Register, Pending
      <4>4. Pending(w, s, i)'
        BY <1>5, <4>2, <4>3 DEF Register, Pending
      <4> QED BY <4>1, <4>4
    <3> QED BY <3>1, <3>2
  <2>5. RegistryOK'
    BY <2>4 DEF RegistryOK
  <2>6. ChannelsOK'
    BY <1>5 DEF Register
  <2> QED BY <2>5, <2>6
<1>6. CASE Receive(c)
  BY <1>1, <1>6 DEF Receive, CallerUntouched
<1>7. CASE Timeout(c)
  BY <1>7 DEF Timeout, RegistryOK, Pending
<1> QED BY <1>2, <1>3, <1>4, <1>5, <1>6, <1>7 DEF CallStep

(* The id of an answer leads back to the call that was sent: this is where *)
(* OwnIds is needed.                                                       *)
LEMMA ListenReplies ==
  ASSUME OwnIds, Replies, NEW s \in Socks, ListenReply(s)
  PROVE  RegistryOK' /\ ChannelsOK'
<1> DEFINE d == Head(outbox[s])
<1>1. d \in Calls /\ Waiter(s, d) # None
  BY DEF ListenReply
<1>2. ReplyId(d) \in Ids
  BY <1>1, CallsAssumption DEF ReplyId
<1>3. Waiter(s, d) \in Calls /\ Pending(Waiter(s, d), s, ReplyId(d))
  BY <1>1, <1>2 DEF Waiter, Replies, Shape, TypeOK, RegistryOK
<1>4. Waiter(s, d) = d
  BY <1>1, <1>3 DEF OwnIds, Pending
<1>5. Pending(d, s, ReplyId(d))
  BY <1>3, <1>4
<1>6. chan' = [chan EXCEPT ![d] = d] /\ UNCHANGED <<pc, held, result>>
  BY <1>4 DEF ListenReply
<1>7. \A u \in Socks, i \in Ids :
         req'[u][i] = IF u = s /\ i = ReplyId(d) THEN None ELSE req[u][i]
  BY <1>2 DEF ListenReply, Settled, Replies, Shape, TypeOK
<1>8. ASSUME NEW u \in Socks, NEW i \in Ids, (req[u][i] # None)'
      PROVE  Pending(req[u][i], u, i)'
  <2>1. PICK w \in Calls : /\ w = req[u][i] /\ w = req'[u][i]
                          /\ ~(u = s /\ i = ReplyId(d))
    BY <1>7, <1>8 DEF Replies, Shape, TypeOK
  <2>2. Pending(w, u, i)
    BY <2>1, CallsAssumption DEF Replies, RegistryOK
  <2>3. w # d
    BY <1>5, <2>1, <2>2 DEF Pending
  <2>4. Pending(w, u, i)'
    BY <1>6, <2>2, <2>3 DEF Pending, Replies, Shape, TypeOK
  <2> QED BY <2>1, <2>4
<1>9. RegistryOK'
  BY <1>8 DEF RegistryOK
<1>10. ChannelsOK'
  BY <1>1, <1>5, <1>6 DEF Replies, Shape, TypeOK, Pending, ChannelsOK, ChannelOK
<1> QED BY <1>9, <1>10

LEMMA NextReplies ==
  ASSUME OwnIds, Replies, [Next]_vars
  PROVE  Replies'
<1>1. Shape'
  BY NextShape DEF Replies
<1>2. CASE UNCHANGED <<req, callers>>
  BY <1>1, <1>2 DEF Replies, RegistryOK, ChannelsOK, Pending, ChannelOK, callers
<1>3. ASSUME NEW c \in Calls, Lookup(c) \/ CallStep(c)
      PROVE  Replies'
  BY <1>1, <1>3, CallReplies DEF Replies
<1>4. ASSUME NEW s \in Socks, ListenReply(s)
      PROVE  Replies'
  BY <1>1, <1>4, ListenReplies DEF Replies
<1>5. ASSUME NEW s \in Socks, ListenStep(s), ~ListenReply(s)
      PROVE  UNCHANGED <<req, callers>>
  BY <1>5 DEF ListenStep, ListenLocal, ListenOrphan, ListenNote, HandOver,
     HandOverPanics, ListenError, ListenLeave, ListenClose, ListenDrop, tables
<1>6. ASSUME NEW s \in Socks, SockStep(s)
      PROVE  UNCHANGED <<req, callers>>
  BY <1>6 DEF SockStep, Check, UpgradeFails, Insert, Serve, Notify, Cut, tables
<1>7. ASSUME Shutdown \/ Exit \/ UNCHANGED vars
      PROVE  UNCHANGED <<req, callers>>
  BY <1>7 DEF Shutdown, Exit, vars, tables
<1> QED BY <1>2, <1>3, <1>4, <1>5, <1>6, <1>7 DEF Next

(* If the ids of a run are its calls' own, no call ever returns another    *)
(* call's answer, however many calls, connections and reconnections.       *)
THEOREM AnswersAreOwn == ASSUME OwnIds PROVE Spec => []AnswerIsOwn
<1>1. Replies => AnswerIsOwn
  BY CallsAssumption DEF Replies, ChannelsOK, ChannelOK, AnswerIsOwn
<1>2. Init => Replies
  BY InitReplies
<1>3. Replies /\ [Next]_vars => Replies'
  BY NextReplies
<1> QED BY <1>1, <1>2, <1>3, PTL DEF Spec

(* ... and listen never waits to put an answer into a full reply channel.  *)
THEOREM RepliesNeverBlock == ASSUME OwnIds PROVE Spec => []ReplyNeverBlocks
<1>1. Replies => ReplyNeverBlocks
  BY DEF Replies, RegistryOK, Pending, ReplyNeverBlocks
<1>2. Init => Replies
  BY InitReplies
<1>3. Replies /\ [Next]_vars => Replies'
  BY NextReplies
<1> QED BY <1>1, <1>2, <1>3, PTL DEF Spec

-----------------------------------------------------------------------------
(* Refinement of RequestReply, and why the core panics                     *)


Refused == {"notFound", "notAvailable"}

(* A call whose frame left the core: it is not, and will not be, refused.  *)
Sent(c) == /\ pc[c] \in {"register", "wait", "answered"}
           /\ chan[c] \notin Refused
           /\ result[c] \notin Refused

(* A frame that waits for its connector is there once, on the connection   *)
(* its call holds, and was not executed yet.                               *)
Waiting(s, i) == /\ held[inbox[s][i]] = s
                 /\ inbox[s][i] \notin executed
                 /\ Sent(inbox[s][i])
InboxOK ==
    \A s \in Socks : \A i \in 1 .. Len(inbox[s]) :
        /\ Waiting(s, i)
        /\ \A j \in 1 .. Len(inbox[s]) : inbox[s][j] = inbox[s][i] => i = j

(* Only executed calls are answered.                                       *)
OutboxOK ==
    \A s \in Socks : \A i \in 1 .. Len(outbox[s]) :
        outbox[s][i] \in Calls => outbox[s][i] \in executed
AnswersOK == \A c \in Calls : c \in {chan[c], result[c]} => c \in executed
ExecutedOK == \A c \in executed : Sent(c)

Flight == InboxOK /\ OutboxOK /\ AnswersOK /\ ExecutedOK

LEMMA InitFlight == Init => Flight
  BY CallsAssumption
     DEF Init, Flight, InboxOK, OutboxOK, AnswersOK, ExecutedOK

(* Steps that touch no wire keep Flight if they keep every sent call sent, *)
(* on the connection it was sent on.                                       *)
LEMMA QuietFlight ==
  ASSUME Shape, Flight, UNCHANGED <<inbox, outbox, executed>>,
         \A c \in Calls : Sent(c) => (Sent(c))' /\ held'[c] = held[c],
         AnswersOK'
  PROVE  Flight'
<1>1. InboxOK'
  <2>1. ASSUME NEW s \in Socks, NEW i \in 1 .. Len(inbox[s])
        PROVE  /\ Waiting(s, i)'
               /\ \A j \in 1 .. Len(inbox[s]) : inbox[s][j] = inbox[s][i] => i = j
    <3>1. inbox[s] \in Seq(Calls)
      BY DEF Shape, TypeOK
    <3>2. inbox[s][i] \in Calls
      BY <2>1, <3>1
    <3>3. /\ Waiting(s, i)
          /\ \A j \in 1 .. Len(inbox[s]) : inbox[s][j] = inbox[s][i] => i = j
      BY <2>1 DEF Flight, InboxOK
    <3>4. (Sent(inbox[s][i]))' /\ held'[inbox[s][i]] = held[inbox[s][i]]
      BY <3>2, <3>3 DEF Waiting
    <3> QED BY <3>3, <3>4 DEF Waiting
  <2> QED BY <2>1 DEF InboxOK
<1>2. OutboxOK'
  BY DEF Flight, OutboxOK
<1>3. ExecutedOK'
  BY DEF Shape, TypeOK, Flight, ExecutedOK
<1> QED BY <1>1, <1>2, <1>3 DEF Flight

LEMMA CallFlight ==
  ASSUME Replies, Flight, NEW c \in Calls, Lookup(c) \/ CallStep(c)
  PROVE  Flight'
<1>1. Shape /\ TypeOK /\ ChannelOK(c)
  BY DEF Replies, Shape, ChannelsOK
<1>2. CASE WriteDelivered(c)
  <2>1. /\ held[c] \in Socks
        /\ pc[c] = "write" /\ chan[c] = None /\ result[c] = None
        /\ pc' = [pc EXCEPT ![c] = "register"]
        /\ inbox' = [inbox EXCEPT ![held[c]] = Append(@, c)]
        /\ UNCHANGED <<outbox, executed, held, chan, result>>
    BY <1>1, <1>2 DEF WriteDelivered, Goto, ChannelOK, Shape, HeldOK, Past
  <2>2. \A d \in Calls : Sent(d) => (Sent(d))'
    BY <1>1, <2>1 DEF Sent, TypeOK
  <2>3. (Sent(c))'
    BY <1>1, <2>1, CallsAssumption DEF Sent, Refused, Failures, TypeOK
  <2>4. c \notin executed
    BY <2>1 DEF Flight, ExecutedOK, Sent
  <2>5. \A s \in Socks : \A i \in 1 .. Len(inbox[s]) : inbox[s][i] # c
    BY <2>1 DEF Flight, InboxOK, Waiting, Sent
  <2>6. ASSUME NEW s \in Socks, s # held[c]
        PROVE  inbox'[s] = inbox[s]
    BY <2>1, <2>6, <1>1 DEF TypeOK
  <2>7. /\ inbox[held[c]] \in Seq(Calls)
        /\ inbox'[held[c]] = Append(inbox[held[c]], c)
        /\ Len(inbox'[held[c]]) = Len(inbox[held[c]]) + 1
        /\ inbox'[held[c]][Len(inbox[held[c]]) + 1] = c
        /\ \A i \in 1 .. Len(inbox[held[c]]) :
              inbox'[held[c]][i] = inbox[held[c]][i]
    BY <2>1, <1>1 DEF TypeOK
  <2>8. ASSUME NEW s \in Socks, NEW i \in 1 .. Len(inbox[s])
        PROVE  /\ inbox'[s][i] = inbox[s][i]
               /\ inbox[s][i] \in Calls
               /\ Waiting(s, i)
    <3>1. inbox'[s][i] = inbox[s][i]
      BY <2>6, <2>7
    <3>2. inbox[s] \in Seq(Calls)
      BY <1>1 DEF TypeOK
    <3>3. Waiting(s, i)
      BY DEF Flight, InboxOK
    <3> QED BY <3>1, <3>2, <3>3
  <2>9. ASSUME NEW s \in Socks, NEW i \in 1 .. Len(inbox'[s])
        PROVE  /\ (Waiting(s, i))'
               /\ \A j \in 1 .. Len(inbox'[s]) : inbox'[s][j] = inbox'[s][i] => i = j
    <3>1. CASE i \in 1 .. Len(inbox[s])
      <4>1. (Waiting(s, i))'
        BY <2>1, <2>2, <2>8, <3>1 DEF Waiting
      <4>2. inbox'[s][i] # c
        BY <2>5, <2>8, <3>1
      <4>3. \A j \in 1 .. Len(inbox'[s]) :
               j \in 1 .. Len(inbox[s]) \/ inbox'[s][j] = c
        BY <2>6, <2>7
      <4> QED BY <2>8, <3>1, <4>1, <4>2, <4>3 DEF Flight, InboxOK
    <3>2. CASE i \notin 1 .. Len(inbox[s])
      <4>1. s = held[c] /\ i = Len(inbox[s]) + 1 /\ inbox'[s][i] = c
        BY <2>6, <2>7, <3>2
      <4>2. (Waiting(s, i))'
        BY <2>1, <2>3, <2>4, <4>1 DEF Waiting
      <4>3. \A j \in 1 .. Len(inbox[s]) : inbox'[s][j] # c
        BY <2>5, <2>8
      <4> QED BY <2>7, <4>1, <4>2, <4>3
    <3> QED BY <3>1, <3>2
  <2>10. InboxOK'
    BY <2>9 DEF InboxOK
  <2>11. OutboxOK' /\ AnswersOK'
    BY <2>1 DEF Flight, OutboxOK, AnswersOK
  <2>12. ExecutedOK'
    BY <1>1, <2>1, <2>2 DEF Flight, ExecutedOK, TypeOK
  <2> QED BY <2>10, <2>11, <2>12 DEF Flight
<1>3. CASE Lookup(c)
  <2>1. ~Sent(c)
    BY <1>3 DEF Lookup, Sent
  <2>2. \A d \in Calls \ {c} : CallerUntouched(d)
    BY <1>1, <1>3 DEF Lookup, Goto, PutError, CallerUntouched, TypeOK
  <2>3. chan'[c] # c /\ result'[c] = result[c]
    BY <1>1, <1>3, CallsAssumption DEF Lookup, PutError, Failures, TypeOK, ChannelOK
  <2>4. UNCHANGED <<inbox, outbox, executed>>
    BY <1>3 DEF Lookup, wires
  <2> QED BY <1>1, <2>1, <2>2, <2>3, <2>4, QuietFlight
          DEF Sent, CallerUntouched, Flight, AnswersOK
<1>4. ASSUME WriteVanishes(c) \/ WriteFails(c) \/ CallClose(c) \/ Register(c)
      PROVE  Flight'
  <2>1. /\ UNCHANGED <<inbox, outbox, executed, held, chan, result>>
        /\ \/ ~Sent(c) /\ \E place : pc' = [pc EXCEPT ![c] = place]
           \/ pc' = [pc EXCEPT ![c] = "wait"]
    BY <1>4 DEF WriteVanishes, WriteFails, CallClose, Register, wires, Goto, Sent
  <2>2. \A d \in Calls : Sent(d) => (Sent(d))'
    BY <1>1, <2>1 DEF Sent, TypeOK
  <2> QED BY <1>1, <2>1, <2>2, QuietFlight DEF Flight, AnswersOK
<1>5. CASE CallDrop(c)
  <2>1. ~Sent(c)
    BY <1>5 DEF CallDrop, Sent
  <2>2. \A d \in Calls \ {c} : CallerUntouched(d)
    BY <1>1, <1>5 DEF CallDrop, Goto, PutError, CallerUntouched, TypeOK
  <2>3. chan'[c] # c /\ result'[c] = result[c]
    BY <1>1, <1>5, CallsAssumption DEF CallDrop, PutError, Failures, TypeOK
  <2>4. UNCHANGED <<inbox, outbox, executed>>
    BY <1>5 DEF CallDrop, wires
  <2> QED BY <1>1, <2>1, <2>2, <2>3, <2>4, QuietFlight
          DEF Sent, CallerUntouched, Flight, AnswersOK
<1>6. CASE Receive(c)
  <2>1. /\ UNCHANGED <<inbox, outbox, executed, held>>
        /\ pc' = [pc EXCEPT ![c] = "answered"]
        /\ result' = [result EXCEPT ![c] = chan[c]]
        /\ chan' = [chan EXCEPT ![c] = None]
    BY <1>6 DEF Receive, wires, Goto
  <2>2. \A d \in Calls : Sent(d) => (Sent(d))'
    BY <1>1, <2>1, CallsAssumption DEF Sent, TypeOK, Refused, Failures
  <2>3. AnswersOK'
    BY <1>1, <2>1, CallsAssumption DEF Flight, AnswersOK, TypeOK
  <2> QED BY <1>1, <2>1, <2>2, <2>3, QuietFlight
<1>7. CASE Timeout(c)
  <2>1. /\ UNCHANGED <<inbox, outbox, executed, held, chan>>
        /\ pc' = [pc EXCEPT ![c] = "answered"]
        /\ result' = [result EXCEPT ![c] = "timeout"]
    BY <1>7 DEF Timeout, wires, Goto
  <2>2. \A d \in Calls : Sent(d) => (Sent(d))'
    BY <1>1, <2>1 DEF Sent, TypeOK, Refused
  <2>3. AnswersOK'
    BY <1>1, <2>1, CallsAssumption DEF Flight, AnswersOK, TypeOK, Failures
  <2> QED BY <1>1, <2>1, <2>2, <2>3, QuietFlight
<1> QED BY <1>2, <1>3, <1>4, <1>5, <1>6, <1>7 DEF CallStep

(* The steps of a listener: an answer leaves the wire for its own call.    *)
LEMMA TailOutbox ==
  ASSUME Shape, OutboxOK, NEW s \in Socks, Readable(s), ReadFrame(s),
         UNCHANGED executed
  PROVE  OutboxOK'
<1>1. /\ outbox[s] \in Seq(Frames) /\ outbox[s] # <<>>
      /\ outbox' = [outbox EXCEPT ![s] = Tail(@)]
      /\ outbox \in [Socks -> Seq(Frames)]
  BY DEF Shape, TypeOK, Readable, ReadFrame
<1>2. ASSUME NEW u \in Socks, NEW i \in 1 .. Len(outbox'[u])
      PROVE  \E j \in 1 .. Len(outbox[u]) : outbox'[u][i] = outbox[u][j]
  <2>1. CASE u = s
    <3>1. i + 1 \in 1 .. Len(outbox[u]) /\ outbox'[u][i] = outbox[u][i + 1]
      BY <1>1, <1>2, <2>1
    <3> QED BY <3>1
  <2>2. CASE u # s
    BY <1>1, <1>2, <2>2
  <2> QED BY <2>1, <2>2
<1> QED BY <1>2 DEF OutboxOK

LEMMA ListenFlight ==
  ASSUME OwnIds, Replies, Flight, NEW s \in Socks, ListenStep(s)
  PROVE  Flight'
<1>1. Shape /\ TypeOK
  BY DEF Replies, Shape
<1>2. CASE ListenReply(s)
  <2> DEFINE d == Head(outbox[s])
  <2>1. /\ d \in Calls
        /\ chan' = [chan EXCEPT ![d] = d]
    <3>1. d \in Calls /\ Waiter(s, d) # None
      BY <1>2 DEF ListenReply
    <3>2. ReplyId(d) \in Ids
      BY <3>1, CallsAssumption DEF ReplyId
    <3>3. Waiter(s, d) \in Calls /\ Pending(Waiter(s, d), s, ReplyId(d))
      BY <1>1, <3>1, <3>2 DEF Waiter, Replies, TypeOK, RegistryOK
    <3>4. Waiter(s, d) = d
      BY <3>1, <3>3 DEF OwnIds, Pending
    <3> QED BY <1>2, <3>1, <3>4 DEF ListenReply
  <2>2. d \in executed
    <3>1. outbox[s] \in Seq(Frames) /\ outbox[s] # <<>>
      BY <1>1, <1>2 DEF ListenReply, Readable, TypeOK
    <3>2. 1 \in 1 .. Len(outbox[s]) /\ d = outbox[s][1]
      BY <3>1
    <3> QED BY <2>1, <3>2 DEF Flight, OutboxOK
  <2>3. /\ UNCHANGED <<inbox, executed, held, pc, result>>
        /\ Readable(s) /\ ReadFrame(s)
    BY <1>2 DEF ListenReply
  <2>4. \A c \in Calls : Sent(c) => (Sent(c))'
    BY <1>1, <2>1, <2>3, CallsAssumption DEF Sent, TypeOK, Refused, Failures
  <2>5. AnswersOK'
    BY <1>1, <2>1, <2>2, <2>3 DEF Flight, AnswersOK, TypeOK
  <2>6. InboxOK'
    BY <1>1, <2>3, <2>4 DEF Flight, InboxOK, Waiting, TypeOK
  <2>7. OutboxOK'
    BY <1>1, <2>3, TailOutbox DEF Flight
  <2>8. ExecutedOK'
    BY <1>1, <2>3, <2>4 DEF Flight, ExecutedOK, TypeOK
  <2> QED BY <2>5, <2>6, <2>7, <2>8 DEF Flight
<1>3. ASSUME UNCHANGED <<inbox, executed, callers>>, OutboxOK'
      PROVE  Flight'
  BY <1>3 DEF Flight, InboxOK, Waiting, Sent, AnswersOK, ExecutedOK, callers
<1>4. CASE ListenOrphan(s) \/ ListenNote(s)
  <2>1. Readable(s) /\ ReadFrame(s) /\ UNCHANGED <<inbox, executed, callers>>
    BY <1>4 DEF ListenOrphan, ListenNote
  <2> QED BY <1>1, <1>3, <2>1, TailOutbox DEF Flight
<1>5. CASE \/ HandOver(s) \/ HandOverPanics(s) \/ ListenError(s)
           \/ ListenLeave(s) \/ ListenClose(s) \/ ListenDrop(s)
  <2>1. UNCHANGED <<wires, callers>>
    BY <1>5 DEF HandOver, HandOverPanics, ListenError, ListenLeave,
       ListenClose, ListenDrop
  <2> QED BY <1>3, <2>1 DEF wires, Flight, OutboxOK
<1> QED BY <1>2, <1>4, <1>5 DEF ListenStep, ListenLocal

(* The steps at the other end of a connection: a frame that is executed    *)
(* leaves its wire, so it is not executed again.                           *)
LEMMA SockFlight ==
  ASSUME Shape, Flight, NEW s \in Socks, SockStep(s)
  PROVE  Flight'
<1>1. TypeOK
  BY DEF Shape
<1>2. CASE Serve(s)
  <2> DEFINE c == Head(inbox[s])
  <2>1. /\ inbox[s] \in Seq(Calls) /\ inbox[s] # <<>>
        /\ inbox' = [inbox EXCEPT ![s] = Tail(@)]
        /\ executed' = executed \cup {c}
        /\ UNCHANGED callers
        /\ \/ outbox' = [outbox EXCEPT ![s] = Append(@, c)]
           \/ outbox' = outbox
    BY <1>1, <1>2 DEF Serve, TypeOK
  <2>2. c \in Calls /\ 1 \in 1 .. Len(inbox[s]) /\ inbox[s][1] = c
    BY <2>1
  <2>3. Waiting(s, 1)
    BY <2>2 DEF Flight, InboxOK
  <2>4. Sent(c) /\ held[c] = s
    BY <2>2, <2>3 DEF Waiting
  <2>5. \A i \in 1 .. Len(inbox[s]) : inbox[s][i] = c => i = 1
    BY <2>2 DEF Flight, InboxOK
  <2>6. ASSUME NEW i \in 1 .. Len(inbox'[s])
        PROVE  /\ i + 1 \in 1 .. Len(inbox[s]) /\ inbox'[s][i] = inbox[s][i + 1]
               /\ inbox'[s][i] # c
    BY <1>1, <2>1, <2>5 DEF TypeOK
  <2>7. ASSUME NEW u \in Socks, u # s, NEW i \in 1 .. Len(inbox[u])
        PROVE  inbox'[u] = inbox[u] /\ inbox[u][i] # c
    <3>1. inbox'[u] = inbox[u]
      BY <1>1, <2>1, <2>7 DEF TypeOK
    <3>2. Waiting(u, i)
      BY <2>7 DEF Flight, InboxOK
    <3> QED BY <2>4, <2>7, <3>1, <3>2 DEF Waiting
  <2>8. ASSUME NEW u \in Socks, NEW i \in 1 .. Len(inbox'[u])
        PROVE  /\ (Waiting(u, i))'
               /\ \A j \in 1 .. Len(inbox'[u]) : inbox'[u][j] = inbox'[u][i] => i = j
    <3>1. CASE u = s
      <4>0. \A k \in 1 .. Len(inbox[s]) : Waiting(s, k)
        BY <2>2 DEF Flight, InboxOK
      <4>1. Waiting(s, i + 1)
        BY <2>6, <2>8, <3>1, <4>0
      <4>2. (Waiting(s, i))'
        <5> PICK d : d = inbox[s][i + 1]
          OBVIOUS
        <5>1. inbox'[s][i] = d /\ d # c
          BY <2>6, <2>8, <3>1
        <5>2. held[d] = s /\ d \notin executed /\ Sent(d)
          BY <4>1 DEF Waiting
        <5>3. held'[d] = s /\ d \notin executed' /\ (Sent(d))'
          BY <2>1, <5>1, <5>2 DEF Sent, callers
        <5> QED BY <5>1, <5>3 DEF Waiting, Sent
      <4>3. \A j \in 1 .. Len(inbox'[s]) : inbox'[s][j] = inbox'[s][i] => i = j
        BY <2>6, <2>8, <3>1 DEF Flight, InboxOK
      <4> QED BY <3>1, <4>2, <4>3
    <3>2. CASE u # s
      <4>1. inbox'[u] = inbox[u]
        BY <1>1, <2>1, <3>2 DEF TypeOK
      <4>2. Waiting(u, i) /\ inbox[u][i] # c
        <5>1. i \in 1 .. Len(inbox[u])
          BY <2>8, <4>1
        <5> QED BY <2>7, <3>2, <5>1 DEF Flight, InboxOK
      <4>3. (Waiting(u, i))'
        <5>1. inbox'[u][i] = inbox[u][i] /\ inbox'[u][i] \notin executed'
          <6>1. inbox'[u][i] = inbox[u][i]
            BY <4>1
          <6>2. inbox[u][i] \notin executed /\ inbox[u][i] # c
            BY <4>2 DEF Waiting
          <6>3. executed' = executed \cup {c}
            BY <2>1
          <6> QED BY <6>1, <6>2, <6>3
        <5>2. UNCHANGED <<held, pc, chan, result>>
          BY <2>1 DEF callers
        <5> QED BY <4>2, <5>1, <5>2 DEF Waiting, Sent
      <4> QED BY <2>8, <4>1, <4>3 DEF Flight, InboxOK
    <3> QED BY <3>1, <3>2
  <2>9. InboxOK'
    BY <2>8 DEF InboxOK
  <2>10. OutboxOK'
    <3>1. CASE outbox' = outbox
      BY <2>1, <3>1 DEF Flight, OutboxOK
    <3>2. CASE outbox' = [outbox EXCEPT ![s] = Append(@, c)]
      <4>1. /\ outbox[s] \in Seq(Frames) /\ outbox'[s] = Append(outbox[s], c)
            /\ \A u \in Socks : u # s => outbox'[u] = outbox[u]
        BY <1>1, <3>2 DEF TypeOK
      <4>2. \A i \in 1 .. Len(outbox'[s]) :
               \/ i \in 1 .. Len(outbox[s]) /\ outbox'[s][i] = outbox[s][i]
               \/ outbox'[s][i] = c
        BY <4>1
      <4> QED BY <2>1, <4>1, <4>2 DEF Flight, OutboxOK
    <3> QED BY <2>1, <3>1, <3>2
  <2>11. AnswersOK' /\ ExecutedOK'
    BY <2>1, <2>4 DEF Flight, AnswersOK, ExecutedOK, Sent, callers
  <2> QED BY <2>9, <2>10, <2>11 DEF Flight
<1>3. ASSUME UNCHANGED <<inbox, executed, callers>>, OutboxOK'
      PROVE  Flight'
  BY <1>3 DEF Flight, InboxOK, Waiting, Sent, AnswersOK, ExecutedOK, callers
<1>4. CASE Check(s) \/ UpgradeFails(s) \/ Insert(s)
  <2>1. UNCHANGED <<wires, callers>>
    BY <1>4 DEF Check, UpgradeFails, Insert
  <2> QED BY <1>3, <2>1 DEF wires, Flight, OutboxOK
<1>5. CASE Notify(s)
  <2>1. /\ outbox[s] \in Seq(Frames)
        /\ outbox' = [outbox EXCEPT ![s] = Append(@, notes')]
        /\ UNCHANGED <<inbox, executed, callers>>
    BY <1>1, <1>5 DEF Notify, TypeOK
  <2>2. notes' \notin Calls
    <3>1. notes' \in Notes
      BY <1>1, <1>5, BoundsAssumption DEF Notify, TypeOK, Notes
    <3> QED BY <3>1, BoundsAssumption
  <2>3. /\ outbox'[s] = Append(outbox[s], notes')
        /\ \A u \in Socks : u # s => outbox'[u] = outbox[u]
    BY <1>1, <2>1 DEF TypeOK
  <2>4. \A i \in 1 .. Len(outbox'[s]) :
           \/ i \in 1 .. Len(outbox[s]) /\ outbox'[s][i] = outbox[s][i]
           \/ outbox'[s][i] = notes'
    BY <2>1, <2>3
  <2>5. OutboxOK'
    BY <2>1, <2>2, <2>3, <2>4 DEF Flight, OutboxOK
  <2> QED BY <1>3, <2>1, <2>5
<1>6. CASE Cut(s)
  <2>1. PICK n \in 0 .. Len(outbox[s]) :
          outbox' = [outbox EXCEPT ![s] = SubSeq(@, 1, n)]
    BY <1>6 DEF Cut
  <2>2. /\ outbox[s] \in Seq(Frames)
        /\ outbox'[s] = SubSeq(outbox[s], 1, n)
        /\ \A u \in Socks : u # s => outbox'[u] = outbox[u]
    BY <1>1, <2>1 DEF TypeOK
  <2>3. \A i \in 1 .. Len(outbox'[s]) :
           i \in 1 .. Len(outbox[s]) /\ outbox'[s][i] = outbox[s][i]
    BY <2>2
  <2>4. UNCHANGED <<inbox, executed, callers>>
    BY <1>6 DEF Cut
  <2>5. OutboxOK'
    BY <2>2, <2>3, <2>4 DEF Flight, OutboxOK
  <2> QED BY <1>3, <2>4, <2>5
<1> QED BY <1>2, <1>4, <1>5, <1>6 DEF SockStep

LEMMA NextFlight ==
  ASSUME OwnIds, Replies, Flight, [Next]_vars
  PROVE  Flight'
<1>1. ASSUME Shutdown \/ Exit \/ UNCHANGED vars
      PROVE  Flight'
  <2>1. UNCHANGED <<wires, callers>>
    BY <1>1 DEF Shutdown, Exit, vars
  <2> QED BY <2>1 DEF Flight, InboxOK, Waiting, Sent, OutboxOK, AnswersOK,
          ExecutedOK, wires, callers
<1> QED BY <1>1, CallFlight, ListenFlight, SockFlight DEF Next, Replies

-----------------------------------------------------------------------------
(* Every step of the hub is a step of the promise, or leaves it alone.     *)
Asked == {c \in Calls : pc[c] # "idle"}

LEMMA StepPromise ==
  ASSUME Replies, Flight, Replies', [Next]_vars
  PROVE  [Promise!Next]_(Promise!promise)
<1>1. TypeOK
  BY DEF Replies, Shape
<1>2. ASSUME UNCHANGED <<executed, result>>, Asked' = Asked
      PROVE  UNCHANGED Promise!promise
  BY <1>2 DEF Promise!promise, Asked
<1>3. ASSUME NEW c \in Calls, NEW place \in {"write", "close", "drop", "register",
             "wait", "answered"}, pc[c] # "idle", pc' = [pc EXCEPT ![c] = place]
      PROVE  Asked' = Asked
  BY <1>1, <1>3 DEF TypeOK, Asked
<1>4. ASSUME NEW c \in Calls, Lookup(c)
      PROVE  Promise!Ask(c)
  <2>1. pc[c] = "idle" /\ UNCHANGED <<executed, result>>
    BY <1>4 DEF Lookup, wires
  <2>2. \E place \in {"wait", "write"} : pc' = [pc EXCEPT ![c] = place]
    BY <1>4 DEF Lookup, Goto
  <2>3. Asked' = Asked \cup {c} /\ c \notin Asked
    BY <1>1, <2>1, <2>2 DEF TypeOK, Asked
  <2> QED BY <2>1, <2>3 DEF Promise!Ask, Asked
<1>5. ASSUME NEW c \in Calls, Receive(c)
      PROVE  \E r \in {c, "timeout"} \cup Promise!Refusals : Promise!Return(c, r)
  <2>1. /\ pc[c] = "wait" /\ chan[c] # None /\ UNCHANGED executed
        /\ pc' = [pc EXCEPT ![c] = "answered"]
        /\ result' = [result EXCEPT ![c] = chan[c]]
    BY <1>5 DEF Receive, wires, Goto
  <2>2. Asked' = Asked /\ c \in Asked
    BY <1>3, <2>1 DEF Asked
  <2>3. chan[c] \in {c} \cup Refused /\ result[c] = None
    BY <2>1 DEF Replies, ChannelsOK, ChannelOK, Refused
  <2>4. chan[c] = c => c \in executed
    BY DEF Flight, AnswersOK
  <2>5. chan[c] \in Refused => c \notin executed
    BY DEF Flight, ExecutedOK, Sent
  <2> QED BY <2>1, <2>2, <2>3, <2>4, <2>5
          DEF Promise!Return, Promise!Refusals, Refused, Asked
<1>6. ASSUME NEW c \in Calls, Timeout(c)
      PROVE  Promise!Return(c, "timeout")
  <2>1. /\ pc[c] = "wait" /\ UNCHANGED executed
        /\ pc' = [pc EXCEPT ![c] = "answered"]
        /\ result' = [result EXCEPT ![c] = "timeout"]
    BY <1>6 DEF Timeout, wires, Goto
  <2>2. Asked' = Asked /\ c \in Asked
    BY <1>3, <2>1 DEF Asked
  <2>3. result[c] = None
    BY <2>1 DEF Replies, ChannelsOK, ChannelOK
  <2> QED BY <2>1, <2>2, <2>3 DEF Promise!Return, Asked
<1>7. ASSUME NEW c \in Calls, \/ WriteDelivered(c) \/ WriteVanishes(c) \/ WriteFails(c)
             \/ CallClose(c) \/ CallDrop(c) \/ Register(c)
      PROVE  UNCHANGED Promise!promise
  <2>1. /\ pc[c] # "idle" /\ UNCHANGED <<executed, result>>
        /\ \E place \in {"close", "drop", "register", "wait"} :
              pc' = [pc EXCEPT ![c] = place]
    BY <1>7 DEF WriteDelivered, WriteVanishes, WriteFails, CallClose, CallDrop,
       Register, wires, Goto
  <2>2. Asked' = Asked
    BY <1>3, <2>1
  <2> QED BY <1>2, <2>1, <2>2
<1>8. ASSUME NEW s \in Socks, Serve(s)
      PROVE  Promise!Next
  <2> DEFINE c == Head(inbox[s])
  <2>1. /\ inbox[s] \in Seq(Calls) /\ inbox[s] # <<>>
        /\ executed' = executed \cup {c}
        /\ UNCHANGED callers
    BY <1>1, <1>8 DEF Serve, TypeOK
  <2>2. c \in Calls /\ 1 \in 1 .. Len(inbox[s]) /\ inbox[s][1] = c
    BY <2>1
  <2>3. Waiting(s, 1)
    BY <2>2 DEF Flight, InboxOK
  <2>4. /\ c \in Asked \ executed /\ result[c] \notin Refused
    BY <2>2, <2>3 DEF Waiting, Sent, Asked
  <2>5. Promise!Execute(c)
    BY <2>1, <2>4 DEF Promise!Execute, Promise!Refusals, Refused, Asked, callers
  <2> QED BY <2>2, <2>5 DEF Promise!Next
<1>9. ASSUME NEW s \in Socks, SockStep(s), ~Serve(s)
      PROVE  UNCHANGED Promise!promise
  <2>1. UNCHANGED <<executed, callers>>
    BY <1>9 DEF SockStep, Check, UpgradeFails, Insert, Notify, Cut, wires
  <2> QED BY <2>1 DEF Promise!promise, callers
<1>10. ASSUME NEW s \in Socks, ListenStep(s)
       PROVE  UNCHANGED Promise!promise
  <2>1. UNCHANGED <<executed, pc, result>>
    BY <1>10 DEF ListenStep, ListenLocal, ListenReply, ListenOrphan, ListenNote,
       HandOver, HandOverPanics, ListenError, ListenLeave, ListenClose, ListenDrop,
       wires, callers
  <2> QED BY <2>1 DEF Promise!promise
<1>11. ASSUME Shutdown \/ Exit \/ UNCHANGED vars
       PROVE  UNCHANGED Promise!promise
  <2>1. UNCHANGED <<executed, pc, result>>
    BY <1>11 DEF Shutdown, Exit, vars, wires, callers
  <2> QED BY <2>1 DEF Promise!promise
<1>12. ASSUME NEW c \in Calls, Lookup(c) \/ CallStep(c)
       PROVE  Promise!Next \/ UNCHANGED Promise!promise
  BY <1>4, <1>5, <1>6, <1>7, <1>12 DEF CallStep, Promise!Next
<1> QED BY <1>8, <1>9, <1>10, <1>11, <1>12 DEF Next

(* The hub implements its promise: each call returns once, an answer means *)
(* that a connector executed this very call, a connector executes it at    *)
(* most once, and "not found" and "not available" mean never.              *)
THEOREM HubKeepsPromise == ASSUME OwnIds PROVE Spec => KeepsPromise
<1>1. Init => Promise!Init
  BY DEF Init, Promise!Init
<1>2. Init => Replies /\ Flight
  BY InitReplies, InitFlight
<1>3. Replies /\ Flight /\ [Next]_vars => Replies' /\ Flight'
  BY NextReplies, NextFlight
<1>4. Replies /\ Flight /\ Replies' /\ [Next]_vars => [Promise!Next]_(Promise!promise)
  BY StepPromise
<1> QED BY <1>1, <1>2, <1>3, <1>4, PTL DEF Spec, KeepsPromise, Promise!Spec

-----------------------------------------------------------------------------
(* Why the core panics.  Whose answer is on its way is expected: its call  *)
(* is about to register or is registered, unless the connector could not   *)
(* read the id.  The answer is there once, so it finds its call.           *)
Expected(c, s) ==
    /\ held[c] = s
    /\ c \in Malformed \/ pc[c] = "register" \/ req[s][IdOf[c]] = c

Asking(s) == \A i \in 1 .. Len(inbox[s]) : Expected(inbox[s][i], s)
Answering(s) ==
    \A i \in 1 .. Len(outbox[s]) :
        outbox[s][i] \in Calls =>
            /\ Expected(outbox[s][i], s)
            /\ \A j \in 1 .. Len(outbox[s]) : outbox[s][j] = outbox[s][i] => i = j
ExpectedOK == \A s \in Socks : Asking(s) /\ Answering(s)

(* Who has closed requestsCh has left, and a socket is listened to once.   *)
ChannelShut == chOpen \/ \E s \in Socks : lsn[s] = "exit"
NewIsOff == \A s \in Socks : sock[s] \in {"new", "checked"} => lsn[s] = "off"

Reasons == ExpectedOK /\ ChannelShut /\ NewIsOff

LEMMA InitReasons == Init => Reasons
  BY DEF Init, Reasons, ExpectedOK, Asking, Answering, ChannelShut, NewIsOff

(* Steps that touch no wire keep what is expected of the calls under way.  *)
LEMMA QuietExpected ==
  ASSUME Shape, Flight, ExpectedOK, UNCHANGED <<inbox, outbox>>,
         \A c \in Calls, s \in Socks :
             Sent(c) /\ Expected(c, s) => (Expected(c, s))'
  PROVE  ExpectedOK'
<1>1. ASSUME NEW s \in Socks
      PROVE  (Asking(s))'
  <2>1. ASSUME NEW i \in 1 .. Len(inbox[s])
        PROVE  (Expected(inbox[s][i], s))'
    <3>1. inbox[s] \in Seq(Calls)
      BY DEF Shape, TypeOK
    <3>2. inbox[s][i] \in Calls
      BY <2>1, <3>1
    <3>3. Sent(inbox[s][i]) /\ Expected(inbox[s][i], s)
      BY <2>1 DEF Flight, InboxOK, Waiting, ExpectedOK, Asking
    <3>4. inbox'[s][i] = inbox[s][i]
      OBVIOUS
    <3> QED BY <3>2, <3>3, <3>4 DEF Expected
  <2> QED BY <2>1 DEF Asking
<1>2. ASSUME NEW s \in Socks
      PROVE  (Answering(s))'
  <2>1. ASSUME NEW i \in 1 .. Len(outbox[s]), outbox[s][i] \in Calls
        PROVE  (Expected(outbox[s][i], s))'
    <3>1. Sent(outbox[s][i]) /\ Expected(outbox[s][i], s)
      BY <2>1 DEF Flight, OutboxOK, ExecutedOK, ExpectedOK, Answering
    <3>2. outbox'[s][i] = outbox[s][i]
      OBVIOUS
    <3> QED BY <2>1, <3>1, <3>2 DEF Expected
  <2> QED BY <2>1 DEF Answering, ExpectedOK
<1> QED BY <1>1, <1>2 DEF ExpectedOK

LEMMA CallExpected ==
  ASSUME OwnIds, Shape, Flight, ExpectedOK, NEW c \in Calls, Lookup(c) \/ CallStep(c)
  PROVE  ExpectedOK'
<1>1. TypeOK /\ HeldOK
  BY DEF Shape
<1>2. CASE WriteDelivered(c)
  <2>1. /\ held[c] \in Socks /\ pc[c] = "write"
        /\ pc' = [pc EXCEPT ![c] = "register"]
        /\ inbox' = [inbox EXCEPT ![held[c]] = Append(@, c)]
        /\ UNCHANGED <<outbox, held, req>>
    BY <1>1, <1>2 DEF WriteDelivered, Goto, HeldOK, Past, tables
  <2>2. \A d \in Calls, s \in Socks : Expected(d, s) => (Expected(d, s))'
    BY <1>1, <2>1 DEF Expected, TypeOK
  <2>3. (Expected(c, held[c]))'
    BY <1>1, <2>1 DEF Expected, TypeOK
  <2>4. ASSUME NEW s \in Socks
        PROVE  (Asking(s))'
    <3>1. inbox[s] \in Seq(Calls) /\ inbox'[s] \in {inbox[s], Append(inbox[s], c)}
      BY <1>1, <2>1 DEF TypeOK
    <3>2. inbox'[s] # inbox[s] => s = held[c]
      BY <1>1, <2>1 DEF TypeOK
    <3>3. ASSUME NEW i \in 1 .. Len(inbox'[s])
          PROVE  (Expected(inbox[s][i], s))'
      <4>1. CASE i \in 1 .. Len(inbox[s])
        <5>1. inbox[s][i] \in Calls /\ inbox'[s][i] = inbox[s][i]
          BY <3>1, <4>1
        <5>2. Expected(inbox[s][i], s)
          BY <4>1 DEF ExpectedOK, Asking
        <5>3. (Expected(inbox[s][i], s)) => \A d \in Calls :
                 d = inbox[s][i] => (Expected(d, s))'
          BY <2>2
        <5> QED BY <5>1, <5>2, <2>2 DEF Expected
      <4>2. CASE i \notin 1 .. Len(inbox[s])
        <5>1. s = held[c] /\ inbox'[s][i] = c
          BY <3>1, <3>2, <4>2
        <5> QED BY <2>1, <2>3, <5>1 DEF Expected
      <4> QED BY <4>1, <4>2
    <3> QED BY <3>3 DEF Asking
  <2>5. ASSUME NEW s \in Socks
        PROVE  (Answering(s))'
    BY <2>1, <2>2 DEF ExpectedOK, Answering, Expected
  <2> QED BY <2>4, <2>5 DEF ExpectedOK
<1>3. ASSUME UNCHANGED <<inbox, outbox, req>>, pc[c] # "register",
             \E place : pc' = [pc EXCEPT ![c] = place],
             held' = held \/ (~Sent(c) /\ \E s : held' = [held EXCEPT ![c] = s])
      PROVE  ExpectedOK'
  <2>1. \A d \in Calls, s \in Socks : Sent(d) /\ Expected(d, s) => (Expected(d, s))'
    BY <1>1, <1>3 DEF Expected, TypeOK
  <2> QED BY <1>3, <2>1, QuietExpected
<1>4. CASE Lookup(c)
  <2>1. UNCHANGED <<inbox, outbox, req>> /\ pc[c] = "idle" /\ ~Sent(c)
    BY <1>4 DEF Lookup, tables, wires, Sent
  <2>2. \E place : pc' = [pc EXCEPT ![c] = place]
    BY <1>4 DEF Lookup, Goto
  <2>3. held' = held \/ \E s : held' = [held EXCEPT ![c] = s]
    BY <1>4 DEF Lookup
  <2> QED BY <1>3, <2>1, <2>2, <2>3
<1>5. ASSUME \/ WriteFails(c) \/ CallClose(c) \/ CallDrop(c)
             \/ Receive(c) \/ Timeout(c) \/ WriteVanishes(c)
      PROVE  ExpectedOK'
  <2>1. /\ UNCHANGED <<inbox, outbox, req, held>> /\ pc[c] # "register"
        /\ \E place : pc' = [pc EXCEPT ![c] = place]
    BY <1>5 DEF WriteFails, WriteVanishes, CallClose, CallDrop, Receive, Timeout,
       Goto, tables, wires
  <2> QED BY <1>3, <2>1
<1>6. CASE Register(c)
  <2>1. /\ held[c] \in Socks /\ IdOf[c] \in Ids
        /\ req' = [req EXCEPT ![held[c]][IdOf[c]] = c]
        /\ pc' = [pc EXCEPT ![c] = "wait"]
        /\ UNCHANGED <<inbox, outbox, held>>
    BY <1>1, <1>6, CallsAssumption DEF Register, Goto, HeldOK, Past, wires
  <2>2. req'[held[c]][IdOf[c]] = c
    BY <1>1, <2>1 DEF TypeOK
  <2>3. ASSUME NEW d \in Calls, NEW s \in Socks, Expected(d, s)
        PROVE  (Expected(d, s))'
    <3>1. CASE d = c
      BY <1>1, <2>1, <2>2, <2>3, <3>1 DEF Expected, TypeOK
    <3>2. CASE d # c /\ d \notin Malformed
      <4>1. IdOf[d] # IdOf[c] /\ IdOf[d] \in Ids
        BY <3>2, CallsAssumption DEF OwnIds, ReplyId
      <4>2. req'[s][IdOf[d]] = req[s][IdOf[d]]
        BY <1>1, <2>1, <4>1 DEF TypeOK
      <4> QED BY <1>1, <2>1, <2>3, <3>2, <4>2 DEF Expected, TypeOK
    <3>3. CASE d # c /\ d \in Malformed
      BY <2>1, <2>3, <3>3 DEF Expected
    <3> QED BY <3>1, <3>2, <3>3
  <2> QED BY <2>1, <2>3, QuietExpected
<1> QED BY <1>2, <1>4, <1>5, <1>6 DEF CallStep

(* A frame that is read leaves what is behind it as it was.                *)
LEMMA TailExpected ==
  ASSUME Shape, Flight, ExpectedOK, NEW s \in Socks, Readable(s), ReadFrame(s),
         UNCHANGED <<inbox, held, pc>>,
         \A c \in Calls, u \in Socks :
             Expected(c, u) /\ ~(u = s /\ c = Head(outbox[s])) => (Expected(c, u))',
         Head(outbox[s]) \in Calls \/ req' = req
  PROVE  ExpectedOK'
<1>1. /\ outbox[s] \in Seq(Frames) /\ outbox[s] # <<>> /\ TypeOK
      /\ \A u \in Socks : outbox'[u] = IF u = s THEN Tail(outbox[s]) ELSE outbox[u]
  BY DEF Shape, TypeOK, Readable, ReadFrame
<1>2. 1 \in 1 .. Len(outbox[s]) /\ Head(outbox[s]) = outbox[s][1]
  BY <1>1
<1>3. ASSUME NEW u \in Socks
      PROVE  (Asking(u))'
  <2>1. ASSUME NEW i \in 1 .. Len(inbox[u])
        PROVE  (Expected(inbox[u][i], u))'
    <3>1. inbox[u] \in Seq(Calls)
      BY <1>1 DEF TypeOK
    <3>2. inbox[u][i] \in Calls \ executed
      BY <2>1, <3>1 DEF Flight, InboxOK, Waiting
    <3>3. inbox[u][i] # Head(outbox[s])
      BY <1>2, <3>2 DEF Flight, OutboxOK
    <3>4. Expected(inbox[u][i], u)
      BY <2>1 DEF ExpectedOK, Asking
    <3> QED BY <3>2, <3>3, <3>4 DEF Expected
  <2> QED BY <2>1 DEF Asking
<1>4. ASSUME NEW u \in Socks, u # s
      PROVE  (Answering(u))'
  <2>1. outbox'[u] = outbox[u]
    BY <1>1, <1>4
  <2>2. ASSUME NEW i \in 1 .. Len(outbox[u]), outbox[u][i] \in Calls
        PROVE  (Expected(outbox[u][i], u))'
    <3>1. Expected(outbox[u][i], u)
      BY <2>2 DEF ExpectedOK, Answering
    <3> QED BY <1>4, <2>1, <2>2, <3>1 DEF Expected
  <2> QED BY <2>1, <2>2 DEF ExpectedOK, Answering
<1>5. (Answering(s))'
  <2>1. \A i \in 1 .. Len(outbox'[s]) :
           i + 1 \in 1 .. Len(outbox[s]) /\ outbox'[s][i] = outbox[s][i + 1]
    <3>1. outbox'[s] = Tail(outbox[s])
      BY <1>1
    <3> QED BY <1>1, <3>1
  <2>2. ASSUME NEW i \in 1 .. Len(outbox'[s]), outbox'[s][i] \in Calls
        PROVE  /\ (Expected(outbox[s][i], s))'
               /\ \A j \in 1 .. Len(outbox'[s]) : outbox'[s][j] = outbox'[s][i] => i = j
    <3>1. Expected(outbox[s][i + 1], s) /\ outbox[s][i + 1] \in Calls
      BY <2>1, <2>2 DEF ExpectedOK, Answering
    <3>2. outbox[s][i + 1] # outbox[s][1]
      <4>1. outbox[s][1] = outbox[s][i + 1] => i + 1 = 1
        BY <1>2, <2>1, <2>2, <3>1 DEF ExpectedOK, Answering
      <4> QED BY <4>1
    <3>3. (Expected(outbox[s][i], s))'
      <4> DEFINE d == outbox[s][i + 1]
      <4>1. outbox'[s][i] = d
        BY <2>1, <2>2
      <4>2. d \in Calls /\ Expected(d, s) /\ d # Head(outbox[s])
        BY <1>2, <3>1, <3>2
      <4>3. /\ held'[d] = s
            /\ d \in Malformed \/ pc'[d] = "register" \/ req'[s][IdOf[d]] = d
        <5> HIDE DEF d
        <5>1. \A c \in Calls : Expected(c, s) /\ c # Head(outbox[s]) =>
                 /\ held'[c] = s
                 /\ c \in Malformed \/ pc'[c] = "register" \/ req'[s][IdOf[c]] = c
          BY DEF Expected
        <5> QED BY <4>2, <5>1
      <4> QED BY <4>1, <4>3 DEF Expected
    <3>4. ASSUME NEW j \in 1 .. Len(outbox'[s]), outbox'[s][j] = outbox'[s][i]
          PROVE  i = j
      <4>1. j + 1 \in 1 .. Len(outbox[s]) /\ outbox[s][j + 1] = outbox[s][i + 1]
        BY <2>1, <3>4
      <4>2. i + 1 = j + 1
        BY <2>1, <3>1, <4>1 DEF ExpectedOK, Answering
      <4> QED BY <4>2
    <3> QED BY <3>3, <3>4
  <2> QED BY <2>2 DEF Answering
<1> QED BY <1>3, <1>4, <1>5 DEF ExpectedOK

LEMMA ListenExpected ==
  ASSUME OwnIds, Shape, Flight, ExpectedOK, NEW s \in Socks, ListenStep(s)
  PROVE  ExpectedOK'
<1>1. TypeOK
  BY DEF Shape
<1>2. CASE ListenReply(s)
  <2> DEFINE d == Head(outbox[s])
  <2>1. /\ d \in Calls /\ Readable(s) /\ ReadFrame(s)
        /\ req' = [req EXCEPT ![s][ReplyId(d)] = None]
        /\ UNCHANGED <<inbox, held, pc>>
    BY <1>2 DEF ListenReply, Settled
  <2>2. ReplyId(d) \in Ids
    BY <2>1, CallsAssumption DEF ReplyId
  <2>3. ASSUME NEW c \in Calls, NEW u \in Socks, Expected(c, u), ~(u = s /\ c = d)
        PROVE  (Expected(c, u))'
    <3>1. CASE u = s
      <4>1. IdOf[c] # ReplyId(d) /\ IdOf[c] \in Ids
        BY <2>1, <2>3, <3>1, CallsAssumption DEF OwnIds
      <4>2. req'[u][IdOf[c]] = req[u][IdOf[c]]
        BY <1>1, <2>1, <2>2, <3>1, <4>1 DEF TypeOK
      <4> QED BY <2>1, <2>3, <4>2 DEF Expected
    <3>2. CASE u # s
      <4>1. req'[u] = req[u]
        BY <1>1, <2>1, <3>2 DEF TypeOK
      <4> QED BY <2>1, <2>3, <4>1 DEF Expected
    <3> QED BY <3>1, <3>2
  <2> QED BY <2>1, <2>3, TailExpected
<1>3. CASE ListenOrphan(s) \/ ListenNote(s)
  <2>1. Readable(s) /\ ReadFrame(s) /\ UNCHANGED <<inbox, held, pc, req>>
    BY <1>3 DEF ListenOrphan, ListenNote, tables, callers
  <2>2. \A c \in Calls, u \in Socks : Expected(c, u) => (Expected(c, u))'
    BY <2>1 DEF Expected
  <2> QED BY <2>1, <2>2, TailExpected
<1>4. CASE \/ HandOver(s) \/ HandOverPanics(s) \/ ListenError(s)
           \/ ListenLeave(s) \/ ListenClose(s) \/ ListenDrop(s)
  <2>1. UNCHANGED <<wires, callers, req>>
    BY <1>4 DEF HandOver, HandOverPanics, ListenError, ListenLeave,
       ListenClose, ListenDrop, tables
  <2> QED BY <2>1 DEF wires, callers, ExpectedOK, Asking, Answering, Expected
<1> QED BY <1>2, <1>3, <1>4 DEF ListenStep, ListenLocal

LEMMA SockExpected ==
  ASSUME Shape, Flight, ExpectedOK, NEW s \in Socks, SockStep(s)
  PROVE  ExpectedOK'
<1>1. TypeOK /\ UNCHANGED <<held, pc, req>>
  BY DEF Shape, SockStep, Check, UpgradeFails, Insert, Serve, Notify, Cut, callers, tables
<1>2. \A c, u : Expected(c, u) <=> (Expected(c, u))'
  BY <1>1 DEF Expected
<1>3. CASE Serve(s)
  <2> DEFINE c == Head(inbox[s])
  <2>1. /\ inbox[s] \in Seq(Calls) /\ inbox[s] # <<>>
        /\ inbox' = [inbox EXCEPT ![s] = Tail(@)]
        /\ \/ outbox' = [outbox EXCEPT ![s] = Append(@, c)]
           \/ outbox' = outbox
    BY <1>1, <1>3 DEF Serve, TypeOK
  <2>2. c \in Calls /\ 1 \in 1 .. Len(inbox[s]) /\ inbox[s][1] = c
    BY <2>1
  <2>3. c \notin executed /\ Expected(c, s)
    BY <2>2 DEF Flight, InboxOK, Waiting, ExpectedOK, Asking
  <2>4. ASSUME NEW u \in Socks
        PROVE  (Asking(u))'
    <3>1. \A i \in 1 .. Len(inbox'[u]) :
             \E j \in 1 .. Len(inbox[u]) : inbox'[u][i] = inbox[u][j]
      <4>1. CASE u = s
        <5>1. \A i \in 1 .. Len(inbox'[s]) :
                 i + 1 \in 1 .. Len(inbox[s]) /\ inbox'[s][i] = inbox[s][i + 1]
          BY <1>1, <2>1 DEF TypeOK
        <5> QED BY <4>1, <5>1
      <4>2. CASE u # s
        BY <1>1, <2>1, <4>2 DEF TypeOK
      <4> QED BY <4>1, <4>2
    <3> QED BY <1>1, <3>1 DEF ExpectedOK, Asking, Expected
  <2>5. ASSUME NEW u \in Socks
        PROVE  (Answering(u))'
    <3>1. CASE outbox'[u] = outbox[u]
      BY <1>1, <3>1 DEF ExpectedOK, Answering, Expected
    <3>2. CASE outbox'[u] # outbox[u]
      <4>1. u = s /\ outbox'[s] = Append(outbox[s], c) /\ outbox[s] \in Seq(Frames)
        BY <1>1, <2>1, <3>2 DEF TypeOK
      <4>2. /\ Len(outbox'[s]) = Len(outbox[s]) + 1 /\ Len(outbox[s]) \in Nat
            /\ outbox'[s][Len(outbox[s]) + 1] = c
            /\ \A i \in 1 .. Len(outbox[s]) : outbox'[s][i] = outbox[s][i]
        BY <4>1
      <4>3. \A i \in 1 .. Len(outbox[s]) : outbox[s][i] # c
        BY <2>2, <2>3 DEF Flight, OutboxOK
      <4>4. ASSUME NEW i \in 1 .. Len(outbox'[s]), outbox'[s][i] \in Calls
            PROVE  Expected(outbox'[s][i], s)
        BY <2>3, <4>2, <4>4 DEF ExpectedOK, Answering
      <4>5. ASSUME NEW i \in 1 .. Len(outbox'[s]), NEW j \in 1 .. Len(outbox'[s]),
                   outbox'[s][i] \in Calls, outbox'[s][j] = outbox'[s][i]
            PROVE  i = j
        <5>1. CASE i \in 1 .. Len(outbox[s]) /\ j \in 1 .. Len(outbox[s])
          BY <4>2, <4>5, <5>1 DEF ExpectedOK, Answering
        <5>2. CASE i \notin 1 .. Len(outbox[s])
          BY <4>2, <4>3, <4>5, <5>2
        <5>3. CASE j \notin 1 .. Len(outbox[s])
          BY <4>2, <4>3, <4>5, <5>3
        <5> QED BY <5>1, <5>2, <5>3
      <4> QED BY <1>1, <4>1, <4>4, <4>5 DEF Answering, Expected
    <3> QED BY <3>1, <3>2
  <2> QED BY <2>4, <2>5 DEF ExpectedOK
<1>4. CASE Check(s) \/ UpgradeFails(s) \/ Insert(s)
  <2>1. UNCHANGED <<inbox, outbox>>
    BY <1>4 DEF Check, UpgradeFails, Insert, wires
  <2> QED BY <1>1, <2>1 DEF ExpectedOK, Asking, Answering, Expected
<1>5. ASSUME UNCHANGED inbox,
             \A u \in Socks : \A i \in 1 .. Len(outbox'[u]) :
                 \/ i \in 1 .. Len(outbox[u]) /\ outbox'[u][i] = outbox[u][i]
                 \/ outbox'[u][i] \notin Calls
      PROVE  ExpectedOK'
  <2>1. ASSUME NEW u \in Socks
        PROVE  (Asking(u))' /\ (Answering(u))'
    <3>1. (Asking(u))'
      BY <1>1, <1>5 DEF ExpectedOK, Asking, Expected
    <3>2. ASSUME NEW i \in 1 .. Len(outbox'[u]), outbox'[u][i] \in Calls
          PROVE  /\ Expected(outbox'[u][i], u)
                 /\ \A j \in 1 .. Len(outbox'[u]) :
                       outbox'[u][j] = outbox'[u][i] => i = j
      <4>1. i \in 1 .. Len(outbox[u]) /\ outbox'[u][i] = outbox[u][i]
        BY <1>5, <3>2
      <4>2. \A j \in 1 .. Len(outbox'[u]) : outbox'[u][j] = outbox'[u][i] =>
               j \in 1 .. Len(outbox[u]) /\ outbox'[u][j] = outbox[u][j]
        BY <1>5, <3>2
      <4> QED BY <3>2, <4>1, <4>2 DEF ExpectedOK, Answering
    <3> QED BY <1>1, <3>1, <3>2 DEF Answering, Expected
  <2> QED BY <2>1 DEF ExpectedOK
<1>6. CASE Notify(s)
  <2>1. /\ outbox[s] \in Seq(Frames) /\ UNCHANGED inbox
        /\ outbox' = [outbox EXCEPT ![s] = Append(@, notes')]
    BY <1>1, <1>6 DEF Notify, TypeOK
  <2>2. notes' \notin Calls
    <3>1. notes' \in Notes
      BY <1>1, <1>6, BoundsAssumption DEF Notify, TypeOK, Notes
    <3> QED BY <3>1, BoundsAssumption
  <2>3. /\ outbox'[s] = Append(outbox[s], notes')
        /\ \A u \in Socks : u # s => outbox'[u] = outbox[u]
    BY <1>1, <2>1 DEF TypeOK
  <2>4. \A i \in 1 .. Len(outbox'[s]) :
           \/ i \in 1 .. Len(outbox[s]) /\ outbox'[s][i] = outbox[s][i]
           \/ outbox'[s][i] = notes'
    BY <2>1, <2>3
  <2> QED BY <1>5, <2>1, <2>2, <2>3, <2>4
<1>7. CASE Cut(s)
  <2>1. PICK n \in 0 .. Len(outbox[s]) :
          outbox' = [outbox EXCEPT ![s] = SubSeq(@, 1, n)]
    BY <1>7 DEF Cut
  <2>2. /\ outbox[s] \in Seq(Frames) /\ UNCHANGED inbox
        /\ outbox'[s] = SubSeq(outbox[s], 1, n)
        /\ \A u \in Socks : u # s => outbox'[u] = outbox[u]
    BY <1>1, <1>7, <2>1 DEF TypeOK, Cut
  <2>3. \A i \in 1 .. Len(outbox'[s]) :
           i \in 1 .. Len(outbox[s]) /\ outbox'[s][i] = outbox[s][i]
    BY <2>2
  <2> QED BY <1>5, <2>2, <2>3
<1> QED BY <1>3, <1>4, <1>6, <1>7 DEF SockStep

LEMMA NextReasons ==
  ASSUME OwnIds, Shape, Flight, Reasons, [Next]_vars
  PROVE  Reasons'
<1>1. TypeOK
  BY DEF Shape
<1>2. ExpectedOK'
  <2>1. CASE Shutdown \/ Exit \/ UNCHANGED vars
    <3>1. UNCHANGED <<wires, callers, req>>
      BY <2>1 DEF Shutdown, Exit, vars, tables
    <3> QED BY <3>1 DEF wires, callers, Reasons, ExpectedOK, Asking, Answering, Expected
  <2> QED BY <2>1, CallExpected, ListenExpected, SockExpected DEF Next, Reasons
<1>3. ASSUME UNCHANGED <<lsn, chOpen>>,
             \A s \in Socks : sock'[s] \in {"new", "checked"} => sock[s] \in {"new", "checked"}
      PROVE  (ChannelShut /\ NewIsOff)'
  BY <1>3 DEF Reasons, ChannelShut, NewIsOff
<1>4. ASSUME NEW c \in Calls, Lookup(c) \/ CallStep(c)
      PROVE  (ChannelShut /\ NewIsOff)'
  <2>1. UNCHANGED <<lsn, chOpen>> /\ (sock' = sock \/ sock' = Shut(held[c]))
    BY <1>4 DEF CallStep, Lookup, WriteDelivered, WriteVanishes, WriteFails, CallClose,
       CallDrop, Register, Receive, Timeout, tables, process
  <2> QED BY <1>1, <1>3, <2>1 DEF Shut, TypeOK
<1>5. ASSUME NEW s \in Socks, ListenStep(s)
      PROVE  (ChannelShut /\ NewIsOff)'
  <2>1. CASE ListenReply(s) \/ ListenOrphan(s) \/ HandOverPanics(s)
    BY <1>3, <2>1 DEF ListenReply, ListenOrphan, HandOverPanics, tables, process
  <2>2. ASSUME NEW place, lsn' = [lsn EXCEPT ![s] = place],
               lsn[s] \notin {"off", "exit"}, sock' = sock \/ sock' = Shut(s),
               chOpen' = chOpen \/ place = "exit"
        PROVE  (ChannelShut /\ NewIsOff)'
    BY <1>1, <2>2 DEF Reasons, ChannelShut, NewIsOff, TypeOK, Shut
  <2>3. CASE \/ ListenNote(s) \/ HandOver(s) \/ ListenError(s) \/ ListenLeave(s)
             \/ ListenClose(s) \/ ListenDrop(s)
    BY <2>2, <2>3 DEF ListenNote, HandOver, ListenError, ListenLeave, ListenClose,
       ListenDrop, Readable, ReadError, process
  <2> QED BY <1>5, <2>1, <2>3 DEF ListenStep, ListenLocal
<1>6. ASSUME NEW s \in Socks, SockStep(s)
      PROVE  (ChannelShut /\ NewIsOff)'
  <2>1. CASE Insert(s)
    BY <1>1, <2>1 DEF Insert, Reasons, ChannelShut, NewIsOff, TypeOK, process
  <2>2. CASE ~Insert(s)
    BY <1>1, <1>3, <1>6, <2>2 DEF SockStep, Check, UpgradeFails, Serve, Notify, Cut,
       tables, process, TypeOK
  <2> QED BY <2>1, <2>2
<1>7. ASSUME Shutdown \/ Exit \/ UNCHANGED vars
      PROVE  (ChannelShut /\ NewIsOff)'
  BY <1>3, <1>7 DEF Shutdown, Exit, vars, tables, process
<1> QED BY <1>2, <1>4, <1>5, <1>6, <1>7 DEF Next, Reasons

LEMMA PanicStep ==
  ASSUME Shape, Reasons, Next, core' \in Panics
  PROVE  IF core' = "orphanReply"
         THEN \E s \in Socks : /\ outbox[s] # <<>>
                                /\ Head(outbox[s]) \in Calls
                                /\ \/ pc[Head(outbox[s])] = "register"
                                   \/ Head(outbox[s]) \in Malformed
         ELSE \E s, t \in Socks : s # t /\ lsn[s] = "exit" /\ lsn[t] \in {"read", "hold"}
<1>1. TypeOK /\ core \notin Panics
  BY DEF Shape, Next, Running, Panics
<1>2. PICK t \in Socks : ListenOrphan(t) \/ HandOverPanics(t) \/ ListenLeave(t)
  BY <1>1 DEF Next, Running, Panics, Lookup, CallStep, WriteDelivered, WriteVanishes,
     WriteFails, CallClose, CallDrop, Register, Receive, Timeout, ListenStep, ListenLocal,
     ListenReply, ListenNote, HandOver, ListenError, ListenClose, ListenDrop, SockStep,
     Check, UpgradeFails, Insert, Serve, Notify, Cut, Shutdown, Exit, process
<1>3. CASE ListenOrphan(t)
  <2> DEFINE d == Head(outbox[t])
  <2>1. /\ core' = "orphanReply" /\ outbox[t] # <<>> /\ d \in Calls
        /\ Waiter(t, d) = None /\ outbox[t] \in Seq(Frames)
    BY <1>1, <1>3 DEF ListenOrphan, Readable, TypeOK
  <2>2. 1 \in 1 .. Len(outbox[t]) /\ outbox[t][1] = d
    BY <2>1
  <2>3. Expected(d, t)
    BY <2>1, <2>2 DEF Reasons, ExpectedOK, Answering
  <2>4. pc[d] = "register" \/ d \in Malformed
    BY <2>1, <2>3, CallsAssumption DEF Expected, Waiter, ReplyId
  <2> QED BY <2>1, <2>4
<1>4. CASE HandOverPanics(t) \/ ListenLeave(t)
  <2>1. core' # "orphanReply" /\ ~chOpen /\ lsn[t] \in {"read", "hold"}
    BY <1>1, <1>4 DEF HandOverPanics, ListenLeave, ReadError, Panics
  <2>2. PICK s \in Socks : lsn[s] = "exit"
    BY <2>1 DEF Reasons, ChannelShut
  <2> QED BY <2>1, <2>2
<1> QED BY <1>2, <1>3, <1>4

(* With ids of their own, an answer that finds no call has overtaken the   *)
(* registration of its call, or is the connector's answer to a frame it    *)
(* could not read; and requestsCh is closed twice, or sent to when closed, *)
(* only by the second listener of a shutdown; for any number of            *)
(* connections, calls, timeouts and late answers.                          *)
THEOREM PanicsHaveReasons == ASSUME OwnIds PROVE Spec => PanicHasReason
<1>1. Init => Replies /\ Flight /\ Reasons
  BY InitReplies, InitFlight, InitReasons
<1>2. Replies /\ Flight /\ Reasons /\ [Next]_vars => Replies' /\ Flight' /\ Reasons'
  BY NextReplies, NextFlight, NextReasons DEF Replies
<1>3. Replies /\ Reasons /\ [Next]_vars =>
        [core' \in Panics =>
           IF core' = "orphanReply"
           THEN \E s \in Socks : /\ outbox[s] # <<>>
                                  /\ Head(outbox[s]) \in Calls
                                  /\ \/ pc[Head(outbox[s])] = "register"
                                     \/ Head(outbox[s]) \in Malformed
           ELSE \E s, t \in Socks : s # t /\ lsn[s] = "exit" /\ lsn[t] \in {"read", "hold"}]_vars
  BY PanicStep DEF Replies
<1> QED BY <1>1, <1>2, <1>3, PTL DEF Spec, PanicHasReason

-----------------------------------------------------------------------------
(* The core process                                                        *)


LEMMA EdgeStepIsHubStep == [EdgeNext]_edgeVars => [Next]_vars
<1>1. ASSUME Running, HubAlone
      PROVE  Next
  BY <1>1 DEF HubAlone, Next, ListenStep
<1>2. ASSUME Running, NEW s \in Socks, RelayTake(s)
      PROVE  Next
  BY <1>2 DEF RelayTake, Next, ListenStep
<1>3. ASSUME \/ RelaySkip \/ RelayStore \/ RelaySend \/ RelayEnd
             \/ StartRpc \/ StartMqtt \/ PublishDone
             \/ \E c \in Calls : PostStep(c)
      PROVE  UNCHANGED vars
  BY <1>3 DEF RelaySkip, RelayStore, RelaySend, RelayEnd, StartRpc, StartMqtt,
     PublishDone, PostStep, PostStore, PostSend, PostError
<1>4. ASSUME UNCHANGED edgeVars
      PROVE  UNCHANGED vars
  BY <1>4 DEF edgeVars
<1> QED BY <1>1, <1>2, <1>3, <1>4 DEF EdgeNext, RelayStep

(* The process implements the hub that WsHub specifies.                    *)
LEMMA EdgeImplementsHub == EdgeSpec => Spec
<1>1. EdgeInit => Init
  BY DEF EdgeInit
<1> QED BY <1>1, EdgeStepIsHubStep, PTL DEF EdgeSpec, Spec

(* So the process as a whole keeps the promise made to whoever calls a     *)
(* connector, never returns an answer to the wrong caller, and panics for  *)
(* the hub's two reasons only.                                             *)
THEOREM EdgeKeepsPromise ==
  ASSUME OwnIds
  PROVE  EdgeSpec => KeepsPromise /\ []AnswerIsOwn /\ []ListedIsRead /\ PanicHasReason
<1>1. Spec => KeepsPromise
  BY HubKeepsPromise
<1>2. Spec => []AnswerIsOwn
  BY AnswersAreOwn
<1>3. Spec => PanicHasReason
  BY PanicsHaveReasons
<1> QED BY <1>1, <1>2, <1>3, EdgeImplementsHub, ListedConnectionsAreRead, PTL

-----------------------------------------------------------------------------
(* What is stored is published                                             *)

PipelineTypes ==
    /\ load \in Nat
    /\ post \in [Calls -> {"none", "send", "done"}]
    /\ sent \in Seq(Nat \cup Calls)

(* The stored value is on its way, or has arrived.                         *)
StoredIsUnderWay ==
    stored \in failed \cup {None} \cup ToSet(sent) \cup Holding

(* What is on its way beside the stored value was stored before it.        *)
HeldHaveMet ==
    stored \notin failed \cup {None} =>
        \A h \in Holding \ {stored} : {h, stored} \subseteq met

StoredIsNewest ==
    stored \notin failed \cup {None} =>
        \/ stored \in Holding \cup {Last(sent)}
        \/ {stored, Last(sent)} \subseteq met

PublishInv ==
    PipelineTypes /\ StoredIsUnderWay /\ HeldHaveMet /\ StoredIsNewest

LEMMA AppendSet ==
    ASSUME NEW S, NEW s \in Seq(S), NEW e \in S
    PROVE  /\ Append(s, e) \in Seq(S)
           /\ ToSet(Append(s, e)) = ToSet(s) \cup {e}
           /\ Last(Append(s, e)) = e
<1>1. /\ Append(s, e) \in Seq(S) /\ Len(s) \in Nat /\ Len(Append(s, e)) = Len(s) + 1
      /\ \A i \in 1 .. Len(s) : Append(s, e)[i] = s[i]
      /\ Append(s, e)[Len(s) + 1] = e
  OBVIOUS
<1>2. DOMAIN Append(s, e) = 1 .. Len(s) + 1 /\ DOMAIN s = 1 .. Len(s)
  BY <1>1
<1>3. DOMAIN Append(s, e) = (DOMAIN s) \cup {Len(s) + 1}
  BY <1>1, <1>2
<1>4. ToSet(Append(s, e)) = ToSet(s) \cup {e}
  BY <1>1, <1>2, <1>3 DEF ToSet
<1> QED BY <1>1, <1>4 DEF Last

LEMMA StoreStep ==
    ASSUME PublishInv, NEW v, stored' = v, Holding' = Holding \cup {v}, Meet(v),
           UNCHANGED <<sent, failed>>
    PROVE  StoredIsUnderWay' /\ HeldHaveMet' /\ StoredIsNewest'
<1>1. \A h \in Holding' \ {v} : {h, v} \subseteq met'
  BY DEF Meet
<1> QED BY <1>1 DEF StoredIsUnderWay, HeldHaveMet, StoredIsNewest

LEMMA SendStep ==
    ASSUME PublishInv, NEW v \in Holding, sent' = Append(sent, v),
           v \in Nat \cup Calls, Holding \ {v} \subseteq Holding', Holding' \subseteq Holding,
           UNCHANGED <<stored, failed, met>>
    PROVE  /\ sent' \in Seq(Nat \cup Calls)
           /\ StoredIsUnderWay' /\ HeldHaveMet' /\ StoredIsNewest'
<1>1. /\ sent' \in Seq(Nat \cup Calls) /\ Last(sent') = v
      /\ ToSet(sent') = ToSet(sent) \cup {v}
  BY AppendSet DEF PublishInv, PipelineTypes
<1>2. StoredIsUnderWay' /\ HeldHaveMet'
  BY <1>1 DEF PublishInv, StoredIsUnderWay, HeldHaveMet
<1>3. StoredIsNewest'
  BY <1>1 DEF PublishInv, HeldHaveMet, StoredIsNewest
<1> QED BY <1>1, <1>2, <1>3

LEMMA PublishStep ==
    ASSUME TypeOK, PublishInv, [EdgeNext]_edgeVars
    PROVE  PublishInv'
<1> USE DEF PublishInv, PipelineTypes
<1>1. ASSUME UNCHANGED <<post, stored, sent, failed, met>>, load' \in Nat,
             relay # "send", relay' # "send"
      PROVE  PublishInv'
  BY <1>1 DEF StoredIsUnderWay, HeldHaveMet, StoredIsNewest, Holding
<1>2. ASSUME UNCHANGED <<load, post, stored, sent, failed, met, relay>>
      PROVE  PublishInv'
  BY <1>2 DEF StoredIsUnderWay, HeldHaveMet, StoredIsNewest, Holding
<1>3. CASE UNCHANGED edgeVars \/ HubAlone \/ StartMqtt \/ PublishDone
  BY <1>2, <1>3 DEF edgeVars, HubAlone, StartMqtt, PublishDone, pipeline
<1>4. CASE StartRpc \/ RelayEnd \/ RelaySkip
  BY <1>1, <1>4 DEF StartRpc, RelayEnd, RelaySkip
<1>5. ASSUME NEW s \in Socks, RelayTake(s)
      PROVE  PublishInv'
  <2>1. /\ relay = "idle" /\ relay' = "work" /\ load' \in Nat
        /\ UNCHANGED <<post, stored, sent, failed, met>>
    BY <1>5, BoundsAssumption DEF RelayTake, TypeOK
  <2> QED BY <1>1, <2>1
<1>6. CASE RelayStore
  <2>1. CASE relay' = "send"
    <3>1. /\ relay = "work" /\ stored' = load /\ Meet(load)
          /\ UNCHANGED <<load, post, sent, failed>>
      BY <1>6, <2>1 DEF RelayStore
    <3>2. Holding' = Holding \cup {load}
      BY <2>1, <3>1 DEF Holding
    <3> QED BY <3>1, <3>2, StoreStep
  <2>2. CASE relay' # "send"
    <3>1. /\ stored' = load /\ stored' \in failed' /\ load' = 0
          /\ UNCHANGED <<post, sent, met>>
      BY <1>6, <2>2 DEF RelayStore
    <3> QED BY <3>1 DEF StoredIsUnderWay, HeldHaveMet, StoredIsNewest
  <2> QED BY <2>1, <2>2
<1>7. CASE RelaySend
  <2>1. /\ relay = "send" /\ relay' = "idle" /\ load' = 0
        /\ sent' = Append(sent, load) /\ UNCHANGED <<post, stored, failed, met>>
    BY <1>7 DEF RelaySend, Publish
  <2>2. load \in Holding /\ Holding \ {load} \subseteq Holding' /\ Holding' \subseteq Holding
    BY <2>1 DEF Holding
  <2> QED BY <2>1, <2>2, SendStep
<1>8. ASSUME NEW c \in Calls, PostStore(c)
      PROVE  PublishInv'
  <2>1. /\ post' = [post EXCEPT ![c] = "send"] /\ stored' = c /\ Meet(c)
        /\ UNCHANGED <<relay, load, sent, failed>>
    BY <1>8 DEF PostStore, Post
  <2>2. Holding' = Holding \cup {c}
    BY <2>1 DEF Holding
  <2> QED BY <2>1, <2>2, StoreStep
<1>9. ASSUME NEW c \in Calls, PostSend(c)
      PROVE  PublishInv'
  <2>1. /\ post' = [post EXCEPT ![c] = "done"] /\ sent' = Append(sent, c)
        /\ post[c] = "send" /\ UNCHANGED <<relay, load, stored, failed, met>>
    BY <1>9 DEF PostSend, Post, Publish
  <2>2. c \in Holding /\ Holding \ {c} \subseteq Holding' /\ Holding' \subseteq Holding
    BY <2>1 DEF Holding
  <2> QED BY <2>1, <2>2, SendStep
<1>10. ASSUME NEW c \in Calls, PostError(c)
       PROVE  PublishInv'
  <2>1. /\ post' = [post EXCEPT ![c] = "done"] /\ post[c] = "none"
        /\ UNCHANGED <<relay, load, stored, sent, failed, met>>
    BY <1>10 DEF PostError, Post
  <2>2. Holding' = Holding
    BY <2>1 DEF Holding
  <2> QED BY <2>1, <2>2 DEF StoredIsUnderWay, HeldHaveMet, StoredIsNewest
<1> QED BY <1>3, <1>4, <1>5, <1>6, <1>7, <1>8, <1>9, <1>10
        DEF EdgeNext, RelayStep, PostStep

LEMMA PublishAlways == EdgeSpec => [](TypeOK /\ PublishInv)
<1>1. EdgeInit => PublishInv
  BY DEF EdgeInit, PublishInv, PipelineTypes, StoredIsUnderWay, HeldHaveMet,
     StoredIsNewest
<1>2. EdgeSpec => []TypeOK
  BY EdgeImplementsHub, TypeCorrect, PTL
<1> QED BY <1>1, <1>2, PublishStep, PTL DEF EdgeSpec

(* A value that is stored has been published, unless it is on its way or   *)
(* the database refused it, and as the last one unless two values crossed, *)
(* for any connections, calls and notifications.                           *)
THEOREM StoredArePublished == EdgeSpec => []StoredIsPublished
<1>1. PublishInv => StoredIsPublished
  BY DEF PublishInv, StoredIsUnderWay, StoredIsNewest, StoredIsPublished
<1> QED BY <1>1, PublishAlways, PTL

-----------------------------------------------------------------------------
(* The order of notifications.  From the connector to the broker a         *)
(* notification passes through the wire, the hand of listen, the relay and *)
(* stateCh; Later(n) says that all that are still before the relay are     *)
(* younger than n.                                                         *)

Later(n) ==
    /\ n <= notes
    /\ \A s \in Socks : lsn[s] = "hold" => n < hand[s]
    /\ \A s \in Socks : \A i \in 1 .. Len(outbox[s]) :
          outbox[s][i] \in Notes => n < outbox[s][i]

WireInOrder ==
    \A s \in Socks : \A i \in 1 .. Len(outbox[s]) : outbox[s][i] \in Notes =>
        /\ outbox[s][i] <= notes
        /\ \A j \in 1 .. i - 1 : outbox[s][j] \in Notes => outbox[s][j] < outbox[s][i]

HandInOrder ==
    \A s \in Socks : lsn[s] = "hold" =>
        /\ hand[s] \in Notes
        /\ hand[s] <= notes
        /\ \A i \in 1 .. Len(outbox[s]) : outbox[s][i] \in Notes => hand[s] < outbox[s][i]

HubLine == WireInOrder /\ HandInOrder

LEMMA TailFacts ==
    ASSUME NEW S, NEW s \in Seq(S), s # <<>>
    PROVE  /\ 1 \in 1 .. Len(s) /\ Head(s) = s[1] /\ Tail(s) \in Seq(S)
           /\ \A i \in 1 .. Len(Tail(s)) : /\ i + 1 \in 1 .. Len(s)
                                           /\ Tail(s)[i] = s[i + 1]
OBVIOUS

LEMMA AppendFacts ==
    ASSUME NEW S, NEW s \in Seq(S), NEW e \in S
    PROVE  /\ Append(s, e) \in Seq(S)
           /\ \A i \in 1 .. Len(Append(s, e)) :
                 \/ i \in 1 .. Len(s) /\ Append(s, e)[i] = s[i]
                 \/ i = Len(s) + 1 /\ Append(s, e)[i] = e
OBVIOUS

LEMMA PrefixFacts ==
    ASSUME NEW S, NEW s \in Seq(S), NEW n \in 0 .. Len(s)
    PROVE  \A i \in 1 .. Len(SubSeq(s, 1, n)) : i \in 1 .. Len(s) /\ SubSeq(s, 1, n)[i] = s[i]
OBVIOUS

(* Nothing of a wire is new, and listen takes nothing up.                  *)
Shrinks ==
    /\ notes' = notes
    /\ \A s \in Socks : lsn'[s] = "hold" => lsn[s] = "hold" /\ hand'[s] = hand[s]
    /\ \A s \in Socks : \E k \in {0, 1} : \A i \in 1 .. Len(outbox'[s]) :
          i + k \in 1 .. Len(outbox[s]) /\ outbox'[s][i] = outbox[s][i + k]

LEMMA ShrinksLine ==
    ASSUME TypeOK, HubLine, Shrinks
    PROVE  HubLine' /\ \A n \in Nat : Later(n) => Later(n)'
<1> USE DEF HubLine
<1>1. \A s \in Socks : \A i \in 1 .. Len(outbox'[s]) : \E k \in 1 .. Len(outbox[s]) :
         outbox'[s][i] = outbox[s][k]
  BY DEF Shrinks
<1>2. WireInOrder'
  <2> SUFFICES ASSUME NEW s \in Socks, NEW i \in 1 .. Len(outbox'[s]),
                      outbox'[s][i] \in Notes
               PROVE  /\ outbox'[s][i] <= notes
                      /\ \A j \in 1 .. i - 1 :
                            outbox'[s][j] \in Notes => outbox'[s][j] < outbox'[s][i]
    BY DEF WireInOrder, Shrinks
  <2>1. PICK k \in {0, 1} : \A x \in 1 .. Len(outbox'[s]) :
           x + k \in 1 .. Len(outbox[s]) /\ outbox'[s][x] = outbox[s][x + k]
    BY DEF Shrinks
  <2>2. i + k \in 1 .. Len(outbox[s]) /\ outbox'[s][i] = outbox[s][i + k]
    BY <2>1
  <2>3. \A j \in 1 .. (i + k) - 1 :
           outbox[s][j] \in Notes => outbox[s][j] < outbox[s][i + k]
    BY <2>2 DEF WireInOrder
  <2>4. ASSUME NEW j \in 1 .. i - 1
        PROVE  /\ j \in 1 .. Len(outbox'[s]) /\ j + k \in 1 .. (i + k) - 1
    BY <2>2, <2>4 DEF TypeOK
  <2>5. \A j \in 1 .. i - 1 : outbox'[s][j] = outbox[s][j + k]
    BY <2>1, <2>4
  <2> QED BY <2>2, <2>3, <2>4, <2>5 DEF WireInOrder
<1>3. HandInOrder'
  BY <1>1 DEF HandInOrder, Shrinks
<1>4. \A n \in Nat : Later(n) => Later(n)'
  BY <1>1 DEF Later, Shrinks
<1> QED BY <1>2, <1>3, <1>4

(* A frame is added to a wire: an answer, or the youngest notification.    *)
LEMMA GrowsLine ==
    ASSUME TypeOK, HubLine, NEW s \in Socks, NEW f \in Frames,
           outbox' = [outbox EXCEPT ![s] = Append(outbox[s], f)],
           UNCHANGED <<lsn, hand>>,
           \/ f \in Calls /\ notes' = notes
           \/ f = notes + 1 /\ notes' = notes + 1
    PROVE  HubLine' /\ \A n \in Nat : Later(n) => Later(n)'
<1> USE DEF HubLine
<1>0. /\ \A x \in Socks : outbox[x] \in Seq(Frames) /\ Len(outbox[x]) \in Nat
      /\ notes \in Nat /\ \A c \in Calls : c \notin Notes
  BY BoundsAssumption DEF TypeOK
<1>1. /\ outbox'[s] = Append(outbox[s], f) /\ outbox'[s] \in Seq(Frames)
      /\ \A x \in Socks \ {s} : outbox'[x] = outbox[x]
  BY <1>0, AppendFacts DEF TypeOK
<1>2. \A i \in 1 .. Len(outbox'[s]) :
         \/ i \in 1 .. Len(outbox[s]) /\ outbox'[s][i] = outbox[s][i]
         \/ i = Len(outbox[s]) + 1 /\ outbox'[s][i] = f
  BY <1>0, <1>1, AppendFacts
<1>3. ASSUME NEW x \in Socks, NEW i \in 1 .. Len(outbox'[x])
      PROVE  \/ i \in 1 .. Len(outbox[x]) /\ outbox'[x][i] = outbox[x][i]
             \/ x = s /\ i = Len(outbox[x]) + 1 /\ outbox'[x][i] = f
  BY <1>1, <1>2
<1>4. f \in Notes => notes' = notes + 1 /\ f = notes + 1
  BY <1>0
<1>5. WireInOrder'
  <2> SUFFICES ASSUME NEW x \in Socks, NEW i \in 1 .. Len(outbox'[x]),
                      outbox'[x][i] \in Notes
               PROVE  /\ outbox'[x][i] <= notes'
                      /\ \A j \in 1 .. i - 1 :
                            outbox'[x][j] \in Notes => outbox'[x][j] < outbox'[x][i]
    BY DEF WireInOrder
  <2>1. i <= Len(outbox[x]) + 1 /\ Len(outbox'[x]) \in Nat
    BY <1>0, <1>1, <1>3
  <2>2. \A j \in 1 .. i - 1 : j \in 1 .. Len(outbox'[x]) /\ j # Len(outbox[x]) + 1
    BY <1>0, <2>1
  <2>3. \A j \in 1 .. i - 1 : j \in 1 .. Len(outbox[x]) /\ outbox'[x][j] = outbox[x][j]
    BY <1>3, <2>2
  <2>4. CASE i \in 1 .. Len(outbox[x]) /\ outbox'[x][i] = outbox[x][i]
    <3>1. outbox[x][i] <= notes /\ outbox[x][i] \in Nat
      BY <2>4 DEF WireInOrder, Notes
    <3> QED BY <1>0, <2>3, <2>4, <3>1 DEF WireInOrder
  <2>5. CASE outbox'[x][i] = f
    <3>1. notes' = notes + 1 /\ f = notes + 1
      BY <1>4, <2>5
    <3>2. \A j \in 1 .. i - 1 : outbox[x][j] \in Notes =>
             outbox[x][j] <= notes /\ outbox[x][j] \in Nat
      BY <2>3 DEF WireInOrder, Notes
    <3> QED BY <1>0, <2>3, <2>5, <3>1, <3>2
  <2> QED BY <1>3, <2>4, <2>5
<1>6. HandInOrder'
  <2> SUFFICES ASSUME NEW x \in Socks, lsn[x] = "hold"
               PROVE  /\ hand[x] \in Notes
                      /\ hand[x] <= notes'
                      /\ \A i \in 1 .. Len(outbox'[x]) :
                            outbox'[x][i] \in Notes => hand[x] < outbox'[x][i]
    BY DEF HandInOrder
  <2>1. /\ hand[x] \in Notes /\ hand[x] <= notes /\ hand[x] \in Nat
        /\ \A i \in 1 .. Len(outbox[x]) : outbox[x][i] \in Notes => hand[x] < outbox[x][i]
    BY DEF HandInOrder, Notes
  <2> QED BY <1>0, <1>3, <1>4, <2>1
<1>7. ASSUME NEW n \in Nat, Later(n)
      PROVE  Later(n)'
  <2>1. n <= notes /\ n <= notes'
    BY <1>0, <1>7 DEF Later
  <2>2. ASSUME NEW x \in Socks, NEW i \in 1 .. Len(outbox'[x]), outbox'[x][i] \in Notes
        PROVE  n < outbox'[x][i]
    BY <1>0, <1>3, <1>4, <1>7, <2>1, <2>2 DEF Later
  <2> QED BY <1>7, <2>1, <2>2 DEF Later
<1> QED BY <1>5, <1>6, <1>7

(* listen takes the oldest frame into its hand.                            *)
LEMMA ListenNoteLine ==
    ASSUME TypeOK, HubLine, NEW s \in Socks, ListenNote(s)
    PROVE  HubLine' /\ \A n \in Nat : Later(n) => Later(n)'
<1> USE DEF HubLine
<1>0. outbox[s] \in Seq(Frames) /\ outbox[s] # <<>>
  BY DEF TypeOK, ListenNote, Readable
<1>1. /\ notes' = notes
      /\ outbox' = [outbox EXCEPT ![s] = Tail(outbox[s])]
      /\ hand' = [hand EXCEPT ![s] = Head(outbox[s])]
      /\ lsn' = [lsn EXCEPT ![s] = "hold"]
      /\ Head(outbox[s]) \in Notes
  BY DEF ListenNote, ReadFrame
<1>2. /\ outbox'[s] = Tail(outbox[s])
      /\ \A x \in Socks \ {s} : /\ outbox'[x] = outbox[x] /\ hand'[x] = hand[x]
                                /\ lsn'[x] = lsn[x]
      /\ 1 \in 1 .. Len(outbox[s]) /\ hand'[s] = outbox[s][1] /\ outbox[s][1] \in Notes
  BY <1>0, <1>1, TailFacts DEF TypeOK
<1>3. \A i \in 1 .. Len(outbox'[s]) : /\ i + 1 \in 1 .. Len(outbox[s])
                                      /\ outbox'[s][i] = outbox[s][i + 1]
  BY <1>0, <1>2, TailFacts
<1>4. \A i \in 1 .. Len(outbox'[s]) : outbox'[s][i] \in Notes => outbox[s][1] < outbox'[s][i]
  <2> SUFFICES ASSUME NEW i \in 1 .. Len(outbox'[s]), outbox'[s][i] \in Notes
               PROVE  outbox[s][1] < outbox'[s][i]
    OBVIOUS
  <2>1. 1 \in 1 .. (i + 1) - 1
    OBVIOUS
  <2> QED BY <1>2, <1>3, <2>1 DEF WireInOrder
<1>5. WireInOrder'
  <2> SUFFICES ASSUME NEW x \in Socks, NEW i \in 1 .. Len(outbox'[x]),
                      outbox'[x][i] \in Notes
               PROVE  /\ outbox'[x][i] <= notes
                      /\ \A j \in 1 .. i - 1 :
                            outbox'[x][j] \in Notes => outbox'[x][j] < outbox'[x][i]
    BY <1>1 DEF WireInOrder
  <2>1. CASE x # s
    BY <1>2, <2>1 DEF WireInOrder
  <2>2. CASE x = s
    <3>0. Len(outbox'[s]) \in Nat
      BY <1>0, <1>2, TailFacts
    <3>1. ASSUME NEW j \in 1 .. i - 1
          PROVE  j \in 1 .. Len(outbox'[s]) /\ j + 1 \in 1 .. (i + 1) - 1
      BY <2>2, <3>0, <3>1
    <3>2. \A j \in 1 .. i - 1 : outbox'[s][j] = outbox[s][j + 1]
      BY <1>3, <3>1
    <3> QED BY <1>3, <2>2, <3>1, <3>2 DEF WireInOrder
  <2> QED BY <2>1, <2>2
<1>6. HandInOrder'
  BY <1>1, <1>2, <1>4 DEF HandInOrder, WireInOrder
<1>7. ASSUME NEW n \in Nat, Later(n)
      PROVE  Later(n)'
  <2>1. \A i \in 1 .. Len(outbox'[s]) : outbox'[s][i] \in Notes => n < outbox'[s][i]
    BY <1>3, <1>7 DEF Later
  <2> QED BY <1>1, <1>2, <1>7, <2>1 DEF Later
<1> QED BY <1>5, <1>6, <1>7

LEMMA HubLineStep ==
    ASSUME TypeOK, HubLine, [Next]_vars
    PROVE  HubLine' /\ \A n \in Nat : Later(n) => Later(n)'
<1>1. ASSUME UNCHANGED <<outbox, notes>>,
             \A s \in Socks : lsn'[s] = "hold" => lsn[s] = "hold" /\ hand'[s] = hand[s]
      PROVE  Shrinks
  <2>1. \A s \in Socks : \A i \in 1 .. Len(outbox[s]) : i + 0 = i
    BY DEF TypeOK
  <2> QED BY <1>1, <2>1 DEF Shrinks
<1>2. ASSUME NEW s \in Socks, NEW k \in {0, 1}, UNCHANGED <<notes, lsn, hand>>,
             \A x \in Socks \ {s} : outbox'[x] = outbox[x],
             \A i \in 1 .. Len(outbox'[s]) :
                i + k \in 1 .. Len(outbox[s]) /\ outbox'[s][i] = outbox[s][i + k]
      PROVE  Shrinks
  <2>1. \A x \in Socks : \A i \in 1 .. Len(outbox[x]) : i + 0 = i
    BY DEF TypeOK
  <2> QED BY <1>2, <2>1 DEF Shrinks
<1>3. CASE UNCHANGED vars
  BY <1>1, <1>3, ShrinksLine DEF vars, tables, wires
<1>4. ASSUME NEW c \in Calls, Lookup(c) \/ CallStep(c)
      PROVE  UNCHANGED <<outbox, notes, lsn, hand>>
  BY <1>4 DEF Lookup, CallStep, WriteDelivered, WriteVanishes, WriteFails, CallClose,
     CallDrop, Register, Receive, Timeout, tables, wires
<1>5. ASSUME NEW s \in Socks, ListenReply(s) \/ ListenOrphan(s)
      PROVE  Shrinks
  <2>1. /\ outbox' = [outbox EXCEPT ![s] = Tail(outbox[s])]
        /\ UNCHANGED <<notes, lsn, hand>>
    BY <1>5 DEF ListenReply, ListenOrphan, ReadFrame, tables
  <2>2. outbox[s] \in Seq(Frames) /\ outbox[s] # <<>>
    BY <1>5 DEF ListenReply, ListenOrphan, Readable, TypeOK
  <2>3. \A i \in 1 .. Len(Tail(outbox[s])) :
           i + 1 \in 1 .. Len(outbox[s]) /\ Tail(outbox[s])[i] = outbox[s][i + 1]
    BY <2>2, TailFacts
  <2>4. outbox'[s] = Tail(outbox[s]) /\ \A x \in Socks \ {s} : outbox'[x] = outbox[x]
    BY <2>1 DEF TypeOK
  <2> QED BY <1>2, <2>1, <2>3, <2>4
<1>6. ASSUME NEW s \in Socks,
             \/ HandOver(s) \/ HandOverPanics(s) \/ ListenError(s) \/ ListenLeave(s)
             \/ ListenClose(s) \/ ListenDrop(s)
             \/ Check(s) \/ UpgradeFails(s) \/ Insert(s)
      PROVE  Shrinks
  <2>1. UNCHANGED <<outbox, notes>>
    BY <1>6 DEF HandOver, HandOverPanics, ListenError, ListenLeave, ListenClose, ListenDrop,
       Check, UpgradeFails, Insert, tables, wires
  <2>2. \A x \in Socks : lsn'[x] = "hold" => lsn[x] = "hold" /\ hand'[x] = hand[x]
    <3>1. CASE HandOver(s)
      BY <3>1 DEF HandOver, TypeOK
    <3>2. CASE ~HandOver(s)
      <4>1. /\ hand' = hand
            /\ \/ lsn' = lsn
               \/ \E p \in {"read", "close", "drop", "exit"} : lsn' = [lsn EXCEPT ![s] = p]
        BY <1>6, <3>2 DEF HandOverPanics, ListenError, ListenLeave, ListenClose, ListenDrop,
           Check, UpgradeFails, Insert, tables
      <4> QED BY <4>1 DEF TypeOK
    <3> QED BY <3>1, <3>2
  <2> QED BY <1>1, <2>1, <2>2
<1>7. CASE Shutdown \/ Exit
  BY <1>1, <1>7, ShrinksLine DEF Shutdown, Exit, tables, wires
<1>8. ASSUME NEW s \in Socks, Cut(s)
      PROVE  Shrinks
  <2>1. PICK n \in 0 .. Len(outbox[s]) : outbox' = [outbox EXCEPT ![s] = SubSeq(outbox[s], 1, n)]
    BY <1>8 DEF Cut
  <2>2. outbox[s] \in Seq(Frames)
    BY DEF TypeOK
  <2>3. outbox'[s] = SubSeq(outbox[s], 1, n) /\ \A x \in Socks \ {s} : outbox'[x] = outbox[x]
    BY <2>1 DEF TypeOK
  <2>4. \A i \in 1 .. Len(outbox'[s]) :
           i + 0 \in 1 .. Len(outbox[s]) /\ outbox'[s][i] = outbox[s][i + 0]
    BY <2>2, <2>3, PrefixFacts
  <2> QED BY <1>2, <1>8, <2>3, <2>4 DEF Cut
<1>9. ASSUME NEW s \in Socks, Serve(s)
      PROVE  HubLine' /\ \A n \in Nat : Later(n) => Later(n)'
  <2>1. UNCHANGED <<notes, lsn, hand>>
    BY <1>9 DEF Serve, tables
  <2>2. CASE outbox' = outbox
    BY <1>1, <2>1, <2>2, ShrinksLine
  <2>3. CASE outbox' # outbox
    <3>1. Head(inbox[s]) \in Calls
      BY <1>9 DEF Serve, TypeOK
    <3>2. outbox' = [outbox EXCEPT ![s] = Append(outbox[s], Head(inbox[s]))]
      BY <1>9, <2>3 DEF Serve
    <3> QED BY <2>1, <3>1, <3>2, GrowsLine DEF Frames
  <2> QED BY <2>2, <2>3
<1>10. ASSUME NEW s \in Socks, Notify(s)
       PROVE  HubLine' /\ \A n \in Nat : Later(n) => Later(n)'
  <2>1. /\ outbox' = [outbox EXCEPT ![s] = Append(outbox[s], notes + 1)]
        /\ notes' = notes + 1 /\ UNCHANGED <<lsn, hand>>
    BY <1>10 DEF Notify, tables
  <2>2. notes + 1 \in Notes
    BY <1>10, BoundsAssumption DEF Notify, Notes, TypeOK
  <2> QED BY <2>1, <2>2, GrowsLine DEF Frames
<1> QED BY <1>1, <1>3, <1>4, <1>5, <1>6, <1>7, <1>8, <1>9, <1>10, ShrinksLine, ListenNoteLine
        DEF Next, ListenStep, ListenLocal, SockStep

Relaying == relay \in {"work", "send"}

LoadInOrder == Relaying => load \in Notes /\ Later(load)

SentInOrder ==
    \A i \in 1 .. Len(sent) :
        /\ sent[i] \in Notes \cup Calls
        /\ sent[i] \in Notes =>
              /\ Later(sent[i])
              /\ Relaying => sent[i] < load
              /\ \A j \in 1 .. i - 1 : sent[j] \in Notes => sent[j] < sent[i]
        /\ sent[i] \in Calls =>
              /\ post[sent[i]] = "done"
              /\ \A j \in 1 .. i - 1 : sent[j] # sent[i]

EdgeLine == HubLine /\ LoadInOrder /\ SentInOrder

LEMMA CalmLine ==
    ASSUME EdgeLine, PipelineTypes, HubLine', sent' = sent,
           \A n \in Nat : Later(n) => Later(n)',
           Relaying' => Relaying /\ load' = load,
           \A c \in Calls : post[c] = "done" => post'[c] = "done"
    PROVE  EdgeLine'
<1> USE DEF EdgeLine
<1>1. \A n \in Notes : n \in Nat
  BY DEF Notes
<1>2. LoadInOrder'
  <2> SUFFICES ASSUME Relaying', load \in Notes, Later(load), load' = load
               PROVE  load' \in Notes /\ Later(load)'
    BY DEF LoadInOrder
  <2>1. load \in Nat
    BY <1>1
  <2> QED BY <2>1 DEF Later
<1>3. SentInOrder'
  <2> SUFFICES ASSUME NEW i \in 1 .. Len(sent)
               PROVE  /\ sent[i] \in Notes \cup Calls
                      /\ sent[i] \in Notes =>
                            /\ Later(sent[i])'
                            /\ Relaying' => sent[i] < load'
                            /\ \A j \in 1 .. i - 1 : sent[j] \in Notes => sent[j] < sent[i]
                      /\ sent[i] \in Calls =>
                            /\ post'[sent[i]] = "done"
                            /\ \A j \in 1 .. i - 1 : sent[j] # sent[i]
    BY DEF SentInOrder
  <2>1. sent[i] \in Notes => Later(sent[i])'
    <3> SUFFICES ASSUME sent[i] \in Notes PROVE Later(sent[i])'
      OBVIOUS
    <3>1. Later(sent[i]) /\ sent[i] \in Nat
      BY <1>1 DEF SentInOrder
    <3> QED BY <3>1 DEF Later
  <2> QED BY <2>1 DEF SentInOrder
<1> QED BY <1>2, <1>3

LEMMA TakeLine ==
    ASSUME TypeOK, EdgeLine, PipelineTypes, HubLine', NEW s \in Socks,
           \A x \in Socks : x = s,
           \A n \in Nat : Later(n) => Later(n)', RelayTake(s)
    PROVE  EdgeLine'
<1> USE DEF EdgeLine
<1>1. /\ lsn[s] = "hold" /\ load' = hand[s] /\ lsn' = [lsn EXCEPT ![s] = "read"]
      /\ relay = "idle" /\ relay' = "work" /\ UNCHANGED <<outbox, notes, post, sent>>
  BY DEF RelayTake, HandOver, wires
<1>2. /\ hand[s] \in Notes /\ hand[s] <= notes
      /\ \A i \in 1 .. Len(outbox[s]) : outbox[s][i] \in Notes => hand[s] < outbox[s][i]
  BY <1>1 DEF HubLine, HandInOrder
<1>3. lsn'[s] # "hold"
  BY <1>1 DEF TypeOK
<1>4. LoadInOrder'
  BY <1>1, <1>2, <1>3 DEF LoadInOrder, Later
<1>5. SentInOrder'
  <2> SUFFICES ASSUME NEW i \in 1 .. Len(sent)
               PROVE  /\ sent[i] \in Notes \cup Calls
                      /\ sent[i] \in Notes =>
                            /\ Later(sent[i])'
                            /\ sent[i] < hand[s]
                            /\ \A j \in 1 .. i - 1 : sent[j] \in Notes => sent[j] < sent[i]
                      /\ sent[i] \in Calls =>
                            /\ post[sent[i]] = "done"
                            /\ \A j \in 1 .. i - 1 : sent[j] # sent[i]
    BY <1>1 DEF SentInOrder
  <2>1. sent[i] \in Notes => Later(sent[i])
    BY DEF SentInOrder
  <2>2. sent[i] \in Notes => Later(sent[i])' /\ sent[i] < hand[s]
    BY <1>1, <1>3, <2>1 DEF Later
  <2> QED BY <2>2 DEF SentInOrder
<1> QED BY <1>4, <1>5

(* A value is published: the relay's notification or that of a read call.  *)
LEMMA SendLine ==
    ASSUME EdgeLine, PipelineTypes, HubLine', NEW v,
           sent' = Append(sent, v), UNCHANGED vars,
           \/ v \in Notes /\ Relaying /\ v = load /\ ~Relaying' /\ post' = post
           \/ /\ v \in Calls /\ post[v] = "send" /\ post' = [post EXCEPT ![v] = "done"]
              /\ relay' = relay /\ load' = load
    PROVE  EdgeLine'
<1> USE DEF EdgeLine
<1>0. /\ sent \in Seq(Nat \cup Calls) /\ Len(sent) \in Nat /\ v \in Nat \cup Calls
      /\ \A c \in Calls : c \notin Notes
  BY BoundsAssumption DEF PipelineTypes, Notes
<1>1. /\ Len(sent') \in Nat
      /\ \A i \in 1 .. Len(sent') : \/ i \in 1 .. Len(sent) /\ sent'[i] = sent[i]
                                    \/ i = Len(sent) + 1 /\ sent'[i] = v
  <2>1. sent' \in Seq(Nat \cup Calls)
    BY <1>0, AppendFacts
  <2> QED BY <1>0, <2>1, AppendFacts
<1>2. \A n : Later(n) => n <= notes' /\ (\A s \in Socks : lsn'[s] = "hold" => n < hand'[s])
                           /\ \A s \in Socks : \A i \in 1 .. Len(outbox'[s]) :
                                 outbox'[s][i] \in Notes => n < outbox'[s][i]
  BY DEF Later, vars, tables, wires
<1>3. LoadInOrder'
  <2>1. Relaying' => Relaying /\ load' = load
    BY DEF Relaying
  <2> QED BY <1>2, <2>1 DEF LoadInOrder, Later
<1>4. \A c \in Calls : post[c] = "done" => post'[c] = "done"
  BY DEF PipelineTypes
<1>5. SentInOrder'
  <2> SUFFICES ASSUME NEW i \in 1 .. Len(sent')
               PROVE  /\ sent'[i] \in Notes \cup Calls
                      /\ sent'[i] \in Notes =>
                            /\ Later(sent[i])'
                            /\ Relaying' => sent'[i] < load'
                            /\ \A j \in 1 .. i - 1 : sent'[j] \in Notes => sent'[j] < sent'[i]
                      /\ sent'[i] \in Calls =>
                            /\ post'[sent'[i]] = "done"
                            /\ \A j \in 1 .. i - 1 : sent'[j] # sent'[i]
    BY DEF SentInOrder
  <2>1. i <= Len(sent) + 1
    BY <1>0, <1>1
  <2>2. \A j \in 1 .. i - 1 : j \in 1 .. Len(sent') /\ j # Len(sent) + 1
    BY <1>0, <1>1, <2>1
  <2>3. \A j \in 1 .. i - 1 : j \in 1 .. Len(sent) /\ sent'[j] = sent[j]
    BY <1>1, <2>2
  <2>4. CASE i \in 1 .. Len(sent) /\ sent'[i] = sent[i]
    <3>1. sent'[i] \in Notes => Later(sent[i])'
      BY <1>2, <2>4 DEF SentInOrder, Later
    <3>2. Relaying' => Relaying /\ load' = load
      BY DEF Relaying
    <3> QED BY <1>4, <2>3, <2>4, <3>1, <3>2 DEF SentInOrder
  <2>5. CASE sent'[i] = v /\ v \in Notes
    <3>1. Later(sent[i])'
      BY <1>2, <1>0, <2>5 DEF LoadInOrder, Later
    <3>2. /\ v = load /\ Relaying /\ ~Relaying'
          /\ \A j \in 1 .. i - 1 : sent'[j] \in Notes => sent'[j] < load
      BY <1>0, <2>3, <2>5 DEF SentInOrder
    <3> QED BY <1>0, <2>5, <3>1, <3>2
  <2>6. CASE sent'[i] = v /\ v \in Calls
    <3>1. post'[v] = "done" /\ post[v] # "done"
      BY <1>0, <2>6 DEF PipelineTypes
    <3>2. \A j \in 1 .. i - 1 : sent'[j] # v
      BY <2>3, <2>6, <3>1 DEF SentInOrder
    <3> QED BY <1>0, <2>6, <3>1, <3>2
  <2> QED BY <1>1, <2>4, <2>5, <2>6
<1> QED BY <1>3, <1>5

LEMMA EdgeLineStep ==
    ASSUME TypeOK, PublishInv, EdgeLine, \A s, t \in Socks : s = t, [EdgeNext]_edgeVars
    PROVE  EdgeLine'
<1> USE DEF PublishInv
<1>0. HubLine' /\ \A n \in Nat : Later(n) => Later(n)'
  BY EdgeStepIsHubStep, HubLineStep DEF EdgeLine
<1>1. CASE UNCHANGED edgeVars \/ HubAlone \/ StartMqtt \/ PublishDone
  <2>1. UNCHANGED <<relay, load, post, sent>>
    BY <1>1 DEF edgeVars, HubAlone, StartMqtt, PublishDone, pipeline
  <2> QED BY <1>0, <2>1, CalmLine DEF Relaying
<1>2. CASE StartRpc \/ RelayEnd \/ RelaySkip \/ RelayStore
  <2>1. UNCHANGED <<post, sent>> /\ (Relaying' => Relaying /\ load' = load)
    BY <1>2 DEF StartRpc, RelayEnd, RelaySkip, RelayStore, Relaying
  <2> QED BY <1>0, <2>1, CalmLine
<1>3. ASSUME NEW s \in Socks, RelayTake(s)
      PROVE  EdgeLine'
  BY <1>0, <1>3, TakeLine
<1>4. CASE RelaySend
  <2>1. /\ Relaying /\ ~Relaying' /\ post' = post /\ sent' = Append(sent, load)
        /\ load \in Notes /\ UNCHANGED vars
    BY <1>4 DEF RelaySend, Publish, Relaying, EdgeLine, LoadInOrder
  <2> QED BY <1>0, <2>1, SendLine
<1>5. ASSUME NEW c \in Calls, PostStore(c) \/ PostError(c)
      PROVE  EdgeLine'
  <2>1. /\ post[c] = "none" /\ UNCHANGED <<relay, load, sent>>
        /\ \E p \in {"send", "done"} : post' = [post EXCEPT ![c] = p]
    BY <1>5 DEF PostStore, PostError, Post
  <2>2. \A d \in Calls : post[d] = "done" => post'[d] = "done"
    BY <2>1 DEF PipelineTypes
  <2> QED BY <1>0, <2>1, <2>2, CalmLine DEF Relaying
<1>6. ASSUME NEW c \in Calls, PostSend(c)
      PROVE  EdgeLine'
  BY <1>0, <1>6, SendLine DEF PostSend, Post, Publish
<1> QED BY <1>1, <1>2, <1>3, <1>4, <1>5, <1>6 DEF EdgeNext, RelayStep, PostStep

(* With one connection, every reading is published once and in the order   *)
(* of the connector, for any capacity of the wires and any number of       *)
(* notifications and calls.                                                *)
THEOREM PublishedInOrder ==
  ASSUME \A s, t \in Socks : s = t
  PROVE  EdgeSpec => []PublishedOnceInOrder
<1>1. EdgeInit => EdgeLine
  BY DEF EdgeInit, Init, EdgeLine, HubLine, WireInOrder, HandInOrder, LoadInOrder,
     SentInOrder, Relaying
<1>2. TypeOK /\ PublishInv /\ EdgeLine /\ [EdgeNext]_edgeVars => EdgeLine'
  BY EdgeLineStep
<1>3. TypeOK /\ PublishInv /\ EdgeLine => PublishedOnceInOrder
  <2> SUFFICES ASSUME PublishInv, EdgeLine,
                      NEW i \in 1 .. Len(sent), NEW j \in 1 .. Len(sent), i < j
               PROVE  /\ sent[i] # sent[j]
                      /\ sent[i] \in Notes /\ sent[j] \in Notes => sent[i] < sent[j]
    BY DEF PublishedOnceInOrder
  <2>1. i \in 1 .. j - 1 /\ \A c \in Calls : c \notin Notes
    BY BoundsAssumption
  <2>2. sent[i] \in Notes /\ sent[j] \in Notes => sent[i] < sent[j] /\ sent[i] \in Nat
    BY <2>1 DEF EdgeLine, SentInOrder, Notes
  <2> QED BY <2>1, <2>2 DEF EdgeLine, SentInOrder
<1> QED BY <1>1, <1>2, <1>3, PublishAlways, PTL DEF EdgeSpec
=============================================================================
