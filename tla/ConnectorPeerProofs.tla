------------------------- MODULE ConnectorPeerProofs -------------------------
(***************************************************************************)
(* Theorems about a connector's end of the websocket, for any requests,    *)
(* subscriptions, notifications and connections.  The requests of a        *)
(* connection stand in one line: the answers it has accepted, the request  *)
(* the server works on, the requests still to be read.  And the writer of  *)
(* a frame is on the newest connection that was ever written to.           *)
(***************************************************************************)
EXTENDS ConnectorPeer, TLAPS

Working == {"call", "handle", "answer", "write"}

LEMMA AppendFacts ==
    ASSUME NEW S, NEW s \in Seq(S), NEW e \in S
    PROVE  /\ Append(s, e) \in Seq(S)
           /\ Len(Append(s, e)) = Len(s) + 1
           /\ \A i \in 1 .. Len(s) : Append(s, e)[i] = s[i]
           /\ Append(s, e)[Len(s) + 1] = e
OBVIOUS

LEMMA TailFacts ==
    ASSUME NEW S, NEW s \in Seq(S), s # <<>>
    PROVE  /\ Head(s) = s[1] /\ 1 \in 1 .. Len(s) /\ Head(s) \in S
           /\ Tail(s) \in Seq(S)
           /\ \A i \in 1 .. Len(Tail(s)) : /\ i + 1 \in 1 .. Len(s)
                                           /\ Tail(s)[i] = s[i + 1]
OBVIOUS

LEMMA FrameFacts ==
    /\ \A f \in Frames : IsAnswer(f) => f[2] \in Requests
    /\ \A f \in Frames : f[1] = "note" => f[2] \in Subs /\ f[3] \in Notes
    /\ <<"parse error">> \in Frames /\ ~IsAnswer(<<"parse error">>)
    /\ <<"parse error">>[1] # "note"
    /\ \A r \in Requests : /\ <<"answer", r>> \in Frames /\ <<"answer", r>>[2] = r
                           /\ <<"answer", r>>[1] # "note"
    /\ \A s \in Subs, n \in Notes : /\ <<"note", s, n>> \in Frames
                                    /\ ~IsAnswer(<<"note", s, n>>)
                                    /\ <<"note", s, n>>[2] = s
                                    /\ <<"note", s, n>>[3] = n
<1>1. ASSUME NEW f \in Frames
      PROVE  \/ f = <<"parse error">>
             \/ \E r \in Requests : f = <<"answer", r>>
             \/ \E s \in Subs, n \in Notes : f = <<"note", s, n>>
  <2>1. CASE f = <<"parse error">>
    BY <2>1
  <2>2. CASE f \in {"answer"} \X Requests
    <3>1. f = <<f[1], f[2]>> /\ f[1] = "answer" /\ f[2] \in Requests
      BY <2>2
    <3> QED BY <3>1
  <2>3. CASE f \in {"note"} \X Subs \X Notes
    <3>1. f = <<f[1], f[2], f[3]>> /\ f[1] = "note" /\ f[2] \in Subs /\ f[3] \in Notes
      BY <2>3
    <3> QED BY <3>1
  <2> QED BY <2>1, <2>2, <2>3 DEF Frames
<1>2. <<"parse error">>[1] = "parse error"
  OBVIOUS
<1>3. \A r \in Requests : <<"answer", r>>[1] = "answer" /\ <<"answer", r>>[2] = r
  OBVIOUS
<1>4. \A s \in Subs, n \in Notes : /\ <<"note", s, n>>[1] = "note"
                                   /\ <<"note", s, n>>[2] = s
                                   /\ <<"note", s, n>>[3] = n
  OBVIOUS
<1>5. ASSUME NEW f \in Frames, IsAnswer(f)
      PROVE  f[2] \in Requests
  <2>1. f[1] = "answer"
    BY <1>5 DEF IsAnswer
  <2>2. f # <<"parse error">>
    BY <1>2, <2>1
  <2>3. ~\E s \in Subs, n \in Notes : f = <<"note", s, n>>
    BY <1>4, <2>1
  <2>4. PICK r \in Requests : f = <<"answer", r>>
    BY <1>1, <2>2, <2>3
  <2> QED BY <1>3, <2>4
<1>6. ASSUME NEW f \in Frames, f[1] = "note"
      PROVE  f[2] \in Subs /\ f[3] \in Notes
  <2>1. f # <<"parse error">>
    BY <1>2, <1>6
  <2>2. ~\E r \in Requests : f = <<"answer", r>>
    BY <1>3, <1>6
  <2>3. PICK s \in Subs, n \in Notes : f = <<"note", s, n>>
    BY <1>1, <2>1, <2>2
  <2> QED BY <1>4, <2>3
<1>7. <<"parse error">> \in Frames
  BY DEF Frames
<1>8. \A r \in Requests : <<"answer", r>> \in Frames
  BY DEF Frames
<1>9. \A s \in Subs, n \in Notes : <<"note", s, n>> \in Frames
  BY DEF Frames
<1>10. ~IsAnswer(<<"parse error">>) /\ <<"parse error">>[1] # "note"
  BY <1>2 DEF IsAnswer
<1>11. \A r \in Requests : <<"answer", r>>[1] # "note"
  BY <1>3
<1>12. \A s \in Subs, n \in Notes : ~IsAnswer(<<"note", s, n>>)
  BY <1>4 DEF IsAnswer
<1> QED BY <1>3, <1>4, <1>5, <1>6, <1>7, <1>8, <1>9, <1>10, <1>11, <1>12

(* Steps that read and write nothing.                                      *)
Still ==
    /\ UNCHANGED <<ws, inbox, frames, req, writer, target, sender, noted, asked>>
    /\ link' \in [Conns -> {"new", "up", "cut"}]
    /\ broken' \subseteq Conns
    /\ life' \in {"up", "cancelled", "closed", "exited", "dead"}
    /\ \/ server' = server
       \/ server # "write" /\ server' \in {"reconnect", "stopped"}
       \/ server \in {"call", "handle"} /\ server' \in {"handle", "answer"}

LEMMA StepCases ==
    ASSUME PeerTypeOK, [PeerNext]_peerVars
    PROVE  \/ Still \/ Ask \/ Read \/ NextWriter \/ WriteAnswer \/ Reconnect
           \/ \E s \in Subs : Begin(s) \/ SendWriter(s) \/ WriteNote(s)
<1>1. CASE UNCHANGED peerVars
  BY <1>1 DEF peerVars, transport, serving, writing, sending, Still, PeerTypeOK
<1>2. CASE Cut \/ CloseWs
  <2>1. link' = [link EXCEPT ![ws] = "cut"] /\ broken' \in {broken, broken \cup {ws}}
    BY <1>2 DEF Cut, CloseWs
  <2>2. link' \in [Conns -> {"new", "up", "cut"}] /\ broken' \subseteq Conns
    BY <2>1 DEF PeerTypeOK
  <2> QED BY <1>2, <2>2 DEF Cut, CloseWs, serving, writing, sending, Still, PeerTypeOK
<1>3. CASE ReadFails \/ NoWriter \/ GiveUp
  BY <1>3 DEF ReadFails, NoWriter, GiveUp, transport, writing, sending, Still, PeerTypeOK
<1>4. CASE Enter \/ Leave
  BY <1>4 DEF Enter, Leave, transport, writing, sending, Still, PeerTypeOK
<1>5. CASE Cancel \/ Exit
  BY <1>5 DEF Cancel, Exit, transport, serving, writing, sending, Still, PeerTypeOK
<1> QED BY <1>1, <1>2, <1>3, <1>4, <1>5 DEF PeerNext, Serve

-----------------------------------------------------------------------------
(* Types                                                                   *)

(* A frame is the last one of the writer's connection, or vanishes.        *)
LEMMA WriteFacts ==
    ASSUME PeerTypeOK, NEW f \in Frames,
           WriteVal(f)
    PROVE  /\ frames' \in [Conns -> Seq(Frames)]
           /\ \A c \in Conns : \A i \in 1 .. Len(frames'[c]) :
                 \/ i \in 1 .. Len(frames[c]) /\ frames'[c][i] = frames[c][i]
                 \/ c = target /\ i = Len(frames[c]) + 1 /\ frames'[c][i] = f
           /\ broken' \subseteq Conns
           /\ life' \in {life, "dead"}
<1> USE DEF PeerTypeOK
<1>1. CASE Accepted(f)
  <2>1. /\ frames' = [frames EXCEPT ![target] = Append(frames[target], f)]
        /\ UNCHANGED <<broken, life>>
    BY <1>1 DEF Accepted
  <2>2. frames[target] \in Seq(Frames)
    OBVIOUS
  <2>3. /\ frames'[target] = Append(frames[target], f)
        /\ \A c \in Conns \ {target} : frames'[c] = frames[c]
        /\ frames' \in [Conns -> Seq(Frames)]
    BY <2>1, <2>2, AppendFacts
  <2>4. ASSUME NEW i \in 1 .. Len(frames'[target])
        PROVE  \/ i \in 1 .. Len(frames[target]) /\ frames'[target][i] = frames[target][i]
               \/ i = Len(frames[target]) + 1 /\ frames'[target][i] = f
    BY <2>2, <2>3, <2>4, AppendFacts
  <2> QED BY <2>1, <2>3, <2>4
<1>2. CASE Vanished \/ TooBig(f) \/ Unwritable
  BY <1>2 DEF Vanished, TooBig, Unwritable
<1> QED BY <1>1, <1>2 DEF WriteVal

LEMMA AskFacts ==
    ASSUME PeerTypeOK, Ask
    PROVE  /\ asked' \in Seq(Conns) /\ Len(asked') = Len(asked) + 1
           /\ asked'[Len(asked) + 1] = ws
           /\ \A r \in 1 .. Len(asked) : asked'[r] = asked[r]
           /\ inbox' \in [Conns -> Seq(Requests)]
           /\ \A c \in Conns : \A i \in 1 .. Len(inbox'[c]) :
                 \/ i \in 1 .. Len(inbox[c]) /\ inbox'[c][i] = inbox[c][i]
                 \/ c = ws /\ i = Len(inbox[c]) + 1 /\ inbox'[c][i] = Len(asked) + 1
<1> USE DEF PeerTypeOK
<1>1. Len(asked) + 1 \in Requests
  BY PeerBounds DEF Ask, Requests
<1>2. asked' = Append(asked, ws)
  BY DEF Ask
<1>3. inbox' = [inbox EXCEPT ![ws] = Append(inbox[ws], Len(asked) + 1)]
  BY DEF Ask
<1>4. inbox[ws] \in Seq(Requests)
  OBVIOUS
<1>5. /\ inbox'[ws] = Append(inbox[ws], Len(asked) + 1)
      /\ \A c \in Conns \ {ws} : inbox'[c] = inbox[c]
      /\ inbox' \in [Conns -> Seq(Requests)]
  BY <1>1, <1>3, <1>4, AppendFacts
<1>6. ASSUME NEW i \in 1 .. Len(inbox'[ws])
      PROVE  \/ i \in 1 .. Len(inbox[ws]) /\ inbox'[ws][i] = inbox[ws][i]
             \/ i = Len(inbox[ws]) + 1 /\ inbox'[ws][i] = Len(asked) + 1
  BY <1>1, <1>4, <1>5, <1>6, AppendFacts
<1>7. /\ asked' \in Seq(Conns) /\ Len(asked') = Len(asked) + 1
      /\ asked'[Len(asked) + 1] = ws
      /\ \A r \in 1 .. Len(asked) : asked'[r] = asked[r]
  BY <1>2, AppendFacts
<1> QED BY <1>5, <1>6, <1>7

LEMMA ReadFacts ==
    ASSUME PeerTypeOK, Read
    PROVE  /\ inbox' \in [Conns -> Seq(Requests)]
           /\ 1 \in 1 .. Len(inbox[ws])
           /\ req' \in {0, inbox[ws][1]} /\ inbox[ws][1] \in Requests
           /\ \A c \in Conns \ {ws} : inbox'[c] = inbox[c]
           /\ \A i \in 1 .. Len(inbox'[ws]) : /\ i + 1 \in 1 .. Len(inbox[ws])
                                              /\ inbox'[ws][i] = inbox[ws][i + 1]
<1> USE DEF PeerTypeOK
<1>1. inbox[ws] \in Seq(Requests) /\ inbox[ws] # <<>>
  BY DEF Read
<1>2. inbox' = [inbox EXCEPT ![ws] = Tail(inbox[ws])]
  BY DEF Read
<1>3. /\ inbox'[ws] = Tail(inbox[ws])
      /\ \A c \in Conns \ {ws} : inbox'[c] = inbox[c]
      /\ inbox' \in [Conns -> Seq(Requests)]
  BY <1>1, <1>2, TailFacts
<1>4. req' \in {0, Head(inbox[ws])}
  BY DEF Read
<1> QED BY <1>1, <1>3, <1>4, TailFacts

LEMMA AnswerFacts ==
    ASSUME PeerTypeOK
    PROVE  /\ Answer(req) \in Frames /\ Answer(req)[1] # "note"
           /\ IsAnswer(Answer(req)) => req \in Requests /\ Answer(req)[2] = req
<1>1. CASE req \in Malformed \cup {0}
  BY <1>1, FrameFacts DEF Answer
<1>2. CASE req \notin Malformed \cup {0}
  <2>1. req \in Requests
    BY <1>2, PeerBounds DEF PeerTypeOK, Requests
  <2> QED BY <1>2, <2>1, FrameFacts DEF Answer
<1> QED BY <1>1, <1>2

(* A subscription that is in Send works on a notification.                 *)
SendingIsNoted == \A s \in Subs : sender[s] # "idle" => noted[s] # 0

TypeInv == PeerTypeOK /\ SendingIsNoted

LEMMA NoteFacts ==
    ASSUME TypeInv, NEW s \in Subs, sender[s] = "write"
    PROVE  <<"note", s, noted[s]>> \in Frames /\ noted[s] \in Notes
<1>1. noted[s] \in Notes
  BY PeerBounds DEF TypeInv, SendingIsNoted, PeerTypeOK, Notes
<1> QED BY <1>1, FrameFacts

(* The lock: who writes holds it.                                          *)
LockHeld ==
    /\ server = "write" => writer = "server"
    /\ \A s \in Subs : sender[s] = "write" => writer = s

LEMMA LockStep ==
    ASSUME TypeInv, [PeerNext]_peerVars
    PROVE  LockHeld'
<1> USE PeerRequests DEF TypeInv, PeerTypeOK, LockHeld
<1>1. CASE Still
  BY <1>1 DEF Still
<1>2. CASE Ask \/ Read
  BY <1>2 DEF Ask, Read, serving, writing, sending
<1>3. CASE NextWriter
  BY <1>3 DEF NextWriter, Take, sending
<1>4. CASE WriteAnswer
  BY <1>4 DEF WriteAnswer, sending
<1>5. CASE Reconnect
  BY <1>5 DEF Reconnect, writing, sending
<1>6. ASSUME NEW s \in Subs, Begin(s)
      PROVE  LockHeld'
  BY <1>6 DEF Begin, Goes, serving, writing
<1>7. ASSUME NEW s \in Subs, SendWriter(s)
      PROVE  LockHeld'
  BY <1>7 DEF SendWriter, Take, Goes, serving
<1>8. ASSUME NEW s \in Subs, WriteNote(s)
      PROVE  LockHeld'
  BY <1>8 DEF WriteNote, Goes, serving
<1> QED BY <1>1, <1>2, <1>3, <1>4, <1>5, <1>6, <1>7, <1>8, StepCases

LEMMA TypeStep ==
    ASSUME TypeInv, [PeerNext]_peerVars
    PROVE  TypeInv'
<1> USE PeerBounds, PeerRequests DEF TypeInv, PeerTypeOK, SendingIsNoted
<1>0. LockHeld'
  BY LockStep
<1>1. CASE Still
  BY <1>0, <1>1 DEF Still, LockHeld
<1>2. CASE Ask
  BY <1>0, <1>2, AskFacts DEF Ask, serving, writing, sending, LockHeld
<1>3. CASE Read
  <2>1. req' \in 0 .. MaxRequests
    <3>1. req' \in {0} \cup Requests
      BY <1>3, ReadFacts
    <3> HIDE DEF TypeInv, PeerTypeOK, SendingIsNoted
    <3> QED BY <3>1, PeerBounds DEF Requests
  <2> QED BY <1>0, <1>3, <2>1, ReadFacts DEF Read, writing, sending, LockHeld
<1>4. CASE NextWriter
  BY <1>0, <1>4 DEF NextWriter, Take, transport, sending, LockHeld
<1>5. CASE WriteAnswer
  <2>1. /\ frames' \in [Conns -> Seq(Frames)] /\ broken' \subseteq Conns
        /\ life' \in {life, "dead"}
    BY <1>5, WriteFacts, AnswerFacts DEF WriteAnswer
  <2> QED BY <1>0, <1>5, <2>1 DEF WriteAnswer, sending, LockHeld
<1>6. CASE Reconnect
  <2>1. ws + 1 \in Conns
    BY <1>6 DEF Reconnect, Conns
  <2>2. link' \in [Conns -> {"new", "up", "cut"}]
    BY <1>6, <2>1 DEF Reconnect
  <2> QED BY <1>0, <1>6, <2>1, <2>2 DEF Reconnect, writing, sending, LockHeld
<1>7. ASSUME NEW s \in Subs, Begin(s)
      PROVE  TypeInv'
  BY <1>0, <1>7 DEF Begin, Goes, transport, serving, writing, LockHeld
<1>8. ASSUME NEW s \in Subs, SendWriter(s)
      PROVE  TypeInv'
  BY <1>0, <1>8 DEF SendWriter, Take, Goes, transport, serving, LockHeld
<1>9. ASSUME NEW s \in Subs, WriteNote(s)
      PROVE  TypeInv'
  <2>1. /\ frames' \in [Conns -> Seq(Frames)] /\ broken' \subseteq Conns
        /\ life' \in {life, "dead"}
    BY <1>9, WriteFacts, NoteFacts DEF WriteNote
  <2> QED BY <1>0, <1>9, <2>1 DEF WriteNote, Goes, serving, LockHeld
<1> QED BY <1>1, <1>2, <1>3, <1>4, <1>5, <1>6, <1>7, <1>8, <1>9, StepCases

LEMMA TypeAlways == PeerSpec => []TypeInv
<1>1. PeerInit => PeerTypeOK
  <2>1. 1 \in Conns
    BY PeerBounds DEF Conns
  <2> QED BY <2>1, PeerBounds DEF PeerInit, PeerTypeOK
<1>2. PeerInit => SendingIsNoted
  BY DEF PeerInit, SendingIsNoted
<1> QED BY <1>1, <1>2, TypeStep, PTL DEF PeerSpec, TypeInv

(* Types, for any requests, subscriptions and connections; and only who    *)
(* holds the writer lock writes.                                           *)
THEOREM PeerTypeCorrect == PeerSpec => []PeerTypeOK
BY TypeAlways, PTL DEF TypeInv

-----------------------------------------------------------------------------
(* Answers                                                                 *)

InboxInOrder ==
    \A c \in Conns : \A i \in 1 .. Len(inbox[c]) :
        /\ inbox[c][i] \in 1 .. Len(asked)
        /\ asked[inbox[c][i]] = c
        /\ \A j \in 1 .. i - 1 : inbox[c][j] < inbox[c][i]

AnsweredInOrder ==
    \A c \in Conns : \A i \in 1 .. Len(frames[c]) :
        IsAnswer(frames[c][i]) =>
            /\ frames[c][i][2] \in 1 .. Len(asked)
            /\ asked[frames[c][i][2]] = c
            /\ \A j \in 1 .. i - 1 :
                  IsAnswer(frames[c][j]) => frames[c][j][2] < frames[c][i][2]
            /\ \A j \in 1 .. Len(inbox[c]) : frames[c][i][2] < inbox[c][j]

WorksInOrder ==
    server \in Working /\ req # 0 =>
        /\ req \in 1 .. Len(asked)
        /\ asked[req] = ws
        /\ \A j \in 1 .. Len(inbox[ws]) : req < inbox[ws][j]
        /\ \A i \in 1 .. Len(frames[ws]) :
              IsAnswer(frames[ws][i]) => frames[ws][i][2] < req

WritesHere == server = "write" => target = ws

LineInv == InboxInOrder /\ AnsweredInOrder /\ WorksInOrder /\ WritesHere

LEMMA AskLine ==
    ASSUME TypeInv, LineInv, Ask
    PROVE  LineInv'
<1> USE DEF TypeInv, LineInv
<1>1. UNCHANGED <<ws, frames, server, req, target>>
  BY DEF Ask, serving, writing
<1>2. /\ Len(asked) \in Nat /\ Len(asked') = Len(asked) + 1
      /\ asked'[Len(asked) + 1] = ws
      /\ \A r \in 1 .. Len(asked) : r \in 1 .. Len(asked') /\ asked'[r] = asked[r]
  <2>1. asked \in Seq(Conns)
    BY DEF PeerTypeOK
  <2> QED BY <2>1, AskFacts
<1>3. \A c \in Conns : Len(inbox[c]) \in Nat
  BY DEF PeerTypeOK
<1>4. ws \in Conns
  BY DEF PeerTypeOK
<1>5. \A c \in Conns : \A i \in 1 .. Len(inbox'[c]) :
         \/ i \in 1 .. Len(inbox[c]) /\ inbox'[c][i] = inbox[c][i]
         \/ c = ws /\ i = Len(inbox[c]) + 1 /\ inbox'[c][i] = Len(asked) + 1
  BY AskFacts
<1>6. InboxInOrder'
  <2> SUFFICES ASSUME NEW c \in Conns, NEW i \in 1 .. Len(inbox'[c])
               PROVE  /\ inbox'[c][i] \in 1 .. Len(asked')
                      /\ asked'[inbox'[c][i]] = c
                      /\ \A j \in 1 .. i - 1 : inbox'[c][j] < inbox'[c][i]
    BY DEF InboxInOrder
  <2>1. inbox' \in [Conns -> Seq(Requests)]
    BY AskFacts
  <2>2. Len(inbox'[c]) \in Nat
    BY <2>1
  <2>3. \A j \in 1 .. i - 1 : j \in 1 .. Len(inbox'[c])
    BY <2>2
  <2>4. CASE i \in 1 .. Len(inbox[c]) /\ inbox'[c][i] = inbox[c][i]
    <3>1. \A j \in 1 .. i - 1 : j # Len(inbox[c]) + 1
      BY <1>3, <2>4
    <3>2. \A j \in 1 .. i - 1 : inbox'[c][j] = inbox[c][j]
      BY <1>5, <2>3, <3>1
    <3> QED BY <1>2, <2>4, <3>2 DEF InboxInOrder
  <2>5. CASE c = ws /\ i = Len(inbox[c]) + 1 /\ inbox'[c][i] = Len(asked) + 1
    <3>1. \A j \in 1 .. i - 1 : j \in 1 .. Len(inbox[c]) /\ inbox'[c][j] = inbox[c][j]
      BY <1>3, <1>5, <2>3, <2>5
    <3>2. \A j \in 1 .. i - 1 : inbox[c][j] < Len(asked) + 1
      BY <1>2, <3>1 DEF InboxInOrder
    <3> QED BY <1>2, <2>5, <3>1, <3>2
  <2> QED BY <1>5, <2>4, <2>5
<1>7. AnsweredInOrder'
  <2> SUFFICES ASSUME NEW c \in Conns, NEW i \in 1 .. Len(frames[c]), IsAnswer(frames[c][i])
               PROVE  /\ frames[c][i][2] \in 1 .. Len(asked')
                      /\ asked'[frames[c][i][2]] = c
                      /\ \A j \in 1 .. i - 1 :
                            IsAnswer(frames[c][j]) => frames[c][j][2] < frames[c][i][2]
                      /\ \A j \in 1 .. Len(inbox'[c]) : frames[c][i][2] < inbox'[c][j]
    BY <1>1 DEF AnsweredInOrder
  <2> QED BY <1>2, <1>5 DEF AnsweredInOrder
<1>8. WorksInOrder'
  <2> SUFFICES ASSUME server \in Working, req # 0
               PROVE  /\ req \in 1 .. Len(asked')
                      /\ asked'[req] = ws
                      /\ \A j \in 1 .. Len(inbox'[ws]) : req < inbox'[ws][j]
                      /\ \A i \in 1 .. Len(frames[ws]) :
                            IsAnswer(frames[ws][i]) => frames[ws][i][2] < req
    BY <1>1 DEF WorksInOrder
  <2> QED BY <1>2, <1>4, <1>5 DEF WorksInOrder
<1>9. WritesHere'
  BY <1>1 DEF WritesHere
<1> QED BY <1>6, <1>7, <1>8, <1>9

LEMMA ReadLine ==
    ASSUME TypeInv, LineInv, Read
    PROVE  LineInv'
<1> USE DEF TypeInv, LineInv
<1>1. /\ UNCHANGED <<ws, frames, asked, target>> /\ server' \in {"call", "answer"}
      /\ ws \in Conns
  BY DEF Read, writing, PeerTypeOK
<1>2. \A c \in Conns : Len(inbox[c]) \in Nat
  BY DEF PeerTypeOK
<1>3. /\ 1 \in 1 .. Len(inbox[ws]) /\ req' \in {0, inbox[ws][1]}
      /\ \A c \in Conns \ {ws} : inbox'[c] = inbox[c]
      /\ \A i \in 1 .. Len(inbox'[ws]) : /\ i + 1 \in 1 .. Len(inbox[ws])
                                         /\ inbox'[ws][i] = inbox[ws][i + 1]
  BY ReadFacts
<1>4. inbox' \in [Conns -> Seq(Requests)]
  BY ReadFacts
<1>5. Len(inbox'[ws]) \in Nat
  BY <1>1, <1>4
<1>6. InboxInOrder'
  <2> SUFFICES ASSUME NEW c \in Conns, NEW i \in 1 .. Len(inbox'[c])
               PROVE  /\ inbox'[c][i] \in 1 .. Len(asked)
                      /\ asked[inbox'[c][i]] = c
                      /\ \A j \in 1 .. i - 1 : inbox'[c][j] < inbox'[c][i]
    BY <1>1 DEF InboxInOrder
  <2>1. CASE c # ws
    BY <1>3, <2>1 DEF InboxInOrder
  <2>2. CASE c = ws
    <3>1. \A j \in 1 .. i - 1 : /\ j \in 1 .. Len(inbox'[ws])
                                /\ j + 1 \in 1 .. (i + 1) - 1
      BY <1>5, <2>2
    <3>2. inbox'[c][i] = inbox[ws][i + 1] /\ i + 1 \in 1 .. Len(inbox[ws])
      BY <1>3, <2>2
    <3>3. \A j \in 1 .. i - 1 : inbox'[c][j] = inbox[ws][j + 1]
      BY <1>3, <2>2, <3>1
    <3>4. \A j \in 1 .. (i + 1) - 1 : inbox[ws][j] < inbox[ws][i + 1]
      BY <1>1, <3>2 DEF InboxInOrder
    <3> QED BY <1>1, <2>2, <3>1, <3>2, <3>3, <3>4 DEF InboxInOrder
  <2> QED BY <2>1, <2>2
<1>7. AnsweredInOrder'
  <2> SUFFICES ASSUME NEW c \in Conns, NEW i \in 1 .. Len(frames[c]), IsAnswer(frames[c][i]),
                      NEW j \in 1 .. Len(inbox'[c])
               PROVE  frames[c][i][2] < inbox'[c][j]
    BY <1>1 DEF AnsweredInOrder
  <2>1. CASE c # ws
    BY <1>3, <2>1 DEF AnsweredInOrder
  <2>2. CASE c = ws
    BY <1>3, <2>2 DEF AnsweredInOrder
  <2> QED BY <2>1, <2>2
<1>8. WorksInOrder'
  <2> SUFFICES ASSUME req' = inbox[ws][1]
               PROVE  /\ req' \in 1 .. Len(asked)
                      /\ asked[req'] = ws
                      /\ \A j \in 1 .. Len(inbox'[ws]) : req' < inbox'[ws][j]
                      /\ \A i \in 1 .. Len(frames[ws]) :
                            IsAnswer(frames[ws][i]) => frames[ws][i][2] < req'
    BY <1>1, <1>3 DEF WorksInOrder
  <2>1. \A j \in 1 .. Len(inbox'[ws]) : 1 \in 1 .. (j + 1) - 1
    BY <1>5
  <2>2. \A j \in 1 .. Len(inbox'[ws]) : inbox[ws][1] < inbox[ws][j + 1]
    BY <1>1, <1>3, <2>1 DEF InboxInOrder
  <2> QED BY <1>1, <1>3, <2>2 DEF InboxInOrder, AnsweredInOrder
<1>9. WritesHere'
  BY <1>1 DEF WritesHere
<1> QED BY <1>6, <1>7, <1>8, <1>9

LEMMA WriteAnswerLine ==
    ASSUME TypeInv, LineInv, WriteAnswer
    PROVE  LineInv'
<1> USE DEF TypeInv, LineInv
<1>1. /\ UNCHANGED <<ws, inbox, asked, target>> /\ server' \notin Working
      /\ server = "write" /\ target = ws /\ ws \in Conns
  BY DEF WriteAnswer, Working, WritesHere, PeerTypeOK
<1>2. /\ Answer(req) \in Frames
      /\ IsAnswer(Answer(req)) => req \in Requests /\ Answer(req)[2] = req
  BY AnswerFacts
<1>3. \A c \in Conns : \A i \in 1 .. Len(frames'[c]) :
         \/ i \in 1 .. Len(frames[c]) /\ frames'[c][i] = frames[c][i]
         \/ c = ws /\ i = Len(frames[c]) + 1 /\ frames'[c][i] = Answer(req)
  BY <1>1, <1>2, WriteFacts DEF WriteAnswer
<1>4. \A c \in Conns : Len(frames[c]) \in Nat
  BY DEF PeerTypeOK
<1>5. \A c \in Conns : Len(frames'[c]) \in Nat
  <2>1. frames' \in [Conns -> Seq(Frames)]
    BY <1>2, WriteFacts DEF WriteAnswer
  <2> QED BY <2>1
<1>6. AnsweredInOrder'
  <2> SUFFICES ASSUME NEW c \in Conns, NEW i \in 1 .. Len(frames'[c]), IsAnswer(frames'[c][i])
               PROVE  /\ frames'[c][i][2] \in 1 .. Len(asked)
                      /\ asked[frames'[c][i][2]] = c
                      /\ \A j \in 1 .. i - 1 :
                            IsAnswer(frames'[c][j]) => frames'[c][j][2] < frames'[c][i][2]
                      /\ \A j \in 1 .. Len(inbox[c]) : frames'[c][i][2] < inbox[c][j]
    BY <1>1 DEF AnsweredInOrder
  <2>1. i <= Len(frames[c]) + 1
    BY <1>3, <1>4
  <2>2. \A j \in 1 .. i - 1 : j \in 1 .. Len(frames'[c]) /\ j # Len(frames[c]) + 1
    BY <1>4, <1>5, <2>1
  <2>3. \A j \in 1 .. i - 1 : j \in 1 .. Len(frames[c]) /\ frames'[c][j] = frames[c][j]
    BY <1>3, <2>2
  <2>4. CASE i \in 1 .. Len(frames[c]) /\ frames'[c][i] = frames[c][i]
    BY <2>3, <2>4 DEF AnsweredInOrder
  <2>5. CASE c = ws /\ i = Len(frames[c]) + 1 /\ frames'[c][i] = Answer(req)
    <3>1. req # 0 /\ frames'[c][i][2] = req
      BY <1>2, <2>5 DEF Requests
    <3> QED BY <1>1, <2>3, <2>5, <3>1 DEF WorksInOrder, Working
  <2> QED BY <1>3, <2>4, <2>5
<1>7. InboxInOrder'
  BY <1>1 DEF InboxInOrder
<1>8. WorksInOrder' /\ WritesHere'
  BY <1>1 DEF WorksInOrder, WritesHere, Working
<1> QED BY <1>6, <1>7, <1>8

LEMMA WriteNoteLine ==
    ASSUME TypeInv, LineInv, NEW s \in Subs, WriteNote(s)
    PROVE  LineInv'
<1> USE DEF TypeInv, LineInv
<1>1. UNCHANGED <<ws, inbox, asked, target, server, req>> /\ ws \in Conns
  BY DEF WriteNote, serving, PeerTypeOK
<1>2. <<"note", s, noted[s]>> \in Frames /\ ~IsAnswer(<<"note", s, noted[s]>>)
  BY NoteFacts, FrameFacts DEF WriteNote
<1>3. \A c \in Conns : \A i \in 1 .. Len(frames'[c]) : IsAnswer(frames'[c][i]) =>
         i \in 1 .. Len(frames[c]) /\ frames'[c][i] = frames[c][i]
  BY <1>2, WriteFacts DEF WriteNote
<1>4. \A c \in Conns : \A i \in 1 .. Len(frames'[c]) :
         \A j \in 1 .. i - 1 : j \in 1 .. Len(frames'[c])
  <2>1. frames' \in [Conns -> Seq(Frames)]
    BY <1>2, WriteFacts DEF WriteNote
  <2> QED BY <2>1
<1>5. AnsweredInOrder'
  <2> SUFFICES ASSUME NEW c \in Conns, NEW i \in 1 .. Len(frames'[c]), IsAnswer(frames'[c][i])
               PROVE  /\ frames'[c][i][2] \in 1 .. Len(asked)
                      /\ asked[frames'[c][i][2]] = c
                      /\ \A j \in 1 .. i - 1 :
                            IsAnswer(frames'[c][j]) => frames'[c][j][2] < frames'[c][i][2]
                      /\ \A j \in 1 .. Len(inbox[c]) : frames'[c][i][2] < inbox[c][j]
    BY <1>1 DEF AnsweredInOrder
  <2>1. i \in 1 .. Len(frames[c]) /\ frames'[c][i] = frames[c][i]
    BY <1>3
  <2>2. \A j \in 1 .. i - 1 : IsAnswer(frames'[c][j]) => frames'[c][j] = frames[c][j]
    BY <1>3, <1>4
  <2> QED BY <2>1, <2>2 DEF AnsweredInOrder
<1>6. InboxInOrder' /\ WritesHere'
  BY <1>1 DEF InboxInOrder, WritesHere
<1>7. WorksInOrder'
  BY <1>1, <1>3 DEF WorksInOrder
<1> QED BY <1>5, <1>6, <1>7

LEMMA LineStep ==
    ASSUME TypeInv, LineInv, [PeerNext]_peerVars
    PROVE  LineInv'
<1> USE DEF LineInv
<1>1. CASE Still
  BY <1>1 DEF Still, Working, InboxInOrder, AnsweredInOrder, WorksInOrder, WritesHere
<1>2. CASE NextWriter
  BY <1>2 DEF NextWriter, Take, transport, Working, InboxInOrder, AnsweredInOrder,
     WorksInOrder, WritesHere
<1>3. CASE Reconnect
  BY <1>3 DEF Reconnect, Working, InboxInOrder, AnsweredInOrder, WorksInOrder, WritesHere
<1>4. ASSUME NEW s \in Subs, Begin(s)
      PROVE  LineInv'
  BY <1>4 DEF Begin, transport, serving, writing, InboxInOrder, AnsweredInOrder,
     WorksInOrder, WritesHere
<1>5. ASSUME NEW s \in Subs, SendWriter(s)
      PROVE  LineInv'
  <2>1. server # "write"
    BY <1>5, PeerRequests DEF SendWriter, Take, TypeInv, PeerTypeOK
  <2> QED BY <1>5, <2>1 DEF SendWriter, transport, serving, InboxInOrder, AnsweredInOrder,
          WorksInOrder, WritesHere
<1> QED BY <1>1, <1>2, <1>3, <1>4, <1>5, AskLine, ReadLine, WriteAnswerLine,
        WriteNoteLine, StepCases DEF TypeInv

(* An answer goes to the connection that asked, at most once, in the order *)
(* of the requests, for any number of requests and lost connections.       *)
THEOREM AnswersReturn == PeerSpec => []AnswersGoBack
<1>1. PeerInit => LineInv
  BY DEF PeerInit, LineInv, InboxInOrder, AnsweredInOrder, WorksInOrder, WritesHere, Working
<1>2. TypeInv /\ LineInv => AnswersGoBack
  <2> SUFFICES ASSUME TypeInv, LineInv
               PROVE  AnswersGoBack
    OBVIOUS
  <2>1. \A c \in Conns : DOMAIN frames[c] = 1 .. Len(frames[c])
    BY DEF TypeInv, PeerTypeOK
  <2> QED BY <2>1 DEF LineInv, AnsweredInOrder, AnswersGoBack
<1> QED BY <1>1, <1>2, LineStep, TypeAlways, PTL DEF PeerSpec

-----------------------------------------------------------------------------
(* Notifications                                                           *)

NotesAreNoted ==
    \A c \in Conns : \A i \in 1 .. Len(frames[c]) : \A s \in Subs :
        NoteAt(c, i) /\ frames[c][i][2] = s =>
            /\ frames[c][i][3] \in 1 .. noted[s]
            /\ sender[s] # "idle" => frames[c][i][3] # noted[s]

FramesBehind ==
    /\ target <= ws
    /\ \A c \in Conns : Len(frames[c]) # 0 => c <= target

NotesAscend ==
    \A c, d \in Conns : \A i \in 1 .. Len(frames[c]), j \in 1 .. Len(frames[d]) :
        NoteAt(c, i) /\ NoteAt(d, j) /\ Before(c, i, d, j)
          /\ frames[c][i][2] = frames[d][j][2]
        => frames[c][i][3] < frames[d][j][3]

NoteInv == NotesAreNoted /\ FramesBehind /\ NotesAscend

(* Only a subscription's own notification touches what is said of notes.   *)
LEMMA FrameNotes ==
    ASSUME TypeInv, NoteInv, NEW f \in Frames, WriteVal(f),
           f[1] # "note", UNCHANGED <<ws, target, noted, sender>>
    PROVE  NoteInv'
<1> USE DEF TypeInv, NoteInv
<1>1. \A c \in Conns : \A i \in 1 .. Len(frames'[c]) :
         \/ i \in 1 .. Len(frames[c]) /\ frames'[c][i] = frames[c][i]
         \/ c = target /\ frames'[c][i] = f
  BY WriteFacts
<1>2. \A c \in Conns : \A i \in 1 .. Len(frames'[c]) : frames'[c][i][1] = "note" =>
         i \in 1 .. Len(frames[c]) /\ frames'[c][i] = frames[c][i]
  BY <1>1
<1>3. NotesAreNoted'
  BY <1>2 DEF NotesAreNoted, NoteAt
<1>4. NotesAscend'
  <2> SUFFICES ASSUME NEW c \in Conns, NEW d \in Conns,
                      NEW i \in 1 .. Len(frames'[c]), NEW j \in 1 .. Len(frames'[d]),
                      NoteAt(c, i)', NoteAt(d, j)', Before(c, i, d, j),
                      frames'[c][i][2] = frames'[d][j][2]
               PROVE  frames'[c][i][3] < frames'[d][j][3]
    BY DEF NotesAscend, Before
  <2>1. i \in 1 .. Len(frames[c]) /\ frames'[c][i] = frames[c][i]
    BY <1>2 DEF NoteAt
  <2>2. j \in 1 .. Len(frames[d]) /\ frames'[d][j] = frames[d][j]
    BY <1>2 DEF NoteAt
  <2> QED BY <2>1, <2>2 DEF NotesAscend, NoteAt
<1>5. FramesBehind'
  <2>1. frames' \in [Conns -> Seq(Frames)]
    BY WriteFacts
  <2>2. \A c \in Conns : Len(frames'[c]) # 0 => 1 \in 1 .. Len(frames'[c])
    BY <2>1
  <2>3. \A c \in Conns \ {target} : Len(frames'[c]) # 0 => Len(frames[c]) # 0
    BY <1>1, <2>2
  <2>4. target \in Nat
    BY DEF PeerTypeOK, Conns
  <2> QED BY <2>3, <2>4 DEF FramesBehind
<1> QED BY <1>3, <1>4, <1>5

LEMMA NoteNotes ==
    ASSUME TypeInv, NoteInv, NEW s \in Subs, WriteNote(s)
    PROVE  NoteInv'
<1> USE DEF TypeInv, NoteInv
<1> DEFINE f == <<"note", s, noted[s]>>
<1>1. /\ f \in Frames /\ noted[s] \in Notes
      /\ f[2] = s /\ f[3] = noted[s]
  BY NoteFacts, FrameFacts DEF WriteNote
<1>2. /\ UNCHANGED <<ws, target, noted>> /\ sender[s] = "write"
      /\ sender' = [sender EXCEPT ![s] = "idle"]
      /\ WriteVal(f)
  BY DEF WriteNote, Goes
<1> HIDE DEF f
<1>3. frames' \in [Conns -> Seq(Frames)]
  BY <1>1, <1>2, WriteFacts
<1>4. \A c \in Conns : \A i \in 1 .. Len(frames'[c]) :
         \/ i \in 1 .. Len(frames[c]) /\ frames'[c][i] = frames[c][i]
         \/ c = target /\ i = Len(frames[c]) + 1 /\ frames'[c][i] = f
  BY <1>1, <1>2, WriteFacts
<1>5. \A x \in Subs : /\ sender'[x] # "idle" => sender[x] # "idle"
                      /\ x = s => sender'[x] = "idle"
                      /\ noted[x] \in Nat
  BY <1>2 DEF PeerTypeOK
<1>6. target \in Conns /\ target \in Nat /\ \A c \in Conns : c \in Nat /\ Len(frames[c]) \in Nat
  BY DEF PeerTypeOK, Conns
<1>7. FramesBehind'
  <2>1. \A c \in Conns : Len(frames'[c]) # 0 => 1 \in 1 .. Len(frames'[c])
    BY <1>3
  <2>2. \A c \in Conns \ {target} : Len(frames'[c]) # 0 => Len(frames[c]) # 0
    BY <1>4, <2>1
  <2> QED BY <1>2, <1>6, <2>2 DEF FramesBehind
<1>8. NotesAreNoted'
  <2> SUFFICES ASSUME NEW c \in Conns, NEW i \in 1 .. Len(frames'[c]), NEW x \in Subs,
                      frames'[c][i][1] = "note", frames'[c][i][2] = x
               PROVE  /\ frames'[c][i][3] \in 1 .. noted[x]
                      /\ sender'[x] # "idle" => frames'[c][i][3] # noted[x]
    BY <1>2 DEF NotesAreNoted, NoteAt
  <2>1. CASE i \in 1 .. Len(frames[c]) /\ frames'[c][i] = frames[c][i]
    BY <1>5, <2>1 DEF NotesAreNoted, NoteAt
  <2>2. CASE frames'[c][i] = f
    <3>1. x = s /\ frames'[c][i][3] = noted[s] /\ noted[s] \in 1 .. noted[s]
      BY <1>1, <2>2 DEF Notes
    <3> QED BY <1>5, <3>1
  <2> QED BY <1>4, <2>1, <2>2
<1>9. NotesAscend'
  <2> SUFFICES ASSUME NEW c \in Conns, NEW d \in Conns,
                      NEW i \in 1 .. Len(frames'[c]), NEW j \in 1 .. Len(frames'[d]),
                      frames'[c][i][1] = "note", frames'[d][j][1] = "note",
                      c < d \/ (c = d /\ i < j), frames'[c][i][2] = frames'[d][j][2]
               PROVE  frames'[c][i][3] < frames'[d][j][3]
    BY DEF NotesAscend, NoteAt, Before
  <2>1. i \in 1 .. Len(frames[c]) /\ frames'[c][i] = frames[c][i]
    <3> SUFFICES ASSUME c = target, i = Len(frames[c]) + 1
                 PROVE  FALSE
      BY <1>4
    <3>1. CASE c < d
      <4>1. d # target /\ j \in 1 .. Len(frames[d])
        BY <1>4, <1>6, <3>1
      <4>2. Len(frames[d]) # 0
        BY <1>6, <4>1
      <4> QED BY <1>6, <3>1, <4>2 DEF FramesBehind
    <3>2. CASE c = d /\ i < j
      BY <1>4, <1>6, <3>2
    <3> QED BY <3>1, <3>2
  <2>2. CASE j \in 1 .. Len(frames[d]) /\ frames'[d][j] = frames[d][j]
    BY <2>1, <2>2 DEF NotesAscend, NoteAt, Before
  <2>3. CASE frames'[d][j] = f
    <3>1. frames[c][i][2] = s /\ frames'[d][j][3] = noted[s]
      BY <1>1, <2>1, <2>3
    <3>2. frames[c][i][3] \in 1 .. noted[s] /\ frames[c][i][3] # noted[s]
      BY <1>2, <2>1, <3>1 DEF NotesAreNoted, NoteAt
    <3>3. noted[s] \in Nat
      BY <1>5
    <3> QED BY <2>1, <3>1, <3>2, <3>3
  <2> QED BY <1>4, <2>2, <2>3
<1> QED BY <1>7, <1>8, <1>9

LEMMA NoteStep ==
    ASSUME TypeInv, NoteInv, [PeerNext]_peerVars
    PROVE  NoteInv'
<1> USE DEF NoteInv
<1>0. target \in Nat /\ ws \in Nat /\ \A c \in Conns : c \in Nat
  BY DEF TypeInv, PeerTypeOK, Conns
<1>1. CASE Still
  BY <1>1 DEF Still, NotesAreNoted, FramesBehind, NotesAscend, NoteAt, Before
<1>2. CASE Ask \/ Read
  <2>1. UNCHANGED <<ws, frames, target, noted, sender>>
    BY <1>2 DEF Ask, Read, writing, sending
  <2> QED BY <2>1 DEF NotesAreNoted, FramesBehind, NotesAscend, NoteAt, Before
<1>3. CASE NextWriter \/ Reconnect
  <2>1. /\ UNCHANGED <<frames, noted, sender>>
        /\ (target' = ws /\ ws' = ws) \/ (target' = target /\ ws' = ws + 1)
    BY <1>3 DEF NextWriter, Take, Reconnect, transport, writing, sending
  <2>2. FramesBehind'
    BY <1>0, <2>1 DEF FramesBehind
  <2> QED BY <2>1, <2>2 DEF NotesAreNoted, NotesAscend, NoteAt, Before
<1>4. CASE WriteAnswer
  BY <1>4, FrameNotes, AnswerFacts DEF WriteAnswer, sending, TypeInv
<1>5. ASSUME NEW s \in Subs, Begin(s)
      PROVE  NoteInv'
  <2>1. /\ UNCHANGED <<ws, frames, target>>
        /\ noted' = [noted EXCEPT ![s] = noted[s] + 1]
        /\ sender' = [sender EXCEPT ![s] = "send"]
    BY <1>5 DEF Begin, Goes, transport, writing
  <2>2. \A x \in Subs : /\ noted[x] \in Nat
                        /\ noted'[x] = IF x = s THEN noted[x] + 1 ELSE noted[x]
                        /\ x # s => sender'[x] = sender[x]
    BY <2>1 DEF TypeInv, PeerTypeOK
  <2>3. NotesAreNoted'
    <3> SUFFICES ASSUME NEW c \in Conns, NEW i \in 1 .. Len(frames[c]), NEW x \in Subs,
                        frames[c][i][1] = "note", frames[c][i][2] = x
                 PROVE  /\ frames[c][i][3] \in 1 .. noted'[x]
                        /\ sender'[x] # "idle" => frames[c][i][3] # noted'[x]
      BY <2>1 DEF NotesAreNoted, NoteAt
    <3>1. /\ frames[c][i][3] \in 1 .. noted[x]
          /\ sender[x] # "idle" => frames[c][i][3] # noted[x]
      BY DEF NotesAreNoted, NoteAt
    <3> QED BY <2>2, <3>1
  <2> QED BY <2>1, <2>3 DEF FramesBehind, NotesAscend, NoteAt, Before
<1>6. ASSUME NEW s \in Subs, SendWriter(s)
      PROVE  NoteInv'
  <2>1. /\ UNCHANGED <<ws, frames, noted>> /\ target' = ws /\ sender[s] = "send"
        /\ sender' = [sender EXCEPT ![s] = "write"]
    BY <1>6 DEF SendWriter, Take, Goes, transport
  <2>2. \A x \in Subs : sender'[x] # "idle" => sender[x] # "idle"
    BY <2>1 DEF TypeInv, PeerTypeOK
  <2>3. FramesBehind'
    BY <1>0, <2>1 DEF FramesBehind
  <2>4. NotesAreNoted'
    BY <2>1, <2>2 DEF NotesAreNoted, NoteAt
  <2> QED BY <2>1, <2>3, <2>4 DEF NotesAscend, NoteAt, Before
<1> QED BY <1>1, <1>2, <1>3, <1>4, <1>5, <1>6, NoteNotes, StepCases DEF TypeInv

(* Over all connections each notification is accepted at most once, and in *)
(* the order of its subscription, whatever its writer could find out.      *)
THEOREM NotesStayInOrder == PeerSpec => []NotesOnceInOrder
<1>1. PeerInit => NoteInv
  BY DEF PeerInit, NoteInv, NotesAreNoted, FramesBehind, NotesAscend
<1>2. TypeInv /\ NoteInv => NotesOnceInOrder
  <2> SUFFICES ASSUME TypeInv, NoteInv
               PROVE  NotesOnceInOrder
    OBVIOUS
  <2>1. \A c \in Conns : DOMAIN frames[c] = 1 .. Len(frames[c])
    BY DEF TypeInv, PeerTypeOK
  <2> QED BY <2>1 DEF NoteInv, NotesAscend, NotesOnceInOrder
<1> QED BY <1>1, <1>2, NoteStep, TypeAlways, PTL DEF PeerSpec
=============================================================================
